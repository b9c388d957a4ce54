# TLA+ models of optiqor

This directory is a verification development of the repository: TLA+ modules
for its stateful parts and its decision logic, TLC runs over small instances,
and theorems that TLAPS proves for every value of the constants.
`PROJECT.json` lists the components, the runs, the code each definition stands
for, the hazards and the theorems.

    tlc -workers 2 -config MCCli.cfg MCCli      # one run; the others alike
    tlapm CliProofs.tla                         # one proof module

## 1. The system

Two products live in one repository.

**The CLI** (`cmd/optiqor`, `internal`, `pkg`) reads a Helm values file, runs
some thirty detectors over it, prints a report, a score or the difference of
two charts, may upload a sanitised report, and ends with an exit code that CI
pipelines gate on.

**The backend** (`backend`) is three binaries. An *agent* in the customer's
cluster reads informer caches and Prometheus and posts a signed snapshot every
interval. The *api* ingests snapshots, serves the dashboard, the sandbox,
onboarding and receipts, and takes GitHub's webhooks. The *worker* runs
workflows: apply a fix, issue a receipt, watch for a rollback, nudge a tenant.

| Component | State it keeps | Operations | Interacts with | What is hard |
|---|---|---|---|---|
| values parser, detectors | none | ParseValues, Run | everything in the CLI, the sandbox | thresholds, undeclared against zero, rounding |
| filter, score, grade, diff | none | Filter, Compute, GradeFor, Diff | CLI commands | ties, truncation, duplicate names |
| CLI command | loaded configuration, report, files written | PreRun … Exit | parser, detectors, share endpoint | order of effects and refusals, writes that fail |
| dispatcher | registry, `draining`, wait group | Register, Submit, Drain | every workflow | a window without the lock between check and `wg.Add` |
| apply-fix workflow and gate | one run's progress | Execute; sanitise, render, conform, dry run, post | operator detector, sizing, composer, validators, publisher | order of gates, stale tenant flag, a diff of one text applied to another |
| onboarding | one record per tenant, a shared map inside it | Get, Transition, nudge | dashboard, nudge workflow | read–change–write without a lock |
| rate limiter | a bucket per client, time of the last sweep | Allow, Quota | sandbox middleware | two critical sections per request, exact boundaries |
| Prometheus cache | entries, calls in flight | Query, QueryRange | agent's scraper | single flight, eviction, expiry |
| agent observation | informer caches, token file, index of pods, snapshot being built | boot, tick, list, query, merge, post | Kubernetes, Prometheus, the cache above | caches that lag on their own, rotating credentials, one of three queries failing |
| agent telemetry | batch, class found at boot; rows `agents`, `clusters` | tick, post, persist, pill | agent → api → dashboard | clocks, loss, delay, reordering, restarts |
| api server | configuration, share store, sessions handed out, ingest sinks | boot, stop, one action per route | agents, browsers, GitHub, Postgres | restarts that lose memory, overlapping writes, half-stored batches, an acknowledgement that ends delivery |
| post-merge | rows `apply_fixes`, receipts | webhook, watchdog poll, issue, page | GitHub → api, worker | redelivery, overlap, half-done work, moving installations |

Not concurrent in itself but full of boundaries: the CLI. Concurrent and
unreliable: everything else in the table. The other packages (HTTP plumbing,
layout, stubs that answer `ErrNotImplemented`, adapters of third-party clients)
are listed in `PROJECT.json` with the reason they are left out.

What makes each part correct:

- *CLI*: the gate's exit code says what the detectors found; nothing is
  uploaded unasked; advice that is followed saves what it says and is not
  taken back by another detector; a difference is the negative of its reverse and adds up.
- *dispatcher*: the counter is exact; Drain outlives what it found; no
  admission after the flag; Drain ends.
- *apply-fix*: what is published passed every gate that applies to it; the gate
  judged the edit that the model meant; no money is spent on what a cheaper
  check refuses; an operator's workload is recognised.
- *onboarding*: the stage a tenant was told is recorded is not lost; arrival
  times are kept and ordered; nudges are honest.
- *rate limiter*: it is a fixed-window limiter; memory stays bounded.
- *cache*: one round trip per key, answers fresh, bounded, nobody waits for ever.
- *observation*: every sample is counted once and for a workload that exists; a
  metric that is missing can be told from an idle workload; credentials are
  fresh.
- *api*: a share lives as long as its caller was told and shows what it was
  told; sessions end when they were said to; what is stored was acknowledged; a
  delivery GitHub may forget was dealt with; a cluster shows a red preflight
  check when it misses a hard requirement, and none when it is fit.
- *telemetry*: green means heard; only news improves the picture; the stored
  class was really found.
- *post-merge*: merged once, after the comment, for the right tenant; rollbacks
  only in the window; what is shown is what was signed.

## 2. Modules

| Module | Models | Notes |
|---|---|---|
| `Dispatcher` | `worker/dispatcher.go` | Submit in three steps (check under the lock, `wg.Add`, return), Drain and the goroutine it starts; the panic of a reused WaitGroup is a state |
| `PromCache` | `agent/prom/cache.go` | acquire / round trip / release / Done, one step per critical section |
| `RateLimit` | `platform/ratelimit/*` | Allow with the lazy sweep, Quota, middleware; refines `FixedWindow` |
| `FixedWindow` | — | the abstract promise: at most `Limit` admissions from a window's first one until it closes |
| `Strategy`, `Operators`, `Validators` | `cost/strategy`, `operators`, `validator` | pure: sizing, owner walk, checks against cluster signals (the verdicts form a set) |
| `Gate` | `agent/llm/sanitizer`, `applyfix/gate/{render,conform,post}.go` | pure: a chart is a sequence of lines; what the model is shown, where the hunks of its answer land, what the stages say of the result |
| `ApplyFix` | `worker/workflows/apply_fix.go`, `applyfix/gate/{pipeline,policy,dryrun}.go`, `agent/agent.go` | one run of Execute; composes the four above |
| `Onboarding` | `onboarding/*`, nudge workflow | records point into a heap of maps because Go copies the struct and shares the map; a racing map write may end the process (`FatalRace`) |
| `AgentTelemetry` | `cmd/agent`, `agent/{egress,ident,provisioner}`, `ingestion/agent_snapshot*`, `dashboard/agent_pg.go` | times are ages seen from the api's clock |
| `ClusterReaders` | `agent/cluster/{workloads,snapshot,karpenter}.go` | pure: what a reader makes of the objects in the informers' caches |
| `PromClient` | `agent/prom/{prom,auth}.go` | pure: one instant query with its retry, the classification of answers, the token file's cache |
| `Observe` | `cmd/agent`, `agent/prom/{scraper,canonical,observer}.go`, `agent/cluster/agent.go` | the agent's loop from flags to snapshot; composes the two above; the cluster, the informers and the kubelet are actions of the environment |
| `Access` | `platform/config`, `agent/mtls`, `auth`, the tenant extractors of `cmd/api` | pure: who a caller is; half seconds, because expiries are truncated |
| `Sandbox` | `sandbox/*`, the estimator's refusals | pure: an upload's answer, and both stores of shared analyses |
| `Preflight` | `onboarding/preflight` | pure: seven probes under one deadline |
| `Handlers` | `ingestion`, `dashboard/handler.go`, `billing/spike_handler.go`, `prwriter/handler.go`, `httperr` | pure: the order of a handler's refusals and what it had stored by then |
| `Api` | `cmd/api` | processes that boot, serve and stop; composes the four above |
| `PostMerge` | `applyfix/attribution`, `rollback`, `receipts`, their workflows and the webhook | a call may fail before it acts, or act and then fail; a watchdog poll reads its payload only, and whoever submits it (`Enroll`) is external |
| `Chart` | `pkg/parser` | tokens of a values document to workloads, kept by their place in the document |
| `Rules` | `pkg/rules` | every detector: condition, severity, saving, advice |
| `Analyze` | `internal/analyze` | filter, score, grade, difference |
| `Cli` | `cmd/optiqor`, `internal/{config,roast,share}` | one invocation; composes `Chart`, `Rules`, `Analyze` |
| `MC*` | — | constants for TLC |
| `*Proofs` | — | theorems, one module per component; `DispatcherProofs` also has those of `Onboarding`, `CliProofs` those of `Observe`, `ApplyFixProofs` those of `Operators` |

Definitions named after a mutation (“Mutant: …” in the comment above them) are
deliberately wrong variants of the definition that follows. They are used only
to show that each property notices a plausible bug in the code it is about.

Abstractions. CPU is in millicores and memory in whole MiB, as tokens `milli`,
`cores`, `Mi`, `Gi`, `Ti`, negative and unreadable ones included. Findings form a set
with the position of their workload; order, wording and layout are left out.
Image tags keep the classes the detectors tell apart, and whether the registry
has a port (which the code takes for a tag). Signatures are records of what was
signed with which key. PromQL strings, tenants, keys and callers are model
values. A Kubernetes version is its two numbers and the digits of what follows
the minor. A template comment of the sanitiser ends on its own line; one over
several lines moves those after it, and is left out. An upstream answer is the request it answers and its expiry. YAML
decoding, the HTTP transport, `sync`, `sort.Search` and Postgres are external,
modelled from how the code uses them.

## 3. Runs

| Run | Instance | Shows |
|---|---|---|
| `dispatcher` | 2 callers, 2 drainers, 1 name, both queue classes and a wrong one | the counter (`WgCountsInFlight`), what a nil Drain means (`DrainWaitsForJoined`), the only hole (`OnlyLateAddsEscape`), termination (`DrainTerminates`) |
| `dispatcher_quiescent` | the same | **violation**: a workflow starts after Drain returned nil |
| `promcache` | 3 callers, one instant and one range query, TTLs 2 and 1, 2 entries, clock 0..3 | `SingleFlight`, `Bounded`, `FreshAnswer`, `NoOrphans` |
| `applyfix` | ~2600 payloads (every list of two owners, every environment, the cluster signals, 16 charts with and without comments, long values and injection markers), every edit of one line and many of two, first hunks that add a line included, two wirings, four owner references | what may be sent (`OnlyVetted`, `SkepticRespected`), spending (`NoSpendOnRefused`), that the gate judges the edit that was meant (`JudgedAsMeant`); the owner walk over every index of those references (`WalkDecides`) |
| `onboarding` | 2 requests at once, 3 targets (one unknown), 3 nudges, 2 instants | `RecordInOrder`, `AckedKeptAlone`, `NudgeHonest` |
| `ratelimit` | 2 clients, 2 requests, limit 2, window 2, clock 0..5 | refinement of `FixedWindow` (`Implements`), `BurstBound` |
| `observe` | a Deployment with a ReplicaSet and two pods, a StatefulSet of the same name with one, an autoscaler, an event; a ReplicaSet and a pod that come and go; every authentication mode; each flag wrong once; every reply the client tells apart | no sample lost or counted twice (`Conserved`), no silent gap (`MissingLeavesTrace`), tokens (`WornOnlyAfterError`), rows settle on workloads that exist (`SettlesOnOwners`) |
| `api` | 2 tenants, 2 releases of the rules, 2 analyses in flight, uploads that share a hash, both share stores, 2 session secrets, 5 kinds of webhook delivery, every kind of ingest part, clusters that differ from a sound one in a respect, versions with and without a tag | `ShareKept`, `PageTold`, `SessionUntilTold`, `IngestAccounted`, `PreflightGate` |
| `webhook_lost` | deliveries only | **violation**: a merge whose attribution fails is never attributed |
| `telemetry` | 2 agents, clocks −2, 0, +2, intervals 1 and 3, 2 posts under way | `HealthyMeansHeard`, `OnlyNewsHeals`, `ClassFromProbe` |
| `postmerge` | 3 deliveries, 2 at once, 2 tenants with a row each, 2 keys, window 1, clock 0..2, polls for one of the rows (`Followed`) | `ToldWhenMerged`, `OwnTenantOnly`, `CommentedOnceAlone`, `RollbackInWindow` |
| `cli` | ~800 documents, every command, every pair of threshold and filter words, three places for a configuration, failing writes | `GateSound`, `LateRefusal`, `AdviceSettles`, `AdvicePays`, `DiffIsLedger` |

Properties are conjunctions of named parts where one promise has several sides:
`OnlyVetted` is `NoOperatorOwned`, `EnvironmentRespected`,
`ClusterLimitsRespected`, `GateCompleted` and `MergedIsSafe`; the comment above
each part says what it is about. The type invariants of the modules with proofs
are proved and not model-checked again, and so are `AdmissionClosed`,
`CachedXorInflight`, `CheckinNotAhead`, `OneClassPerBoot`, `MergedOnce`,
`EvictionBound` and `NoUploadUnasked`.

Why the bounds are enough to be interesting: two callers and two drainers are
the least that show reuse of the wait group; three callers of a two-entry cache
are the least that have a leader, a follower and an eviction at once; a clock
that passes window plus one tick twice shows every boundary of the limiter;
ages are capped one above the last threshold, beyond which the code no longer
tells them apart; three deliveries at two at a time give an overlap followed by
a redelivery. The payloads and documents vary one group of fields at a time
around a plain one, with values at, just below and just above each threshold.
Charts have up to six lines: two sections with the same lines are the least in
which a hunk has two places to go, and two hunks the least in which one shifts
the other. Two changes of cluster or token file are enough for a pod seen
before its ReplicaSet, for one left behind by it, and for a token rotated while
a reread fails. In `api` the callers of a behaviour keep to one group of routes
(`MCMixes`), with four requests, two processes and a clock that passes both
lifetimes: routes of different groups share nothing but the clock and the
process, and every group starts and stops that process.

Symmetry is used over interchangeable callers, requests, agents, keys and
clients, only in runs without liveness properties.

Deadlock checking is off for `dispatcher` (after Drain nothing more is
admitted), `cli` (a process ends), `observe` (an agent that refused its flags
has stopped) and `api` (the bound on requests and starts).

### Fairness

Weak fairness on the steps of a goroutine that is inside a call and can go on:
Go's scheduler runs every runnable goroutine. In `Dispatcher` each caller's
return and each step of Drain is fair (the workflow itself is taken to end),
new calls are not. In `Observe` the agent's loop is fair, and so are the watch
events and Kubernetes' garbage collector, without which no cache would ever
settle; changes of the cluster are not, and are bounded. In `Api` a process
that is down is started and GitHub delivers what it was not acknowledged; only
`webhook_lost` is about this, and it shows that the merge is lost all the same.
No strong fairness is assumed, and nothing is claimed to happen eventually in
the other network models: agents need not post, GitHub need not deliver.
`ApplyFix` has no liveness property: its steps form a straight line, and TLC
would spend its time evaluating ENABLED of the gate's stages.

## 4. Disagreements between code and text

Two have a run:

1. `worker/dispatcher.go:98` — Drain is documented to wait for in-flight Submit
   calls; one between its check and `wg.Add` is missed (`dispatcher_quiescent`).
2. `cmd/api/main.go:198` — the comment leaves failed webhook deliveries to a
   retry queue in the worker; there is none, and the merge is never attributed
   (`webhook_lost`).

Stated in a module, where the comment says that it does not hold:

- `PostMerge.ShownIsSigned`: the page shows a receipt whose key id is not the
  one in the signature (`worker/workflows/receipt_issue.go:55`).
- `Onboarding.AckedKept`: two overlapping requests rewind a stage that was
  acknowledged; “rewinds are rejected” holds one request at a time
  (`AckedKeptAlone`).
- `Observe.NeverPanics`: “Never panics”, but `time.NewTicker` does for an
  interval of zero, which the flag accepts.
- `Observe.ErrorLogged`: Scrape's error is dropped as soon as a row exists.

Met while modelling, without a definition of their own:

- `worker/workflows/apply_fix.go:171`: an empty environment is documented to be treated as production; the gate is skipped.
- `agent/prom/cache.go:170`: the bucket is the whole TTL; a TTL below one second divides by zero.
- `cost/strategy/strategy.go:57`: “full range” for dev, where a cap of 0 forbids every memory cut.
- `validator/validator.go`: validators after the first hard rejection still run.
- `cmd/worker/bindings.go:103`: the worker reads its own onboarding store, not the api's.
- `platform/ratelimit/ratelimit.go:97`: `Retry-After` is rounded down, so a client that obeys it may be refused again.
- `vcs/github.go`: `PostComment` answers `ErrNotImplemented`, so in today's wiring no row is ever marked merged.
- `docs/api.md` names 400 where onboarding answers 409.
- `internal/config`: `medium` passes validation (the test calls it an alias), filters nothing, and is refused by `--fail-on` after the report is printed (`LateRefusal` describes exactly this).
- `--severity` and `--detector` hide findings from `--fail-on`, whose help speaks of any finding.
- `pkg/rules/idle_workload.go:48` fires when replicas are not declared; the text says they are set to 0.
- `pkg/parser/helm.go:221` takes a registry port for a tag; a later `capabilities` mapping erases an earlier `add` list.
- Exit code 3 is documented and never returned.
- `confidence/classifier.go:60`: a sandbox finding with two signals keeps a high band; the comment caps it at medium.
- `sandbox/pg_store.go:79`: a repeated analysis only moves the expiry, so the share page keeps the first findings; the in-memory store replaces them (`PageTold` says which). Two analyses in flight can move an expiry back.
- `sandbox/store.go` says production is backed by Postgres; `cmd/api/routes.go` always wires the memory store. The comment on Share lets 404 cover expired links; they answer 410. The comment on Analyze promises 500 for a failing store; it is logged and answered 200.
- `ingestion/handler.go`: a body naming another cluster is documented as rejected; it overrides the caller's. The api wires no sinks, so a batch answered 200 is dropped. The spike webhook's dispatcher is a no-op that acknowledges.
- `cmd/api/main.go`: the panic recovery sits outside the logging and metrics it is documented to sit inside of; a request that panicked is neither logged nor counted. `healthz` is documented as a composite of dependent pings; only a constant check is wired.
- `onboarding/preflight`: “each check has a fixed budget”, but all share one deadline; the check for unsupported provisioners “fails closed”, but only warns when its probe fails. `versionAtLeast` “falls through to false on any parse weirdness”, but takes the digits of a tag into the minor: `1.27+abc123` is read as minor 27123 and passes. `PreflightGate` names the last two. A body sent in chunks is not decoded, and its Prometheus URL not probed.
- `worker/workflows/rollback_watchdog.go`: “a Closed state is terminal” (`rollback/watchdog.go:79`), but ActionClose is dropped and nothing keeps `Closed`; every poll that crosses a bound opens another rollback, and one that names its own time can do so after the window. No code of the repository submits a poll.
- `pkg/rules`: the overprovisioned and the tiny-request detectors fire together at 9m of 10m and at 30Mi of 32Mi, halve it and it is too small (`AdviceSettles` leaves out requests whose half is below a placeholder's size, and no others).
- `cmd/api/main.go:200`: an unknown installation is logged at info, also when it is one of ours whose row is missing.
- `operators/detector.go:93`: a kind is built in by its name whatever its API group, so an operator's own `Deployment` or `Job` counts as Kubernetes'.
- `platform/ratelimit/ratelimit.go:80`: a request without a client address passes by the limiter.
- `auth/handler.go`: whoami's fallback on the tenant header is unreachable; an invalid bearer token falls through to the cookie.
- `agent/prom/auth.go:233`: a failed reread of the token file starts a new interval in which the old token is served without an error.
- `agent/cluster`: ListWorkloads is documented as sorted and is not; DrainEvents keeps an arbitrary hundred, not the most recent; ListHPAs drops the target's kind; “one snapshot” of the policies reads three caches.
- `applyfix/gate/render.go`: hunks are located without the offset earlier hunks cause, so a repeated block, or one whose line number falls among the lines that an earlier hunk wrote, may be patched in the wrong place (`OnePlace` is the condition under which it is not), and an insert without context goes before the line it names. Labels are compared by name across all sections.

## 5. Proofs

Eight modules; between them they state every invariant and every action property
that the passing runs check. Every proof is checked by TLAPS
with Z3, Zenon and LS4. What a proof assumes of the constants is an ASSUME of
the component's module, which TLC evaluates in the component's run. Two proof
modules extend two components each, which share no names: `Onboarding` and
`Observe` call their specifications `OnboardingSpec` and `ObserveSpec`.

**`DispatcherProofs`** (assumes only finitely many callers). Inductive
invariant: types, the counter equals the number of executing callers
(`WgCountsInFlight`), which phases of Drain go together, callers found inside
the group hold back the drainer that found them, and whoever slips in was past
the check when the flag went up. Proved: `TypeCorrect`, `WgExact`,
`DrainOutlivesJoined`, `OnlyHole`, `NoAdmissionAfterDrain`. The second half is
about `Onboarding` (nudge reasons among the three of the code): who
holds which map of the heap (`OnbInv`), and what a lone request knows while no
two overlapped (`AloneInv`). Proved: `RecordInOrderHolds`,
`AckedKeptAloneHolds`, `NudgeHonestHolds`.

**`PromCacheProofs`** (positive TTLs, room for one entry). `SingleFlight`,
`CachedXorInflight`, `Bounded` and `NoOrphans` are inductive together with the
types: the bound needs that a key being stored is not cached yet, which needs
that its leader is the only one. Freshness (`AnswersFresh`) rests on `FreshInv`:
an entry sits under the key of the request it answers and expires within its
TTL, a leader holds what it fetched for its own request, and two instants of one
bucket are less than a TTL apart.

**`RateLimitProofs`** (limit and window positive). Invariant: types, keys of
requests, and the two clocks — no bucket expired before the last sweep, the
last sweep less than a window before the last request. Proved: types,
`EvictionKeepsUp`, `Refinement`, that `Memory` implements `FixedWindow` (each
Allow is an admission or a refusal of the abstract limiter, a sweep is a
stutter), and `BurstsBounded`. For the last the history of admissions is a
running total per key, so that a stretch of time is a difference of two totals
and no sum has to be unfolded; its invariant says that the admissions since the
open window began are the bucket's count, and that a stretch meets at most two
windows.

**`AgentTelemetryProofs`** (token life plus skew within the hour, thresholds
ordered). Invariant: a post's token was signed no earlier than its snapshot was
captured, the row's age and status are those of a snapshot that was heard,
classes under way were found by a probe, and posts of a live boot carry its
class. Proved: `TypeCorrect`, `NoFutureCheckin`, `PillIsHonest`, the action
property `SilenceOnlyWorsens`, `ClassWasFound`, `OneDetectionPerBoot`.

**`PostMergeProofs`** (a positive window). Invariant: what each webhook request
knows at each point, that merged rows were told, that no row
and no request dates the merge before GitHub does, and no poll after the row
does (`TimesOrdered`), and — as long as no two
requests overlapped and none failed after commenting — that a row with a
comment is merged or about to be. Proved: `TypeCorrect`, `MergedAfterTold`,
`TenantsApart`, `RedeliveryIsHarmless`, `RollbackIsTimely`, `MergedAtIsFinal`.

**`CliProofs`** (no chart is called “(redacted)”, a document is a finite
sequence of mappings, and “not declared” is no number). For every set of invocations: a command is silent before
its steps, the report between filter and exit is the filtered one, a share step
was asked for. For `GateIsSound`, `RefusalIsAboutTheWord` and `UploadIsAsked`
the detectors are never expanded: the key lemma, `FilterKeepsGate`, is about any
set of findings. `AdviceIsSettled` expands all of them: a request above half
of its limit is, once halved, above a quarter of it, where no detector of limits
asks for it back (`HalfSettles`); a smaller request within its limit brings no
finding of another kind (`EasedKeeps`), but for one below a placeholder's size. `DiffBalances` proves `DiffIsLedger`.
That a difference is its reverse's mirror image follows field by field from
rounding toward zero. That its lines add up needs sums over finite sets: the
lemmas `SumTake`, `SumGrows`, `SumMinus`, `SumOnly`, `SumConstant` and
`SumRenamed` say what `SumFunctionOnSet` of the community modules computes;
they rest on `BySubset`, induction over the subsets of a finite set stated for a
*set* of good subsets. The bill of a file is then a sum over names, names
without an entry contribute nothing, and each entry is within two cents of the
difference of its two costs.

`AdviceIsWorth` proves `AdvicePays`; its inductive invariant, `ScoreKept`, only
says that the report and the score on show are those of the chart. The bill: each
workload promises what halving its requests saves, to the cent where the memory
is even, and a sum over findings is one over workloads of the sums of each. The
score: all findings but those about the memory limit are the same with and
without one; declaring it takes a HIGH finding away and brings in at most two
MED and one LOW (`LimitTrades`: no limit is both too close to the request and too
far above it), so the sum of the penalties does not grow and the score does not
fall. The
run tries the limits next to each threshold, `LimitNeverHurts` has them all.

The last part of the module proves three invariants of `Observe` (finitely many
objects, `Val` in half units). `TokenIsFresh`:
without an error since, the token was read no longer ago than it was cached
(`TokenInv`), and a retry asks for it again. `MissingIsCounted`: every query of
a tick that failed, and every failure that the query cache remembers, stands in
the error counter (`TraceInv`). `SamplesConserved`: after every query each row
holds, field by field, the sum over the pods that the index files under its
workload, and zero for the queries still to come (`RowsInv`); a sum over all pods
is one over the workloads of the sums of each (`SumGrouped`), and truncating the
terms of a sum loses at most half a unit per term (`SumHalved`).

**`ApiProofs`** (kinds of deliveries, mixes and secrets of the right type).
Three invariants, one per group of routes. `IngestInv`: the stored and the
acknowledged rows, with a lemma on the first check of a handler that fails.
`SessionInv`: the expiry told is the one in the token, and an answer is about
the environment of the process that gave it. `ShareInv`: what a stored row and
an analysis in flight know of the newest stamp told. `PreflightGate` needs no
invariant: `VersionRead` says for every version what reading its digits as one
number does to the comparison with 1.28. There is no theorem about webhooks:
what their code promises is `MergeAttributed`, which does not hold. Proved:
`IngestAccountedHolds`, `SessionUntilToldHolds`, `PreflightGateHolds`,
`ShareKeptHolds`, `PageToldHolds`.

**`ApplyFixProofs`** (payloads of the right types; finitely many owner
references, the built-in ones among them; what a correct answer is, below).
Invariant: beyond a gate, the payload is one that the gate let pass, the stages
are those that ran, the verdicts those of the validators, and the mode is the
flag's unless it could not be read. Proved: the parts of `OnlyVetted`
(`NoOperatorOwnedHolds`, `EnvironmentRespectedHolds`,
`ClusterLimitsRespectedHolds`, `GateCompletedHolds`), `SkepticRespectedHolds`,
`NoSpendOnRefusedHolds`.

The owner walk, for every owner list, owner index and cut-off
(`WalkDecidesHolds`). `DirectIsSound`: were there a walk that calls a workload
direct although a custom resource is reached, one with the fewest owners left to
visit would exist. `ShortChainsAreDecided`: the references met in the first n
steps of a chain that has not ended are n different ones, so a chain of no more
references than the cut-off ends before the walk is cut off.

The edit that is judged. The answers of the model are a constant, and one that
says which chart it means is assumed to be a correct diff of the text that was
shown (`IsDiffOf`: hunks in order, each with its old lines at the line it names)
and to mean the chart in which each hunk is carried out at its own place
(`Edited`, which moves each hunk by what those before it added). Nothing is
assumed of other answers, nor of where `findBlock` looks. `AppliedAsMeant`: by
induction over the hunks, the text made so far agrees with the original beyond
the cursor, moved by the difference in length (`Follows`, `Right`). What
`findBlock` then finds is the hunk's own place, either because its old lines
are only once in the text shown, which holds every line of the original
as the sanitiser leaves it, so that they are not elsewhere in the original
either; or because the line it names has not moved. `JudgedAsMeantHolds` adds that an answer is one of those for the
payload's chart (`Judged`), and `OnlyVettedHolds` then has no proviso: what the
stages said of the text they judged, they said of the chart that is merged.

About recursion and data: the library's induction theorems take an operator as
a parameter, which the provers cannot instantiate. What is proved here about
recursive functions and folds uses well-foundedness instead (`WFMin` and
`LeastNat`: a non-empty set of numbers has a least member), applied to the set
of counterexamples.

Only model-checked: liveness (`DrainTerminates`, `SettlesOnOwners`), because the
prover handles neither fairness nor ENABLED. Neither checked nor proved beyond
`AdvicePays`: the band, letter and percentile that `Analyze` gives a score.

## 6. Plan

Done, in this order: dispatcher; Prometheus cache; apply-fix with its pure
parts; onboarding; rate limiter with its abstract specification; telemetry;
post-merge; the CLI; the agent's observation; the api server with its stores;
the gate's stages; the theorems of section 5.

Next, most important first:

1. `Confidence`, the observed-usage detectors, the OOM window, the activation
   cohort and percentile, the service graph: pure operators checked against
   reference definitions, beside `Rules` and `Onboarding`.
2. `Coalescer`, `Canary`, call tokens, the Temporal adapter's workflow ids:
   small state machines of code that is not wired yet.
3. An abstract specification of the apply-fix pipeline (“publish only what
   every gate let through”) that `ApplyFix` refines, and of the cache (a
   register per key with bounded staleness) that `PromCache` refines.

Not planned: terminal and HTML layout, PR comment and Slack wording, the web
user interface, Terraform and Helm charts, adapters of third-party clients,
billing sources and GDPR services that are stubs at this commit.
