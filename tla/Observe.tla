-------------------------------- MODULE Observe --------------------------------
(***************************************************************************)
(* The agent observes its cluster: cmd/agent from its flags to the         *)
(* snapshot it posts.  Informers copy the cluster into caches, each object *)
(* when its watch delivers it; every tick the loop builds an index of pods *)
(* to workloads from two of the caches, lists the inventory, asks          *)
(* Prometheus three queries and adds the samples up per workload.          *)
(*                                                                         *)
(* What becomes of the post, and the clocks, are AgentTelemetry's; the     *)
(* queries go through the cache of PromCache, of which a single caller     *)
(* sees the answers remembered for the current time bucket.                *)
(***************************************************************************)
EXTENDS ClusterReaders, PromClient, Sequences

CONSTANTS Mutable,    \* the objects that come and go
          Val,        \* Val[p], what a query returns for pod p, in half units
          Configs,    \* the ways an operator may start the agent
          Inits,      \* the sets of objects that may exist at boot
          MaxChurn,   \* bound on the changes of cluster and token file
          ReplySet    \* the replies that Prometheus and the network give

Fields == <<"cpu", "mem", "oom">>
Pods == OfKind(Objects, "Pod")
Static == "static"

Configured ==
  /\ ClientConfigured
  /\ Mutable \subseteq Objects
  /\ Val \in [Pods -> Nat]
  /\ Inits \subseteq SUBSET Objects
  /\ MaxChurn \in Nat
  /\ ReplySet \subseteq Replies(Pods)
  /\ Static \notin Tokens

ASSUME ObserveAssumption == Configured

VARIABLES
  live,    \* the objects that exist
  cache,   \* the objects that the informers' caches hold
  file,    \* the token file
  churn,   \* how often the cluster or the file changed
  auth,    \* the authenticator's cached token
  read,    \* history: how long ago that token was read from the file
  phase,   \* where the process is
  signs,   \* how its scraper signs a query: "file", "static", or "none" without a scraper
  rs,      \* rsByName, between the halves of PodOwners
  owners,  \* the scraper's index
  snap,    \* the snapshot being built: inventory and observations
  asked,   \* the answers to this tick's queries so far
  memo,    \* the answers remembered for the current bucket, by query
  known,   \* history: the queries whose last failure was counted in the metrics
  worn     \* history: the last token presented had been read Refresh ago or more

clusterVars == <<live, cache, churn>>
authVars == <<file, auth, read, worn>>
tickVars == <<rs, owners, snap, asked>>
observeVars == <<live, cache, churn, file, auth, read, worn, rs, owners, snap, asked,
                 memo, known, phase, signs>>

NoSnap == [workloads |-> {}, events |-> {}, hpas |-> {}, pools |-> {}, policy |-> None,
           rows |-> <<>>]
NoMemo == [q \in 1..Len(Fields) |-> None]

ObserveInit ==
  /\ live \in Inits /\ cache = {} /\ churn = 0
  /\ file \in Tokens /\ auth = NoToken /\ read = 0 /\ worn = FALSE
  /\ phase = "off" /\ signs = "none"
  /\ rs = <<>> /\ owners = <<>> /\ snap = NoSnap /\ asked = <<>>
  /\ memo = NoMemo /\ known = {}

-----------------------------------------------------------------------------
(* NewAuthenticator, and BuildTLSConfig for the mode that signs nothing:     *)
(* whether what the mode needs is there.                                     *)
NewAuthenticator(cfg) ==
  \/ cfg.mode \in {"", "none", "sa_token"}
  \/ cfg.mode \in {"bearer", "basic", "mtls"} /\ cfg.material

(* The checks of run in their order, each with the code it exits with.  Some *)
(* are made only with an ingest URL, and some only with a Prometheus URL as  *)
(* well.                                                                     *)
bootChecks(cfg) ==
  << [ok |-> cfg.cluster, code |-> 2], [ok |-> cfg.resync, code |-> 2],
     [ok |-> cfg.kube, code |-> 1], [ok |-> cfg.synced, code |-> 1],
     [ok |-> cfg.interval # "bad", code |-> 2] >>
  \o (IF ~cfg.ingest THEN <<>> ELSE
       << [ok |-> cfg.secret, code |-> 2], [ok |-> cfg.tenant, code |-> 2],
          [ok |-> cfg.egress, code |-> 1], [ok |-> cfg.cutoff, code |-> 2] >>)
  \o (IF ~(cfg.ingest /\ cfg.prom) THEN <<>> ELSE
       << [ok |-> NewAuthenticator(cfg), code |-> IF cfg.mode = "mtls" THEN 1 ELSE 2],
          [ok |-> cfg.url, code |-> 1], [ok |-> cfg.ttl, code |-> 2] >>)

(* run exits at the first check that fails.  Otherwise the informers were    *)
(* primed and, with an ingest URL, the loop starts: its NewTicker panics on  *)
(* an interval that is not positive.  A service account's token comes from a *)
(* file, the default one when none is named; a bearer's only from a file     *)
(* that is named.                                                            *)
Boot(cfg) ==
  LET ok == \A i \in DOMAIN bootChecks(cfg) : bootChecks(cfg)[i].ok
  IN  /\ phase = "off"
      /\ phase' = IF ~ok THEN "exit"
                  ELSE IF ~cfg.ingest THEN "watch"
                  ELSE IF cfg.interval = "zero" THEN "panic" ELSE "idle"
      /\ signs' = IF ~(ok /\ cfg.ingest /\ cfg.prom) THEN "none"
                  ELSE IF cfg.mode = "sa_token" \/ (cfg.mode = "bearer" /\ cfg.file)
                  THEN "file" ELSE "static"
      /\ cache' = IF cfg.kube /\ cfg.synced THEN live ELSE {}
      /\ UNCHANGED <<live, churn, authVars, tickVars, memo, known>>

-----------------------------------------------------------------------------
(* The cluster changes: an object appears, its owner being there, or goes.   *)
Create(o) ==
  /\ o \notin live /\ churn < MaxChurn
  /\ Controller[o] = None \/ Controller[o] \in live
  /\ live' = live \cup {o} /\ churn' = churn + 1
  /\ UNCHANGED <<cache, authVars, tickVars, memo, known, phase, signs>>

Delete(o) ==
  /\ o \in live /\ churn < MaxChurn
  /\ live' = live \ {o} /\ churn' = churn + 1
  /\ UNCHANGED <<cache, authVars, tickVars, memo, known, phase, signs>>

(* The garbage collector removes an object whose owner is gone.              *)
Collect(o) ==
  /\ o \in live /\ Controller[o] # None /\ Controller[o] \notin live
  /\ live' = live \ {o}
  /\ UNCHANGED <<cache, churn, authVars, tickVars, memo, known, phase, signs>>

(* An informer learns of one change.  The watches of two kinds are           *)
(* independent, so a pod may be delivered before its ReplicaSet.             *)
Deliver(o) ==
  /\ phase \notin {"off", "exit", "panic"}
  /\ (o \in live) # (o \in cache)
  /\ cache' = IF o \in live THEN cache \cup {o} ELSE cache \ {o}
  /\ UNCHANGED <<live, churn, authVars, tickVars, memo, known, phase, signs>>

(* The kubelet rewrites the token file, or the volume is not there.          *)
Rotate(t) ==
  /\ t # file /\ churn < MaxChurn
  /\ file' = t /\ churn' = churn + 1
  /\ UNCHANGED <<live, cache, auth, read, worn, tickVars, memo, known, phase, signs>>

Later(n) == IF n < Refresh THEN n + 1 ELSE n

Elapse ==
  /\ auth.age < Refresh \/ read < Refresh
  /\ auth' = [auth EXCEPT !.age = Later(@)]
  /\ read' = Later(read)
  /\ UNCHANGED <<clusterVars, file, worn, tickVars, memo, known, phase, signs>>

(* Time enters the next bucket of the query cache.  Scrape reads its clock   *)
(* once, so the three queries of a tick are asked of the same bucket.        *)
NextBucket ==
  /\ phase = "idle" /\ memo # NoMemo
  /\ memo' = NoMemo
  /\ UNCHANGED <<clusterVars, authVars, tickVars, known, phase, signs>>

-----------------------------------------------------------------------------
(* A tick of runSnapshotLoop: PodOwners lists the ReplicaSets ...            *)
Tick ==
  /\ phase = "idle"
  /\ rs' = IF signs = "none" THEN <<>> ELSE rsByName(cache)
  /\ phase' = IF signs = "none" THEN "inventory" ELSE "pods"
  /\ UNCHANGED <<clusterVars, authVars, owners, snap, asked, memo, known, signs>>

(* ... and then the pods, and SetPodOwners publishes the index.              *)
SetPodOwners ==
  /\ phase = "pods"
  /\ owners' = PodOwners(rs, cache)
  /\ rs' = <<>>
  /\ phase' = "inventory"
  /\ UNCHANGED <<clusterVars, authVars, snap, asked, memo, known, signs>>

(* Build up to the scrape: which events are recent, and whether the list of  *)
(* node pools is answered, is not followed from tick to tick.                *)
Build ==
  /\ phase = "inventory"
  /\ \E aged \in SUBSET OfKind(cache, "Event"), answered \in BOOLEAN :
       \E events \in DrainEvents(cache, aged) :
       snap' = [workloads |-> ListWorkloads(cache), events |-> events, hpas |-> ListHPAs(cache),
                pools |-> ListKarpenter(answered, live), policy |-> ListPolicySummary(cache),
                rows |-> <<>>]
  /\ phase' = IF signs = "none" THEN "post" ELSE "query"
  /\ UNCHANGED <<clusterVars, authVars, rs, owners, asked, memo, known, signs>>

Zero == [cpu |-> 0, mem |-> 0, oom |-> 0]

(* What one sample adds: the kills of a pod are truncated one by one.        *)
Increment(f, p) == IF f = "oom" THEN Val[p] \div 2 ELSE Val[p]

(* Mutant: a sample overwrites what its workload had.                        *)
applyLast(rows, f, samples) ==
  LET mine(w) == {p \in samples \cap DOMAIN owners : owners[p] = w}
      old(w)  == IF w \in DOMAIN rows THEN rows[w] ELSE Zero
      hit     == {owners[p] : p \in samples \cap DOMAIN owners}
  IN  [w \in DOMAIN rows \cup hit |->
         IF mine(w) = {} THEN old(w)
         ELSE [old(w) EXCEPT ![f] = Increment(f, CHOOSE p \in mine(w) : TRUE)]]

(* apply: a sample of a pod that the index knows is added to the field of    *)
(* its workload, whose row is made when it is the first.                     *)
apply(rows, f, samples) ==
  LET mine(w) == {p \in samples \cap DOMAIN owners : owners[p] = w}
      old(w)  == IF w \in DOMAIN rows THEN rows[w] ELSE Zero
      hit     == {owners[p] : p \in samples \cap DOMAIN owners}
  IN  [w \in DOMAIN rows \cup hit |->
         [old(w) EXCEPT ![f] = @ + SumFunction([p \in mine(w) |-> Increment(f, p)])]]

(* Mutant: only HTTP statuses are counted.                                   *)
CountHttpOnly(q, status) == IF status = "ok" THEN known \ {q}
                            ELSE IF status = "5xx" THEN known \cup {q} ELSE known

(* ObserveQuery counts a query whose last attempt did not end well.          *)
ObserveQuery(q, status) == IF status = "ok" THEN known \ {q} ELSE known \cup {q}

(* The answer a to the next query goes into the observations, unless it is   *)
(* an error: that leaves the field of every row as it was, zero.             *)
Merge(a) ==
  LET q == Len(asked) + 1 IN
  /\ asked' = Append(asked, a)
  /\ snap' = [snap EXCEPT !.rows = IF a.ok THEN apply(@, Fields[q], a.samples) ELSE @]
  /\ phase' = IF q = Len(Fields) THEN "post" ELSE "query"

(* The cache answers, an error included; the client is not called.           *)
QueryHit ==
  /\ phase = "query" /\ memo[Len(asked) + 1] # None
  /\ Merge(memo[Len(asked) + 1])
  /\ UNCHANGED <<clusterVars, authVars, rs, owners, memo, known, signs>>

(* headerAuth and basicAuth set a header, and cannot fail.                   *)
StaticAuth == [cached |-> Static, age |-> 0, err |-> FALSE]

(* The client asks; r1 and r2 are the fates of its attempts.                 *)
Query(r1, r2) ==
  /\ phase = "query" /\ memo[Len(asked) + 1] = None
  /\ LET q      == Len(asked) + 1
         d      == do(IF signs = "file" THEN auth ELSE StaticAuth, file, r1, r2)
         a      == [ok |-> d.status = "ok", samples |-> d.samples]
         t      == d.tries[1]
     IN  /\ Merge(a)
         /\ memo' = [memo EXCEPT ![q] = a]
         /\ known' = ObserveQuery(q, d.status)
         /\ IF signs = "file"
              THEN /\ auth' = d.auth
                   /\ read' = IF t.fresh THEN 0 ELSE read
                   /\ worn' = (t.ok /\ read' >= Refresh)
              ELSE UNCHANGED <<auth, read, worn>>
  /\ UNCHANGED <<clusterVars, file, rs, owners, signs>>

(* Build ends: with some row the error of the scrape is dropped.             *)
Partial == snap.rows = <<>> /\ \E i \in DOMAIN asked : ~asked[i].ok

(* The rows as they are shipped: the memory is truncated, once per row.      *)
Shipped == [w \in DOMAIN snap.rows |-> [snap.rows[w] EXCEPT !.mem = @ \div 2]]

(* The snapshot is posted, whatever it holds; the loop waits for a tick.     *)
Post ==
  /\ phase = "post" /\ phase' = "idle"
  /\ owners' = <<>> /\ snap' = NoSnap /\ asked' = <<>>
  /\ UNCHANGED <<clusterVars, authVars, rs, memo, known, signs>>

Agent ==
  \/ Tick \/ SetPodOwners \/ Build \/ QueryHit \/ Post
  \/ \E r1, r2 \in ReplySet : Query(r1, r2)

ObserveNext ==
  \/ \E cfg \in Configs : Boot(cfg)
  \/ \E o \in Mutable : Create(o) \/ Delete(o)
  \/ \E o \in Objects : Collect(o) \/ Deliver(o)
  \/ \E t \in Tokens \cup {Gone, Blank} : Rotate(t)
  \/ Elapse \/ NextBucket
  \/ Agent

(* The ticker fires and the loop works it off; the watches deliver and the   *)
(* garbage collector collects.  Nothing else has to happen.                  *)
ObserveSpec ==
  /\ ObserveInit /\ [][ObserveNext]_observeVars
  /\ WF_observeVars(Agent)
  /\ \A o \in Objects : WF_observeVars(Deliver(o)) /\ WF_observeVars(Collect(o))

-----------------------------------------------------------------------------
Known(q) == asked[q].samples \cap DOMAIN owners
Total(f) == SumFunction([w \in DOMAIN Shipped |-> Shipped[w][f]])

(* A snapshot's rows carry the samples of the tick's queries, each once:     *)
(* the cores add up to what Prometheus returned for the pods of the index,   *)
(* the memory to the same less a fraction per row, and the kills to no more. *)
(* A query that failed contributes nothing.                                  *)
Conserved ==
  phase = "post" /\ signs # "none" =>
    LET sum(q) == SumFunctionOnSet(Val, Known(q)) IN
    /\ Total("cpu") = sum(1)
    /\ 2 * Total("mem") <= sum(2) /\ sum(2) <= 2 * Total("mem") + Cardinality(DOMAIN Shipped)
    /\ 2 * Total("oom") <= sum(3) /\ sum(3) <= 2 * Total("oom") + Cardinality(Known(3))
    /\ \A q \in DOMAIN asked : ~asked[q].ok => Total(Fields[q]) = 0

(* A metric missing from a snapshot leaves a trace: the tick is logged as    *)
(* partial, or the failure stands in the error counter, be it an earlier     *)
(* tick's that the cache repeats.                                            *)
MissingLeavesTrace ==
  phase = "post" =>
    \A q \in DOMAIN asked : asked[q].ok \/ Partial \/ q \in known

(* A query goes out with a token read less than Refresh ago, unless the last *)
(* reading of the file failed.                                               *)
WornOnlyAfterError == worn => auth.err

(* When the cluster stops changing, the rows come to name workloads that     *)
(* exist: a pod filed under a ReplicaSet whose Deployment was not known yet, *)
(* or under a workload that is gone, is a passing state.                     *)
SettlesOnOwners ==
  <>[](phase = "post" => DOMAIN snap.rows \subseteq ListWorkloads(live))

(* The loop of a started agent does not panic (comment of runSnapshotLoop).  *)
(* It does, with an interval of zero.                                        *)
NeverPanics == phase # "panic"

(* The error of a scrape is logged by the caller (comment of Scrape).  It is *)
(* not when another query of the scrape gave a row.                          *)
ErrorLogged == phase = "post" => ((\E i \in DOMAIN asked : ~asked[i].ok) => Partial)
=============================================================================
