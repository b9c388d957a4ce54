---------------------------------- MODULE Api ----------------------------------
(***************************************************************************)
(* The API server (cmd/api): it boots from its configuration, wires the    *)
(* handlers and serves requests until it stops; what its in-memory stores  *)
(* held is gone then, and the next process may run newer rules and another *)
(* session secret.  Handlers that have a module of their own (onboarding,  *)
(* snapshots, receipts, the limiter, the composer) are not repeated here.  *)
(*                                                                         *)
(* A mix is the set of routes that the callers of a behaviour use, the     *)
(* environments its processes are started in, the share store, and the     *)
(* bounds on requests, starts and clock: routes of different mixes share   *)
(* no state but the clock.                                                 *)
(***************************************************************************)
EXTENDS Access, Sandbox, Preflight, Handlers, FiniteSets

CONSTANTS Mixes,        \* the mixes: routes, envs, store, requests, starts and until
          Clients,      \* analyses that may be in flight together
          Releases,     \* releases of the rules, 1, 2, ...
          Events,       \* webhook deliveries; Kind says of what
          HookKind,     \* HookKind[e]: merged, foreign (a PR not ours), open, junk, push
          Callers,      \* requests to tenant routes: header and certificate
          Batches,      \* requests to /v1/ingest
          Asks,         \* requests to the handlers that keep no state
          Worlds        \* clusters to probe

ASSUME ApiAssumption ==
  /\ HookKind \in [Events -> {"merged", "foreign", "open", "junk", "push"}]
  /\ Releases \subseteq Nat \ {0}
  /\ None \notin [hash : Hashes, rel : Nat, stamp : Nat] /\ None \notin {"whoami", "preflight"}
  /\ \A x \in Mixes : /\ x.store \in {"memory", "pg"} /\ {x.requests, x.starts, x.until} \subseteq Nat
                       /\ \A c \in x.envs : c.secret \in STRING
  /\ \A w \in Worlds : IsVersion(w.version)

VARIABLES
  now,      \* the clock, in half seconds
  proc,     \* the process: off, up or exit
  cfg,      \* the environment it was started in
  starts,   \* how often it was started
  rel,      \* the release of the rules it runs
  mix,      \* what is asked, and the share store
  spent,    \* the requests made
  reply,    \* the last answer
  work,     \* the analyses in flight, their answer not written yet
  shares,   \* the share store
  told,     \* history: the newest analysis answered and stored, by hash
  raced,    \* history: an older analysis was stored after it
  issued,   \* the sessions handed out, with the expiry that was told
  stored,   \* what the ingest sinks hold, by tenant
  acks,     \* history: the batches answered 200, by tenant and part
  hooks     \* the deliveries: answered 2xx, attributed

procVars == <<proc, cfg, starts, rel>>
shareVars == <<work, shares, told, raced>>
sinkVars == <<stored, acks>>
vars == <<now, proc, cfg, starts, rel, mix, spent, reply, work, shares, told, raced,
          issued, stored, acks, hooks>>

Idle == [hash |-> None]
NoReply == [route |-> None]
Off == [secret |-> None]

Init ==
  /\ now = 0 /\ proc = "off" /\ cfg = Off /\ starts = 0 /\ rel = 1
  /\ mix \in Mixes /\ spent = 0 /\ reply = NoReply
  /\ work = [c \in Clients |-> Idle]
  /\ shares = [h \in Hashes |-> None]
  /\ told = [h \in Hashes |-> None] /\ raced = {}
  /\ issued = {}
  /\ stored = [t \in Tenants |-> [prom |-> 0, cur |-> 0]] /\ acks = stored
  /\ hooks = [e \in Events |-> [acked |-> FALSE, attributed |-> FALSE]]

-----------------------------------------------------------------------------
(* run: the configuration is validated and, with a DSN, Postgres pinged; the *)
(* new process may run a newer release of the rules.                         *)
Boot(c, n) ==
  /\ proc = "off" /\ starts < mix.starts /\ n >= rel
  /\ proc' = IF Validate(c) /\ (c.dsn => c.reachable) THEN "up" ELSE "exit"
  /\ cfg' = c /\ rel' = n /\ starts' = starts + 1
  /\ UNCHANGED <<now, mix, spent, reply, shareVars, issued, sinkVars, hooks>>

(* The process stops, in order or not: what it held in memory is lost, and   *)
(* with it the analyses it had not answered.                                 *)
Stop ==
  /\ proc \in {"up", "exit"}
  /\ proc' = "off" /\ reply' = NoReply
  /\ work' = [c \in Clients |-> Idle]
  /\ IF mix.store = "pg" THEN UNCHANGED <<shares, told, raced>>
     ELSE /\ shares' = [h \in Hashes |-> None]
          /\ told' = [h \in Hashes |-> None] /\ raced' = {}
  /\ UNCHANGED <<now, cfg, starts, rel, mix, spent, issued, sinkVars, hooks>>

Tick ==
  /\ now < mix.until /\ now' = now + 1
  /\ UNCHANGED <<procVars, mix, spent, reply, shareVars, issued, sinkVars, hooks>>

(* A request to a mounted route reaches its handler.                         *)
Request(route) ==
  /\ proc = "up" /\ route \in mix.routes /\ spent < mix.requests
  /\ spent' = spent + 1
  /\ UNCHANGED <<now, procVars, mix>>

(* How the decoding of a JSON body ends.                                     *)
Reads == {"ok", "big", "junk"}

Answer(route, code) == reply' = [route |-> route, code |-> code]

-----------------------------------------------------------------------------
(* The limiter in front of the sandbox refuses.                              *)
Limited(route) ==
  /\ route \in {"analyze", "share"}
  /\ Request(route) /\ Answer(route, 429)
  /\ UNCHANGED <<shareVars, issued, sinkVars, hooks>>

(* Analyze up to the clock it stamps the share with, or its error.           *)
Analyze(c, b) ==
  LET code == AnalyzeCode(b, cfg.region) IN
  /\ work[c] = Idle /\ Request("analyze")
  /\ IF code = 200
       THEN /\ work' = [work EXCEPT ![c] = [hash |-> Hash[b], rel |-> rel, stamp |-> now]]
            /\ UNCHANGED reply
       ELSE Answer("analyze", code) /\ UNCHANGED work
  /\ UNCHANGED <<shares, told, raced, issued, sinkVars, hooks>>

(* The rest: Put, whose error is only logged, and the answer with the URL.   *)
Store(c) ==
  LET w    == work[c]
      late == told[w.hash] # None /\ w.stamp < told[w.hash].stamp
  IN
  /\ proc = "up" /\ w # Idle
  /\ work' = [work EXCEPT ![c] = Idle]
  /\ Answer("analyze", 200)
  /\ \/ /\ shares' = IF mix.store = "pg" THEN PgPut(shares, w) ELSE MemPut(shares, w)
        /\ told' = IF late THEN told ELSE [told EXCEPT ![w.hash] = w]
        /\ raced' = IF late THEN raced \cup {w.hash} ELSE raced \ {w.hash}
     \/ mix.store = "pg" /\ UNCHANGED <<shares, told, raced>>
  /\ UNCHANGED <<now, procVars, mix, spent, issued, sinkVars, hooks>>

(* Share; the JSON form is the stored answer and the page is drawn from the  *)
(* findings.  A query that fails is answered 500.  That PgStore counts       *)
(* views, which nothing reads, is left out.                                  *)
Share(h, json) ==
  LET code == Get(shares, h, now) IN
  /\ Request("share")
  /\ \/ reply' = IF code # 200 THEN [route |-> "share", code |-> code]
                 ELSE [route |-> "share", code |-> code, hash |-> h,
                       shown |-> IF json THEN shares[h].body ELSE shares[h].found]
     \/ mix.store = "pg" /\ Answer("share", 500)
  /\ UNCHANGED <<shareVars, issued, sinkVars, hooks>>

-----------------------------------------------------------------------------
(* Issue: the body names a tenant and a subject, or lacks one.               *)
Issue(t, read) ==
  /\ Request("issue")
  /\ IF read = "big" THEN Answer("issue", 413) /\ UNCHANGED issued
     ELSE IF read = "junk" \/ t = Nobody THEN Answer("issue", 400) /\ UNCHANGED issued
     ELSE LET s == SignerIssue(t, cfg.secret, now) IN
          /\ Answer("issue", 200)
          /\ issued' = issued \cup {[token |-> s, expires |-> ToldExpiry(now)]}
  /\ UNCHANGED <<shareVars, sinkVars, hooks>>

(* Whoami, with up to two of the sessions handed out.  Its route is not      *)
(* behind requireTenant, so the tenant context it falls back on is empty.    *)
Whoami(bearer, cookie) ==
  LET tok(x) == IF x = Nobody THEN Nobody ELSE x.token
      s      == sessionFromRequest(tok(bearer), tok(cookie), cfg.secret, now)
  IN
  /\ Request("whoami")
  /\ reply' = [route |-> "whoami", code |-> IF s = Nobody THEN 401 ELSE 200, at |-> now,
               as |-> IF s = Nobody THEN Nobody ELSE s.tenant, with |-> {bearer, cookie} \ {Nobody}]
  /\ UNCHANGED <<shareVars, issued, sinkVars, hooks>>

-----------------------------------------------------------------------------
(* A batch is ingested; a sink that is not wired stores nothing and does not *)
(* fail.                                                                     *)
IngestRequest(r, q, prom, cur) ==
  LET t   == requireTenant("ingest", cfg.env, r)
      out == IngestBatch(t, q, prom, cur)
      n(b) == IF b THEN 1 ELSE 0
  IN
  /\ Request("ingest")
  /\ ~cfg.sinks => prom /\ cur
  /\ IF t = Nobody THEN Answer("ingest", 401) /\ UNCHANGED sinkVars
     ELSE /\ Answer("ingest", out.code)
          /\ stored' = IF ~cfg.sinks THEN stored
                       ELSE [stored EXCEPT ![t] = [prom |-> @.prom + n(out.prom),
                                                   cur |-> @.cur + n(out.cur)]]
          /\ acks' = IF ~cfg.sinks \/ out.code # 200 THEN acks
                     ELSE [acks EXCEPT ![t] = [prom |-> @.prom + n(q.prom # Absent),
                                               cur |-> @.cur + n(q.cur # Absent)]]
  /\ UNCHANGED <<shareVars, issued, hooks>>

-----------------------------------------------------------------------------
(* What OnMerged may return for delivery e (PostMerge has its steps): nil,   *)
(* ErrUnknownInstallation, ErrNoMatchingApplyFix or some other error.  It is *)
(* never nil for a pull request that is not ours.                            *)
Results == {"ok", "unknown", "nomatch", "error"}
OnMerged(e) == IF HookKind[e] = "merged" THEN Results ELSE Results \ {"ok"}

(* dispatchGitHubEvent: whether delivery e is attributed.  It is not without *)
(* a database, when ParseGitHub refuses it and when OnMerged fails; all that *)
(* is left of it then is a line in the log, at the level info for the two    *)
(* errors that a pull request of somebody else gives.                        *)
dispatchGitHubEvent(e, result) ==
  cfg.dsn /\ HookKind[e] \in {"merged", "foreign"} /\ result = "ok"

(* The webhook: GitHub delivers until it is answered 2xx.  The secret signs  *)
(* the body; without one configured, every body is taken.  Whatever the      *)
(* dispatch did, the answer is 202.                                          *)
Webhook(e, body, result) ==
  /\ ~hooks[e].acked /\ Request("webhook") /\ result \in OnMerged(e)
  /\ IF body = "big" THEN Answer("webhook", 413) /\ UNCHANGED hooks
     ELSE IF body = "cut" THEN Answer("webhook", 400) /\ UNCHANGED hooks
     ELSE IF cfg.hook /\ body # "signed" THEN Answer("webhook", 401) /\ UNCHANGED hooks
     ELSE /\ Answer("webhook", 202)
          /\ hooks' = [hooks EXCEPT ![e] = [acked |-> TRUE,
                                            attributed |-> dispatchGitHubEvent(e, result)]]
  /\ UNCHANGED <<shareVars, issued, sinkVars>>

-----------------------------------------------------------------------------
(* The wizard's checks; the runner is not wired unless an operator-side      *)
(* probe is.  A body is decoded only when its length is given: one that      *)
(* comes in chunks is not looked at, and a URL in it not probed.             *)
PreflightRequest(r, w, read, url) ==
  /\ Request("preflight")
  /\ IF requireTenant("preflight", cfg.env, r) = Nobody THEN Answer("preflight", 401)
     ELSE IF ~cfg.runner THEN Answer("preflight", 500)
     ELSE IF read = "big" THEN Answer("preflight", 413)
     ELSE IF read = "junk" THEN Answer("preflight", 400)
     ELSE LET given == url /\ read # "chunked"
          IN  reply' = [route |-> "preflight", code |-> 200, world |-> w, url |-> given,
                        checks |-> Run(w, given)]
  /\ UNCHANGED <<shareVars, issued, sinkVars, hooks>>

(* The routes whose handlers keep no state; these do not ask for a tenant.   *)
Public == {"spike", "callback", "probe", "meta"}
Stateless(route, r, q) ==
  /\ Request(route)
  /\ IF route \notin Public /\ requireTenant(route, cfg.env, r) = Nobody THEN Answer(route, 401)
     ELSE \/ route = "spike" /\ Answer(route, Receive(q))
          \/ route = "callback" /\ Answer(route, Callback(q))
          \/ route \in {"probe", "meta", "summary"} /\ Answer(route, 200)
          \/ route = "preview" /\ \E fix \in {"fix", "budget", "failed"} : Answer(route, Preview(q, fix))
          \/ route = "fixes" /\ Answer(route, ListApplyFixes(q))
          \/ route = "health" /\ \E ok \in BOOLEAN : Answer(route, AgentHealth(cfg.dsn, ok))
  /\ UNCHANGED <<shareVars, issued, sinkVars, hooks>>

Next ==
  \/ \E c \in mix.envs, n \in Releases : Boot(c, n)
  \/ Stop \/ Tick
  \/ \E route \in {"analyze", "share"} : Limited(route)
  \/ \E c \in Clients, b \in Bodies : Analyze(c, b)
  \/ \E c \in Clients : Store(c)
  \/ \E h \in Hashes, json \in BOOLEAN : Share(h, json)
  \/ \E t \in Tenants \cup {Nobody}, read \in Reads : Issue(t, read)
  \/ \E a, b \in issued \cup {Nobody} : Whoami(a, b)
  \/ /\ "ingest" \in mix.routes
     /\ \E r \in Callers, q \in Batches, prom, cur \in BOOLEAN : IngestRequest(r, q, prom, cur)
  \/ \E e \in Events, body \in {"signed", "unsigned", "big", "cut"}, result \in Results : Webhook(e, body, result)
  \/ /\ "preflight" \in mix.routes
     /\ \E r \in Callers, w \in Worlds, read \in Reads \cup {"chunked"}, url \in BOOLEAN :
          PreflightRequest(r, w, read, url)
  \/ \E route \in mix.routes \cap (Public \cup {"summary", "preview", "fixes", "health"}),
        r \in Callers, q \in Asks : Stateless(route, r, q)

(* The process is started when it is down, and GitHub delivers.              *)
Spec ==
  /\ Init /\ [][Next]_vars
  /\ WF_vars(\E c \in mix.envs, n \in Releases : Boot(c, n))
  /\ \A e \in Events : WF_vars(\E result \in Results : Webhook(e, "signed", result))

-----------------------------------------------------------------------------
(* A share lives from the analysis that was answered to ShareTTL after it,   *)
(* and is gone, not unknown, from then on; analysing the same upload again   *)
(* counts from the newer one.  Two analyses in flight together are the       *)
(* exception: the one stamped first may be stored last.                      *)
ShareKept ==
  \A h \in Hashes : told[h] # None /\ h \notin raced =>
    Get(shares, h, now) = IF now <= told[h].stamp + ShareTTL THEN 200 ELSE 410

(* The JSON form of a share and its page tell of the same analysis, one that *)
(* a caller was answered with: in memory that of the newest answer, while    *)
(* the upsert in Postgres keeps that of the first.                           *)
PageTold ==
  \A h \in Hashes : told[h] # None =>
    /\ shares[h].body = shares[h].found
    /\ shares[h].body <= told[h].rel /\ shares[h].created <= told[h].stamp
    /\ mix.store = "memory" => shares[h].body = told[h].rel

(* whoami answers exactly while one of the sessions presented was issued     *)
(* under the secret of this process and the expiry told with it is not past, *)
(* and answers as the tenant of such a session.                              *)
SessionUntilTold ==
  reply.route = "whoami" =>
    LET good == {s \in reply.with : s.token.secret = cfg.secret /\ reply.at <= s.expires}
    IN  /\ (reply.code = 200) = (good # {})
        /\ reply.code = 200 => reply.as \in {s.token.tenant : s \in good}

(* The cost rows of a tenant were stored once per batch answered 200, so a   *)
(* caller that sends a batch again after an error does not store them twice; *)
(* its series may be, the error having come after them.                      *)
IngestAccounted ==
  \A t \in Tenants : stored[t].cur = acks[t].cur /\ stored[t].prom >= acks[t].prom

(* "Kubernetes 1.28+" by the numbers that a version itself gives, and the    *)
(* versions whose tag has digits, which are read as the minor's last.        *)
Supported(v) == v.major > 1 \/ (v.major = 1 /\ v.minor >= 28)
TaggedMinor(v) == v.major = 1 /\ v.shift > 1

(* The report is a gate in both directions, whichever probe fails and        *)
(* wherever the deadline cuts it.  Without a red check the cluster grants    *)
(* the agent its verbs, answers Prometheus if a URL was read, and has a      *)
(* supported version, unless digits of a tag were taken for one, and no      *)
(* unsupported provisioner, unless that probe failed: the two ways in which  *)
(* it lets an unfit cluster pass.  And a fit cluster, tagged or not, whose   *)
(* probes all answer shows no red.                                           *)
PreflightGate ==
  reply.route = "preflight" /\ reply.code = 200 =>
    LET w   == reply.world
        red == \E i \in DOMAIN Checks : reply.checks[i] = "fail"
        fit == w.rbac /\ (reply.url => w.prom)
    IN  /\ ~red => /\ fit
                   /\ Supported(w.version) \/ TaggedMinor(w.version)
                   /\ w.unsupported => ProbeErr(w, 6)
        /\ (/\ fit /\ ~w.unsupported /\ \A i \in DOMAIN Checks : ~ProbeErr(w, i)
            /\ Supported(w.version) /\ w.version.minor # Missing) => ~red

(* A merge of ours that was accepted is attributed in the end: the comment   *)
(* of dispatchGitHubEvent leaves the transient errors to a retry queue.      *)
MergeAttributed ==
  \A e \in Events : HookKind[e] = "merged" => (hooks[e].acked ~> hooks[e].attributed)
=============================================================================
