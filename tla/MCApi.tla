--------------------------------- MODULE MCApi ---------------------------------
(***************************************************************************)
(* Two tenants, two releases of the rules, two analyses in flight and      *)
(* uploads of which two differ in trailing white space; the callers of a   *)
(* behaviour keep to one group of routes.                                  *)
(***************************************************************************)
EXTENDS Api, TLC

CONSTANTS t1, t2, h1, h2, e1, e2, e3, e4, e5

Good == [env |-> "prod", level |-> TRUE, grace |-> TRUE, dsn |-> TRUE, reachable |-> TRUE,
         key |-> TRUE, app |-> TRUE, hook |-> TRUE, secret |-> "s1", region |-> TRUE,
         sinks |-> TRUE, runner |-> TRUE]

(* In prod, with one thing wrong or left out; and a bare dev process.        *)
Without(F) == {Good} \cup {[Good EXCEPT ![f] = FALSE] : f \in F}
Dev == [Good EXCEPT !.env = "dev", !.dsn = FALSE, !.hook = FALSE, !.key = FALSE]
Rekeyed == [Good EXCEPT !.secret = "s2"]

Mix(routes, envs, store, requests, boots, until) ==
  [routes |-> routes, envs |-> envs, store |-> store, requests |-> requests,
   starts |-> boots, until |-> until]
Hooks ==
  Mix({"webhook"}, Without({"level", "dsn", "reachable", "hook"}) \cup {Dev}, "memory", 6, 2, 0)
MCMixes ==
  {Mix({"analyze", "share"}, Without({"region"}), st, 4, 2, 4) : st \in {"memory", "pg"}}
  \cup {Mix({"issue", "whoami"}, {Good, Rekeyed}, "memory", 4, 2, 4),
        Mix({"ingest"}, Without({"sinks"}), "memory", 3, 1, 0),
        Hooks,
        Mix({"preflight"}, Without({"runner"}), "memory", 1, 1, 0),
        Mix(Public \cup {"summary", "preview", "fixes", "health"}, {Good, Dev}, "memory", 1, 1, 0)}

(* Nothing but webhook deliveries.                                           *)
HookMixes == {Hooks}

Body(id, read, yaml, req) == [id |-> id, read |-> read, yaml |-> yaml, requests |-> req]
MCBodies == {Body("a", "ok", TRUE, TRUE), Body("a ", "ok", TRUE, TRUE), Body("b", "ok", TRUE, FALSE),
             Body("c", "ok", FALSE, FALSE), Body("d", "big", TRUE, TRUE), Body("e", "cut", TRUE, TRUE)}
MCHash == [b \in MCBodies |-> IF b.id \in {"a", "a "} THEN h1 ELSE h2]

MCHookKind == e1 :> "merged" @@ e2 :> "foreign" @@ e3 :> "open" @@ e4 :> "junk" @@ e5 :> "push"

MCCallers == [header : {Nobody, "not-a-uuid", t1}, cert : {<<>>, <<"other", t2>>}]

Batch(read, t, p, c) == [read |-> read, tenant |-> t, prom |-> p, cur |-> c]
MCBatches ==
  {Batch("ok", Absent, p, c) : p \in PromParts, c \in CURParts}
  \cup {Batch(r, Absent, "matrix", "rows") : r \in {"big", "junk"}}
  \cup {Batch("ok", t, "matrix", "rows") : t \in {t1, t2}}

Ask == [read |-> "ok", tenant |-> t1, workload |-> TRUE, chart |-> TRUE, yaml |-> TRUE,
        code |-> TRUE, state |-> Absent]
MCAsks == {Ask} \cup {[Ask EXCEPT ![f] = FALSE] : f \in {"workload", "chart", "yaml", "code"}}
          \cup {[Ask EXCEPT !.read = r] : r \in {"big", "junk"}}
          \cup {[Ask EXCEPT !.tenant = Absent], [Ask EXCEPT !.state = "lost"]}

(* 1.28, 1.27, 2.0, what is no version, 1.x, 1.28+a7, 1.27+abc123,      *)
(* 1.x30 and 0.99.                                                           *)
Version(major, minor, shift, value) ==
  [major |-> major, minor |-> minor, shift |-> shift, value |-> value]
Versions == {Version(1, 28, 1, 0), Version(1, 27, 1, 0), Version(2, 0, 1, 0), Version(Missing, 3, 1, 0),
             Version(1, Missing, 1, 0), Version(1, 28, 10, 7), Version(1, 27, 1000, 123),
             Version(1, Missing, 100, 30), Version(0, 99, 1, 0)}
Sound == [version |-> Version(1, 28, 1, 0), prom |-> TRUE, rbac |-> TRUE,
          karpenter |-> TRUE, autoscaler |-> TRUE, unsupported |-> FALSE, broken |-> {}, late |-> 8]

(* The cluster differs in one respect; then a probe fails or comes too late. *)
Clusters == {[Sound EXCEPT !.version = v] : v \in Versions}
  \cup {[Sound EXCEPT ![f] = FALSE] : f \in {"prom", "rbac", "karpenter", "autoscaler"}}
  \cup {[Sound EXCEPT !.unsupported = TRUE]}
MCWorlds == {[w EXCEPT !.broken = b, !.late = n] :
               w \in Clusters, b \in {{}} \cup {{Checks[i]} : i \in 1..7}, n \in {1, 3, 6, 8}}
=============================================================================
