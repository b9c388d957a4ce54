---------------------------- MODULE AgentTelemetry ----------------------------
(***************************************************************************)
(* How the dashboard learns that a cluster's agent is alive: the snapshot  *)
(* loop of cmd/agent (main.go, populate.go), the provisioner detection it  *)
(* runs once per process, the post of agent/egress with its short-lived    *)
(* token (agent/ident), the handler and Postgres sink of ingestion, and    *)
(* the health pill of dashboard/agent_pg.go.                               *)
(*                                                                         *)
(* Several agent processes of one cluster may run at once (a rolling       *)
(* update) and each has a clock of its own.  Times are kept as ages, seen  *)
(* from the api's clock; an age stops growing at Cap, and a time stamped   *)
(* by a clock that runs ahead has a negative age.                          *)
(***************************************************************************)
EXTENDS Integers, FiniteSets

CONSTANTS Agents,       \* agent processes
          Offsets,      \* how far an agent's clock may run ahead (or behind)
          Intervals,    \* --snapshot-interval, reported as the data freshness
          TTL,          \* life of a token, 15 minutes
          Skew,         \* what the verifier allows clocks to differ, 30 seconds
          Hour, SixHours,  \* the pill's thresholds
          Cap,          \* bound on ages
          Delays,       \* age a tick may reach before its snapshot is sent
          MaxPosts,     \* bound on posts under way
          MaxBoots,     \* bound on starts of a process
          Nil

Classes == {"karpenter", "autoscaler", "static"}
Unknown == ""

ASSUME TelemetryAssumption ==
  /\ Offsets \subseteq Int /\ Intervals \subseteq Nat /\ Delays \subseteq Nat
  /\ TTL \in Nat /\ Skew \in Nat
  /\ Hour \in Nat /\ SixHours \in Nat /\ Cap \in Nat /\ MaxPosts \in Nat /\ MaxBoots \in Nat
  /\ TTL + Skew <= Hour /\ Hour <= SixHours /\ SixHours < Cap
  /\ Nil \notin Int

VARIABLES
  proc,    \* the agent processes
  posts,   \* snapshots under way to the api
  row,     \* the cluster's row of table agents, or Nil
  class,   \* clusters.node_provisioner_class
  heard,   \* history: age of the last accepted snapshot
  probed   \* history: the classes that successful detections found

vars == <<proc, posts, row, class, heard, probed>>

(* boot counts the starts of a process, 0 before the first; detected and      *)
(* class are the populator's, behind its sync.Once.                          *)
Down == [up |-> FALSE, boot |-> 0, ahead |-> 0, interval |-> 0,
         detected |-> FALSE, class |-> Unknown]

Init ==
  /\ proc = [a \in Agents |-> Down]
  /\ posts = {}
  /\ row = Nil
  /\ class = Unknown
  /\ heard = Cap
  /\ probed = {}

Older(t) == IF t >= Cap THEN t ELSE t + 1

-----------------------------------------------------------------------------
(* A process starts, with a new populator; what it knew is gone.             *)
Start(a) ==
  /\ ~proc[a].up /\ proc[a].boot < MaxBoots
  /\ \E ahead \in Offsets, i \in Intervals :
       proc' = [proc EXCEPT ![a] = [Down EXCEPT !.up = TRUE, !.boot = proc[a].boot + 1,
                                                !.ahead = ahead, !.interval = i]]
  /\ UNCHANGED <<posts, row, class, heard, probed>>

(* A process stops or crashes; a post it sent may still arrive.              *)
Stop(a) ==
  /\ proc[a].up
  /\ proc' = [proc EXCEPT ![a] = [Down EXCEPT !.boot = proc[a].boot]]
  /\ UNCHANGED <<posts, row, class, heard, probed>>

(* Mutant: the class Detect returns beside an error is published.             *)
DetectErrorIsStatic(p, found) ==
  IF p.detected THEN p
  ELSE [p EXCEPT !.detected = TRUE, !.class = IF found = Unknown THEN "static" ELSE found]

(* provisioner.Detect under sync.Once, as Build calls it: found is the class *)
(* the cluster runs by then, which its owner may have changed, or Unknown    *)
(* for an error, after which this process never asks again.                  *)
Detect(p, found) ==
  IF p.detected THEN p ELSE [p EXCEPT !.detected = TRUE, !.class = found]

(* The snapshot that Build makes of a tick of age late.  The inventory and   *)
(* the Prometheus samples are best effort, and the api does not keep them.   *)
(* The tick carries the agent's clock.                                       *)
Build(a, q, late) ==
  [agent |-> a, boot |-> q.boot, age |-> late - q.ahead, fresh |-> q.interval, class |-> q.class]

(* PostSnapshot signs a token, with the agent's clock too, and sends.        *)
PostSnapshot(snap, q) == [snap |-> snap, issued |-> -q.ahead]

(* One turn of runSnapshotLoop: it takes a tick, which may have waited while *)
(* the turn before it was busy, builds a snapshot and posts it.              *)
Snapshot(a) ==
  /\ proc[a].up
  /\ Cardinality(posts) < MaxPosts
  /\ \E late \in Delays, found \in Classes \cup {Unknown} :
       LET q == Detect(proc[a], found) IN
       /\ proc' = [proc EXCEPT ![a] = q]
       /\ posts' = posts \cup {PostSnapshot(Build(a, q, late), q)}
       /\ probed' = IF proc[a].detected \/ found = Unknown THEN probed
                    ELSE probed \cup {found}
  /\ UNCHANGED <<row, class, heard>>

-----------------------------------------------------------------------------
(* Verifier.Verify: issued at most Skew ahead, expired at most Skew ago.     *)
Verify(p) == p.issued >= -Skew /\ p.issued <= TTL + Skew

classifyStatus(fresh) ==
  CASE fresh > SixHours -> "offline"
    [] fresh > Hour /\ fresh <= SixHours -> "degraded"
    [] fresh <= Hour -> "healthy"

(* The Snapshot handler on a post whose token verifies, and the transaction  *)
(* of Persist: last_seen_at is the time of capture, whatever the row had.    *)
Accept(p) ==
  /\ p \in posts /\ Verify(p)
  /\ row' = [seen |-> p.snap.age, status |-> classifyStatus(p.snap.fresh), fresh |-> p.snap.fresh]
  /\ class' = IF p.snap.class # Unknown THEN p.snap.class ELSE class
  /\ heard' = 0
  /\ posts' = posts \ {p}
  /\ UNCHANGED <<proc, probed>>

(* The post is lost, refused by the handler, or its transaction rolls back.  *)
Lose(p) ==
  /\ p \in posts
  /\ posts' = posts \ {p}
  /\ UNCHANGED <<proc, row, class, heard, probed>>

Tick ==
  /\ posts' = {[p EXCEPT !.snap.age = Older(@), !.issued = Older(@)] : p \in posts}
  /\ row' = IF row = Nil THEN Nil ELSE [row EXCEPT !.seen = Older(@)]
  /\ heard' = Older(heard)
  /\ UNCHANGED <<proc, class, probed>>

Next ==
  \/ \E a \in Agents : Start(a) \/ Stop(a) \/ Snapshot(a)
  \/ \E p \in posts : Accept(p) \/ Lose(p)
  \/ Tick

Spec == Init /\ [][Next]_vars

-----------------------------------------------------------------------------
(* recomputeFreshness: the age of the check-in when that is more than the    *)
(* agent reported.                                                           *)
recomputeFreshness(r) ==
  LET wall == IF r.seen < 0 THEN 0 ELSE r.seen IN IF wall > r.fresh THEN wall ELSE r.fresh

(* Mutant: an outage of more than six hours falls through to the stored      *)
(* status.                                                                   *)
degradeStatusFallsThrough(stored, live) ==
  IF live > Hour /\ live <= SixHours /\ stored = "healthy" THEN "degraded" ELSE stored

(* Mutant: the stored status is taken as it is.                               *)
degradeStatusStored(stored, live) == stored

degradeStatus(stored, live) ==
  CASE live > SixHours -> "offline"
    [] live > Hour /\ live <= SixHours /\ stored = "healthy" -> "degraded"
    [] OTHER -> stored

(* Latest: what the dashboard shows.                                         *)
Pill == IF row = Nil THEN "offline" ELSE degradeStatus(row.status, recomputeFreshness(row))

-----------------------------------------------------------------------------
Statuses == {"healthy", "degraded", "offline"}

Process == [up : BOOLEAN, boot : 0..MaxBoots, ahead : Offsets \cup {0},
            interval : Intervals \cup {0}, detected : BOOLEAN, class : Classes \cup {Unknown}]

Snap == [agent : Agents, boot : 0..MaxBoots, age : Int, fresh : Intervals \cup {0},
         class : Classes \cup {Unknown}]

Post == [snap : Snap, issued : Int]

(* The classes and statuses are those of the CHECK constraints of tables     *)
(* clusters and agents: another spelling rolls back every snapshot.          *)
TypeOK ==
  /\ proc \in [Agents -> Process]
  /\ posts \subseteq Post
  /\ row = Nil \/ row \in [seen : Int, status : Statuses, fresh : Intervals \cup {0}]
  /\ class \in Classes \cup {Unknown}
  /\ heard \in 0..Cap
  /\ probed \subseteq Classes

(* A check-in is never further in the future than the verifier allows, for   *)
(* any clock of any agent and any delay: last_seen_at is stamped by the      *)
(* agent, but before the token that has to verify.                           *)
CheckinNotAhead == row # Nil => row.seen >= -Skew

(* The pill does not lie (agent_pg.go, "the pill must show the live picture  *)
(* or it lies about cluster state"): while it is green, an agent was heard   *)
(* within the hour, give or take the skew, whatever its clock says.          *)
HealthyMeansHeard == Pill = "healthy" => heard <= Hour + Skew

(* Nothing but an accepted snapshot improves the pill: as time passes it     *)
(* only goes from healthy to degraded to offline.                            *)
Rank(status) == CASE status = "healthy" -> 0 [] status = "degraded" -> 1 [] OTHER -> 2
OnlyNewsHeals == [][heard' # 0 => Rank(Pill') >= Rank(Pill)]_vars

(* The class in table clusters is one that a detection really found: a       *)
(* failed detection publishes nothing, not the static class Detect returns   *)
(* beside its error, and takes nothing back.                                 *)
ClassFromProbe == class # Unknown => class \in probed

(* "One-shot detection at boot, cached forever" (cmd/agent/probe.go): all    *)
(* snapshots of one process name the same class, or all name none.           *)
OneClassPerBoot ==
  \A p, q \in posts : p.snap.agent = q.snap.agent /\ p.snap.boot = q.snap.boot => p.snap.class = q.snap.class
===============================================================================
