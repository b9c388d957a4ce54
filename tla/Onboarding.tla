------------------------------ MODULE Onboarding ------------------------------
(***************************************************************************)
(* The onboarding state of one tenant: the state machine of                *)
(* onboarding/state.go, the service and in-memory store of                 *)
(* onboarding/store.go behind the handlers of onboarding/handler.go, and   *)
(* the nudge workflow of worker/workflows/onboarding_nudge.go.             *)
(*                                                                         *)
(* Service.Transition is a read, a change and a write, each under a lock   *)
(* of its own at most.  Store.Get copies the State struct, but its Reached *)
(* field is a map, so every reader of one record shares it: the model      *)
(* keeps the maps on a heap, addressed by the request that made them.      *)
(* Writing such a map while another request uses it is a data race, which  *)
(* the Go runtime may turn into a fatal error of the process.              *)
(***************************************************************************)
EXTENDS Integers, FiniteSets

CONSTANTS Handlers,   \* requests under way at once
          Targets,    \* the "to" of transition requests, unknown stages too
          Reasons,    \* the nudge reasons the scheduler submits
          VCSAfter, AgentAfter, FixAfter,  \* when nudges fire: 1, 3 and 7 days
          MaxTime,    \* bound on the clock, in days
          Nil

Stages == <<"signed_up", "vcs_connected", "repo_selected", "first_pr_analyzed",
            "agent_installed", "first_apply_fix", "first_receipt_issued">>
StageSet == {Stages[i] : i \in DOMAIN Stages}
Sides == {"api", "worker"}
Refs == Sides \X Handlers

Records == [current : StageSet, ref : Refs]

Configured ==
  /\ MaxTime \in Nat /\ VCSAfter \in Nat /\ AgentAfter \in Nat /\ FixAfter \in Nat
  /\ Reasons \subseteq {"24h_no_vcs", "72h_no_agent", "7d_no_apply_fix"}
  /\ Nil \notin Nat /\ Nil \notin Records

ASSUME OnboardingAssumption == Configured

VARIABLES
  now,
  stores,   \* per process the tenant's record, or Nil
  heap,     \* the Reached maps
  req,      \* the requests
  nudged,   \* the reason of the last notification, until the next request
  nudgeSide,  \* whose store nudges read: a shared one, or the worker's own as wired
  acked,      \* history: highest stage index a 200 acknowledged since the api started
  overlap     \* history: two requests were under way at once

onboardingVars == <<now, stores, heap, req, nudged, nudgeSide, acked, overlap>>

Index(s) ==
  IF s \in StageSet THEN (CHOOSE i \in DOMAIN Stages : Stages[i] = s) - 1 ELSE -1

NoStages == [s \in StageSet |-> Nil]
New(t) == [NoStages EXCEPT !["signed_up"] = t]
Idle == [pc |-> "idle", op |-> "read", cur |-> Nil, ref |-> Nil, t |-> 0]

OnboardingInit ==
  /\ now = 0
  /\ stores = [side \in Sides |-> Nil]
  /\ heap = [r \in Refs |-> NoStages]
  /\ req = [h \in Handlers |-> Idle]
  /\ nudged = Nil
  /\ nudgeSide \in Sides
  /\ acked = 0
  /\ overlap = FALSE

Side(h) == IF req[h].op \in Reasons THEN nudgeSide ELSE "api"
Reached(h) == heap[req[h].ref]

Begin(h, op) ==
  /\ req[h].pc = "idle"
  /\ req' = [req EXCEPT ![h] = [Idle EXCEPT !.pc = "get", !.op = op, !.t = now]]
  /\ overlap' = (overlap \/ \E g \in Handlers : g # h /\ req[g].pc # "idle")
  /\ nudged' = Nil
  /\ UNCHANGED <<now, stores, heap, nudgeSide, acked>>

(* Service.Get: the first read of a tenant makes a fresh record ...          *)
Get(h) ==
  /\ req[h].pc = "get"
  /\ LET found == stores[Side(h)]
         mine  == <<Side(h), h>>
     IN  IF found # Nil
         THEN /\ req' = [req EXCEPT ![h].pc = "use", ![h].cur = found.current,
                                    ![h].ref = found.ref]
              /\ heap' = heap
         ELSE /\ req' = [req EXCEPT ![h].pc = "create", ![h].cur = "signed_up",
                                    ![h].ref = mine]
              /\ heap' = [heap EXCEPT ![mine] = New(now)]
  /\ UNCHANGED <<now, stores, nudged, acked, nudgeSide, overlap>>

(* ... and stores it, whatever was stored meanwhile.                         *)
Create(h) ==
  /\ req[h].pc = "create"
  /\ stores' = [stores EXCEPT ![Side(h)] = [current |-> req[h].cur, ref |-> req[h].ref]]
  /\ req' = [req EXCEPT ![h].pc = "use"]
  /\ UNCHANGED <<now, heap, nudged, acked, nudgeSide, overlap>>

(* GetState and GetHealth render the record.                                 *)
Read(h) ==
  /\ req[h].pc = "use" /\ req[h].op = "read"
  /\ req' = [req EXCEPT ![h] = Idle]
  /\ UNCHANGED <<now, stores, heap, nudged, acked, nudgeSide, overlap>>

Stuck(since, t, days) == since # Nil /\ t - since >= days

(* Mutant: a tenant that has the agent is still told to install it.           *)
shouldFireLate(reason, current, reached, t) ==
  CASE reason = "24h_no_vcs" ->
         current = "signed_up" /\ Stuck(reached["signed_up"], t, VCSAfter)
    [] reason = "72h_no_agent" ->
         /\ current \in {"repo_selected", "first_pr_analyzed", "agent_installed"}
         /\ Stuck(reached[current], t, AgentAfter)
    [] reason = "7d_no_apply_fix" ->
         current = "agent_installed" /\ Stuck(reached["agent_installed"], t, FixAfter)

shouldFire(reason, current, reached, t) ==
  CASE reason = "24h_no_vcs" ->
         current = "signed_up" /\ Stuck(reached["signed_up"], t, VCSAfter)
    [] reason = "72h_no_agent" ->
         current \in {"repo_selected", "first_pr_analyzed"} /\ Stuck(reached[current], t, AgentAfter)
    [] reason = "7d_no_apply_fix" ->
         current = "agent_installed" /\ Stuck(reached["agent_installed"], t, FixAfter)

(* The rest of OnboardingNudge.Execute.                                      *)
Nudge(h) ==
  /\ req[h].pc = "use" /\ req[h].op \in Reasons
  /\ nudged' = IF shouldFire(req[h].op, req[h].cur, Reached(h), req[h].t)
               THEN req[h].op ELSE nudged
  /\ req' = [req EXCEPT ![h] = Idle]
  /\ UNCHANGED <<now, stores, heap, acked, nudgeSide, overlap>>

(* Mutant: a move to an earlier stage is accepted.                            *)
AdvanceAnywhere(h) ==
  /\ req[h].pc = "use" /\ req[h].op \in Targets
  /\ req' = IF Index(req[h].op) < 0 THEN [req EXCEPT ![h] = Idle]
            ELSE [req EXCEPT ![h].pc = IF Reached(h)[req[h].op] = Nil THEN "record" ELSE "put",
                             ![h].t = now]
  /\ UNCHANGED <<now, stores, heap, nudged, acked, nudgeSide, overlap>>

(* State.Advance on the copy: an unknown or an earlier stage is refused; the *)
(* time of a stage is recorded on the first arrival only.                    *)
Advance(h) ==
  /\ req[h].pc = "use" /\ req[h].op \in Targets
  /\ req' = IF Index(req[h].op) < 0 \/ Index(req[h].op) < Index(req[h].cur)
            THEN [req EXCEPT ![h] = Idle]
            ELSE [req EXCEPT ![h].pc = IF Reached(h)[req[h].op] = Nil THEN "record" ELSE "put",
                             ![h].t = now]
  /\ UNCHANGED <<now, stores, heap, nudged, acked, nudgeSide, overlap>>

(* Mutant: the arrival is stamped with a relative time.                       *)
RecordRelative(h) ==
  /\ req[h].pc = "record"
  /\ heap' = [heap EXCEPT ![req[h].ref][req[h].op] = req[h].t - Reached(h)["signed_up"]]
  /\ req' = [req EXCEPT ![h].pc = "put"]
  /\ UNCHANGED <<now, stores, nudged, acked, nudgeSide, overlap>>

(* The write to the shared map.                                              *)
Record(h) ==
  /\ req[h].pc = "record"
  /\ heap' = [heap EXCEPT ![req[h].ref][req[h].op] = req[h].t]
  /\ req' = [req EXCEPT ![h].pc = "put"]
  /\ UNCHANGED <<now, stores, nudged, acked, nudgeSide, overlap>>

Put(h) ==
  /\ req[h].pc = "put"
  /\ stores' = [stores EXCEPT ![Side(h)] = [current |-> req[h].op, ref |-> req[h].ref]]
  /\ acked' = IF Index(req[h].op) > acked THEN Index(req[h].op) ELSE acked
  /\ req' = [req EXCEPT ![h].pc = "respond"]
  /\ UNCHANGED <<now, heap, nudged, nudgeSide, overlap>>

(* buildStateResponse walks the map.                                         *)
Respond(h) ==
  /\ req[h].pc = "respond"
  /\ req' = [req EXCEPT ![h] = Idle]
  /\ UNCHANGED <<now, stores, heap, nudged, acked, nudgeSide, overlap>>

(* A request writes a map that another one is using.                         *)
Racing ==
  \E g, h \in Handlers :
    /\ g # h /\ req[g].ref = req[h].ref
    /\ req[g].pc = "record" /\ req[h].pc \in {"use", "record", "respond"}

(* The runtime notices the race and kills the api; its memory is gone.       *)
FatalRace ==
  /\ Racing
  /\ stores' = [stores EXCEPT !["api"] = Nil]
  /\ req' = [h \in Handlers |-> IF Side(h) = "api" THEN Idle ELSE req[h]]
  /\ heap' = [r \in Refs |-> IF r[1] = "api" THEN NoStages ELSE heap[r]]
  /\ acked' = 0
  /\ UNCHANGED <<now, nudged, nudgeSide, overlap>>

Tick ==
  /\ now < MaxTime
  /\ now' = now + 1
  /\ UNCHANGED <<stores, heap, req, nudged, acked, nudgeSide, overlap>>

OnboardingNext ==
  \/ \E h \in Handlers :
       \/ \E op \in Targets \cup Reasons \cup {"read"} : Begin(h, op)
       \/ Get(h) \/ Create(h) \/ Read(h) \/ Nudge(h)
       \/ Advance(h) \/ Record(h) \/ Put(h) \/ Respond(h)
  \/ FatalRace
  \/ Tick

OnboardingSpec == OnboardingInit /\ [][OnboardingNext]_onboardingVars

-----------------------------------------------------------------------------
(* A stored record's stage has an arrival time in the record's own map, even *)
(* when requests overwrite each other: shouldFire and GetHealth read it.     *)
CurrentReached ==
  \A side \in Sides : stores[side] # Nil => heap[stores[side].ref][stores[side].current] # Nil

(* No arrival of a stored record is older than its signup, so activation and *)
(* time-in-stage are never negative, races between requests included.        *)
SignupFirst ==
  \A side \in Sides : stores[side] # Nil =>
    LET reached == heap[stores[side].ref]
    IN  reached["signed_up"] # Nil /\ \A s \in StageSet : reached[s] # Nil => reached["signed_up"] <= reached[s]

(* Forward-only (state.go, "rewinds are rejected"): a stage a client was     *)
(* told the tenant has reached is never lost again.                          *)
AckedKept == stores["api"] # Nil => Index(stores["api"].current) >= acked

(* It holds as long as no two requests overlap.                              *)
AckedKeptAlone == ~overlap => AckedKept

(* Arrivals are in stage order as long as no two requests overlap, so the    *)
(* time to the first receipt is never negative.                              *)
ReachedInOrder ==
  stores["api"] # Nil /\ ~overlap =>
    LET reached == heap[stores["api"].ref]
    IN  \A s, u \in StageSet :
          Index(s) < Index(u) /\ reached[s] # Nil /\ reached[u] # Nil => reached[s] <= reached[u]

(* What the health view reads from a stored record makes sense: the current  *)
(* stage has an arrival, none precedes the signup, and without overlapping   *)
(* requests they come in stage order.                                        *)
RecordInOrder == CurrentReached /\ SignupFirst /\ ReachedInOrder

(* With a store the worker shares with the api, and one request at a time, a *)
(* nudge goes out only to a tenant that has not been acknowledged past the   *)
(* step it asks for.                                                         *)
NudgeHonest ==
  [][nudgeSide = "api" /\ ~overlap /\ nudged' \notin {nudged, Nil} =>
       acked < CASE nudged' = "24h_no_vcs" -> Index("vcs_connected")
                 [] nudged' = "72h_no_agent" -> Index("agent_installed")
                 [] nudged' = "7d_no_apply_fix" -> Index("first_apply_fix")]_onboardingVars
===============================================================================
