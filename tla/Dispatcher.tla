------------------------------ MODULE Dispatcher ------------------------------
(***************************************************************************)
(* The in-process workflow dispatcher of the worker binary,                *)
(* backend/internal/worker/dispatcher.go.  Any number of goroutines call   *)
(* Submit, which runs the workflow on the calling goroutine; Drain stops   *)
(* admission and waits on a sync.WaitGroup for the calls in flight.        *)
(*                                                                         *)
(* Submit reads `draining' and the registry under a read lock, RELEASES    *)
(* the lock, and only then calls wg.Add(1).  The two are separate steps    *)
(* here, as they are in the code.                                          *)
(***************************************************************************)
EXTENDS Integers, FiniteSets

CONSTANTS Callers,          \* goroutines that call Submit
          Drainers,         \* goroutines that call Drain
          Names,            \* workflow names the program may register
          Tenants,          \* non-empty tenant identifiers
          NoTenant,         \* the empty TenantID, refused by Context.Validate
          SupportedQueues,  \* the queue classes of SupportedQueues
          OtherQueue        \* any other queue class

ASSUME FiniteCallers == IsFiniteSet(Callers)

VARIABLES
  workflows,  \* names registered so far
  draining,   \* InMemory.draining
  wg,         \* counter of InMemory.wg
  pc,         \* where each caller is inside Submit
  result,     \* what each caller's last Submit returned
  waiter,     \* the goroutine Drain spawns: go func() { wg.Wait(); close(done) }
  drain,      \* what each Drain call is doing or returned
  panicked,   \* sync: WaitGroup is reused before previous Wait has returned
  joined,     \* history: callers inside the wait group when Drain set the flag
  late        \* history: callers past the check but not yet in the wait group
              \* when the flag was first set

callerVars == <<pc, result>>
drainVars  == <<waiter, drain, joined, late>>
vars == <<workflows, draining, wg, pc, result, waiter, drain, panicked, joined, late>>

CallerStates == {"idle", "admitted", "executing"}
Results == {"none", "nil", "workflow error", "ErrNoTenant", "unknown class",
            "ErrDraining", "ErrUnknownWorkflow"}
WaiterStates == {"none", "enter", "blocked", "woken", "closed"}
DrainStates == {"idle", "waiting", "nil", "ctx error"}

Executing == {c \in Callers : pc[c] = "executing"}
Admitted  == {c \in Callers : pc[c] \in {"admitted", "executing"}}

TypeOK ==
  /\ workflows \subseteq Names
  /\ draining \in BOOLEAN
  /\ wg \in Nat
  /\ pc \in [Callers -> CallerStates]
  /\ result \in [Callers -> Results]
  /\ waiter \in [Drainers -> WaiterStates]
  /\ drain \in [Drainers -> DrainStates]
  /\ panicked \in BOOLEAN
  /\ joined \in [Drainers -> SUBSET Callers]
  /\ late \subseteq Callers

Init ==
  /\ workflows = {}
  /\ draining = FALSE
  /\ wg = 0
  /\ pc = [c \in Callers |-> "idle"]
  /\ result = [c \in Callers |-> "none"]
  /\ waiter = [d \in Drainers |-> "none"]
  /\ drain = [d \in Drainers |-> "idle"]
  /\ panicked = FALSE
  /\ joined = [d \in Drainers |-> {}]
  /\ late = {}

-----------------------------------------------------------------------------
(* Register takes the write lock; a name already present is refused with     *)
(* ErrDuplicateWorkflow and nothing changes.                                 *)
Register(n) ==
  /\ ~panicked
  /\ n \notin workflows
  /\ workflows' = workflows \cup {n}
  /\ UNCHANGED <<draining, wg, callerVars, drainVars, panicked>>

(* The checks Submit makes before it looks at the dispatcher's state.        *)
SubmitInvalid(c, t, class) ==
  /\ ~panicked
  /\ pc[c] = "idle"
  /\ \/ t = NoTenant
     \/ class \notin SupportedQueues
  /\ result' = [result EXCEPT ![c] = IF t = NoTenant THEN "ErrNoTenant" ELSE "unknown class"]
  /\ UNCHANGED <<workflows, draining, wg, pc, drainVars, panicked>>

(* The read-locked section: a draining dispatcher refuses, then an unknown   *)
(* name does, otherwise the caller leaves the lock holding its workflow.     *)
SubmitCheck(c, n) ==
  /\ ~panicked
  /\ pc[c] = "idle"
  /\ \/ /\ draining
        /\ result' = [result EXCEPT ![c] = "ErrDraining"]
        /\ pc' = pc
     \/ /\ ~draining
        /\ n \notin workflows
        /\ result' = [result EXCEPT ![c] = "ErrUnknownWorkflow"]
        /\ pc' = pc
     \/ /\ ~draining
        /\ n \in workflows
        /\ pc' = [pc EXCEPT ![c] = "admitted"]
        /\ result' = [result EXCEPT ![c] = "none"]
  /\ UNCHANGED <<workflows, draining, wg, drainVars, panicked>>

Submit(c, t, class, n) ==
  \/ SubmitInvalid(c, t, class)
  \/ t # NoTenant /\ class \in SupportedQueues /\ SubmitCheck(c, n)

(* Mutant: wg.Add(1) is dropped.                                              *)
SubmitAddDropped(c) ==
  /\ ~panicked
  /\ pc[c] = "admitted"
  /\ pc' = [pc EXCEPT ![c] = "executing"]
  /\ UNCHANGED <<workflows, draining, wg, result, drainVars, panicked>>

(* wg.Add(1), after the lock was released; Execute starts.                   *)
SubmitAdd(c) ==
  /\ ~panicked
  /\ pc[c] = "admitted"
  /\ wg' = wg + 1
  /\ pc' = [pc EXCEPT ![c] = "executing"]
  /\ UNCHANGED <<workflows, draining, result, drainVars, panicked>>

(* wg.Done: the counter falling to zero releases every blocked Wait.         *)
WgDone ==
  /\ wg' = wg - 1
  /\ waiter' = [d \in Drainers |->
                  IF waiter[d] = "blocked" /\ wg = 1 THEN "woken" ELSE waiter[d]]

(* Mutant: Done is not deferred, so a workflow error skips it.                *)
SubmitReturnDoneOnSuccess(c) ==
  /\ ~panicked
  /\ pc[c] = "executing"
  /\ pc' = [pc EXCEPT ![c] = "idle"]
  /\ \/ result' = [result EXCEPT ![c] = "nil"] /\ WgDone
     \/ result' = [result EXCEPT ![c] = "workflow error"] /\ UNCHANGED <<wg, waiter>>
  /\ UNCHANGED <<workflows, draining, drain, panicked, joined, late>>

(* Execute returns, verbatim to the caller, and the deferred Done runs.      *)
SubmitReturn(c) ==
  /\ ~panicked
  /\ pc[c] = "executing"
  /\ pc' = [pc EXCEPT ![c] = "idle"]
  /\ \E r \in {"nil", "workflow error"} : result' = [result EXCEPT ![c] = r]
  /\ WgDone
  /\ UNCHANGED <<workflows, draining, drain, panicked, joined, late>>

-----------------------------------------------------------------------------
(* Mutant: the flag is never set.                                             *)
DrainWithoutFlag(d) ==
  /\ ~panicked
  /\ drain[d] = "idle"
  /\ drain' = [drain EXCEPT ![d] = "waiting"]
  /\ waiter' = [waiter EXCEPT ![d] = "enter"]
  /\ joined' = [joined EXCEPT ![d] = Executing]
  /\ late' = IF draining THEN late ELSE Admitted \ Executing
  /\ UNCHANGED <<workflows, draining, wg, callerVars, panicked>>

(* Drain sets the flag under the write lock and spawns the waiter.           *)
Drain(d) ==
  /\ ~panicked
  /\ drain[d] = "idle"
  /\ draining' = TRUE
  /\ drain' = [drain EXCEPT ![d] = "waiting"]
  /\ waiter' = [waiter EXCEPT ![d] = "enter"]
  /\ joined' = [joined EXCEPT ![d] = Executing]
  /\ late' = IF draining THEN late ELSE Admitted \ Executing
  /\ UNCHANGED <<workflows, wg, callerVars, panicked>>

(* Mutant: done is closed without waiting.                                    *)
WaitEnterNoWait(d) ==
  /\ ~panicked
  /\ waiter[d] = "enter"
  /\ waiter' = [waiter EXCEPT ![d] = "closed"]
  /\ UNCHANGED <<workflows, draining, wg, callerVars, drain, panicked, joined, late>>

(* wg.Wait on entry: it returns at once on a zero counter, else it blocks.   *)
WaitEnter(d) ==
  /\ ~panicked
  /\ waiter[d] = "enter"
  /\ waiter' = [waiter EXCEPT ![d] = IF wg = 0 THEN "closed" ELSE "blocked"]
  /\ UNCHANGED <<workflows, draining, wg, callerVars, drain, panicked, joined, late>>

(* A woken Wait re-reads the counter: an Add since the wake-up is a panic    *)
(* that takes the process down, otherwise `done' is closed.                  *)
WaitReturn(d) ==
  /\ ~panicked
  /\ waiter[d] = "woken"
  /\ \/ /\ wg = 0
        /\ waiter' = [waiter EXCEPT ![d] = "closed"]
        /\ panicked' = panicked
     \/ /\ wg # 0
        /\ panicked' = TRUE
        /\ waiter' = waiter
  /\ UNCHANGED <<workflows, draining, wg, callerVars, drain, joined, late>>

(* The select at the end of Drain: done closed, or the context ended first.  *)
DrainReturn(d) ==
  /\ ~panicked
  /\ drain[d] = "waiting"
  /\ waiter[d] = "closed"
  /\ drain' = [drain EXCEPT ![d] = "nil"]
  /\ UNCHANGED <<workflows, draining, wg, callerVars, waiter, panicked, joined, late>>

DrainExpire(d) ==
  /\ ~panicked
  /\ drain[d] = "waiting"
  /\ drain' = [drain EXCEPT ![d] = "ctx error"]
  /\ UNCHANGED <<workflows, draining, wg, callerVars, waiter, panicked, joined, late>>

-----------------------------------------------------------------------------
CallerStep(c) == SubmitAdd(c) \/ SubmitReturn(c)
DrainStep(d) == WaitEnter(d) \/ WaitReturn(d) \/ DrainReturn(d)

Next ==
  \/ \E n \in Names : Register(n)
  \/ \E c \in Callers, t \in Tenants \cup {NoTenant},
        class \in SupportedQueues \cup {OtherQueue}, n \in Names : Submit(c, t, class, n)
  \/ \E c \in Callers : CallerStep(c)
  \/ \E d \in Drainers : Drain(d) \/ DrainStep(d) \/ DrainExpire(d)

Spec == Init /\ [][Next]_vars

(* Goroutines that can run do run, and workflows return.  Nothing is assumed *)
(* of callers that have not submitted, nor that a context ever expires.      *)
FairSpec ==
  /\ Spec
  /\ \A c \in Callers : WF_vars(CallerStep(c))
  /\ \A d \in Drainers : WF_vars(DrainStep(d))

-----------------------------------------------------------------------------
(* The wait group counts exactly the Submit calls whose workflow is running, *)
(* in every interleaving of Add and Done (dispatcher.go, wg.Add / defer      *)
(* wg.Done).  Drain's answer rests on it.                                    *)
WgCountsInFlight == wg = Cardinality(Executing)

(* Once the flag is up no further call gets in: the set of calls that hold   *)
(* a workflow only shrinks, whatever callers, registrations and other Drain  *)
(* calls do.                                                                 *)
AdmissionClosed == [][draining => Admitted' \subseteq Admitted]_vars

(* A Drain that returned nil has outlived every call that was inside the     *)
(* wait group when it set the flag: none of them is running any more.        *)
DrainWaitsForJoined ==
  \A d \in Drainers : drain[d] = "nil" => joined[d] \cap Executing = {}

(* The window between the check and wg.Add is the only hole: had no caller   *)
(* been in it when the flag went up, the wait group is never misused and a   *)
(* nil Drain leaves nothing running.                                         *)
OnlyLateAddsEscape ==
  late = {} =>
    /\ ~panicked
    /\ (\E d \in Drainers : drain[d] = "nil") => Executing = {}

(* Drain terminates without help from its context: every call it waits for   *)
(* returns and no new one is admitted (or the wait group panics).            *)
DrainTerminates ==
  \A d \in Drainers :
    drain[d] = "waiting" ~> (drain[d] \in {"nil", "ctx error"} \/ panicked)

(* What the comment on Drain says: it "waits for in-flight Submit calls to   *)
(* finish", so a nil Drain means no workflow is running.  The code does not  *)
(* keep it: a caller between its check and wg.Add is not waited for.         *)
DrainQuiescent ==
  (\E d \in Drainers : drain[d] = "nil") => Executing = {}
===============================================================================
