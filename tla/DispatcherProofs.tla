--------------------------- MODULE DispatcherProofs ---------------------------
(***************************************************************************)
(* Proofs about Dispatcher for any finite set of callers and any sets of   *)
(* drainers, names, tenants and queue classes; and about Onboarding, whose *)
(* nudge is one of the workflows dispatched, for any requests and clock.   *)
(***************************************************************************)
EXTENDS Dispatcher, Onboarding, FiniteSetTheorems, TLAPS

(* How the flag, the Drain calls and their waiters relate.                   *)
DrainPhases ==
  \A d \in Drainers :
    /\ drain[d] # "idle" => draining
    /\ drain[d] = "idle" => waiter[d] = "none"
    /\ drain[d] = "nil" => waiter[d] = "closed"

(* A caller Drain found in the wait group can leave it but not come back.    *)
JoinedCannotReturn ==
  \A d \in Drainers :
    drain[d] # "idle" =>
      /\ \A c \in joined[d] : pc[c] # "admitted"
      /\ waiter[d] \in {"woken", "closed"} => joined[d] \cap Executing = {}

(* With the flag up, a caller still on its way to wg.Add was already on its  *)
(* way when the flag went up; without such callers a released Wait means     *)
(* that nothing runs.                                                        *)
LateCallers ==
  /\ draining => \A c \in Callers : pc[c] = "admitted" => c \in late
  /\ ~draining => late = {}
  /\ late = {} =>
       /\ ~panicked
       /\ (\E d \in Drainers : waiter[d] \in {"woken", "closed"}) => Executing = {}

IndInv ==
  /\ TypeOK
  /\ WgCountsInFlight
  /\ DrainPhases
  /\ JoinedCannotReturn
  /\ LateCallers

(* Executing is finite, and its size moves with one caller's state.          *)
LEMMA ExecutingFinite == IsFiniteSet(Executing) /\ Cardinality(Executing) \in Nat
  BY FiniteCallers, FS_Subset, FS_CardinalityType DEF Executing

(* The wait group is empty exactly when no workflow is running.              *)
LEMMA WgZero == WgCountsInFlight => (wg = 0 <=> Executing = {})
  BY ExecutingFinite, FS_EmptySet DEF WgCountsInFlight

(* Init establishes the inductive invariant: no caller has submitted yet.    *)
LEMMA InitIndInv == Init => IndInv
<1> SUFFICES ASSUME Init PROVE IndInv
  OBVIOUS
<1>1. Executing = {}
  BY DEF Init, Executing
<1>2. TypeOK
  BY DEF Init, TypeOK, CallerStates, Results, WaiterStates, DrainStates
<1>3. WgCountsInFlight
  BY <1>1, FS_EmptySet DEF Init, WgCountsInFlight
<1>4. DrainPhases /\ JoinedCannotReturn /\ LateCallers
  BY <1>1 DEF Init, DrainPhases, JoinedCannotReturn, LateCallers
<1> QED
  BY <1>2, <1>3, <1>4 DEF IndInv

(* Each action keeps the types; SubmitReturn needs a positive counter.       *)
LEMMA TypeSubmit ==
  ASSUME TypeOK, NEW c \in Callers, NEW t, NEW class, NEW n, Submit(c, t, class, n)
  PROVE  TypeOK'
<1>1. CASE SubmitInvalid(c, t, class)
  BY <1>1 DEF TypeOK, SubmitInvalid, drainVars, Results
<1>2. CASE SubmitCheck(c, n)
  BY <1>2 DEF TypeOK, SubmitCheck, drainVars, Results, CallerStates
<1> QED
  BY <1>1, <1>2 DEF Submit

(* Joining the wait group keeps the types.                                   *)
LEMMA TypeAdd ==
  ASSUME TypeOK, NEW c \in Callers, SubmitAdd(c) PROVE TypeOK'
BY DEF TypeOK, SubmitAdd, drainVars, CallerStates

(* So does a Submit that returns, early or after its workflow.               *)
LEMMA TypeReturn ==
  ASSUME TypeOK, wg # 0, NEW c \in Callers, SubmitReturn(c) PROVE TypeOK'
<1>a. wg' = wg - 1 /\ wg \in Nat
  BY DEF TypeOK, SubmitReturn, WgDone
<1>b. wg' \in Nat
  BY <1>a
<1>c. waiter' \in [Drainers -> WaiterStates]
  <2>1. ASSUME NEW d \in Drainers
        PROVE (IF waiter[d] = "blocked" /\ wg = 1 THEN "woken" ELSE waiter[d]) \in WaiterStates
    BY DEF TypeOK, WaiterStates
  <2> QED
    BY <2>1 DEF SubmitReturn, WgDone
<1>2. pc' \in [Callers -> CallerStates] /\ result' \in [Callers -> Results]
  BY DEF TypeOK, SubmitReturn, CallerStates, Results
<1> QED
  BY <1>b, <1>c, <1>2 DEF TypeOK, SubmitReturn

(* So does a registration, accepted or refused.                              *)
LEMMA TypeRegister ==
  ASSUME TypeOK, NEW n \in Names, Register(n) PROVE TypeOK'
BY DEF TypeOK, Register, callerVars, drainVars

(* So do the steps of Drain.                                                 *)
LEMMA TypeDrain ==
  ASSUME TypeOK, NEW d \in Drainers, Drain(d) \/ DrainStep(d) \/ DrainExpire(d)
  PROVE  TypeOK'
<1>1. CASE Drain(d)
  BY <1>1 DEF TypeOK, Drain, callerVars, Executing, Admitted, WaiterStates, DrainStates
<1>2. CASE WaitEnter(d)
  BY <1>2 DEF TypeOK, WaitEnter, callerVars, WaiterStates
<1>3. CASE WaitReturn(d)
  BY <1>3 DEF TypeOK, WaitReturn, callerVars, WaiterStates
<1>4. CASE DrainReturn(d) \/ DrainExpire(d)
  BY <1>4 DEF TypeOK, DrainReturn, DrainExpire, callerVars, DrainStates
<1> QED
  BY <1>1, <1>2, <1>3, <1>4 DEF DrainStep

(* Every step of the dispatcher keeps TypeOK, given the wait group's count.  *)
LEMMA TypeStep == IndInv /\ [Next]_vars => TypeOK'
<1> SUFFICES ASSUME IndInv, [Next]_vars PROVE TypeOK'
  OBVIOUS
<1>t. TypeOK
  BY DEF IndInv
<1>1. ASSUME NEW c \in Callers, SubmitReturn(c) PROVE TypeOK'
  <2>1. wg # 0
    BY <1>1, WgZero DEF IndInv, SubmitReturn, Executing
  <2> QED
    BY <1>1, <1>t, <2>1, TypeReturn
<1>2. CASE UNCHANGED vars
  BY <1>2, <1>t DEF TypeOK, vars
<1> QED
  BY <1>1, <1>2, <1>t, TypeSubmit, TypeAdd, TypeRegister, TypeDrain DEF Next, CallerStep

(* wg.Add and wg.Done move the counter exactly when a caller starts or ends. *)
LEMMA CountStep == IndInv /\ [Next]_vars => WgCountsInFlight'
<1> SUFFICES ASSUME IndInv, [Next]_vars PROVE WgCountsInFlight'
  OBVIOUS
<1>a. wg \in Nat /\ pc \in [Callers -> CallerStates] /\ wg = Cardinality(Executing)
  BY DEF IndInv, TypeOK, WgCountsInFlight
<1>1. ASSUME NEW c \in Callers, SubmitAdd(c) PROVE WgCountsInFlight'
  <2>1. c \notin Executing /\ Executing' = Executing \cup {c}
    BY <1>1, <1>a DEF SubmitAdd, Executing
  <2>2. Cardinality(Executing') = Cardinality(Executing) + 1
    BY <2>1, ExecutingFinite, FS_AddElement
  <2> QED
    BY <1>1, <1>a, <2>2 DEF SubmitAdd, WgCountsInFlight
<1>2. ASSUME NEW c \in Callers, SubmitReturn(c) PROVE WgCountsInFlight'
  <2>1. c \in Executing /\ Executing' = Executing \ {c}
    BY <1>2, <1>a DEF SubmitReturn, Executing
  <2>2. Cardinality(Executing') = Cardinality(Executing) - 1
    BY <2>1, ExecutingFinite, FS_RemoveElement
  <2> QED
    BY <1>2, <1>a, <2>2 DEF SubmitReturn, WgDone, WgCountsInFlight
<1>3. ASSUME wg' = wg, Executing' = Executing PROVE WgCountsInFlight'
  BY <1>3, <1>a DEF WgCountsInFlight
<1>4. ASSUME NEW c \in Callers, NEW t, NEW class, NEW n \in Names, Submit(c, t, class, n)
      PROVE wg' = wg /\ Executing' = Executing
  BY <1>4, <1>a DEF Submit, SubmitInvalid, SubmitCheck, Executing
<1>5. ASSUME NEW n \in Names, Register(n) PROVE wg' = wg /\ Executing' = Executing
  BY <1>5 DEF Register, callerVars, Executing
<1>6. ASSUME NEW d \in Drainers, Drain(d) \/ DrainStep(d) \/ DrainExpire(d)
      PROVE wg' = wg /\ Executing' = Executing
  BY <1>6 DEF Drain, DrainStep, WaitEnter, WaitReturn, DrainReturn, DrainExpire, callerVars, Executing
<1>7. CASE UNCHANGED vars
  BY <1>7, <1>3 DEF vars, Executing
<1> QED
  BY <1>1, <1>2, <1>3, <1>4, <1>5, <1>6, <1>7 DEF Next, CallerStep

(* Drain sets the flag before it leaves the idle state, and its answer nil   *)
(* comes only after its waiter closed the channel.                           *)
LEMMA PhasesStep == IndInv /\ [Next]_vars => DrainPhases'
<1> SUFFICES ASSUME IndInv, [Next]_vars PROVE DrainPhases'
  OBVIOUS
<1>t. TypeOK /\ DrainPhases
  BY DEF IndInv
<1>1. ASSUME NEW c \in Callers, SubmitReturn(c) PROVE DrainPhases'
  BY <1>1, <1>t DEF TypeOK, DrainPhases, SubmitReturn, WgDone
<1>2. ASSUME NEW d \in Drainers, Drain(d) PROVE DrainPhases'
  BY <1>2, <1>t DEF TypeOK, DrainPhases, Drain
<1>3. ASSUME NEW d \in Drainers, WaitEnter(d) PROVE DrainPhases'
  BY <1>3, <1>t DEF TypeOK, DrainPhases, WaitEnter
<1>4. ASSUME NEW d \in Drainers, WaitReturn(d) PROVE DrainPhases'
  BY <1>4, <1>t DEF TypeOK, DrainPhases, WaitReturn
<1>5. ASSUME NEW d \in Drainers, DrainReturn(d) \/ DrainExpire(d) PROVE DrainPhases'
  BY <1>5, <1>t DEF TypeOK, DrainPhases, DrainReturn, DrainExpire
<1>6. ASSUME UNCHANGED <<draining, drain, waiter>> PROVE DrainPhases'
  BY <1>6, <1>t DEF DrainPhases
<1>7. ASSUME NEW c \in Callers, NEW t, NEW class, NEW n, Submit(c, t, class, n)
      PROVE UNCHANGED <<draining, drain, waiter>>
  BY <1>7 DEF Submit, SubmitInvalid, SubmitCheck, drainVars
<1>8. ASSUME NEW c \in Callers, SubmitAdd(c) PROVE UNCHANGED <<draining, drain, waiter>>
  BY <1>8 DEF SubmitAdd, drainVars
<1>9. ASSUME NEW n \in Names, Register(n) PROVE UNCHANGED <<draining, drain, waiter>>
  BY <1>9 DEF Register, drainVars
<1>10. CASE UNCHANGED vars
  BY <1>10, <1>6 DEF vars
<1> QED
  BY <1>1, <1>2, <1>3, <1>4, <1>5, <1>6, <1>7, <1>8, <1>9, <1>10 DEF Next, CallerStep, DrainStep

(* With the flag up nobody is admitted anew, so the calls a Drain found in   *)
(* the wait group can only leave it.                                         *)
LEMMA JoinedStep == IndInv /\ [Next]_vars => JoinedCannotReturn'
<1> SUFFICES ASSUME IndInv, [Next]_vars PROVE JoinedCannotReturn'
  OBVIOUS
<1>t. TypeOK /\ DrainPhases /\ JoinedCannotReturn
  BY DEF IndInv
<1>z. wg = 0 <=> Executing = {}
  BY WgZero DEF IndInv
<1>1. ASSUME NEW c \in Callers, NEW t, NEW class, NEW n, Submit(c, t, class, n)
      PROVE  JoinedCannotReturn'
  <2>1. UNCHANGED <<drain, waiter, joined>> /\ Executing' = Executing
    BY <1>1, <1>t DEF Submit, SubmitInvalid, SubmitCheck, drainVars, Executing, TypeOK
  <2>2. ASSUME NEW d \in Drainers, drain[d] # "idle" PROVE pc' = pc
    BY <1>1, <1>t, <2>2 DEF Submit, SubmitInvalid, SubmitCheck, DrainPhases
  <2> QED
    BY <1>t, <2>1, <2>2 DEF JoinedCannotReturn
<1>2. ASSUME NEW c \in Callers, SubmitAdd(c) PROVE JoinedCannotReturn'
  BY <1>2, <1>t DEF SubmitAdd, drainVars, Executing, TypeOK, JoinedCannotReturn
<1>3. ASSUME NEW c \in Callers, SubmitReturn(c) PROVE JoinedCannotReturn'
  <2>1. c \in Executing /\ Executing' = Executing \ {c}
    BY <1>3, <1>t DEF SubmitReturn, Executing, TypeOK
  <2>2. ASSUME wg = 1 PROVE Executing' = {}
    <3>1. Cardinality(Executing \ {c}) = Cardinality(Executing) - 1
      BY <2>1, ExecutingFinite, FS_RemoveElement
    <3>2. Cardinality(Executing \ {c}) = 0
      BY <2>2, <3>1 DEF IndInv, WgCountsInFlight
    <3> QED
      BY <2>1, <3>2, ExecutingFinite, FS_RemoveElement, FS_EmptySet
  <2>3. ASSUME NEW d \in Drainers, drain'[d] # "idle"
        PROVE  /\ \A e \in joined'[d] : pc'[e] # "admitted"
               /\ waiter'[d] \in {"woken", "closed"} => joined'[d] \cap Executing' = {}
    <3>1. \A e \in joined'[d] : pc'[e] # "admitted"
      BY <1>3, <1>t, <2>3 DEF SubmitReturn, TypeOK, JoinedCannotReturn
    <3>2. CASE waiter[d] \in {"woken", "closed"}
      BY <1>3, <1>t, <2>1, <2>3, <3>1, <3>2 DEF SubmitReturn, JoinedCannotReturn
    <3>3. CASE waiter[d] \notin {"woken", "closed"} /\ waiter'[d] \in {"woken", "closed"}
      <4>1. wg = 1
        BY <1>3, <3>3 DEF SubmitReturn, WgDone
      <4> QED
        BY <2>2, <3>1, <4>1
    <3> QED
      BY <3>1, <3>2, <3>3
  <2> QED
    BY <2>3 DEF JoinedCannotReturn
<1>4. ASSUME NEW d \in Drainers, Drain(d) PROVE JoinedCannotReturn'
  <2>1. Executing' = Executing /\ \A c \in Executing : pc'[c] = "executing"
    BY <1>4 DEF Drain, callerVars, Executing
  <2> QED
    BY <1>4, <1>t, <2>1 DEF Drain, callerVars, TypeOK, JoinedCannotReturn
<1>5. ASSUME NEW d \in Drainers, DrainStep(d) \/ DrainExpire(d) PROVE JoinedCannotReturn'
  <2>1. Executing' = Executing /\ pc' = pc /\ joined' = joined
    BY <1>5 DEF DrainStep, WaitEnter, WaitReturn, DrainReturn, DrainExpire, callerVars, Executing
  <2>2. CASE WaitEnter(d)
    BY <2>1, <2>2, <1>t, <1>z DEF WaitEnter, TypeOK, JoinedCannotReturn
  <2>3. CASE WaitReturn(d)
    BY <2>1, <2>3, <1>t DEF WaitReturn, TypeOK, JoinedCannotReturn
  <2>4. CASE DrainReturn(d) \/ DrainExpire(d)
    BY <2>1, <2>4, <1>t DEF DrainReturn, DrainExpire, TypeOK, JoinedCannotReturn
  <2> QED
    BY <1>5, <2>2, <2>3, <2>4 DEF DrainStep
<1>6. ASSUME NEW n \in Names, Register(n) PROVE JoinedCannotReturn'
  BY <1>6, <1>t DEF Register, callerVars, drainVars, Executing, JoinedCannotReturn
<1>7. CASE UNCHANGED vars
  BY <1>7, <1>t DEF vars, Executing, JoinedCannotReturn
<1> QED
  BY <1>1, <1>2, <1>3, <1>4, <1>5, <1>6, <1>7 DEF Next, CallerStep

(* The callers between their check and wg.Add when the flag went up are the  *)
(* only ones that can start a workflow after it; without them a Wait that    *)
(* was released stays right.                                                 *)
LEMMA LateStep == IndInv /\ [Next]_vars => LateCallers'
<1> SUFFICES ASSUME IndInv, [Next]_vars PROVE LateCallers'
  OBVIOUS
<1>t. TypeOK /\ DrainPhases /\ LateCallers
  BY DEF IndInv
<1>z. wg = 0 <=> Executing = {}
  BY WgZero DEF IndInv
<1>d. ASSUME NEW d \in Drainers, waiter[d] # "none" PROVE draining
  BY <1>d, <1>t DEF DrainPhases
<1>1. ASSUME NEW c \in Callers, NEW t, NEW class, NEW n, Submit(c, t, class, n)
      PROVE  LateCallers'
  <2>1. UNCHANGED <<draining, waiter, late, panicked>> /\ Executing' = Executing
    BY <1>1, <1>t DEF Submit, SubmitInvalid, SubmitCheck, drainVars, Executing, TypeOK
  <2>2. draining => pc' = pc
    BY <1>1 DEF Submit, SubmitInvalid, SubmitCheck
  <2> QED
    BY <1>t, <2>1, <2>2 DEF LateCallers
<1>2. ASSUME NEW c \in Callers, SubmitAdd(c) PROVE LateCallers'
  <2>1. UNCHANGED <<draining, waiter, late, panicked>>
    BY <1>2 DEF SubmitAdd, drainVars
  <2>2. \A e \in Callers : pc'[e] = "admitted" => pc[e] = "admitted"
    BY <1>2, <1>t DEF SubmitAdd, TypeOK
  <2>3. late = {} => ~draining
    BY <1>2, <1>t DEF SubmitAdd, LateCallers
  <2>4. late = {} => \A d \in Drainers : waiter'[d] \notin {"woken", "closed"}
    BY <2>1, <2>3, <1>d
  <2> QED
    BY <1>t, <2>1, <2>2, <2>4 DEF LateCallers
<1>3. ASSUME NEW c \in Callers, SubmitReturn(c) PROVE LateCallers'
  <2>1. c \in Executing /\ Executing' = Executing \ {c}
    BY <1>3, <1>t DEF SubmitReturn, Executing, TypeOK
  <2>2. UNCHANGED <<draining, late, panicked>>
    BY <1>3 DEF SubmitReturn
  <2>3. \A e \in Callers : pc'[e] = "admitted" => pc[e] = "admitted"
    BY <1>3, <1>t DEF SubmitReturn, TypeOK
  <2>4. ASSUME NEW d \in Drainers, waiter'[d] \in {"woken", "closed"}, late = {}
        PROVE  Executing' = {}
    <3>1. CASE waiter[d] \in {"woken", "closed"}
      BY <1>t, <2>1, <2>4, <3>1 DEF LateCallers
    <3>2. CASE waiter[d] \notin {"woken", "closed"}
      <4>1. wg = 1
        BY <1>3, <2>4, <3>2 DEF SubmitReturn, WgDone
      <4>2. Cardinality(Executing \ {c}) = Cardinality(Executing) - 1
        BY <2>1, ExecutingFinite, FS_RemoveElement
      <4>3. Cardinality(Executing \ {c}) = 0
        BY <4>1, <4>2 DEF IndInv, WgCountsInFlight
      <4> QED
        BY <2>1, <4>3, ExecutingFinite, FS_RemoveElement, FS_EmptySet
    <3> QED
      BY <3>1, <3>2
  <2> QED
    BY <1>t, <2>2, <2>3, <2>4 DEF LateCallers
<1>4. ASSUME NEW d \in Drainers, Drain(d) PROVE LateCallers'
  <2>1. pc' = pc /\ panicked' = panicked /\ Executing' = Executing /\ draining'
    BY <1>4 DEF Drain, callerVars, Executing
  <2>2. CASE draining
    <3>1. late' = late
      BY <1>4, <2>2 DEF Drain
    <3>2. \A e \in Drainers : waiter'[e] \in {"woken", "closed"} => waiter[e] \in {"woken", "closed"}
      BY <1>4, <1>t DEF Drain, TypeOK
    <3> QED
      BY <1>t, <2>1, <2>2, <3>1, <3>2 DEF LateCallers
  <2>3. CASE ~draining
    <3>1. late' = Admitted \ Executing
      BY <1>4, <2>3 DEF Drain
    <3>2. \A c \in Callers : pc'[c] = "admitted" => c \in late'
      BY <2>1, <3>1 DEF Admitted, Executing
    <3>3. \A e \in Drainers : waiter'[e] \notin {"woken", "closed"}
      BY <1>4, <1>t, <1>d, <2>3 DEF Drain, TypeOK
    <3> QED
      BY <1>4, <2>1, <3>2, <3>3 DEF LateCallers, Drain
  <2> QED
    BY <2>2, <2>3
<1>5. ASSUME NEW d \in Drainers, DrainStep(d) \/ DrainExpire(d) PROVE LateCallers'
  <2>1. Executing' = Executing /\ UNCHANGED <<pc, draining, late>>
    BY <1>5 DEF DrainStep, WaitEnter, WaitReturn, DrainReturn, DrainExpire, callerVars, Executing
  <2>2. CASE WaitEnter(d)
    BY <2>1, <2>2, <1>t, <1>z DEF WaitEnter, TypeOK, LateCallers
  <2>3. CASE WaitReturn(d)
    BY <2>1, <2>3, <1>t, <1>z DEF WaitReturn, TypeOK, LateCallers
  <2>4. CASE DrainReturn(d) \/ DrainExpire(d)
    <3>1. UNCHANGED <<waiter, panicked>>
      BY <2>4 DEF DrainReturn, DrainExpire
    <3> QED
      BY <2>1, <3>1, <1>t DEF LateCallers
  <2> QED
    BY <1>5, <2>2, <2>3, <2>4 DEF DrainStep
<1>6. ASSUME NEW n \in Names, Register(n) PROVE LateCallers'
  BY <1>6, <1>t DEF Register, callerVars, drainVars, Executing, LateCallers
<1>7. CASE UNCHANGED vars
  BY <1>7, <1>t DEF vars, Executing, LateCallers
<1> QED
  BY <1>1, <1>2, <1>3, <1>4, <1>5, <1>6, <1>7 DEF Next, CallerStep

-----------------------------------------------------------------------------
(* The inductive invariant holds in every reachable state.                   *)
THEOREM Invariance == Spec => []IndInv
<1>1. IndInv /\ [Next]_vars => IndInv'
  BY TypeStep, CountStep, PhasesStep, JoinedStep, LateStep DEF IndInv
<1> QED
  BY InitIndInv, <1>1, PTL DEF Spec

(* The dispatcher's state is well typed; in particular wg never underflows,  *)
(* which in Go would panic with "negative WaitGroup counter".                *)
THEOREM TypeCorrect == Spec => []TypeOK
  BY Invariance, PTL DEF IndInv

(* wg equals the number of workflows running, for any number of callers.     *)
THEOREM WgExact == Spec => []WgCountsInFlight
  BY Invariance, PTL DEF IndInv

(* A Drain that answered nil outlived every call it found in the wait group. *)
THEOREM DrainOutlivesJoined == Spec => []DrainWaitsForJoined
<1>1. IndInv => DrainWaitsForJoined
  BY DEF IndInv, DrainPhases, JoinedCannotReturn, DrainWaitsForJoined
<1> QED
  BY Invariance, <1>1, PTL

(* The unlocked window before wg.Add is the only way a nil Drain can leave a *)
(* workflow running, or the wait group can panic.                            *)
THEOREM OnlyHole == Spec => []OnlyLateAddsEscape
<1>1. IndInv => OnlyLateAddsEscape
  BY DEF IndInv, DrainPhases, LateCallers, OnlyLateAddsEscape
<1> QED
  BY Invariance, <1>1, PTL

(* Once draining, no call is admitted by any step of any goroutine.          *)
THEOREM NoAdmissionAfterDrain == Spec => AdmissionClosed
<1>1. TypeOK /\ [Next]_vars => [draining => Admitted' \subseteq Admitted]_vars
  <2> SUFFICES ASSUME TypeOK, Next PROVE draining => Admitted' \subseteq Admitted
    BY DEF vars
  <2> SUFFICES ASSUME draining PROVE Admitted' \subseteq Admitted
    OBVIOUS
  <2>t. pc \in [Callers -> CallerStates]
    BY DEF TypeOK
  <2>1. ASSUME NEW c \in Callers, SubmitAdd(c) \/ SubmitReturn(c) PROVE Admitted' \subseteq Admitted
    BY <2>1, <2>t DEF SubmitAdd, SubmitReturn, Admitted
  <2>2. ASSUME pc' = pc PROVE Admitted' \subseteq Admitted
    BY <2>2 DEF Admitted
  <2>3. ASSUME NEW c \in Callers, NEW t, NEW class, NEW n, Submit(c, t, class, n) PROVE pc' = pc
    BY <2>3 DEF Submit, SubmitInvalid, SubmitCheck
  <2>4. ASSUME NEW n \in Names, Register(n) PROVE pc' = pc
    BY <2>4 DEF Register, callerVars
  <2>5. ASSUME NEW d \in Drainers, Drain(d) \/ DrainStep(d) \/ DrainExpire(d) PROVE pc' = pc
    BY <2>5 DEF Drain, DrainStep, WaitEnter, WaitReturn, DrainReturn, DrainExpire, callerVars
  <2> QED
    BY <2>1, <2>2, <2>3, <2>4, <2>5 DEF Next, CallerStep
<1> QED
  BY TypeCorrect, <1>1, PTL DEF Spec, AdmissionClosed

-----------------------------------------------------------------------------
(* Onboarding: what a request holds at each of its steps.                    *)
Holding == {"create", "use", "record", "put", "respond"}
Ops == Targets \cup Reasons \cup {"read"}
ReqType == [pc : {"idle", "get"} \cup Holding, op : Ops, cur : StageSet \cup {Nil},
            ref : Refs \cup {Nil}, t : Nat]

OnbTypes ==
  /\ now \in Nat
  /\ stores \in [Sides -> Records \cup {Nil}]
  /\ heap \in [Refs -> [StageSet -> Nat \cup {Nil}]]
  /\ req \in [Handlers -> ReqType]
  /\ nudgeSide \in Sides
  /\ acked \in Nat
  /\ overlap \in BOOLEAN

(* A map in use has a signup, and every arrival in it lies between the       *)
(* signup and now.                                                           *)
Mapped(r) ==
  /\ r \in Refs
  /\ heap[r]["signed_up"] \in Nat
  /\ \A s \in StageSet : heap[r][s] # Nil =>
       heap[r]["signed_up"] <= heap[r][s] /\ heap[r][s] <= now

(* What a request holds at each of its steps.                                *)
Held(h) ==
  /\ req[h].t <= now
  /\ req[h].pc \in Holding =>
       Mapped(req[h].ref) /\ req[h].ref[1] = Side(h) /\ req[h].cur \in StageSet
  /\ req[h].pc = "create" =>
       /\ req[h].cur = "signed_up" /\ req[h].ref = <<Side(h), h>>
       /\ \A s \in StageSet : s # "signed_up" => heap[req[h].ref][s] = Nil
  /\ req[h].pc = "use" => heap[req[h].ref][req[h].cur] # Nil
  /\ req[h].pc \in {"record", "put", "respond"} => req[h].op \in StageSet
  /\ req[h].pc = "record" =>
       req[h].op # "signed_up" /\ heap[req[h].ref]["signed_up"] <= req[h].t
  /\ req[h].pc = "put" => heap[req[h].ref][req[h].op] # Nil

(* A stored record's stage has an arrival in a map of its own side.          *)
StoredWell(side) ==
  stores[side] # Nil =>
    /\ Mapped(stores[side].ref) /\ stores[side].ref[1] = side
    /\ heap[stores[side].ref][stores[side].current] # Nil

(* The map of a record that is not stored yet is its maker's alone.          *)
Unshared(h) ==
  req[h].pc = "create" =>
    /\ \A g \in Handlers : g # h /\ req[g].pc \in Holding => req[g].ref # req[h].ref
    /\ \A side \in Sides : stores[side] # Nil => stores[side].ref # req[h].ref

(* While a side has no record, its requests are still making one.            *)
EmptySide(side) ==
  stores[side] = Nil =>
    /\ \A h \in Handlers : Side(h) = side => req[h].pc \in {"idle", "get", "create"}
    /\ side = "api" => acked = 0

OnbInv ==
  /\ OnbTypes
  /\ \A h \in Handlers : Held(h) /\ Unshared(h)
  /\ \A side \in Sides : StoredWell(side) /\ EmptySide(side)

Ordered(m) ==
  \A s, u \in StageSet :
    Index(s) < Index(u) /\ m[s] # Nil /\ m[u] # Nil => m[s] <= m[u]

(* No stage of the map m lies beyond s.                                      *)
Beyond(m, s) == \A u \in StageSet : m[u] # Nil => Index(u) <= Index(s)

(* Nobody else is under way with this request.                               *)
Only(h) == \A g \in Handlers : g # h => req[g].pc = "idle" \/ req[h].pc = "idle"

(* A request alone works on the stored record; what it is about to store is  *)
(* no earlier stage, and no arrival lies beyond.                             *)
Working(h) ==
  /\ req[h].pc = "create" => stores[Side(h)] = Nil
  /\ Side(h) = "api" /\ req[h].pc \in {"use", "record", "put", "respond"} =>
       stores["api"] # Nil /\ req[h].ref = stores["api"].ref
  /\ Side(h) = "api" /\ req[h].pc = "use" => req[h].cur = stores["api"].current
  /\ req[h].pc \in {"record", "put"} => Index(req[h].op) >= Index(stores["api"].current)
  /\ req[h].pc = "record" =>
       \A s \in StageSet : heap[req[h].ref][s] # Nil => heap[req[h].ref][s] <= req[h].t
  /\ req[h].pc = "put" => Beyond(heap[req[h].ref], req[h].op)

(* The stored record's map is in stage order and reaches no further than its *)
(* stage, or the one about to be stored; no acknowledged stage lies beyond.  *)
KeptInOrder ==
  stores["api"] # Nil =>
    /\ Index(stores["api"].current) >= acked
    /\ Ordered(heap[stores["api"].ref])
    /\ (\A h \in Handlers : req[h].pc # "put")
         => Beyond(heap[stores["api"].ref], stores["api"].current)

AloneInv == ~overlap => (\A h \in Handlers : Only(h) /\ Working(h)) /\ KeptInOrder

(* The stages are seven names, none of which is a nudge's reason.            *)
LEMMA StageNames ==
  /\ StageSet = {"signed_up", "vcs_connected", "repo_selected", "first_pr_analyzed",
                   "agent_installed", "first_apply_fix", "first_receipt_issued"}
  /\ DOMAIN Stages = 1..7
  <1>1. DOMAIN Stages = 1..7
    BY DEF Stages
  <1>2. StageSet = {Stages[i] : i \in 1..7}
    BY <1>1 DEF StageSet
  <1>3. 1..7 = {1, 2, 3, 4, 5, 6, 7}
    OBVIOUS
  <1> QED
    BY <1>1, <1>2, <1>3 DEF Stages

(* Every stage has a place, an unknown one none.                             *)
LEMMA IndexType == \A s : /\ s \in StageSet => Index(s) \in Nat
                          /\ s \notin StageSet => Index(s) = -1
  <1> SUFFICES ASSUME NEW s \in StageSet PROVE Index(s) \in Nat
    BY DEF Index
  <1> DEFINE c == CHOOSE i \in DOMAIN Stages : Stages[i] = s
  <1>1. \E i \in DOMAIN Stages : Stages[i] = s
    BY DEF StageSet
  <1>2. c \in DOMAIN Stages
    BY <1>1, Zenon
  <1>3. Index(s) = c - 1
    BY Zenon DEF Index
  <1> HIDE DEF c
  <1> QED
    BY <1>2, <1>3, StageNames

(* The places of the stages that the nudges look at.                         *)
LEMMA IndexValues ==
  /\ Index("signed_up") = 0 /\ Index("vcs_connected") = 1 /\ Index("repo_selected") = 2
  /\ Index("first_pr_analyzed") = 3 /\ Index("agent_installed") = 4
  /\ Index("first_apply_fix") = 5
  <1>1. ASSUME NEW n \in 1..7 PROVE Index(Stages[n]) = n - 1
    <2> DEFINE c == CHOOSE i \in DOMAIN Stages : Stages[i] = Stages[n]
    <2>0. n \in DOMAIN Stages
      BY StageNames
    <2>1. c \in DOMAIN Stages /\ Stages[c] = Stages[n]
      BY <2>0, Zenon
    <2> HIDE DEF c
    <2>2. c = n
      BY <2>1, StageNames DEF Stages
    <2>3. Stages[n] \in StageSet
      BY <2>0 DEF StageSet
    <2> QED
      BY <2>2, <2>3, Zenon DEF Index, c
  <1>2. /\ Stages[1] = "signed_up" /\ Stages[2] = "vcs_connected" /\ Stages[3] = "repo_selected"
        /\ Stages[4] = "first_pr_analyzed" /\ Stages[5] = "agent_installed"
        /\ Stages[6] = "first_apply_fix"
    BY DEF Stages
  <1>3. /\ Index(Stages[1]) = 0 /\ Index(Stages[2]) = 1 /\ Index(Stages[3]) = 2
        /\ Index(Stages[4]) = 3 /\ Index(Stages[5]) = 4 /\ Index(Stages[6]) = 5
    BY <1>1
  <1> QED
    BY <1>2, <1>3

(* What Configured leaves out of the stages.                               *)
LEMMA StageIsNoReason ==
  ASSUME Configured, NEW s \in StageSet PROVE s \notin Reasons
  BY StageNames DEF Configured

(* The resting request, and the map of a new record.                         *)
LEMMA RestingReq == /\ Idle \in ReqType /\ Idle.pc = "idle" /\ Idle.t = 0
                    /\ Idle.op = "read"
  BY DEF Idle, ReqType, Ops, Holding

(* The map of a record that is created.                                      *)
LEMMA NewMap ==
  ASSUME NEW t \in Nat, Configured
  PROVE  /\ New(t) \in [StageSet -> Nat \cup {Nil}] /\ New(t)["signed_up"] = t
         /\ \A s \in StageSet : s # "signed_up" => New(t)[s] = Nil
  BY StageNames DEF New, NoStages

(* The first state is one before any record.                                 *)
LEMMA OnbStarts == Configured /\ OnboardingInit => OnbInv /\ AloneInv
  <1> SUFFICES ASSUME Configured, OnboardingInit PROVE OnbInv /\ AloneInv
    OBVIOUS
  <1>1. NoStages \in [StageSet -> Nat \cup {Nil}]
    BY DEF NoStages
  <1>2. OnbTypes
    BY <1>1, RestingReq DEF OnbTypes, OnboardingInit
  <1>3. \A h \in Handlers : req[h] = Idle /\ req[h].pc = "idle" /\ req[h].t = 0
    BY RestingReq DEF OnboardingInit
  <1>4. \A side \in Sides : stores[side] = Nil
    BY DEF OnboardingInit
  <1>5. now = 0 /\ acked = 0
    BY DEF OnboardingInit
  <1>6. \A h \in Handlers : Held(h) /\ Unshared(h)
    BY <1>3, <1>5 DEF Held, Unshared, Holding
  <1>7. \A side \in Sides : StoredWell(side) /\ EmptySide(side)
    BY <1>3, <1>4, <1>5 DEF StoredWell, EmptySide
  <1>8. \A h \in Handlers : Only(h) /\ Working(h)
    BY <1>3 DEF Only, Working
  <1>9. stores["api"] = Nil
    BY <1>4 DEF Sides
  <1> QED
    BY <1>2, <1>6, <1>7, <1>8, <1>9 DEF OnbInv, AloneInv, KeptInOrder

(* A step of one request that leaves the records, the maps and the clock     *)
(* alone keeps the invariant, if what it leaves of the request fits.         *)
LEMMA LocalStep ==
  ASSUME OnbInv, NEW h \in Handlers, UNCHANGED <<now, stores, heap, nudgeSide, acked>>,
         overlap' \in BOOLEAN, NEW q \in ReqType, req' = [req EXCEPT ![h] = q],
         Held(h)', q.pc # "create",
         q.pc \in Holding => \A g \in Handlers : g # h /\ req[g].pc = "create" => q.ref # req[g].ref,
         q.pc \in Holding => stores[Side(h)'] # Nil
  PROVE  OnbInv'
  <1>1. req'[h] = q /\ \A g \in Handlers : g # h => req'[g] = req[g]
    BY DEF OnbInv, OnbTypes
  <1>2. \A g \in Handlers : g # h => Side(g)' = Side(g)
    BY <1>1 DEF Side
  <1>3. OnbTypes'
    BY DEF OnbInv, OnbTypes
  <1>4. \A g \in Handlers : Held(g)'
    <2> SUFFICES ASSUME NEW g \in Handlers, g # h PROVE Held(g)'
      OBVIOUS
    <2>1. Held(g) /\ req'[g] = req[g] /\ Side(g)' = Side(g)
      BY <1>1, <1>2 DEF OnbInv
    <2> QED
      BY <2>1 DEF Held, Mapped
  <1>5. \A g \in Handlers : Unshared(g)'
    <2> SUFFICES ASSUME NEW g \in Handlers, req'[g].pc = "create"
                 PROVE  /\ \A f \in Handlers : f # g /\ req'[f].pc \in Holding => req'[f].ref # req'[g].ref
                        /\ \A side \in Sides : stores[side] # Nil => stores[side].ref # req'[g].ref
      BY DEF Unshared
    <2>1. g # h /\ req'[g] = req[g]
      BY <1>1
    <2>2. Unshared(g)
      BY DEF OnbInv
    <2> QED
      BY <2>1, <2>2, <1>1 DEF Unshared
  <1>6. \A side \in Sides : StoredWell(side)'
    BY DEF OnbInv, StoredWell, Mapped
  <1>7. \A side \in Sides : EmptySide(side)'
    <2> SUFFICES ASSUME NEW side \in Sides, stores[side] = Nil
                 PROVE  /\ \A g \in Handlers : Side(g)' = side => req'[g].pc \in {"idle", "get", "create"}
                        /\ side = "api" => acked = 0
      BY DEF EmptySide
    <2>1. EmptySide(side)
      BY DEF OnbInv
    <2>2. q.pc \in {"idle", "get"} \cup Holding
      BY DEF ReqType
    <2> QED
      BY <2>1, <2>2, <1>1, <1>2 DEF EmptySide
  <1> QED
    BY <1>3, <1>4, <1>5, <1>6, <1>7 DEF OnbInv

(* A request that ends, answered or refused.                                 *)
LEMMA EndStep ==
  ASSUME OnbInv, NEW h \in Handlers, UNCHANGED <<now, stores, heap, nudgeSide, acked, overlap>>,
         req' = [req EXCEPT ![h] = Idle]
  PROVE  OnbInv'
  <1>1. req'[h] = Idle
    BY DEF OnbInv, OnbTypes
  <1>2. Idle.pc \notin Holding /\ Idle.pc # "create"
    BY RestingReq DEF Holding
  <1>3. now \in Nat /\ overlap' \in BOOLEAN
    BY DEF OnbInv, OnbTypes
  <1>4. Held(h)'
    BY <1>1, <1>2, <1>3, RestingReq DEF Held
  <1> QED
    BY <1>2, <1>3, <1>4, RestingReq, LocalStep

(* A request begins.                                                         *)
LEMMA BeginStep ==
  ASSUME OnbInv, NEW h \in Handlers, NEW op \in Ops, Begin(h, op) PROVE OnbInv'
  <1> DEFINE q == [Idle EXCEPT !.pc = "get", !.op = op, !.t = now]
  <1>1. now \in Nat
    BY DEF OnbInv, OnbTypes
  <1>2. q \in ReqType /\ q.pc = "get" /\ q.t = now
    BY <1>1, RestingReq DEF Idle, ReqType, Ops, Holding
  <1>3. req' = [req EXCEPT ![h] = q]
    BY DEF Begin
  <1> HIDE DEF q
  <1>4. UNCHANGED <<now, stores, heap, nudgeSide, acked>> /\ overlap' \in BOOLEAN
    BY DEF Begin
  <1>5. q.pc \notin Holding
    BY <1>2 DEF Holding
  <1>6. req'[h] = q
    BY <1>3 DEF OnbInv, OnbTypes
  <1>7. Held(h)'
    BY <1>1, <1>2, <1>4, <1>5, <1>6 DEF Held, Holding
  <1> QED
    BY <1>2, <1>3, <1>4, <1>5, <1>7, LocalStep

(* Advance, on a copy of the record.                                         *)
LEMMA AdvanceStep ==
  ASSUME Configured, OnbInv, NEW h \in Handlers, Advance(h) PROVE OnbInv'
  <1> USE DEF OnbInv
  <1>0. UNCHANGED <<now, stores, heap, nudgeSide, acked, overlap>> /\ req[h].pc = "use"
    BY DEF Advance
  <1>1. CASE Index(req[h].op) < 0 \/ Index(req[h].op) < Index(req[h].cur)
    BY <1>0, <1>1, EndStep DEF Advance
  <1>2. CASE ~(Index(req[h].op) < 0 \/ Index(req[h].op) < Index(req[h].cur))
    <2>1. req[h].op \in StageSet
      BY <1>2, IndexType
    <2>2. PICK to \in {"record", "put"} :
            /\ req' = [req EXCEPT ![h] = [req[h] EXCEPT !.pc = to, !.t = now]]
            /\ to = IF Reached(h)[req[h].op] = Nil THEN "record" ELSE "put"
      <3>1. req' = [req EXCEPT ![h].pc = IF Reached(h)[req[h].op] = Nil THEN "record" ELSE "put",
                               ![h].t = now]
        BY <1>2 DEF Advance
      <3>2. \A to : [req EXCEPT ![h].pc = to, ![h].t = now] = [req EXCEPT ![h] = [req[h] EXCEPT !.pc = to, !.t = now]]
        BY DEF OnbTypes, ReqType
      <3> QED
        BY <3>1, <3>2
    <2> DEFINE q == [req[h] EXCEPT !.pc = to, !.t = now]
    <2>3. now \in Nat /\ to \in Holding /\ to # "create" /\ to # "use"
      BY <2>2 DEF OnbTypes, Holding
    <2>5. req' = [req EXCEPT ![h] = q]
      BY <2>2
    <2>q. q = [req[h] EXCEPT !.pc = to, !.t = now]
      OBVIOUS
    <2> HIDE DEF q
    <2>4. /\ q \in ReqType /\ q.pc = to /\ q.t = now
          /\ q.op = req[h].op /\ q.cur = req[h].cur /\ q.ref = req[h].ref
      <3>1. req[h] \in ReqType /\ to \in {"idle", "get"} \cup Holding
        BY <2>3 DEF OnbTypes
      <3> QED
        BY <3>1, <2>3, <2>q DEF ReqType
    <2>6. req'[h] = q
      BY <2>5 DEF OnbTypes
    <2>7. Side(h)' = Side(h)
      BY <2>4, <2>6, <1>0 DEF Side
    <2>8. Held(h) /\ "use" \in Holding
      BY DEF Holding
    <2>9. Mapped(req[h].ref) /\ req[h].ref[1] = Side(h) /\ req[h].cur \in StageSet
      BY <2>8, <1>0 DEF Held
    <2>10. Mapped(req[h].ref)'
      BY <2>9, <2>4, <2>6, <1>0 DEF Mapped
    <2>11. to = "record" => /\ req[h].op # "signed_up" /\ heap[req[h].ref]["signed_up"] <= now
      <3> SUFFICES ASSUME to = "record"
                   PROVE  req[h].op # "signed_up" /\ heap[req[h].ref]["signed_up"] <= now
        OBVIOUS
      <3>1. heap[req[h].ref][req[h].op] = Nil
        BY <2>2 DEF Reached
      <3>2. heap[req[h].ref]["signed_up"] \in Nat /\ Nil \notin Nat /\ "signed_up" \in StageSet
        BY <2>9, StageNames DEF Mapped, Configured
      <3> QED
        BY <3>1, <3>2, <2>9 DEF Mapped
    <2>12. to = "put" => heap[req[h].ref][req[h].op] # Nil
      BY <2>2 DEF Reached
    <2>13. Held(h)'
      <3>1. Mapped(req[h].ref)' /\ req'[h].ref[1] = Side(h)' /\ req'[h].cur \in StageSet
        BY <2>10, <2>4, <2>6, <2>7, <2>9
      <3>2. req'[h].pc \notin {"create", "use"} /\ req'[h].op \in StageSet /\ req'[h].t <= now'
        BY <2>1, <2>3, <2>4, <2>6, <1>0
      <3>3. /\ req'[h].pc = "record" => req'[h].op # "signed_up" /\ heap'[req'[h].ref]["signed_up"] <= req'[h].t
            /\ req'[h].pc = "put" => heap'[req'[h].ref][req'[h].op] # Nil
        BY <2>11, <2>12, <2>4, <2>6, <1>0
      <3> QED
        BY <3>1, <3>2, <3>3 DEF Held
    <2>14. \A g \in Handlers : g # h /\ req[g].pc = "create" => q.ref # req[g].ref
      BY <2>4, <2>8, <1>0 DEF Unshared
    <2>15. stores[Side(h)'] # Nil
      <3>1. Side(h) \in Sides
        BY DEF Side, OnbTypes, Sides
      <3> QED
        BY <3>1, <2>7, <1>0 DEF EmptySide
    <2>16. overlap' \in BOOLEAN /\ q.pc # "create"
      BY <1>0, <2>3, <2>4 DEF OnbTypes
    <2> QED
      BY <1>0, <2>4, <2>5, <2>13, <2>14, <2>15, <2>16, LocalStep
  <1> QED
    BY <1>1, <1>2

(* Get: the stored record, or a fresh one in the request's own map, which    *)
(* nobody else uses while the side has no record.                            *)
LEMMA GetStep ==
  ASSUME Configured, OnbInv, NEW h \in Handlers, Get(h) PROVE OnbInv'
  <1> USE DEF OnbInv
  <1> DEFINE side == Side(h)
             mine == <<Side(h), h>>
  <1>0. /\ UNCHANGED <<now, stores, nudgeSide, acked, overlap>> /\ req[h].pc = "get"
        /\ overlap' \in BOOLEAN
    BY DEF Get, OnbTypes
  <1>s. side \in Sides
    BY DEF Side, OnbTypes, Sides
  <1>r. req[h] \in ReqType /\ {"use", "create"} \subseteq {"idle", "get"} \cup Holding /\ "use" \in Holding
    BY DEF OnbTypes, Holding
  <1>1. CASE stores[side] # Nil
    <2> DEFINE q == [req[h] EXCEPT !.pc = "use", !.cur = stores[side].current, !.ref = stores[side].ref]
    <2>1. heap' = heap /\ req' = [req EXCEPT ![h] = q]
      <3>1. heap' = heap /\ req' = [req EXCEPT ![h].pc = "use", ![h].cur = stores[side].current,
                                               ![h].ref = stores[side].ref]
        BY <1>1 DEF Get
      <3>2. \A c, r : [req EXCEPT ![h].pc = "use", ![h].cur = c, ![h].ref = r]
                        = [req EXCEPT ![h] = [req[h] EXCEPT !.pc = "use", !.cur = c, !.ref = r]]
        BY DEF OnbTypes, ReqType
      <3> QED
        BY <3>1, <3>2
    <2>2. stores[side].current \in StageSet /\ stores[side].ref \in Refs
      BY <1>1, <1>s DEF OnbTypes, Records
    <2>q. q = [req[h] EXCEPT !.pc = "use", !.cur = stores[side].current, !.ref = stores[side].ref]
      OBVIOUS
    <2> HIDE DEF q
    <2>3. /\ q \in ReqType /\ q.pc = "use" /\ q.cur = stores[side].current
          /\ q.ref = stores[side].ref /\ q.op = req[h].op /\ q.t = req[h].t
      <3>1. {"use", "create"} \subseteq {"idle", "get"} \cup Holding
        BY DEF Holding
      <3> QED
        BY <3>1, <2>2, <1>r, <2>q DEF ReqType
    <2>4. req'[h] = q
      BY <2>1 DEF OnbTypes
    <2>5. Side(h)' = side
      BY <2>3, <2>4, <1>0 DEF Side
    <2>6. StoredWell(side)
      BY <1>s
    <2>7. Mapped(req[h].ref)'
      BY <2>1, <2>3, <2>4, <2>6, <1>0, <1>1 DEF StoredWell, Mapped
    <2>8. Held(h)'
      <3>1. req[h].t <= now
        BY DEF Held
      <3>2. req'[h].ref[1] = Side(h)' /\ heap'[req'[h].ref][req'[h].cur] # Nil
        BY <2>1, <2>3, <2>4, <2>5, <2>6, <1>1 DEF StoredWell
      <3> QED
        BY <3>1, <3>2, <2>2, <2>3, <2>4, <2>7, <1>0 DEF Held
    <2>9. \A g \in Handlers : g # h /\ req[g].pc = "create" => q.ref # req[g].ref
      BY <2>3, <1>1, <1>s DEF Unshared
    <2>10. stores[Side(h)'] # Nil /\ q.pc # "create"
      BY <2>3, <2>5, <1>1
    <2> QED
      BY <1>0, <2>1, <2>3, <2>8, <2>9, <2>10, LocalStep
  <1>2. CASE stores[side] = Nil
    <2> DEFINE q == [req[h] EXCEPT !.pc = "create", !.cur = "signed_up", !.ref = mine]
    <2>1. heap' = [heap EXCEPT ![mine] = New(now)] /\ req' = [req EXCEPT ![h] = q]
      <3>1. heap' = [heap EXCEPT ![mine] = New(now)]
            /\ req' = [req EXCEPT ![h].pc = "create", ![h].cur = "signed_up", ![h].ref = mine]
        BY <1>2 DEF Get
      <3>2. \A c, r : [req EXCEPT ![h].pc = "create", ![h].cur = c, ![h].ref = r]
                        = [req EXCEPT ![h] = [req[h] EXCEPT !.pc = "create", !.cur = c, !.ref = r]]
        BY DEF OnbTypes, ReqType
      <3> QED
        BY <3>1, <3>2
    <2>2. mine \in Refs /\ mine[1] = side /\ mine[2] = h /\ "signed_up" \in StageSet /\ now \in Nat
      BY <1>s, StageNames DEF Refs, OnbTypes
    <2>q. q = [req[h] EXCEPT !.pc = "create", !.cur = "signed_up", !.ref = mine]
      OBVIOUS
    <2> HIDE DEF q
    <2>3. /\ q \in ReqType /\ q.pc = "create" /\ q.cur = "signed_up"
          /\ q.ref = mine /\ q.op = req[h].op /\ q.t = req[h].t
      <3>1. {"use", "create"} \subseteq {"idle", "get"} \cup Holding
        BY DEF Holding
      <3> QED
        BY <3>1, <2>2, <1>r, <2>q DEF ReqType
    <2>4. req'[h] = q /\ \A g \in Handlers : g # h => req'[g] = req[g]
      BY <2>1 DEF OnbTypes
    <2>5. \A g \in Handlers : Side(g)' = Side(g)
      BY <2>3, <2>4, <1>0 DEF Side
    <2>6. \A g \in Handlers : g # h /\ req[g].pc \in Holding => req[g].ref # mine
      <3> SUFFICES ASSUME NEW g \in Handlers, g # h, req[g].pc \in Holding, req[g].ref = mine PROVE FALSE
        OBVIOUS
      <3>1. Side(g) = side
        BY <2>2 DEF Held
      <3>2. req[g].pc = "create"
        BY <3>1, <1>2, <1>s DEF EmptySide, Holding
      <3>3. req[g].ref = <<Side(g), g>>
        BY <3>2 DEF Held
      <3>4. req[g].ref[2] = g
        BY <3>3
      <3> QED
        BY <3>4, <2>2
    <2>7. \A other \in Sides : stores[other] # Nil => stores[other].ref # mine
      BY <2>2, <1>2 DEF StoredWell
    <2>8. /\ heap' \in [Refs -> [StageSet -> Nat \cup {Nil}]]
          /\ heap'[mine] = New(now) /\ \A r \in Refs : r # mine => heap'[r] = heap[r]
      BY <2>1, <2>2, NewMap DEF OnbTypes
    <2>9. /\ heap'[mine]["signed_up"] = now
          /\ \A s \in StageSet : s # "signed_up" => heap'[mine][s] = Nil
      BY <2>8, <2>2, NewMap
    <2> HIDE DEF mine
    <2>10. OnbTypes'
      BY <1>0, <2>1, <2>3, <2>8 DEF OnbTypes
    <2>11. \A g \in Handlers : Held(g)'
      <3>1. Held(h)'
        <4>1. req[h].t <= now
          BY DEF Held
        <4>2. Mapped(req[h].ref)'
          BY <1>0, <2>2, <2>3, <2>4, <2>9 DEF Mapped
        <4>3. req'[h].ref[1] = Side(h)' /\ req'[h].ref = <<Side(h)', h>>
          BY <2>2, <2>3, <2>4, <2>5 DEF mine
        <4> QED
          BY <1>0, <2>2, <2>3, <2>4, <2>9, <4>1, <4>2, <4>3 DEF Held
      <3>2. ASSUME NEW g \in Handlers, g # h PROVE Held(g)'
        <4>1. Held(g) /\ req'[g] = req[g] /\ Side(g)' = Side(g)
          BY <2>4, <2>5, <3>2
        <4>2. CASE req[g].pc \notin Holding
          BY <4>1, <4>2, <1>0 DEF Held, Holding
        <4>3. CASE req[g].pc \in Holding
          <5>1. heap'[req[g].ref] = heap[req[g].ref]
            BY <4>1, <4>3, <3>2, <2>6, <2>8 DEF Held, Mapped
          <5> QED
            BY <4>1, <5>1, <1>0 DEF Held, Mapped
        <4> QED
          BY <4>2, <4>3
      <3> QED
        BY <3>1, <3>2
    <2>12. \A g \in Handlers : Unshared(g)'
      <3> SUFFICES ASSUME NEW g \in Handlers, req'[g].pc = "create"
                   PROVE  /\ \A f \in Handlers : f # g /\ req'[f].pc \in Holding => req'[f].ref # req'[g].ref
                          /\ \A other \in Sides : stores[other] # Nil => stores[other].ref # req'[g].ref
        BY <1>0 DEF Unshared
      <3>1. CASE g = h
        BY <3>1, <2>3, <2>4, <2>6, <2>7
      <3>2. CASE g # h
        <4>1. req'[g] = req[g] /\ req[g].ref # mine /\ Unshared(g)
          BY <3>2, <2>4, <2>6 DEF Holding
        <4> QED
          BY <4>1, <2>3, <2>4 DEF Unshared
      <3> QED
        BY <3>1, <3>2
    <2>13. \A other \in Sides : StoredWell(other)'
      <3> SUFFICES ASSUME NEW other \in Sides, stores[other] # Nil PROVE StoredWell(other)'
        BY <1>0 DEF StoredWell
      <3>1. StoredWell(other) /\ stores[other].ref # mine
        BY <2>7
      <3>2. heap'[stores[other].ref] = heap[stores[other].ref]
        BY <3>1, <2>8 DEF StoredWell, Mapped
      <3> QED
        BY <3>1, <3>2, <1>0 DEF StoredWell, Mapped
    <2>14. \A other \in Sides : EmptySide(other)'
      <3> SUFFICES ASSUME NEW other \in Sides PROVE EmptySide(other)'
        OBVIOUS
      <3>1. EmptySide(other)
        OBVIOUS
      <3> QED
        BY <3>1, <2>3, <2>4, <2>5, <1>0 DEF EmptySide
    <2> QED
      BY <2>10, <2>11, <2>12, <2>13, <2>14
  <1> QED
    BY <1>1, <1>2

(* Storing a record, by Create or by Put: its map is the request's.          *)
LEMMA StoreStep ==
  ASSUME Configured, OnbInv, NEW h \in Handlers, NEW c \in StageSet, NEW p \in {"use", "respond"},
         UNCHANGED <<now, heap, nudgeSide, overlap>>, req[h].pc \in Holding,
         stores' = [stores EXCEPT ![Side(h)] = [current |-> c, ref |-> req[h].ref]],
         req' = [req EXCEPT ![h].pc = p], heap[req[h].ref][c] # Nil,
         p = "use" => c = req[h].cur, p = "respond" => req[h].op \in StageSet,
         acked' \in Nat, acked' = acked \/ Side(h) = "api"
  PROVE  OnbInv'
  <1> USE DEF OnbInv
  <1> DEFINE side == Side(h)
             rec == [current |-> c, ref |-> req[h].ref]
  <1>1. side \in Sides
    BY DEF Side, OnbTypes, Sides
  <1>2. Held(h) /\ Mapped(req[h].ref) /\ req[h].ref[1] = side /\ req[h].cur \in StageSet
    BY DEF Held
  <1>3. rec \in Records /\ rec # Nil /\ rec.current = c /\ rec.ref = req[h].ref
    <2>1. rec \in Records /\ rec.current = c /\ rec.ref = req[h].ref
      BY <1>2 DEF Records, Mapped
    <2> QED
      BY <2>1 DEF Configured
  <1>4. stores'[side] = rec /\ \A other \in Sides : other # side => stores'[other] = stores[other]
    BY <1>1 DEF OnbTypes
  <1>5. /\ req' \in [Handlers -> ReqType] /\ req'[h].pc = p
        /\ req'[h].op = req[h].op /\ req'[h].cur = req[h].cur
        /\ req'[h].ref = req[h].ref /\ req'[h].t = req[h].t
    <2>1. p \in {"idle", "get"} \cup Holding
      BY DEF Holding
    <2> QED
      BY <2>1 DEF OnbTypes, ReqType
  <1>6. \A g \in Handlers : g # h => req'[g] = req[g]
    BY DEF OnbTypes
  <1>7. \A g \in Handlers : Side(g)' = Side(g)
    BY <1>5, <1>6 DEF Side
  <1> HIDE DEF rec, side
  <1>8. OnbTypes'
    BY <1>1, <1>3, <1>5, StageNames DEF OnbTypes, side, rec
  <1>9. \A g \in Handlers : Held(g)'
    <2> SUFFICES ASSUME NEW g \in Handlers PROVE Held(g)'
      OBVIOUS
    <2>1. CASE g = h
      <3>1. Mapped(req[h].ref)'
        BY <1>2, <1>5 DEF Mapped
      <3>2. req'[h].t <= now' /\ req'[h].ref[1] = Side(h)' /\ req'[h].cur \in StageSet
        BY <1>2, <1>5, <1>7 DEF Held, side
      <3>3. /\ req'[h].pc = "use" => heap'[req'[h].ref][req'[h].cur] # Nil
            /\ req'[h].pc = "respond" => req'[h].op \in StageSet
        BY <1>5
      <3>4. req'[h].pc \notin {"create", "record", "put"}
        BY <1>5
      <3> QED
        BY <2>1, <3>1, <3>2, <3>3, <3>4 DEF Held
    <2>2. CASE g # h
      <3>1. Held(g) /\ req'[g] = req[g] /\ Side(g)' = Side(g)
        BY <2>2, <1>6, <1>7
      <3> QED
        BY <3>1 DEF Held, Mapped
    <2> QED
      BY <2>1, <2>2
  <1>10. \A g \in Handlers : Unshared(g)'
    <2> SUFFICES ASSUME NEW g \in Handlers, req'[g].pc = "create"
                 PROVE  /\ \A f \in Handlers : f # g /\ req'[f].pc \in Holding => req'[f].ref # req'[g].ref
                        /\ \A other \in Sides : stores'[other] # Nil => stores'[other].ref # req'[g].ref
      BY DEF Unshared
    <2>1. g # h /\ req'[g] = req[g] /\ Unshared(g)
      BY <1>5, <1>6
    <2>2. req[h].ref # req[g].ref
      BY <2>1 DEF Unshared
    <2>3. \A f \in Handlers : f # g /\ req'[f].pc \in Holding => req'[f].ref # req'[g].ref
      BY <2>1, <2>2, <1>5, <1>6 DEF Unshared
    <2>4. \A other \in Sides : stores'[other] # Nil => stores'[other].ref # req'[g].ref
      BY <2>1, <2>2, <1>3, <1>4 DEF Unshared
    <2> QED
      BY <2>3, <2>4
  <1>11. \A other \in Sides : StoredWell(other)'
    <2> SUFFICES ASSUME NEW other \in Sides PROVE StoredWell(other)'
      OBVIOUS
    <2>1. CASE other = side
      BY <2>1, <1>2, <1>3, <1>4 DEF StoredWell, Mapped
    <2>2. CASE other # side
      <3>1. StoredWell(other) /\ stores'[other] = stores[other]
        BY <2>2, <1>4
      <3> QED
        BY <3>1 DEF StoredWell, Mapped
    <2> QED
      BY <2>1, <2>2
  <1>12. \A other \in Sides : EmptySide(other)'
    <2> SUFFICES ASSUME NEW other \in Sides, stores'[other] = Nil PROVE EmptySide(other)'
      BY DEF EmptySide
    <2>1. other # side /\ stores[other] = Nil
      BY <1>3, <1>4
    <2>2. EmptySide(other)
      OBVIOUS
    <2>3. \A g \in Handlers : Side(g)' = other => g # h /\ req'[g] = req[g] /\ Side(g) = other
      BY <2>1, <1>6, <1>7 DEF side
    <2>4. other = "api" => acked' = acked
      BY <2>1 DEF side
    <2> QED
      BY <2>1, <2>2, <2>3, <2>4 DEF EmptySide
  <1> QED
    BY <1>8, <1>9, <1>10, <1>11, <1>12

(* Create stores the fresh record.                                           *)
LEMMA CreateStep ==
  ASSUME Configured, OnbInv, NEW h \in Handlers, Create(h) PROVE OnbInv'
  <1>0. /\ req[h].pc = "create" /\ UNCHANGED <<now, heap, acked, nudgeSide, overlap>>
        /\ stores' = [stores EXCEPT ![Side(h)] = [current |-> req[h].cur, ref |-> req[h].ref]]
        /\ req' = [req EXCEPT ![h].pc = "use"]
    BY DEF Create
  <1>1. req[h].pc \in Holding
    BY <1>0 DEF Holding
  <1>2. req[h].cur = "signed_up" /\ req[h].cur \in StageSet /\ heap[req[h].ref]["signed_up"] \in Nat
    BY <1>0, <1>1 DEF OnbInv, Held, Mapped
  <1>3. heap[req[h].ref][req[h].cur] # Nil /\ acked' \in Nat
    BY <1>0, <1>2 DEF Configured, OnbInv, OnbTypes
  <1> QED
    BY <1>0, <1>1, <1>2, <1>3, StoreStep

(* Put stores the new stage; only requests of the api get that far.          *)
LEMMA PutStep ==
  ASSUME Configured, OnbInv, NEW h \in Handlers, Put(h) PROVE OnbInv'
  <1>0. /\ req[h].pc = "put" /\ UNCHANGED <<now, heap, nudgeSide, overlap>>
        /\ stores' = [stores EXCEPT ![Side(h)] = [current |-> req[h].op, ref |-> req[h].ref]]
        /\ acked' = IF Index(req[h].op) > acked THEN Index(req[h].op) ELSE acked
        /\ req' = [req EXCEPT ![h].pc = "respond"]
    BY DEF Put
  <1>1. req[h].pc \in Holding
    BY <1>0 DEF Holding
  <1>2. req[h].op \in StageSet /\ heap[req[h].ref][req[h].op] # Nil
    BY <1>0 DEF OnbInv, Held
  <1>3. Side(h) = "api"
    BY <1>2, StageIsNoReason DEF Side
  <1>4. acked' \in Nat
    BY <1>0, <1>2, IndexType DEF OnbInv, OnbTypes
  <1> QED
    BY <1>0, <1>1, <1>2, <1>3, <1>4, StoreStep

(* Record writes a map that others may share: it adds an arrival that is not *)
(* before the signup and takes none away.                                    *)
LEMMA RecordStep ==
  ASSUME Configured, OnbInv, NEW h \in Handlers, Record(h) PROVE OnbInv'
  <1> USE DEF OnbInv
  <1> DEFINE ref == req[h].ref
             op == req[h].op
  <1>0. /\ req[h].pc = "record" /\ UNCHANGED <<now, stores, acked, nudgeSide, overlap>>
        /\ heap' = [heap EXCEPT ![req[h].ref][req[h].op] = req[h].t]
        /\ req' = [req EXCEPT ![h].pc = "put"]
    BY DEF Record
  <1>1. req[h].pc \in Holding /\ "put" \in {"idle", "get"} \cup Holding
    BY <1>0 DEF Holding
  <1>2. /\ Mapped(ref) /\ ref \in Refs /\ op \in StageSet /\ op # "signed_up"
        /\ heap[ref]["signed_up"] <= req[h].t /\ req[h].t <= now /\ req[h].t \in Nat /\ now \in Nat
    BY <1>0, <1>1 DEF Held, Mapped, OnbTypes, ReqType
  <1>3. /\ heap' \in [Refs -> [StageSet -> Nat \cup {Nil}]]
        /\ heap'[ref][op] = req[h].t
        /\ \A r \in Refs, s \in StageSet : ~(r = ref /\ s = op) => heap'[r][s] = heap[r][s]
        /\ \A r \in Refs : r # ref => heap'[r] = heap[r]
    BY <1>0, <1>2 DEF OnbTypes
  <1>4. /\ req' \in [Handlers -> ReqType] /\ req'[h].pc = "put"
        /\ req'[h].op = req[h].op /\ req'[h].cur = req[h].cur
        /\ req'[h].ref = req[h].ref /\ req'[h].t = req[h].t
    <2>1. req \in [Handlers -> ReqType]
      BY DEF OnbTypes
    <2> QED
      BY <2>1, <1>0, <1>1 DEF ReqType
  <1>5. \A g \in Handlers : g # h => req'[g] = req[g]
    BY <1>0 DEF OnbTypes
  <1>6. \A g \in Handlers : Side(g)' = Side(g)
    BY <1>0, <1>4, <1>5 DEF Side
  <1>n. Nil \notin Nat /\ "signed_up" \in StageSet
    BY StageNames DEF Configured
  <1> HIDE DEF ref, op
  <1>7. ASSUME NEW r, Mapped(r) PROVE /\ Mapped(r)'
                                      /\ heap'[r]["signed_up"] = heap[r]["signed_up"]
                                      /\ \A s \in StageSet : heap[r][s] # Nil => heap'[r][s] # Nil
    <2>1. r \in Refs /\ heap'[r]["signed_up"] = heap[r]["signed_up"]
      BY <1>2, <1>3, <1>7, <1>n DEF Mapped
    <2>2. \A s \in StageSet : heap[r][s] # Nil => heap'[r][s] # Nil
      BY <2>1, <1>2, <1>3, <1>n
    <2>3. \A s \in StageSet : heap'[r][s] # Nil => heap'[r]["signed_up"] <= heap'[r][s] /\ heap'[r][s] <= now
      <3> SUFFICES ASSUME NEW s \in StageSet, heap'[r][s] # Nil
                   PROVE  heap'[r]["signed_up"] <= heap'[r][s] /\ heap'[r][s] <= now
        OBVIOUS
      <3>1. CASE r = ref /\ s = op
        BY <3>1, <2>1, <1>2, <1>3
      <3>2. CASE ~(r = ref /\ s = op)
        BY <3>2, <2>1, <1>3, <1>7 DEF Mapped
      <3> QED
        BY <3>1, <3>2
    <2> QED
      BY <2>1, <2>2, <2>3, <1>0, <1>7 DEF Mapped
  <1>8. OnbTypes'
    BY <1>0, <1>3, <1>4 DEF OnbTypes
  <1>9. \A g \in Handlers : Held(g)'
    <2> SUFFICES ASSUME NEW g \in Handlers PROVE Held(g)'
      OBVIOUS
    <2>0. Held(g) /\ req'[g].ref = req[g].ref /\ req'[g].op = req[g].op /\ req'[g].t = req[g].t
          /\ req'[g].cur = req[g].cur /\ Side(g)' = Side(g)
      BY <1>4, <1>5, <1>6
    <2>1. CASE req[g].pc \notin Holding
      <3>1. g # h /\ req'[g] = req[g]
        BY <2>1, <1>1, <1>5
      <3> QED
        BY <2>0, <2>1, <3>1, <1>0 DEF Held, Holding
    <2>2. CASE req[g].pc \in Holding
      <3>1. PICK r : r = req[g].ref
        OBVIOUS
      <3>2. Mapped(r)
        BY <2>0, <2>2, <3>1 DEF Held
      <3>3. /\ Mapped(r)' /\ heap'[r]["signed_up"] = heap[r]["signed_up"]
            /\ \A s \in StageSet : heap[r][s] # Nil => heap'[r][s] # Nil
        BY <3>2, <1>7
      <3>4. Mapped(req[g].ref)'
        BY <3>1, <3>3, <2>0 DEF Mapped
      <3>5. CASE g = h
        <4>1. heap'[req'[h].ref][req'[h].op] # Nil
          BY <1>2, <1>3, <1>4, <1>n DEF ref, op
        <4> QED
          BY <3>5, <3>4, <4>1, <2>0, <2>2, <1>0, <1>2, <1>4 DEF Held, op
      <3>6. CASE g # h
        <4>1. req'[g] = req[g]
          BY <3>6, <1>5
        <4>2. req[g].pc = "create" => heap'[r] = heap[r]
          <5> SUFFICES ASSUME req[g].pc = "create" PROVE heap'[r] = heap[r]
            OBVIOUS
          <5>1. r # ref
            BY <3>1, <3>6, <1>1 DEF Unshared, ref
          <5> QED
            BY <5>1, <3>2, <1>3 DEF Mapped
        <4>3. req[g].pc = "create" => \A s \in StageSet : s # "signed_up" => heap'[req'[g].ref][s] = Nil
          BY <4>1, <4>2, <3>1, <2>0 DEF Held
        <4>4. /\ req[g].pc = "use" => heap'[r][req[g].cur] # Nil
              /\ req[g].pc = "put" => heap'[r][req[g].op] # Nil
          BY <3>1, <3>3, <2>0, <2>2 DEF Held
        <4>5. req[g].pc = "record" => heap'[r]["signed_up"] <= req[g].t
          BY <3>1, <3>3, <2>0 DEF Held
        <4> QED
          BY <3>1, <3>4, <4>1, <4>3, <4>4, <4>5, <2>0, <1>0 DEF Held
      <3> QED
        BY <3>5, <3>6
    <2> QED
      BY <2>1, <2>2
  <1>10. \A g \in Handlers : Unshared(g)'
    <2> SUFFICES ASSUME NEW g \in Handlers, req'[g].pc = "create"
                 PROVE  /\ \A f \in Handlers : f # g /\ req'[f].pc \in Holding => req'[f].ref # req'[g].ref
                        /\ \A other \in Sides : stores[other] # Nil => stores[other].ref # req'[g].ref
      BY <1>0 DEF Unshared
    <2>1. g # h /\ req'[g] = req[g] /\ Unshared(g)
      BY <1>4, <1>5
    <2> QED
      BY <2>1, <1>1, <1>4, <1>5 DEF Unshared
  <1>11. \A side \in Sides : StoredWell(side)'
    <2> SUFFICES ASSUME NEW side \in Sides, stores[side] # Nil PROVE StoredWell(side)'
      BY <1>0 DEF StoredWell
    <2>1. PICK r : r = stores[side].ref
      OBVIOUS
    <2>2. StoredWell(side) /\ Mapped(r)
      BY <2>1 DEF StoredWell
    <2>3. Mapped(r)' /\ \A s \in StageSet : heap[r][s] # Nil => heap'[r][s] # Nil
      BY <2>2, <1>7
    <2>4. stores[side].current \in StageSet
      BY DEF OnbTypes, Records
    <2> QED
      BY <2>1, <2>2, <2>3, <2>4, <1>0 DEF StoredWell, Mapped
  <1>12. \A side \in Sides : EmptySide(side)'
    <2> SUFFICES ASSUME NEW side \in Sides, stores[side] = Nil PROVE EmptySide(side)'
      BY <1>0 DEF EmptySide
    <2>1. EmptySide(side)
      OBVIOUS
    <2>2. Side(h) # side
      BY <2>1, <1>0 DEF EmptySide
    <2> QED
      BY <2>1, <2>2, <1>0, <1>5, <1>6 DEF EmptySide
  <1> QED
    BY <1>8, <1>9, <1>10, <1>11, <1>12

(* The process dies of the race: its requests, maps and record are gone, and *)
(* the worker's are its own.                                                 *)
LEMMA FatalStep ==
  ASSUME Configured, OnbInv, FatalRace PROVE OnbInv'
  <1> USE DEF OnbInv
  <1>0. /\ UNCHANGED <<now, nudgeSide, overlap>> /\ acked' = 0
        /\ stores' = [stores EXCEPT !["api"] = Nil]
        /\ req' = [h \in Handlers |-> IF Side(h) = "api" THEN Idle ELSE req[h]]
        /\ heap' = [r \in Refs |-> IF r[1] = "api" THEN NoStages ELSE heap[r]]
    BY DEF FatalRace
  <1>1. \A g \in Handlers : Side(g) = "api" => req'[g] = Idle /\ req'[g].pc = "idle" /\ Side(g)' = "api"
    <2>1. "read" \notin Reasons
      BY DEF Configured
    <2> QED
      BY <2>1, <1>0, RestingReq DEF Side
  <1>2. \A g \in Handlers : Side(g) # "api" => req'[g] = req[g] /\ Side(g)' = Side(g)
    BY <1>0 DEF Side
  <1>3. /\ stores'["api"] = Nil
        /\ \A side \in Sides : side # "api" => stores'[side] = stores[side]
    BY <1>0 DEF OnbTypes, Sides
  <1>4. \A r \in Refs : r[1] # "api" => heap'[r] = heap[r]
    BY <1>0
  <1>5. OnbTypes'
    <2>1. NoStages \in [StageSet -> Nat \cup {Nil}]
      BY DEF NoStages
    <2>2. heap' \in [Refs -> [StageSet -> Nat \cup {Nil}]]
      BY <2>1, <1>0 DEF OnbTypes
    <2>3. req' \in [Handlers -> ReqType]
      BY <1>0, RestingReq DEF OnbTypes
    <2>4. stores' \in [Sides -> Records \cup {Nil}]
      BY <1>0 DEF OnbTypes
    <2> QED
      BY <2>2, <2>3, <2>4, <1>0 DEF OnbTypes
  <1>6. \A g \in Handlers : Held(g)'
    <2> SUFFICES ASSUME NEW g \in Handlers PROVE Held(g)'
      OBVIOUS
    <2>1. CASE Side(g) = "api"
      <3>1. req'[g].pc = "idle" /\ req'[g].t <= now'
        BY <2>1, <1>0, <1>1, RestingReq DEF OnbTypes
      <3> QED
        BY <3>1 DEF Held, Holding
    <2>2. CASE Side(g) # "api"
      <3>1. Held(g) /\ req'[g] = req[g] /\ Side(g)' = Side(g)
        BY <2>2, <1>2
      <3>2. CASE req[g].pc \notin Holding
        BY <3>1, <3>2, <1>0 DEF Held, Holding
      <3>3. CASE req[g].pc \in Holding
        <4>1. heap'[req[g].ref] = heap[req[g].ref]
          BY <3>1, <3>3, <2>2, <1>4 DEF Held, Mapped
        <4> QED
          BY <3>1, <4>1, <1>0 DEF Held, Mapped
      <3> QED
        BY <3>2, <3>3
    <2> QED
      BY <2>1, <2>2
  <1>7. \A g \in Handlers : Unshared(g)'
    <2> SUFFICES ASSUME NEW g \in Handlers, req'[g].pc = "create"
                 PROVE  /\ \A f \in Handlers : f # g /\ req'[f].pc \in Holding => req'[f].ref # req'[g].ref
                        /\ \A other \in Sides : stores'[other] # Nil => stores'[other].ref # req'[g].ref
      BY DEF Unshared
    <2>1. req'[g] = req[g] /\ Unshared(g)
      BY <1>1, <1>2
    <2>2. \A f \in Handlers : req'[f].pc \in Holding => req'[f] = req[f]
      BY <1>1, <1>2 DEF Holding
    <2> QED
      BY <2>1, <2>2, <1>3 DEF Unshared
  <1>8. \A side \in Sides : StoredWell(side)'
    <2> SUFFICES ASSUME NEW side \in Sides, stores'[side] # Nil PROVE StoredWell(side)'
      BY DEF StoredWell
    <2>1. side # "api" /\ stores'[side] = stores[side] /\ StoredWell(side)
      BY <1>3
    <2>2. heap'[stores[side].ref] = heap[stores[side].ref]
      BY <2>1, <1>4 DEF StoredWell, Mapped
    <2> QED
      BY <2>1, <2>2, <1>0 DEF StoredWell, Mapped
  <1>9. \A side \in Sides : EmptySide(side)'
    <2> SUFFICES ASSUME NEW side \in Sides, stores'[side] = Nil PROVE EmptySide(side)'
      BY DEF EmptySide
    <2>1. CASE side = "api"
      BY <2>1, <1>0, <1>1, <1>2 DEF EmptySide
    <2>2. CASE side # "api"
      <3>1. EmptySide(side) /\ stores[side] = Nil
        BY <2>2, <1>3
      <3> QED
        BY <3>1, <2>2, <1>1, <1>2 DEF EmptySide
    <2> QED
      BY <2>1, <2>2
  <1> QED
    BY <1>5, <1>6, <1>7, <1>8, <1>9

(* A now passes: every arrival stays in the past.                            *)
LEMMA TickStep ==
  ASSUME Configured, OnbInv, Tick PROVE OnbInv'
  <1> USE DEF OnbInv
  <1>0. now' = now + 1 /\ now \in Nat /\ UNCHANGED <<stores, heap, req, acked, nudgeSide, overlap>>
    BY DEF Tick, OnbTypes
  <1>1. OnbTypes'
    BY <1>0 DEF OnbTypes
  <1>2. ASSUME NEW r, Mapped(r) PROVE Mapped(r)'
    <2>1. \A s \in StageSet : heap[r][s] # Nil => heap[r][s] \in Nat
      BY <1>2 DEF Mapped, OnbTypes
    <2> QED
      BY <2>1, <1>0, <1>2 DEF Mapped
  <1>3. \A g \in Handlers : Side(g)' = Side(g)
    BY <1>0 DEF Side
  <1>4. \A g \in Handlers : Held(g)'
    <2> SUFFICES ASSUME NEW g \in Handlers PROVE Held(g)'
      OBVIOUS
    <2>1. req[g].t \in Nat /\ Held(g)
      BY DEF OnbTypes, ReqType
    <2>2. PICK r : r = req[g].ref
      OBVIOUS
    <2>3. Mapped(r) => Mapped(r)'
      BY <1>2
    <2>4. req[g].pc \in Holding => Mapped(req[g].ref)'
      BY <2>1, <2>2, <2>3, <1>0 DEF Held, Mapped
    <2> QED
      BY <2>1, <2>4, <1>0, <1>3 DEF Held
  <1>5. \A g \in Handlers : Unshared(g)'
    BY <1>0 DEF Unshared
  <1>6. \A side \in Sides : StoredWell(side)'
    <2> SUFFICES ASSUME NEW side \in Sides, stores[side] # Nil PROVE StoredWell(side)'
      BY <1>0 DEF StoredWell
    <2>1. PICK r : r = stores[side].ref
      OBVIOUS
    <2>2. StoredWell(side) /\ Mapped(r) /\ Mapped(r)'
      BY <2>1, <1>2 DEF StoredWell
    <2> QED
      BY <2>1, <2>2, <1>0 DEF StoredWell, Mapped
  <1>7. \A side \in Sides : EmptySide(side)'
    BY <1>0, <1>3 DEF EmptySide
  <1> QED
    BY <1>1, <1>4, <1>5, <1>6, <1>7

(* Every step keeps the invariant.                                           *)
LEMMA OnbNext ==
  ASSUME Configured, OnbInv, [OnboardingNext]_onboardingVars PROVE OnbInv'
  <1>1. ASSUME NEW h \in Handlers, Read(h) \/ Nudge(h) \/ Respond(h) PROVE OnbInv'
    BY <1>1, EndStep DEF Read, Nudge, Respond
  <1>2. ASSUME NEW h \in Handlers, NEW op \in Targets \cup Reasons \cup {"read"}, Begin(h, op) PROVE OnbInv'
    BY <1>2, BeginStep DEF Ops
  <1>3. CASE UNCHANGED onboardingVars
    <2>1. UNCHANGED <<now, stores, heap, req, nudgeSide, acked, overlap>>
      BY <1>3 DEF onboardingVars
    <2>2. \A g \in Handlers : Side(g)' = Side(g)
      BY <2>1 DEF Side
    <2> QED
      BY <2>1, <2>2 DEF OnbInv, OnbTypes, Held, Mapped, Unshared, StoredWell, EmptySide
  <1>4. CASE FatalRace
    BY <1>4, FatalStep
  <1>5. CASE Tick
    BY <1>5, TickStep
  <1>6. ASSUME NEW h \in Handlers, Get(h) \/ Create(h) \/ Advance(h) \/ Record(h) \/ Put(h)
        PROVE  OnbInv'
    BY <1>6, GetStep, CreateStep, AdvanceStep, RecordStep, PutStep
  <1> QED
    BY <1>1, <1>2, <1>3, <1>4, <1>5, <1>6 DEF OnboardingNext

(* A step of the only request under way leaves the others at rest: what is   *)
(* left to show is its own part and the stored record's.                     *)
LEMMA OneAtWork ==
  ASSUME OnbInv, AloneInv, ~overlap, NEW h \in Handlers,
         \A g \in Handlers : g # h => req[g].pc = "idle",
         \A g \in Handlers : g # h => req'[g] = req[g], Working(h)', KeptInOrder'
  PROVE  AloneInv'
  <1>1. \A g \in Handlers : g # h => req'[g].pc = "idle"
    OBVIOUS
  <1>2. \A g \in Handlers : Only(g)'
    BY <1>1 DEF Only
  <1>3. \A g \in Handlers : g # h => Working(g)'
    BY <1>1 DEF Working
  <1> QED
    BY <1>2, <1>3 DEF AloneInv

(* The record rests while no request is about to store one.                  *)
LEMMA KeptAtRest ==
  ASSUME KeptInOrder, UNCHANGED <<stores, heap, acked>>, \A g \in Handlers : req[g].pc # "put"
  PROVE  KeptInOrder'
  BY DEF KeptInOrder, Ordered, Beyond

(* No two requests: every step keeps the order.                              *)
LEMMA AloneNext ==
  ASSUME Configured, OnbInv, AloneInv, [OnboardingNext]_onboardingVars PROVE AloneInv'
  <1>a. CASE overlap'
    BY <1>a DEF AloneInv
  <1>b. CASE ~overlap'
    <2>0. ~overlap
      BY <1>b DEF OnboardingNext, onboardingVars, Begin, Get, Create, Read, Nudge, Advance, Record,
                  Put, Respond, FatalRace, Tick
    <2>1. (\A h \in Handlers : Only(h) /\ Working(h)) /\ KeptInOrder
      BY <2>0 DEF AloneInv
    <2>2. ASSUME NEW h \in Handlers, req[h].pc # "idle"
          PROVE  /\ \A g \in Handlers : g # h => req[g].pc = "idle"
                 /\ req[h].pc # "put" => \A g \in Handlers : req[g].pc # "put"
      BY <2>1, <2>2 DEF Only
    <2>t. req \in [Handlers -> ReqType]
      BY DEF OnbInv, OnbTypes
    <2>n. Nil \notin Nat /\ Nil \notin Records
      BY DEF Configured
    <2>s. \A h \in Handlers : Side(h) \in Sides
      BY DEF Side, OnbInv, OnbTypes, Sides
    <2>k. stores["api"] # Nil => stores["api"].current \in StageSet /\ stores["api"].ref \in Refs
                                 /\ stores["api"].ref[1] = "api"
      <3>1. "api" \in Sides
        BY DEF Sides
      <3> QED
        BY <3>1 DEF OnbInv, OnbTypes, Records, StoredWell
    <2>3. ASSUME NEW h \in Handlers, NEW op \in Targets \cup Reasons \cup {"read"}, Begin(h, op)
          PROVE  AloneInv'
      <3>1. /\ req[h].pc = "idle" /\ \A g \in Handlers : g # h => req[g].pc = "idle"
            /\ req' = [req EXCEPT ![h] = [Idle EXCEPT !.pc = "get", !.op = op, !.t = now]]
            /\ UNCHANGED <<stores, heap, acked>>
        BY <2>3, <1>b DEF Begin
      <3>2. req'[h].pc = "get" /\ \A g \in Handlers : g # h => req'[g] = req[g]
        BY <3>1, <2>t DEF Idle
      <3>3. Working(h)'
        BY <3>2 DEF Working
      <3>4. KeptInOrder'
        BY <3>1, <2>1, KeptAtRest
      <3> QED
        BY <3>1, <3>2, <3>3, <3>4, <2>0, OneAtWork
    <2>4. ASSUME NEW h \in Handlers, req' = [req EXCEPT ![h] = Idle], UNCHANGED <<stores, heap, acked>>,
                 req[h].pc \in {"use", "respond"}
          PROVE  AloneInv'
      <3>1. req'[h].pc = "idle" /\ \A g \in Handlers : g # h => req'[g] = req[g]
        BY <2>4, <2>t, RestingReq
      <3>2. Working(h)'
        BY <3>1 DEF Working
      <3>3. KeptInOrder'
        BY <2>1, <2>2, <2>4, KeptAtRest
      <3> QED
        BY <3>1, <3>2, <3>3, <2>0, <2>2, <2>4, OneAtWork
    <2>5. ASSUME NEW h \in Handlers, Get(h) PROVE AloneInv'
      <3> DEFINE side == Side(h)
                 mine == <<Side(h), h>>
      <3>0. req[h].pc = "get" /\ UNCHANGED <<now, stores, nudgeSide, acked>>
        BY <2>5 DEF Get
      <3>1. \A g \in Handlers : g # h => req'[g] = req[g]
        BY <2>5, <2>t DEF Get
      <3>o. \A g \in Handlers : g # h => req[g].pc = "idle"
        BY <2>2, <3>0
      <3>2. CASE stores[side] # Nil
        <4>1. heap' = heap /\ req' = [req EXCEPT ![h].pc = "use", ![h].cur = stores[side].current,
                                               ![h].ref = stores[side].ref]
          BY <3>2, <2>5 DEF Get
        <4>2. /\ req'[h].pc = "use" /\ req'[h].cur = stores[side].current
              /\ req'[h].ref = stores[side].ref /\ req'[h].op = req[h].op
          BY <4>1, <2>t DEF ReqType
        <4>3. Side(h)' = Side(h)
          BY <4>2, <3>0 DEF Side
        <4>4. Working(h)'
          BY <4>2, <4>3, <3>2, <3>0 DEF Working
        <4>5. KeptInOrder'
          BY <4>1, <3>0, <2>1, <2>2, KeptAtRest
        <4> QED
          BY <4>4, <4>5, <3>1, <3>o, <2>0, OneAtWork
      <3>3. CASE stores[side] = Nil
        <4>1. heap' = [heap EXCEPT ![mine] = New(now)]
              /\ req' = [req EXCEPT ![h].pc = "create", ![h].cur = "signed_up", ![h].ref = mine]
          BY <3>3, <2>5 DEF Get
        <4>2. req'[h].pc = "create" /\ req'[h].op = req[h].op
          BY <4>1, <2>t DEF ReqType
        <4>3. Side(h)' = Side(h)
          BY <4>2, <3>0 DEF Side
        <4>4. Working(h)'
          BY <4>2, <4>3, <3>3, <3>0 DEF Working
        <4>5. KeptInOrder'
          <5>1. CASE stores["api"] = Nil
            BY <5>1, <3>0 DEF KeptInOrder
          <5>2. CASE stores["api"] # Nil
            <6>1. mine[1] # "api"
              BY <5>2, <3>3
            <6>2. heap'[stores["api"].ref] = heap[stores["api"].ref]
              BY <6>1, <5>2, <2>k, <4>1 DEF OnbInv, OnbTypes
            <6>3. \A g \in Handlers : req[g].pc # "put"
              BY <2>2, <3>0
            <6> QED
              BY <6>2, <6>3, <2>1, <3>0 DEF KeptInOrder, Ordered, Beyond
          <5> QED
            BY <5>1, <5>2
        <4> QED
          BY <4>4, <4>5, <3>1, <3>o, <2>0, OneAtWork
      <3> QED
        BY <3>2, <3>3
    <2>6. ASSUME NEW h \in Handlers, Create(h) PROVE AloneInv'
      <3> DEFINE side == Side(h)
                 rec == [current |-> req[h].cur, ref |-> req[h].ref]
      <3>0. /\ req[h].pc = "create" /\ UNCHANGED <<now, heap, acked, nudgeSide>>
            /\ stores' = [stores EXCEPT ![Side(h)] = rec]
            /\ req' = [req EXCEPT ![h].pc = "use"]
        BY <2>6 DEF Create
      <3>1. \A g \in Handlers : g # h => req'[g] = req[g]
        BY <3>0, <2>t
      <3>o. \A g \in Handlers : g # h => req[g].pc = "idle"
        BY <2>2, <3>0
      <3>2. /\ req'[h].pc = "use" /\ req'[h].cur = req[h].cur
            /\ req'[h].ref = req[h].ref /\ req'[h].op = req[h].op
        BY <3>0, <2>t DEF ReqType
      <3>3. Side(h)' = Side(h)
        BY <3>2, <3>0 DEF Side
      <3>4. /\ req[h].cur = "signed_up" /\ req[h].ref \in Refs /\ "signed_up" \in StageSet
            /\ \A s \in StageSet : s # "signed_up" => heap[req[h].ref][s] = Nil
        BY <3>0, StageNames DEF OnbInv, Held, Mapped, Holding
      <3>5. rec # Nil
        BY <3>4, <2>n DEF Records
      <3>6. rec.current = "signed_up" /\ rec.ref = req[h].ref
        BY <3>4
      <3> HIDE DEF rec
      <3>7. stores'[side] = rec /\ \A other \in Sides : other # side => stores'[other] = stores[other]
        BY <3>0, <2>s DEF OnbInv, OnbTypes
      <3>8. Working(h)'
        BY <3>2, <3>3, <3>4, <3>5, <3>6, <3>7 DEF Working
      <3>9. KeptInOrder'
        <4>1. CASE side = "api"
          <5>1. stores'["api"].current = "signed_up" /\ stores'["api"].ref = req[h].ref
            BY <4>1, <3>6, <3>7
          <5>2. stores["api"] = Nil
            BY <4>1, <3>0, <2>1 DEF Working
          <5>3. acked = 0
            BY <5>2 DEF OnbInv, EmptySide, Sides
          <5>4. Ordered(heap[req[h].ref])
            BY <3>4, IndexValues DEF Ordered
          <5>5. Beyond(heap[req[h].ref], "signed_up")
            BY <3>4, IndexValues DEF Beyond
          <5> QED
            BY <5>1, <5>3, <5>4, <5>5, <3>0, IndexValues DEF KeptInOrder, Ordered, Beyond
        <4>2. CASE side # "api"
          <5>1. stores'["api"] = stores["api"]
            BY <4>2, <3>7 DEF Sides
          <5>2. \A g \in Handlers : req[g].pc # "put"
            BY <2>2, <3>0
          <5> QED
            BY <5>1, <5>2, <2>1, <3>0 DEF KeptInOrder, Ordered, Beyond
        <4> QED
          BY <4>1, <4>2
      <3> QED
        BY <3>1, <3>o, <3>8, <3>9, <2>0, OneAtWork
    <2>7. ASSUME NEW h \in Handlers, Advance(h) PROVE AloneInv'
      <3>0. req[h].pc = "use" /\ UNCHANGED <<now, stores, heap, acked, nudgeSide>>
        BY <2>7 DEF Advance
      <3>1. CASE Index(req[h].op) < 0 \/ Index(req[h].op) < Index(req[h].cur)
        BY <3>0, <3>1, <2>4, <2>7 DEF Advance
      <3>2. CASE ~(Index(req[h].op) < 0 \/ Index(req[h].op) < Index(req[h].cur))
        <4>1. req[h].op \in StageSet
          BY <3>2, IndexType
        <4>2. req' = [req EXCEPT ![h].pc = IF Reached(h)[req[h].op] = Nil THEN "record" ELSE "put",
                                 ![h].t = now]
          BY <3>2, <2>7 DEF Advance
        <4>3. /\ req'[h].pc \in {"record", "put"} /\ req'[h].t = now
              /\ req'[h].cur = req[h].cur /\ req'[h].ref = req[h].ref /\ req'[h].op = req[h].op
              /\ \A g \in Handlers : g # h => req'[g] = req[g]
          BY <4>2, <2>t DEF ReqType
        <4>4. Side(h) = "api" /\ Side(h)' = "api"
          BY <4>1, <4>3, StageIsNoReason DEF Side
        <4>5. /\ stores["api"] # Nil /\ req[h].ref = stores["api"].ref
              /\ req[h].cur = stores["api"].current
          BY <4>4, <3>0, <2>1 DEF Working
        <4>6. /\ Index(req[h].op) \in Nat /\ Index(stores["api"].current) \in Nat
              /\ Index(req[h].op) >= Index(stores["api"].current)
          BY <4>1, <4>5, <3>2, <2>k, IndexType
        <4>7. \A g \in Handlers : req[g].pc # "put"
          BY <2>2, <3>0
        <4>8. Beyond(heap[req[h].ref], req[h].op)
          <5>1. Beyond(heap[req[h].ref], stores["api"].current)
            BY <4>5, <4>7, <2>1 DEF KeptInOrder
          <5>2. \A u \in StageSet : Index(u) \in Nat
            BY IndexType
          <5> QED
            BY <5>1, <5>2, <4>6 DEF Beyond
        <4>9. \A s \in StageSet : heap[req[h].ref][s] # Nil => heap[req[h].ref][s] <= now
          BY <3>0 DEF OnbInv, Held, Mapped, Holding
        <4>10. Working(h)'
          BY <4>3, <4>4, <4>5, <4>6, <4>8, <4>9, <3>0 DEF Working, Beyond
        <4>11. KeptInOrder'
          BY <4>7, <3>0, <2>1, KeptAtRest
        <4> QED
          BY <4>3, <4>10, <4>11, <3>0, <2>0, <2>2, OneAtWork
      <3> QED
        BY <3>1, <3>2
    <2>8. ASSUME NEW h \in Handlers, Record(h) PROVE AloneInv'
      <3>0. /\ req[h].pc = "record" /\ UNCHANGED <<now, stores, acked, nudgeSide>>
            /\ heap' = [heap EXCEPT ![req[h].ref][req[h].op] = req[h].t]
            /\ req' = [req EXCEPT ![h].pc = "put"]
        BY <2>8 DEF Record
      <3>1. /\ req'[h].pc = "put" /\ req'[h].ref = req[h].ref /\ req'[h].op = req[h].op
            /\ \A g \in Handlers : g # h => req'[g] = req[g]
        BY <3>0, <2>t DEF ReqType
      <3>2. req[h].op \in StageSet /\ req[h].ref \in Refs
        BY <3>0 DEF OnbInv, Held, Mapped, Holding
      <3>3. Side(h) = "api" /\ Side(h)' = "api"
        BY <3>1, <3>2, StageIsNoReason DEF Side
      <3>4. /\ stores["api"] # Nil /\ req[h].ref = stores["api"].ref
            /\ Index(req[h].op) >= Index(stores["api"].current)
            /\ \A s \in StageSet : heap[req[h].ref][s] # Nil => heap[req[h].ref][s] <= req[h].t
        BY <3>3, <3>0, <2>1 DEF Working
      <3>5. \A g \in Handlers : req[g].pc # "put"
        BY <2>2, <3>0
      <3>6. /\ Ordered(heap[req[h].ref]) /\ Beyond(heap[req[h].ref], stores["api"].current)
            /\ Index(stores["api"].current) >= acked
        BY <3>4, <3>5, <2>1 DEF KeptInOrder
      <3> DEFINE m == heap[req[h].ref]
                 m2 == heap'[req[h].ref]
                 op == req[h].op
      <3>7. m2[op] = req[h].t /\ \A s \in StageSet : s # op => m2[s] = m[s]
        BY <3>0, <3>2 DEF OnbInv, OnbTypes
      <3>i. \A s \in StageSet : Index(s) \in Nat
        BY IndexType
      <3>j. stores["api"].current \in StageSet
        BY <3>4, <2>k
      <3>8. Beyond(m2, op)
        BY <3>i, <3>j, <3>2, <3>4, <3>6, <3>7 DEF Beyond
      <3>9. Ordered(m2)
        <4> SUFFICES ASSUME NEW s \in StageSet, NEW u \in StageSet,
                            Index(s) < Index(u), m2[s] # Nil, m2[u] # Nil
                     PROVE  m2[s] <= m2[u]
          BY DEF Ordered
        <4>1. CASE u = op
          <5>1. s # op
            BY <4>1, <3>i
          <5> QED
            BY <5>1, <4>1, <3>4, <3>7
        <4>2. CASE s = op
          <5>1. Index(u) <= Index(op)
            BY <3>8 DEF Beyond
          <5> QED
            BY <5>1, <4>2, <3>i
        <4>3. CASE s # op /\ u # op
          BY <4>3, <3>6, <3>7 DEF Ordered
        <4> QED
          BY <4>1, <4>2, <4>3
      <3>10. Working(h)'
        BY <3>0, <3>1, <3>3, <3>4, <3>8 DEF Working, Beyond
      <3>11. KeptInOrder'
        BY <3>0, <3>1, <3>4, <3>6, <3>9 DEF KeptInOrder, Ordered
      <3> QED
        BY <3>0, <3>1, <3>10, <3>11, <2>0, <2>2, OneAtWork
    <2>9. ASSUME NEW h \in Handlers, Put(h) PROVE AloneInv'
      <3> DEFINE rec == [current |-> req[h].op, ref |-> req[h].ref]
      <3>0. /\ req[h].pc = "put" /\ UNCHANGED <<now, heap, nudgeSide>>
            /\ stores' = [stores EXCEPT ![Side(h)] = rec]
            /\ acked' = IF Index(req[h].op) > acked THEN Index(req[h].op) ELSE acked
            /\ req' = [req EXCEPT ![h].pc = "respond"]
        BY <2>9 DEF Put
      <3>1. /\ req'[h].pc = "respond" /\ req'[h].ref = req[h].ref /\ req'[h].op = req[h].op
            /\ \A g \in Handlers : g # h => req'[g] = req[g]
        BY <3>0, <2>t DEF ReqType
      <3>2. req[h].op \in StageSet /\ req[h].ref \in Refs
        BY <3>0 DEF OnbInv, Held, Mapped, Holding
      <3>3. Side(h) = "api" /\ Side(h)' = "api"
        BY <3>1, <3>2, StageIsNoReason DEF Side
      <3>4. /\ stores["api"] # Nil /\ req[h].ref = stores["api"].ref
            /\ Index(req[h].op) >= Index(stores["api"].current)
            /\ Beyond(heap[req[h].ref], req[h].op)
        BY <3>3, <3>0, <2>1 DEF Working
      <3>5. Ordered(heap[req[h].ref]) /\ Index(stores["api"].current) >= acked
        BY <3>4, <2>1 DEF KeptInOrder
      <3>6. rec # Nil /\ rec.current = req[h].op /\ rec.ref = req[h].ref
        BY <3>2, <2>n DEF Records
      <3> HIDE DEF rec
      <3>7. stores'["api"] = rec
        BY <3>0, <3>3 DEF OnbInv, OnbTypes, Sides
      <3>8. Index(req[h].op) >= acked'
        <4>1. Index(req[h].op) \in Nat /\ Index(stores["api"].current) \in Nat /\ acked \in Nat
          BY <3>2, <3>4, <2>k, IndexType DEF OnbInv, OnbTypes
        <4> QED
          BY <4>1, <3>0, <3>4, <3>5
      <3>9. Working(h)'
        BY <3>1, <3>3, <3>6, <3>7 DEF Working
      <3>10. KeptInOrder'
        BY <3>0, <3>4, <3>5, <3>6, <3>7, <3>8 DEF KeptInOrder, Ordered, Beyond
      <3> QED
        BY <3>0, <3>1, <3>9, <3>10, <2>0, <2>2, OneAtWork
    <2>10. ~FatalRace
      BY <2>1 DEF Only, FatalRace, Racing
    <2>11. CASE Tick \/ UNCHANGED onboardingVars
      <3>1. UNCHANGED <<stores, heap, req, acked, nudgeSide, overlap>>
        BY <2>11 DEF Tick, onboardingVars
      <3>2. \A g \in Handlers : Side(g)' = Side(g)
        BY <3>1 DEF Side
      <3> QED
        BY <2>1, <3>1, <3>2 DEF AloneInv, Only, Working, KeptInOrder, Ordered, Beyond
    <2>12. ASSUME NEW h \in Handlers, Read(h) \/ Nudge(h) \/ Respond(h) PROVE AloneInv'
      BY <2>12, <2>4 DEF Read, Nudge, Respond
    <2> QED
      BY <2>3, <2>5, <2>6, <2>7, <2>8, <2>9, <2>10, <2>11, <2>12 DEF OnboardingNext
  <1> QED
    BY <1>a, <1>b

(* The stored record makes sense to shouldFire and GetHealth, however the    *)
(* requests of a tenant interleave: its stage has an arrival, none precedes  *)
(* the signup, and without overlapping requests arrivals are in stage order. *)
THEOREM RecordInOrderHolds == OnboardingSpec => []RecordInOrder
  <1> USE OnboardingAssumption
  <1>1. OnboardingInit => OnbInv /\ AloneInv
    BY OnbStarts
  <1>2. (OnbInv /\ AloneInv) /\ [OnboardingNext]_onboardingVars => (OnbInv /\ AloneInv)'
    BY OnbNext, AloneNext
  <1>3. OnbInv /\ AloneInv => RecordInOrder
    <2> SUFFICES ASSUME OnbInv, AloneInv PROVE RecordInOrder
      OBVIOUS
    <2>1. CurrentReached
      BY DEF OnbInv, StoredWell, CurrentReached
    <2>2. SignupFirst
      <3> SUFFICES ASSUME NEW side \in Sides, stores[side] # Nil
                   PROVE  LET reached == heap[stores[side].ref]
                          IN  /\ reached["signed_up"] # Nil
                              /\ \A s \in StageSet : reached[s] # Nil => reached["signed_up"] <= reached[s]
        BY DEF SignupFirst
      <3>1. Mapped(stores[side].ref)
        BY DEF OnbInv, StoredWell
      <3> QED
        BY <3>1 DEF Mapped, Configured
    <2>3. ReachedInOrder
      BY DEF AloneInv, KeptInOrder, Ordered, ReachedInOrder
    <2> QED
      BY <2>1, <2>2, <2>3 DEF RecordInOrder
  <1> QED
    BY <1>1, <1>2, <1>3, PTL DEF OnboardingSpec

(* Forward only: Service.Transition never takes back a stage it acknowledged *)
(* while requests of the tenant come one at a time.                          *)
THEOREM AckedKeptAloneHolds == OnboardingSpec => []AckedKeptAlone
  <1> USE OnboardingAssumption
  <1>1. OnboardingInit => OnbInv /\ AloneInv
    BY OnbStarts
  <1>2. (OnbInv /\ AloneInv) /\ [OnboardingNext]_onboardingVars => (OnbInv /\ AloneInv)'
    BY OnbNext, AloneNext
  <1>3. OnbInv /\ AloneInv => AckedKeptAlone
    BY DEF AloneInv, KeptInOrder, AckedKeptAlone, AckedKept
  <1> QED
    BY <1>1, <1>2, <1>3, PTL DEF OnboardingSpec

(* OnboardingNudge.Execute tells no tenant to do what it has been            *)
(* acknowledged for, on a store the worker shares with the api and while     *)
(* requests come one at a time.                                              *)
THEOREM NudgeHonestHolds == OnboardingSpec => NudgeHonest
  <1> USE OnboardingAssumption
  <1> DEFINE Step == nudgeSide = "api" /\ ~overlap /\ nudged' \notin {nudged, Nil} =>
                       acked < CASE nudged' = "24h_no_vcs" -> Index("vcs_connected")
                                 [] nudged' = "72h_no_agent" -> Index("agent_installed")
                                 [] nudged' = "7d_no_apply_fix" -> Index("first_apply_fix")
  <1>1. OnboardingInit => OnbInv /\ AloneInv
    BY OnbStarts
  <1>2. (OnbInv /\ AloneInv) /\ [OnboardingNext]_onboardingVars => (OnbInv /\ AloneInv)'
    BY OnbNext, AloneNext
  <1>3. (OnbInv /\ AloneInv) /\ [OnboardingNext]_onboardingVars => [Step]_onboardingVars
    <2> SUFFICES ASSUME OnbInv, AloneInv, OnboardingNext, nudgeSide = "api", ~overlap, nudged' \notin {nudged, Nil}
                 PROVE  acked < CASE nudged' = "24h_no_vcs" -> Index("vcs_connected")
                                  [] nudged' = "72h_no_agent" -> Index("agent_installed")
                                  [] nudged' = "7d_no_apply_fix" -> Index("first_apply_fix")
      OBVIOUS
    <2>1. PICK h \in Handlers : Nudge(h)
      BY DEF OnboardingNext, Begin, Get, Create, Read, Advance, Record, Put, Respond,
             FatalRace, Tick
    <2>2. /\ req[h].pc = "use" /\ req[h].op \in Reasons /\ nudged' = req[h].op
          /\ shouldFire(req[h].op, req[h].cur, Reached(h), req[h].t)
      BY <2>1 DEF Nudge
    <2>3. Side(h) = "api"
      BY <2>2 DEF Side
    <2>4. /\ stores["api"] # Nil /\ req[h].cur = stores["api"].current
          /\ Index(stores["api"].current) >= acked
      BY <2>2, <2>3 DEF AloneInv, Working, KeptInOrder
    <2>5. acked <= Index(req[h].cur) /\ acked \in Nat
      BY <2>4, IndexType DEF OnbInv, OnbTypes
    <2>6. req[h].op \in {"24h_no_vcs", "72h_no_agent", "7d_no_apply_fix"}
      BY <2>2 DEF Configured
    <2>7. CASE req[h].op = "24h_no_vcs"
      BY <2>2, <2>5, <2>7, IndexValues DEF shouldFire
    <2>8. CASE req[h].op = "72h_no_agent"
      BY <2>2, <2>5, <2>8, IndexValues DEF shouldFire
    <2>9. CASE req[h].op = "7d_no_apply_fix"
      BY <2>2, <2>5, <2>9, IndexValues DEF shouldFire
    <2> QED
      BY <2>6, <2>7, <2>8, <2>9
  <1> QED
    BY <1>1, <1>2, <1>3, PTL DEF OnboardingSpec, NudgeHonest
===============================================================================
