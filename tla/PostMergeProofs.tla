--------------------------- MODULE PostMergeProofs ---------------------------
(***************************************************************************)
(* Proofs for PostMerge: for any number of deliveries served at once, any  *)
(* failures and any moves of the installation, a row is marked once, after *)
(* its comment, for its own tenant, and rollbacks stay in the window.      *)
(***************************************************************************)
EXTENDS PostMerge, TLAPS

(* What a request knows at each step of OnMerged.                            *)
Known(r) ==
  LET q == req[r]
  IN  /\ q.pc = "lookup" => q.tenant \in held
      /\ q.pc \in {"post", "mark"} => q.row \in Fixes /\ OwnerOf[q.row] \in held /\ q.at \in Times
      /\ q.pc = "mark" => comments[q.row] > 0

(* A merged row has its time, and was commented on for its own tenant.       *)
RowsTold ==
  \A f \in Fixes :
    /\ fix[f].state = "merged" => fix[f].at \in Times /\ comments[f] > 0
    /\ comments[f] > 0 => OwnerOf[f] \in held

(* While no two requests overlapped, at most one is being served.            *)
OneAtATime ==
  ~overlap => \A q, r \in Requests : Active(q) /\ Active(r) => q = r

(* Without overlap and faults, a row that was commented on, once, is marked  *)
(* or about to be, and a request that will comment has a row without one.    *)
AloneTold ==
  ~overlap /\ ~faults =>
    /\ \A f \in Fixes : comments[f] > 0 =>
         /\ comments[f] = 1
         /\ fix[f].state = "merged" \/ \E r \in Requests : req[r].pc = "mark" /\ req[r].row = f
    /\ \A r \in Requests : req[r].pc = "post" => comments[req[r].row] = 0

(* When the merge of row f was, as far as anybody but the watchdog knows.    *)
Base(f) == IF fix[f].state = "merged" THEN fix[f].at ELSE merged

(* Nothing knows of the merge before it is, no request and no row dates it   *)
(* earlier than GitHub does, and a watched state never later than its row.   *)
TimesOrdered ==
  /\ merged # Nil => merged <= now
  /\ \A r \in Requests : Active(r) => merged # Nil /\ (req[r].at # Nil => merged <= req[r].at)
  /\ \A f \in Fixes : fix[f].state = "merged" => merged # Nil /\ merged <= fix[f].at
  /\ \A f \in Fixes : watch[f] # Nil => merged # Nil /\ watch[f] <= Base(f)

(* The inductive invariant.                                                  *)
IInv ==
  /\ TypeOK
  /\ install # Nil => install \in held
  /\ \A r \in Requests : Known(r)
  /\ RowsTold
  /\ RollbackInWindow
  /\ OneAtATime
  /\ AloneTold
  /\ TimesOrdered

USE PostMergeAssumption

(* Resting requests and unmarked rows are well typed.                        *)
LEMMA RestFacts ==
  /\ Idle \in Request /\ Idle.pc = "idle"
  /\ [state |-> "open", at |-> Nil] \in Row
  BY DEF Idle, Request, Row

(* The invariant holds before the merge.                                     *)
LEMMA InitInv == Init => IInv
  <1> SUFFICES ASSUME Init PROVE IInv
    OBVIOUS
  <1>0. 0 \in Times /\ 0 \in 0..MaxDeliveries /\ 0 \in Nat
    BY DEF Times
  <1>1. TypeOK
    BY <1>0, RestFacts, Zenon DEF Init, TypeOK
  <1>2. \A r \in Requests : req[r].pc = "idle"
    BY RestFacts DEF Init
  <1>3. \A f \in Fixes : fix[f].state = "open" /\ comments[f] = 0 /\ rolled[f] = Nil /\ watch[f] = Nil
    BY DEF Init
  <1>4. install \in held /\ merged = Nil
    BY DEF Init
  <1> QED
    BY <1>1, <1>2, <1>3, <1>4
       DEF IInv, Known, RowsTold, RollbackInWindow, OneAtATime, AloneTold, TimesOrdered, Active

(* A step that leaves the requests, the rows, the tenants and the histories  *)
(* of comments and overlap alone keeps what is known of them.                *)
LEMMA QuietStep ==
  ASSUME IInv, TypeOK', UNCHANGED <<fix, req, comments, overlap, faults>>,
         held \subseteq held', install' # Nil => install' \in held', RollbackInWindow',
         TimesOrdered'
  PROVE  IInv'
  <1>1. \A r \in Requests : Known(r)'
    BY DEF IInv, Known
  <1>2. RowsTold'
    BY DEF IInv, RowsTold
  <1>3. OneAtATime' /\ AloneTold'
    BY DEF IInv, OneAtATime, AloneTold, Active
  <1> QED
    BY <1>1, <1>2, <1>3 DEF IInv

(* The request is over, or dates the merge as it did, not at all, or no      *)
(* earlier than it was.                                                      *)
DatedWell(r) ==
  \/ req'[r].pc = "idle"
  \/ Active(r) /\ req'[r].at = req[r].at
  \/ merged # Nil /\ (req'[r].at = Nil \/ merged <= req'[r].at)

(* A step that leaves every time but the clock alone keeps their order.      *)
LEMMA TimesKept ==
  ASSUME IInv, TypeOK', UNCHANGED <<merged, fix, watch, rolled>>, now' >= now,
         \A r \in Requests : DatedWell(r)
  PROVE  TimesOrdered' /\ RollbackInWindow'
  <1>1. merged' # Nil => merged' <= now'
    BY DEF IInv, TypeOK, TimesOrdered, Times
  <1>2. \A r \in Requests : Active(r)' => merged' # Nil /\ (req'[r].at # Nil => merged' <= req'[r].at)
    BY DEF IInv, TimesOrdered, Active, DatedWell
  <1>3. \A f \in Fixes : Base(f)' = Base(f)
    BY DEF Base
  <1> QED
    BY <1>1, <1>2, <1>3 DEF IInv, TimesOrdered, RollbackInWindow

(* The steps of the environment, the watchdog and the receipts.              *)
LEMMA OutsideInv ==
  ASSUME IInv, Merge \/ Tick \/ Reinstall \/ Rotate
               \/ (\E f \in Followed : Enroll(f) \/ Watch(f) \/ Issue(f))
  PROVE  IInv'
  <1>0. now \in Nat /\ Window \in Nat /\ Followed \subseteq Fixes
        /\ (req' = req => \A r \in Requests : DatedWell(r))
    BY DEF IInv, TypeOK, Times, Active, DatedWell
  <1>1. CASE Merge
    <2>1. TypeOK'
      BY <1>1 DEF Merge, hist, IInv, TypeOK
    <2>2. /\ \A r \in Requests : ~Active(r)
          /\ \A f \in Fixes : fix[f].state # "merged" /\ watch[f] = Nil /\ rolled[f] = Nil
      BY <1>1 DEF Merge, IInv, TimesOrdered, RollbackInWindow
    <2>3. TimesOrdered' /\ RollbackInWindow'
      BY <1>0, <1>1, <2>2 DEF Merge, hist, TimesOrdered, RollbackInWindow, Active
    <2> QED
      BY <1>1, <2>1, <2>3, QuietStep DEF Merge, hist, IInv
  <1>2. CASE Tick
    <2>1. now' \in Times
      BY <1>2 DEF Tick, IInv, TypeOK, Times
    <2>2. TypeOK'
      BY <1>2, <2>1 DEF Tick, hist, IInv, TypeOK
    <2>3. TimesOrdered' /\ RollbackInWindow'
      BY <1>0, <1>2, <2>2, TimesKept DEF Tick, hist
    <2> QED
      BY <1>2, <2>2, <2>3, QuietStep DEF Tick, hist, IInv
  <1>3. CASE Reinstall
    <2>1. TypeOK'
      BY <1>3 DEF Reinstall, IInv, TypeOK
    <2>2. TimesOrdered' /\ RollbackInWindow'
      BY <1>0, <1>3, <2>1, TimesKept DEF Reinstall
    <2> QED
      BY <1>3, <2>1, <2>2, QuietStep DEF Reinstall, IInv
  <1>4. CASE Rotate
    <2>1. TypeOK'
      BY <1>4 DEF Rotate, hist, IInv, TypeOK
    <2>2. TimesOrdered' /\ RollbackInWindow'
      BY <1>0, <1>4, <2>1, TimesKept DEF Rotate, hist
    <2> QED
      BY <1>4, <2>1, <2>2, QuietStep DEF Rotate, hist, IInv
  <1>5. ASSUME NEW f \in Followed, Enroll(f) PROVE IInv'
    <2>0. f \in Fixes /\ merged \in Nat
      BY <1>0, <1>5 DEF Enroll, IInv, TypeOK, Times
    <2>1. PICK t : /\ watch' = [watch EXCEPT ![f] = t]
                   /\ t = merged \/ (fix[f].state = "merged" /\ t = fix[f].at)
      BY <1>5 DEF Enroll
    <2>2. t \in Times /\ merged # Nil /\ t <= Base(f)
      BY <1>5, <2>0, <2>1 DEF Enroll, IInv, TypeOK, RowsTold, TimesOrdered, Base, Times
    <2>3. watch' \in [Fixes -> Times \cup {Nil}] /\ watch'[f] = t
          /\ \A g \in Fixes \ {f} : watch'[g] = watch[g]
      BY <2>0, <2>1, <2>2 DEF IInv, TypeOK
    <2>4. TypeOK'
      BY <1>5, <2>3 DEF Enroll, hist, IInv, TypeOK
    <2>5. RollbackInWindow'
      BY <1>5 DEF Enroll, hist, IInv, RollbackInWindow
    <2>6. \A g \in Fixes : Base(g)' = Base(g)
      BY <1>5 DEF Enroll, hist, Base
    <2>7. TimesOrdered'
      BY <1>5, <2>2, <2>3, <2>6 DEF Enroll, hist, IInv, TimesOrdered, Active
    <2> QED
      BY <1>5, <2>4, <2>5, <2>7, QuietStep DEF Enroll, hist, IInv
  <1>6. ASSUME NEW f \in Followed, Watch(f) PROVE IInv'
    <2>0. f \in Fixes /\ merged \in Times \cup {Nil} /\ watch[f] \in Times \cup {Nil} /\ now \in Times
          /\ rolled \in [Fixes -> Times \cup {Nil}]
      BY <1>0 DEF IInv, TypeOK
    <2>1. PICK at \in Nat :
            /\ at <= now /\ rolled' = [rolled EXCEPT ![f] = at]
            /\ watch[f] # Nil /\ ~(at >= watch[f] + Window)
      <3>1. PICK bounds, closed, crossed \in BOOLEAN, stamp \in (0..now) \cup {Nil} :
              LET at == IF stamp = Nil THEN now ELSE stamp
              IN  /\ Decide([mergedAt |-> watch[f], bounds |-> bounds, closed |-> closed], crossed, at) = "rollback"
                  /\ rolled' = [rolled EXCEPT ![f] = at]
        BY <1>6 DEF Watch
      <3> DEFINE at == IF stamp = Nil THEN now ELSE stamp
      <3>2. at \in Nat /\ at <= now
        BY <1>0
      <3> HIDE DEF at
      <3>3. Decide([mergedAt |-> watch[f], bounds |-> bounds, closed |-> closed], crossed, at) = "rollback"
            /\ rolled' = [rolled EXCEPT ![f] = at]
        BY <3>1 DEF at
      <3>4. watch[f] # Nil /\ ~(at >= watch[f] + Window)
        BY <3>3 DEF Decide
      <3> QED
        BY <3>2, <3>3, <3>4
    <2>2. merged # Nil /\ watch[f] <= Base(f) /\ Base(f) \in Nat /\ watch[f] \in Nat
      BY <2>0, <2>1 DEF IInv, TimesOrdered, RowsTold, Base, Times
    <2>3. at < Base(f) + Window
      BY <1>0, <2>1, <2>2
    <2>4. at \in Times
      BY <2>0, <2>1 DEF Times
    <2>5. TypeOK'
      BY <1>6, <2>0, <2>1, <2>4 DEF Watch, IInv, TypeOK
    <2>6. TimesOrdered'
      BY <1>6 DEF Watch, IInv, TimesOrdered, Active, Base
    <2>7. rolled'[f] = at /\ \A g \in Fixes \ {f} : rolled'[g] = rolled[g]
      BY <2>0, <2>1
    <2>8. RollbackInWindow'
      BY <1>6, <2>2, <2>3, <2>7 DEF Watch, IInv, RollbackInWindow, Base
    <2> QED
      BY <1>6, <2>5, <2>6, <2>8, QuietStep DEF Watch, IInv
  <1>7. ASSUME NEW f \in Followed, Issue(f) PROVE IInv'
    <2>0. f \in Fixes
      BY <1>0
    <2>1. PICK key \in Keys \cup {Nil}, at \in {Nil, fix[f].at} :
            receipts' = [receipts EXCEPT ![f] = Issued([key |-> key, issued |-> at])]
      BY <1>7 DEF Issue
    <2>2. at \in Times \cup {Nil} /\ now \in Times /\ issuer \in Keys
      BY <2>0 DEF IInv, TypeOK, Row
    <2>3. Issued([key |-> key, issued |-> at]) \in [signed : Receipt, shown : Receipt]
      BY <2>2 DEF Issued, Receipt
    <2>4. TypeOK'
      BY <1>7, <2>0, <2>1, <2>3 DEF Issue, hist, IInv, TypeOK
    <2>5. TimesOrdered' /\ RollbackInWindow'
      BY <1>0, <1>7, <2>4, TimesKept DEF Issue, hist
    <2> QED
      BY <1>7, <2>4, <2>5, QuietStep DEF Issue, hist, IInv
  <1> QED
    BY <1>1, <1>2, <1>3, <1>4, <1>5, <1>6, <1>7

(* A new delivery has not done anything yet.                                 *)
LEMMA DeliverInv ==
  ASSUME IInv, NEW r \in Requests, Deliver(r)
  PROVE  IInv'
  <1>1. PICK at \in {merged, Nil} : req' = [req EXCEPT ![r] = [Idle EXCEPT !.pc = "resolve", !.at = at]]
    BY DEF Deliver
  <1> DEFINE q == [Idle EXCEPT !.pc = "resolve", !.at = at]
  <1>2. q \in Request /\ q.pc = "resolve" /\ q.at = at
    BY DEF Idle, Request, IInv, TypeOK
  <1> HIDE DEF q
  <1>3. req' = [req EXCEPT ![r] = q] /\ req \in [Requests -> Request]
    BY <1>1 DEF q, IInv, TypeOK
  <1>4. req' \in [Requests -> Request] /\ req'[r].pc = "resolve" /\ req'[r].at \in {merged, Nil}
        /\ \A s \in Requests \ {r} : req'[s] = req[s]
    BY <1>2, <1>3
  <1>5. delivered' \in 0..MaxDeliveries
    BY DEF Deliver, IInv, TypeOK
  <1>6. TypeOK'
    BY <1>4, <1>5 DEF Deliver, IInv, TypeOK
  <1>7. \A s \in Requests : Known(s)'
    BY <1>4 DEF Deliver, IInv, Known
  <1>8. RowsTold' /\ (install' # Nil => install' \in held')
    BY DEF Deliver, IInv, RowsTold
  <1>9. OneAtATime'
    BY <1>4 DEF Deliver, IInv, OneAtATime, Active
  <1>10. AloneTold'
    BY <1>4 DEF Deliver, IInv, AloneTold, Active
  <1>11. TimesOrdered' /\ RollbackInWindow'
    <2>1. merged \in Nat /\ merged # Nil /\ now' >= now
      BY DEF Deliver, IInv, TypeOK, Times
    <2>2. \A s \in Requests : DatedWell(s)
      BY <1>4, <2>1 DEF Active, DatedWell
    <2> QED
      BY <1>6, <2>1, <2>2, TimesKept DEF Deliver
  <1> QED
    BY <1>6, <1>7, <1>8, <1>9, <1>10, <1>11 DEF IInv

(* A request that fails, at any call, leaves the rows as they are.           *)
LEMMA FailInv ==
  ASSUME IInv, NEW r \in Requests, Fail(r)
  PROVE  IInv'
  <1>1. req' \in [Requests -> Request] /\ req'[r].pc = "idle"
        /\ \A s \in Requests \ {r} : req'[s] = req[s]
    BY RestFacts DEF Fail, IInv, TypeOK
  <1>2. TypeOK'
    BY <1>1 DEF Fail, IInv, TypeOK
  <1>3. \A s \in Requests : Known(s)'
    BY <1>1 DEF Fail, IInv, Known
  <1>4. RowsTold' /\ (install' # Nil => install' \in held')
    BY DEF Fail, IInv, RowsTold
  <1>5. OneAtATime'
    BY <1>1 DEF Fail, IInv, OneAtATime, Active
  <1>6. AloneTold'
    <2> SUFFICES ASSUME ~overlap, ~faults' PROVE AloneTold'
      BY DEF Fail, AloneTold
    <2>1. ~faults /\ req[r].pc # "mark"
      BY DEF Fail, IInv, TypeOK
    <2> QED
      BY <1>1, <2>1 DEF Fail, IInv, AloneTold
  <1>7. TimesOrdered' /\ RollbackInWindow'
    <2>1. now' >= now
      BY DEF Fail, IInv, TypeOK, Times
    <2>2. \A s \in Requests : DatedWell(s)
      BY <1>1 DEF Fail, Active, DatedWell
    <2> QED
      BY <1>2, <2>1, <2>2, TimesKept DEF Fail
  <1> QED
    BY <1>2, <1>3, <1>4, <1>5, <1>6, <1>7 DEF IInv

(* The tenant of an active installation has held it.                         *)
LEMMA ResolveInv ==
  ASSUME IInv, NEW r \in Requests, Resolve(r)
  PROVE  IInv'
  <1>1. req' \in [Requests -> Request] /\ req'[r].pc = "lookup" /\ req'[r].tenant = install
        /\ req'[r].at = req[r].at /\ \A s \in Requests \ {r} : req'[s] = req[s]
    <2> DEFINE q == [req[r] EXCEPT !.pc = "lookup", !.tenant = install]
    <2>0. req[r] \in Request /\ install \in Tenants \cup {Nil}
      BY DEF IInv, TypeOK
    <2>1. q \in Request /\ q.pc = "lookup" /\ q.tenant = install /\ q.at = req[r].at
      BY <2>0 DEF Request
    <2>2. req' = [req EXCEPT ![r] = q] /\ req \in [Requests -> Request]
      BY DEF Resolve, IInv, TypeOK
    <2> HIDE DEF q
    <2> QED
      BY <2>1, <2>2
  <1>2. TypeOK'
    BY <1>1 DEF Resolve, hist, IInv, TypeOK
  <1>3. \A s \in Requests : Known(s)'
    BY <1>1 DEF Resolve, hist, IInv, Known
  <1>4. RowsTold' /\ (install' # Nil => install' \in held')
    BY DEF Resolve, hist, IInv, RowsTold
  <1>5. OneAtATime'
    BY <1>1 DEF Resolve, hist, IInv, OneAtATime, Active
  <1>6. AloneTold'
    BY <1>1 DEF Resolve, hist, IInv, AloneTold
  <1>7. TimesOrdered' /\ RollbackInWindow'
    <2>1. now' >= now
      BY DEF Resolve, hist, IInv, TypeOK, Times
    <2>2. \A s \in Requests : DatedWell(s)
      BY <1>1 DEF Resolve, Active, DatedWell
    <2> QED
      BY <1>2, <2>1, <2>2, TimesKept DEF Resolve, hist
  <1> QED
    BY <1>2, <1>3, <1>4, <1>5, <1>6, <1>7 DEF IInv

(* The row that is looked up is of the request's tenant and not marked yet.  *)
LEMMA LookupInv ==
  ASSUME IInv, NEW r \in Requests, Lookup(r)
  PROVE  IInv'
  <1>1. PICK f \in Fixes :
          /\ Matches(f, req[r].tenant)
          /\ req' = [req EXCEPT ![r] = Found(req[r], f)]
    BY DEF Lookup
  <1>2. req' \in [Requests -> Request] /\ req'[r].pc = "post" /\ req'[r].row = f
        /\ req'[r].at \in Times /\ req'[r].at \in {now, req[r].at} \ {Nil}
        /\ \A s \in Requests \ {r} : req'[s] = req[s]
    <2>1. req[r] \in Request /\ now \in Times
      BY DEF IInv, TypeOK
    <2>2. /\ Found(req[r], f) \in Request
          /\ Found(req[r], f).pc = "post" /\ Found(req[r], f).row = f /\ Found(req[r], f).at \in Times
          /\ Found(req[r], f).at \in {now, req[r].at} \ {Nil}
      <3> DEFINE at == IF req[r].at = Nil THEN now ELSE req[r].at
      <3>1. at \in Times /\ at \in {now, req[r].at} \ {Nil}
        BY <2>1 DEF Request, Times
      <3> HIDE DEF at
      <3>2. Found(req[r], f) = [req[r] EXCEPT !.pc = "post", !.row = f, !.at = at]
        BY DEF at, Found
      <3> QED
        BY <2>1, <3>1, <3>2 DEF Request
    <2> QED
      BY <1>1, <2>2 DEF IInv, TypeOK
  <1>3. OwnerOf[f] \in held /\ fix[f].state # "merged"
    BY <1>1 DEF Lookup, Matches, IInv, Known
  <1>4. TypeOK'
    BY <1>2 DEF Lookup, hist, IInv, TypeOK
  <1>5. \A s \in Requests : Known(s)'
    BY <1>2, <1>3 DEF Lookup, hist, IInv, Known
  <1>6. RowsTold' /\ (install' # Nil => install' \in held')
    BY DEF Lookup, hist, IInv, RowsTold
  <1>7. OneAtATime'
    BY <1>2 DEF Lookup, hist, IInv, OneAtATime, Active
  <1>8. AloneTold'
    <2> SUFFICES ASSUME ~overlap, ~faults PROVE AloneTold'
      BY DEF Lookup, hist, AloneTold
    <2>1. \A s \in Requests : req[s].pc = "mark" => s = r
      BY DEF Lookup, IInv, OneAtATime, Active
    <2>2. comments[f] = 0
      BY <1>3, <2>1 DEF Lookup, IInv, TypeOK, AloneTold
    <2> QED
      BY <1>2, <2>1, <2>2 DEF Lookup, hist, IInv, AloneTold
  <1>9. TimesOrdered' /\ RollbackInWindow'
    <2>1. now' >= now
      BY DEF Lookup, hist, IInv, TypeOK, Times
    <2>2. merged # Nil /\ merged <= req'[r].at
      BY <1>2 DEF Lookup, Active, IInv, TimesOrdered
    <2>3. \A s \in Requests : DatedWell(s)
      BY <1>2, <2>2 DEF Active, DatedWell
    <2> QED
      BY <1>4, <2>1, <2>2, <2>3, TimesKept DEF Lookup, hist
  <1> QED
    BY <1>4, <1>5, <1>6, <1>7, <1>8, <1>9 DEF IInv

(* A comment is one more for the request's row.                              *)
LEMMA PostInv ==
  ASSUME IInv, NEW r \in Requests, Post(r)
  PROVE  IInv'
  <1> DEFINE f == req[r].row
  <1>1. f \in Fixes /\ OwnerOf[f] \in held /\ req[r].at \in Times
    BY DEF Post, IInv, Known
  <1>2. comments' \in [Fixes -> Nat] /\ comments'[f] = comments[f] + 1
        /\ \A g \in Fixes : comments'[g] >= comments[g] /\ (g # f => comments'[g] = comments[g])
    BY <1>1 DEF Post, IInv, TypeOK
  <1>3. req' \in [Requests -> Request] /\ \A s \in Requests \ {r} : req'[s] = req[s]
    BY RestFacts DEF Post, IInv, TypeOK, Request
  <1>4. \/ req'[r].pc = "mark" /\ req'[r].row = f /\ req'[r].at = req[r].at /\ faults' = faults
        \/ req'[r].pc = "idle" /\ faults' = TRUE
    BY RestFacts DEF Post, IInv, TypeOK, Request
  <1> HIDE DEF f
  <1>5. TypeOK'
    BY <1>2, <1>3, <1>4 DEF Post, IInv, TypeOK
  <1>6. \A s \in Requests : Known(s)'
    BY <1>1, <1>2, <1>3, <1>4 DEF Post, IInv, TypeOK, Known
  <1>7. RowsTold' /\ (install' # Nil => install' \in held')
    BY <1>1, <1>2 DEF Post, IInv, TypeOK, RowsTold
  <1>8. OneAtATime'
    BY <1>3, <1>4 DEF Post, IInv, OneAtATime, Active
  <1>9. AloneTold'
    <2> SUFFICES ASSUME ~overlap', ~faults' PROVE AloneTold'
      BY DEF AloneTold
    <2>1. ~overlap /\ ~faults /\ req'[r].pc = "mark" /\ req'[r].row = f
      BY <1>4 DEF Post, IInv, TypeOK
    <2>2. \A s \in Requests \ {r} : req[s].pc = "idle"
      BY <2>1 DEF Post, IInv, OneAtATime, Active
    <2>3. comments'[f] = 1
      BY <1>2, <2>1 DEF Post, IInv, AloneTold, f
    <2> QED
      BY <1>2, <1>3, <2>1, <2>2, <2>3 DEF Post, IInv, TypeOK, AloneTold
  <1>10. TimesOrdered' /\ RollbackInWindow'
    <2>1. now' >= now
      BY DEF Post, IInv, TypeOK, Times
    <2>2. \A s \in Requests : DatedWell(s)
      BY <1>3, <1>4 DEF Post, Active, DatedWell
    <2> QED
      BY <1>5, <2>1, <2>2, TimesKept DEF Post
  <1> QED
    BY <1>5, <1>6, <1>7, <1>8, <1>9, <1>10 DEF IInv

(* The row is marked after its comment.                                      *)
LEMMA MarkInv ==
  ASSUME IInv, NEW r \in Requests, MarkMerged(r)
  PROVE  IInv'
  <1> DEFINE f == req[r].row
  <1>1. f \in Fixes /\ comments[f] > 0 /\ req[r].at \in Times
    BY DEF MarkMerged, IInv, Known
  <1>2. fix' \in [Fixes -> Row] /\ fix'[f].state = "merged" /\ fix'[f].at \in Times
        /\ (fix[f].state # "merged" => fix'[f].at = req[r].at)
        /\ \A g \in Fixes : fix[g].state = "merged" \/ g # f => fix'[g] = fix[g]
    BY <1>1 DEF MarkMerged, Marked, IInv, TypeOK, Row, RowsTold
  <1>3. req' \in [Requests -> Request] /\ req'[r].pc = "idle"
        /\ \A s \in Requests \ {r} : req'[s] = req[s]
    BY RestFacts DEF MarkMerged, IInv, TypeOK
  <1> HIDE DEF f
  <1>4. TypeOK'
    BY <1>2, <1>3 DEF MarkMerged, hist, IInv, TypeOK
  <1>5. \A s \in Requests : Known(s)'
    BY <1>3 DEF MarkMerged, hist, IInv, Known
  <1>6. RowsTold' /\ (install' # Nil => install' \in held')
    BY <1>1, <1>2 DEF MarkMerged, hist, IInv, RowsTold
  <1>7. RollbackInWindow' /\ TimesOrdered'
    <2>1. merged # Nil /\ merged <= req[r].at /\ merged \in Nat /\ req[r].at \in Nat
      BY <1>1 DEF MarkMerged, Active, IInv, TypeOK, TimesOrdered, Times
    <2>2. \A g \in Fixes : Base(g) \in Nat /\ Base(g)' \in Nat /\ Base(g) <= Base(g)'
      <3>0. fix'[f].at \in Nat /\ merged' = merged
            /\ \A g \in Fixes : fix[g].state = "merged" => fix[g].at \in Nat
        BY <1>2 DEF MarkMerged, IInv, RowsTold, Times
      <3>1. CASE fix[f].state = "merged"
        BY <1>1, <1>2, <2>1, <3>0, <3>1 DEF Base
      <3>2. CASE fix[f].state # "merged"
        BY <1>1, <1>2, <2>1, <3>0, <3>2 DEF Base
      <3> QED
        BY <3>1, <3>2
    <2>3. \A g \in Fixes : rolled[g] \in Nat \cup {Nil} /\ watch[g] \in Nat \cup {Nil}
      BY DEF IInv, TypeOK, Times
    <2>4. Window \in Nat
      OBVIOUS
    <2>5. \A g \in Fixes : rolled[g] # Nil => rolled[g] < Base(g)' + Window
      <3>1. \A g \in Fixes : rolled[g] # Nil => rolled[g] < Base(g) + Window
        BY DEF IInv, RollbackInWindow, Base
      <3> QED
        BY <2>2, <2>3, <2>4, <3>1
    <2>6. \A g \in Fixes : watch[g] # Nil => watch[g] <= Base(g)'
      <3>1. \A g \in Fixes : watch[g] # Nil => watch[g] <= Base(g)
        BY DEF IInv, TimesOrdered
      <3> QED
        BY <2>2, <2>3, <3>1
    <2>7. RollbackInWindow'
      BY <2>1, <2>5 DEF MarkMerged, hist, RollbackInWindow, Base
    <2>8. \A g \in Fixes : fix'[g].state = "merged" => merged <= fix'[g].at
      BY <1>2, <2>1 DEF IInv, TimesOrdered
    <2>9. TimesOrdered'
      BY <1>3, <2>1, <2>6, <2>8 DEF MarkMerged, hist, IInv, TimesOrdered, Active
    <2> QED
      BY <2>7, <2>9
  <1>8. OneAtATime'
    BY <1>3 DEF MarkMerged, hist, IInv, OneAtATime, Active
  <1>9. AloneTold'
    BY <1>2, <1>3 DEF MarkMerged, hist, IInv, AloneTold, f
  <1> QED
    BY <1>4, <1>5, <1>6, <1>7, <1>8, <1>9 DEF IInv

(* Every step keeps the invariant.                                           *)
LEMMA StepInv == IInv /\ [Next]_vars => IInv'
  <1> SUFFICES ASSUME IInv, [Next]_vars PROVE IInv'
    OBVIOUS
  <1>1. CASE UNCHANGED vars
    <2>1. TypeOK'
      BY <1>1 DEF vars, hist, IInv, TypeOK
    <2>2. RollbackInWindow' /\ TimesOrdered'
      BY <1>1 DEF vars, hist, IInv, RollbackInWindow, TimesOrdered, Active, Base
    <2> QED
      BY <1>1, <2>1, <2>2, QuietStep DEF vars, hist, IInv
  <1> QED
    BY <1>1, OutsideInv, DeliverInv, FailInv, ResolveInv, LookupInv, PostInv, MarkInv DEF Next

(* IInv holds in every reachable state.                                      *)
LEMMA Invariance == Spec => []IInv
  BY InitInv, StepInv, PTL DEF Spec

(* Every state keeps the types of the variables.                             *)
THEOREM TypeCorrect == Spec => []TypeOK
  BY Invariance, PTL DEF IInv

(* No row is merged before its comment, whichever call fails.                *)
THEOREM MergedAfterTold == Spec => []ToldWhenMerged
  <1>1. IInv => ToldWhenMerged
    BY DEF IInv, RowsTold, ToldWhenMerged
  <1> QED
    BY <1>1, Invariance, PTL

(* No row of a tenant that never had the installation is touched.            *)
THEOREM TenantsApart == Spec => []OwnTenantOnly
  <1>1. IInv => OwnTenantOnly
    BY DEF IInv, RowsTold, OwnTenantOnly
  <1> QED
    BY <1>1, Invariance, PTL

(* Deliveries one after the other comment once.                              *)
THEOREM RedeliveryIsHarmless == Spec => []CommentedOnceAlone
  <1>1. IInv => CommentedOnceAlone
    BY DEF IInv, TypeOK, AloneTold, CommentedOnceAlone
  <1> QED
    BY <1>1, Invariance, PTL

(* A rollback is opened only by a time within the window that the merge      *)
(* starts, however stale the payload of the poll that opens it.              *)
THEOREM RollbackIsTimely == Spec => []RollbackInWindow
  BY Invariance, PTL DEF IInv

(* merged_at is written once.                                                *)
THEOREM MergedAtIsFinal == Spec => MergedOnce
  <1>1. IInv /\ [Next]_vars => [\A f \in Fixes : fix[f].state = "merged" => fix'[f] = fix[f]]_vars
    <2> SUFFICES ASSUME IInv, Next, NEW f \in Fixes, fix[f].state = "merged" PROVE fix'[f] = fix[f]
      OBVIOUS
    <2>1. ASSUME NEW r \in Requests, MarkMerged(r) PROVE fix'[f] = fix[f]
      BY <2>1 DEF MarkMerged, Marked, IInv, TypeOK
    <2> QED
      BY <2>1 DEF Next, Merge, Tick, Reinstall, Rotate, Deliver, Fail, Resolve, Lookup, Post, Enroll, Watch, Issue
  <1> QED
    BY <1>1, Invariance, PTL DEF Spec, MergedOnce
===============================================================================
