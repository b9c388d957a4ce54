------------------------------ MODULE PostMerge ------------------------------
(***************************************************************************)
(* What follows the merge of an Apply Fix pull request: the webhook        *)
(* handler of cmd/api with applyfix/attribution (resolve the installation, *)
(* look the row up, comment, mark it merged), the rollback watchdog, and   *)
(* the signed receipt with the page that shows it.                         *)
(*                                                                         *)
(* GitHub may deliver an event more than once and at the same time; every  *)
(* delivery is acknowledged, whatever became of it.                        *)
(***************************************************************************)
EXTENDS Naturals, FiniteSets

CONSTANTS Tenants, Fixes, Requests,
          OwnerOf,        \* the tenant of a row of apply_fixes
          Window,         \* how long the watchdog looks, 7 days
          MaxNow,         \* bound on the clock
          MaxDeliveries,  \* bound on deliveries of the event
          Followed,       \* bound on the rows that are watched and have a receipt
          Keys,           \* issuer key ids
          Nil

ASSUME PostMergeAssumption ==
  /\ OwnerOf \in [Fixes -> Tenants] /\ Followed \subseteq Fixes
  /\ Window \in Nat \ {0} /\ MaxNow \in Nat /\ MaxDeliveries \in Nat
  /\ Nil \notin Tenants \cup Fixes \cup Keys \cup Nat

VARIABLES
  now,
  merged,      \* the time GitHub merged the pull request, or Nil
  install,     \* the tenant of the active installation, or Nil
  fix,         \* rows of apply_fixes for this repository and number
  req,         \* webhook requests being served
  delivered,   \* deliveries so far
  receipts,    \* the receipt store, one id for every fix
  issuer,      \* the key id the worker signs with
  watch,       \* MergedAt of the rollback.State kept for a row between polls
  comments,    \* history: comments posted about a row
  held,        \* history: tenants that ever had the installation
  overlap,     \* history: two requests were served at once
  faults,      \* history: a request failed after it commented
  rolled       \* history: the time by which a rollback was last opened

vars == <<now, merged, install, fix, req, delivered, receipts, issuer, watch,
          comments, held, overlap, faults, rolled>>
hist == <<comments, held, overlap, faults, rolled>>

Idle == [pc |-> "idle", at |-> Nil, tenant |-> Nil, row |-> Nil]
Active(r) == req[r].pc # "idle"

Init ==
  /\ now = 0
  /\ merged = Nil
  /\ install \in Tenants /\ held = {install}
  /\ fix = [f \in Fixes |-> [state |-> "open", at |-> Nil]]
  /\ req = [r \in Requests |-> Idle]
  /\ delivered = 0
  /\ receipts = [f \in Fixes |-> Nil]
  /\ issuer \in Keys
  /\ comments = [f \in Fixes |-> 0]
  /\ overlap = FALSE /\ faults = FALSE
  /\ rolled = [f \in Fixes |-> Nil] /\ watch = rolled

-----------------------------------------------------------------------------
(* The environment: the merge, the clock, and installations that move to     *)
(* another tenant or are suspended.                                          *)
Merge ==
  /\ merged = Nil
  /\ merged' = now
  /\ UNCHANGED <<now, install, fix, req, delivered, receipts, issuer, watch, hist>>

Tick ==
  /\ now < MaxNow
  /\ now' = now + 1
  /\ UNCHANGED <<merged, install, fix, req, delivered, receipts, issuer, watch, hist>>

Reinstall ==
  /\ install' \in (Tenants \cup {Nil}) \ {install}
  /\ held' = held \cup ({install'} \ {Nil})
  /\ UNCHANGED <<now, merged, fix, req, delivered, receipts, issuer, watch, comments, overlap, faults, rolled>>

(* A delivery that parses as merged reaches OnMerged; merged_at may be       *)
(* missing from it, and other events end in ParseGitHub.                     *)
Deliver(r) ==
  /\ ~Active(r) /\ merged # Nil /\ delivered < MaxDeliveries
  /\ \E at \in {merged, Nil} : req' = [req EXCEPT ![r] = [Idle EXCEPT !.pc = "resolve", !.at = at]]
  /\ delivered' = delivered + 1
  /\ overlap' = (overlap \/ \E q \in Requests : Active(q))
  /\ UNCHANGED <<now, merged, install, fix, receipts, issuer, watch, comments, held, faults, rolled>>

(* Any call may fail, the request may be cancelled, the api may be killed:   *)
(* the error is logged, the delivery acknowledged (or not), and nothing      *)
(* tries again.                                                              *)
Fail(r) ==
  /\ Active(r)
  /\ req' = [req EXCEPT ![r] = Idle]
  /\ faults' = (faults \/ req[r].pc = "mark")
  /\ UNCHANGED <<now, merged, install, fix, delivered, receipts, issuer, watch, comments, held, overlap, rolled>>

(* ResolveInstallation: only an active installation has a tenant.            *)
Resolve(r) ==
  /\ req[r].pc = "resolve" /\ install # Nil
  /\ req' = [req EXCEPT ![r] = [@ EXCEPT !.pc = "lookup", !.tenant = install]]
  /\ UNCHANGED <<now, merged, install, fix, delivered, receipts, issuer, watch, hist>>

(* Mutant: the query forgets that a row may be merged already.                *)
MatchesMerged(f, tenant) == OwnerOf[f] = tenant

(* Mutant: the transaction is not bound to the tenant.                        *)
MatchesAnyTenant(f, tenant) == fix[f].state # "merged"

(* The rows that lookupSQL matches, under row-level security.                *)
Matches(f, tenant) == OwnerOf[f] = tenant /\ fix[f].state # "merged"

(* The request q with its row, and the time of the merge: the handler's      *)
(* clock if the event has none.                                              *)
Found(q, f) == [q EXCEPT !.pc = "post", !.row = f, !.at = IF q.at = Nil THEN now ELSE q.at]

(* LookupByRepoPR returns one of the rows that match.                        *)
Lookup(r) ==
  /\ req[r].pc = "lookup"
  /\ \E f \in Fixes :
       /\ Matches(f, req[r].tenant)
       /\ req' = [req EXCEPT ![r] = Found(req[r], f)]
  /\ UNCHANGED <<now, merged, install, fix, delivered, receipts, issuer, watch, hist>>

(* Post: the comment appears, and the call returns or fails all the same.    *)
Post(r) ==
  /\ req[r].pc = "post"
  /\ comments' = [comments EXCEPT ![req[r].row] = @ + 1]
  /\ \/ /\ req' = [req EXCEPT ![r].pc = "mark"]
        /\ faults' = faults
     \/ /\ req' = [req EXCEPT ![r] = Idle]
        /\ faults' = TRUE
  /\ UNCHANGED <<now, merged, install, fix, delivered, receipts, issuer, watch, held, overlap, rolled>>

(* markMergedSQL on row f: no row is affected once it is merged.             *)
Marked(f, at) == IF fix[f].state # "merged" THEN [state |-> "merged", at |-> at] ELSE fix[f]

(* Mutant: the row is marked before the comment is posted.                    *)
MarkFirst(r) ==
  /\ req[r].pc = "post"
  /\ fix' = [fix EXCEPT ![req[r].row] = Marked(req[r].row, req[r].at)]
  /\ req' = [req EXCEPT ![r] = Idle]
  /\ UNCHANGED <<now, merged, install, delivered, receipts, issuer, watch, hist>>

MarkMerged(r) ==
  /\ req[r].pc = "mark"
  /\ fix' = [fix EXCEPT ![req[r].row] = Marked(req[r].row, req[r].at)]
  /\ req' = [req EXCEPT ![r] = Idle]
  /\ UNCHANGED <<now, merged, install, delivered, receipts, issuer, watch, hist>>

-----------------------------------------------------------------------------
(* Whoever submits the polls (external: no code of the repository does) has  *)
(* a rollback.State for row f from some moment on: its MergedAt is that of   *)
(* the row, if it has one, or of GitHub's event.                             *)
Enroll(f) ==
  /\ merged # Nil
  /\ watch' = [watch EXCEPT ![f] = merged]
     \/ (fix[f].state = "merged" /\ watch' = [watch EXCEPT ![f] = fix[f].at])
  /\ UNCHANGED <<now, merged, install, fix, req, delivered, receipts, issuer, hist>>

(* Mutant: the watch includes the last moment of its window.                  *)
DecideLate(s, crossed, at) ==
  IF s.mergedAt = Nil \/ ~s.bounds THEN "error"
  ELSE IF s.closed \/ at > s.mergedAt + Window THEN "close"
  ELSE IF crossed THEN "rollback" ELSE "continue"

(* Decide for state s and a snapshot that crossed a bound of its kind or did *)
(* not, at a time that the caller names.                                     *)
Decide(s, crossed, at) ==
  IF s.mergedAt = Nil \/ ~s.bounds THEN "error"
  ELSE IF s.closed \/ at >= s.mergedAt + Window THEN "close"
  ELSE IF crossed THEN "rollback" ELSE "continue"

(* One rollback_watchdog run.  It reads its payload and nothing else: the    *)
(* state that was kept for the row, a snapshot, and the time, which is the   *)
(* clock's if the payload has none.  A payload may have been under way for   *)
(* long, or be submitted again, so its time is any that has been.  Every     *)
(* poll that decides so opens a rollback; the other decisions are dropped.   *)
Watch(f) ==
  /\ \E bounds, closed, crossed \in BOOLEAN, stamp \in (0..now) \cup {Nil} :
       LET at == IF stamp = Nil THEN now ELSE stamp
       IN  /\ Decide([mergedAt |-> watch[f], bounds |-> bounds, closed |-> closed], crossed, at) = "rollback"
           /\ rolled' = [rolled EXCEPT ![f] = at]
  /\ UNCHANGED <<now, merged, install, fix, req, delivered, receipts, issuer, watch, comments, held,
                 overlap, faults>>

-----------------------------------------------------------------------------
(* receipt_issue on a receipt as submitted: the time of issue is stamped if  *)
(* it is missing; Sign sets the key id of its own copy.  The store keeps the *)
(* signed form and the receipt the workflow has.                             *)
Issued(r) ==
  LET stamped == [r EXCEPT !.issued = IF r.issued = Nil THEN now ELSE r.issued]
  IN  [signed |-> [stamped EXCEPT !.key = issuer], shown |-> stamped]

Issue(f) ==
  /\ fix[f].state = "merged"
  /\ \E key \in Keys \cup {Nil}, at \in {Nil, fix[f].at} :
       receipts' = [receipts EXCEPT ![f] = Issued([key |-> key, issued |-> at])]
  /\ UNCHANGED <<now, merged, install, fix, req, delivered, issuer, watch, hist>>

(* What the receipt's page and endpoint show beside the signature.           *)
Page(f) == receipts[f].shown

(* The worker starts with another key.                                       *)
Rotate ==
  /\ issuer' \in Keys \ {issuer}
  /\ UNCHANGED <<now, merged, install, fix, req, delivered, receipts, watch, hist>>

Next ==
  \/ Merge \/ Tick \/ Reinstall \/ Rotate
  \/ \E r \in Requests : Deliver(r) \/ Fail(r) \/ Resolve(r) \/ Lookup(r) \/ Post(r) \/ MarkMerged(r)
  \/ \E f \in Followed : Enroll(f) \/ Watch(f) \/ Issue(f)

Spec == Init /\ [][Next]_vars

-----------------------------------------------------------------------------
Times == 0..MaxNow
Row == [state : {"open", "merged"}, at : Times \cup {Nil}]
Request == [pc : {"idle", "resolve", "lookup", "post", "mark"}, at : Times \cup {Nil},
            tenant : Tenants \cup {Nil}, row : Fixes \cup {Nil}]
Receipt == [key : Keys \cup {Nil}, issued : Times \cup {Nil}]

(* The states of a row are those of the life the handler gives it.           *)
TypeOK ==
  /\ now \in Times
  /\ merged \in Times \cup {Nil}
  /\ install \in Tenants \cup {Nil} /\ held \subseteq Tenants
  /\ fix \in [Fixes -> Row]
  /\ req \in [Requests -> Request]
  /\ delivered \in 0..MaxDeliveries
  /\ receipts \in [Fixes -> [signed : Receipt, shown : Receipt] \cup {Nil}]
  /\ issuer \in Keys
  /\ comments \in [Fixes -> Nat]
  /\ overlap \in BOOLEAN /\ faults \in BOOLEAN
  /\ rolled \in [Fixes -> Times \cup {Nil}] /\ watch \in [Fixes -> Times \cup {Nil}]

(* merged_at is written once: deliveries that overlap, repeat or bring       *)
(* another time never move it (markMergedSQL), and the seven days and the    *)
(* thirty days that start there stay where they are.                         *)
MergedOnce == [][\A f \in Fixes : fix[f].state = "merged" => fix'[f] = fix[f]]_vars

(* A row counts as merged only once the customer was told on the pull        *)
(* request, whichever call failed.                                           *)
ToldWhenMerged == \A f \in Fixes : fix[f].state = "merged" => comments[f] > 0

(* No comment and no merge reaches a row of a tenant that never had the      *)
(* installation, however installations move while requests are served.       *)
OwnTenantOnly ==
  \A f \in Fixes : comments[f] > 0 \/ fix[f].state = "merged" => OwnerOf[f] \in held

(* Redelivery is harmless on its own: as long as no two deliveries overlap   *)
(* and none fails after its comment, a row is commented on once.             *)
CommentedOnceAlone == ~overlap /\ ~faults => \A f \in Fixes : comments[f] <= 1

(* However late a poll runs, however often it is submitted again and         *)
(* whichever time of the merge it was given, a rollback is opened by a time  *)
(* within the window: that of the merge which the row records, if it does by *)
(* now, else that of the merge on GitHub.  A poll that brings its own time   *)
(* is judged by it, and may run after the window.                            *)
RollbackInWindow ==
  \A f \in Fixes : rolled[f] # Nil =>
    /\ merged # Nil
    /\ rolled[f] < (IF fix[f].state = "merged" THEN fix[f].at ELSE merged) + Window

(* The page shows the receipt that was signed: "Store records both the       *)
(* canonical wire form and the parsed Receipt" (receipt_issue.go).  It does  *)
(* not: a receipt submitted with another key id, or with none, is shown so.  *)
ShownIsSigned ==
  \A f \in Fixes : receipts[f] # Nil => Page(f) = receipts[f].signed
===============================================================================
