------------------------------ MODULE RateLimit ------------------------------
(***************************************************************************)
(* The fixed-window limiter of platform/ratelimit/memory.go and the HTTP   *)
(* middleware of platform/ratelimit/ratelimit.go in front of the sandbox.  *)
(* A request takes the limiter's lock twice: Allow decides, and Quota then *)
(* reads the state again for the X-RateLimit headers.  A request without a *)
(* key passes by the limiter and changes nothing here; Memory.Allow never  *)
(* answers an error, so the middleware's 503 is out of its reach.          *)
(***************************************************************************)
EXTENDS Integers

CONSTANTS Keys,       \* client addresses
          Requests,   \* requests under way at once
          Limit,      \* admissions per window and key
          Window,     \* length of a window, in ticks
          MaxTime,    \* bound on the clock
          Nil

ASSUME RateLimitAssumption ==
  /\ Limit \in Nat \ {0} /\ Window \in Nat \ {0} /\ MaxTime \in Nat
  /\ Nil \notin [count : 1..Limit, expiresAt : Nat] /\ Nil \notin Keys

VARIABLES
  now,
  buckets,    \* Memory.buckets
  lastSwept,  \* Memory.lastSwept; one window before the start for the zero time
  req,        \* the requests
  lastAllow,  \* history: when Allow last ran
  admitted    \* history: a key's admissions up to and with each tick

vars == <<now, buckets, lastSwept, req, lastAllow, admitted>>

Times == 0..MaxTime
Idle == [pc |-> "idle", key |-> Nil, allowed |-> FALSE, resetAt |-> 0, remaining |-> 0]

Asked(k, allowed, resetAt) ==
  [pc |-> "quota", key |-> k, allowed |-> allowed, resetAt |-> resetAt, remaining |-> 0]

Init ==
  /\ now = 0
  /\ buckets = [k \in Keys |-> Nil]
  /\ lastSwept = -Window
  /\ req = [r \in Requests |-> Idle]
  /\ lastAllow = -Window
  /\ admitted = [k \in Keys |-> [t \in Times |-> 0]]

Live(b) == b # Nil /\ now <= b.expiresAt

(* Mutant: the sweep drops a bucket in its last tick.                         *)
SweptEager(due) ==
  [k \in Keys |-> IF due /\ buckets[k] # Nil /\ now >= buckets[k].expiresAt
                  THEN Nil ELSE buckets[k]]

(* maybeSweep: what is left of the buckets.                                  *)
Swept(due) ==
  [k \in Keys |-> IF due /\ ~Live(buckets[k]) THEN Nil ELSE buckets[k]]

SweepDue == now - lastSwept >= Window

(* Mutant: one more than the limit gets through.                              *)
FullOffByOne(b) == b.count > Limit

Full(b) == b.count >= Limit

(* The bucket after one more admission.                                      *)
Counted(b) ==
  IF Live(b) THEN [b EXCEPT !.count = @ + 1] ELSE [count |-> 1, expiresAt |-> now + Window]

LastSwept == lastSwept' = IF SweepDue THEN now ELSE lastSwept

Refused(k) == LET b == Swept(SweepDue)[k] IN Live(b) /\ Full(b)

(* Memory.Allow, one critical section.  The answer is kept for the response. *)
Allow(r, k) ==
  /\ req[r].pc = "idle"
  /\ LET swept == Swept(SweepDue)
         b     == swept[k]
     IN  IF Refused(k)
         THEN /\ buckets' = swept
              /\ req' = [req EXCEPT ![r] = Asked(k, FALSE, b.expiresAt)]
              /\ UNCHANGED admitted
         ELSE /\ buckets' = [swept EXCEPT ![k] = Counted(b)]
              /\ req' = [req EXCEPT ![r] = Asked(k, TRUE, 0)]
              /\ admitted' = [admitted EXCEPT ![k] = [t \in Times |-> IF t < now THEN @[t] ELSE @[t] + 1]]
  /\ LastSwept
  /\ lastAllow' = now
  /\ UNCHANGED now

(* Memory.Quota.                                                             *)
Remaining(b) == IF Live(b) THEN Limit - b.count ELSE Limit

(* writeQuotaHeaders, and the response goes out.                             *)
Quota(r) ==
  /\ req[r].pc = "quota"
  /\ req' = [req EXCEPT ![r].pc = "sent", ![r].remaining = Remaining(buckets[req[r].key])]
  /\ UNCHANGED <<now, buckets, lastSwept, lastAllow, admitted>>

Done(r) ==
  /\ req[r].pc = "sent"
  /\ req' = [req EXCEPT ![r] = Idle]
  /\ UNCHANGED <<now, buckets, lastSwept, lastAllow, admitted>>

Tick ==
  /\ now < MaxTime
  /\ now' = now + 1
  /\ UNCHANGED <<buckets, lastSwept, req, lastAllow, admitted>>

Respond == \E r \in Requests : Quota(r) \/ Done(r)

Next == (\E r \in Requests, k \in Keys : Allow(r, k)) \/ Respond \/ Tick

Spec == Init /\ [][Next]_vars

-----------------------------------------------------------------------------
Bucket == [count : 1..Limit, expiresAt : Nat]

Request == [pc : {"idle", "quota", "sent"}, key : Keys \cup {Nil}, allowed : BOOLEAN,
            resetAt : Nat, remaining : 0..Limit]

TypeOK ==
  /\ now \in Times
  /\ buckets \in [Keys -> Bucket \cup {Nil}]
  /\ lastSwept \in Int /\ lastAllow \in Int
  /\ req \in [Requests -> Request]
  /\ admitted \in [Keys -> [Times -> Nat]]

AdmittedBy(k, t) == IF t < 0 THEN 0 ELSE admitted[k][t]
AdmittedIn(k, from, to) == AdmittedBy(k, to) - AdmittedBy(k, from - 1)

(* What the limiter promises: one fixed window per key, opened by a request, *)
(* whatever is swept when.  A bucket that is not live stands for no window.  *)
Promise == INSTANCE FixedWindow
  WITH open <- [k \in Keys |-> IF Live(buckets[k]) THEN buckets[k] ELSE Nil]

(* Memory implements it: no sweep and no expiry gives a window back early or *)
(* keeps it too long, for any key, while another key's request sweeps.       *)
Implements == Promise!Spec

(* The price of fixed windows, and no more than that: any stretch of one     *)
(* window's length sees at most twice the limit, wherever it starts.         *)
BurstBound == \A k \in Keys : AdmittedIn(k, now - Window, now) <= 2 * Limit

(* Lazy eviction keeps up with the traffic: no bucket outlives its window by *)
(* another whole window once a request came in, whatever key it was for.     *)
EvictionBound ==
  /\ lastAllow - lastSwept < Window
  /\ \A k \in Keys : buckets[k] # Nil => buckets[k].expiresAt > lastAllow - Window
===============================================================================
