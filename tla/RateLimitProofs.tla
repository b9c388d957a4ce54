--------------------------- MODULE RateLimitProofs ---------------------------
(***************************************************************************)
(* Proofs for RateLimit: type correctness (with it the per-window cap),    *)
(* the eviction bound, the burst bound, and that Memory implements         *)
(* FixedWindow.                                                            *)
(***************************************************************************)
EXTENDS RateLimit, TLAPS

(* A request between Allow and Quota has a key to look up.                   *)
KeyKnown == \A r \in Requests : req[r].pc = "quota" => req[r].key \in Keys

(* No clock runs ahead: the sweep and the last request are not in the future *)
(* and expired buckets are younger than the last sweep.                      *)
Clocks ==
  /\ lastSwept <= now /\ lastAllow <= now /\ lastSwept <= lastAllow
  /\ lastAllow - lastSwept < Window
  /\ \A k \in Keys : buckets[k] # Nil => buckets[k].expiresAt >= lastSwept

(* The inductive invariant.                                                  *)
IInv == TypeOK /\ KeyKnown /\ Clocks

(* The resting state of a request.                                           *)
LEMMA IdleFacts == Idle \in Request /\ Idle.pc = "idle"
  <1>1. 0 \in 0..Limit
    BY RateLimitAssumption
  <1> QED
    BY <1>1 DEF Idle, Request

(* What Allow leaves of a request, refused or admitted.                      *)
LEMMA AskedFacts ==
  ASSUME NEW k \in Keys, NEW allowed \in BOOLEAN, NEW t \in Nat
  PROVE  Asked(k, allowed, t) \in Request /\ Asked(k, allowed, t).key = k
  <1>1. 0 \in 0..Limit
    BY RateLimitAssumption
  <1> QED
    BY <1>1, Zenon DEF Asked, Request

(* Swept keeps the type and touches no live bucket.                          *)
LEMMA SweptFacts ==
  ASSUME TypeOK
  PROVE  LET swept == Swept(SweepDue)
         IN  /\ swept \in [Keys -> Bucket \cup {Nil}]
             /\ \A k \in Keys : Live(buckets[k]) => swept[k] = buckets[k]
             /\ \A k \in Keys : Live(swept[k]) <=> Live(buckets[k])
             /\ \A k \in Keys : swept[k] # Nil => swept[k] = buckets[k]
             /\ SweepDue => \A k \in Keys : swept[k] # Nil => swept[k].expiresAt >= now
  BY RateLimitAssumption DEF TypeOK, Swept, Live, Bucket, Times

(* The bucket that an admission leaves behind is well typed and live.        *)
LEMMA CountedFacts ==
  ASSUME TypeOK, NEW b \in Bucket \cup {Nil}, ~(Live(b) /\ Full(b))
  PROVE  /\ Counted(b) \in Bucket
         /\ Counted(b).expiresAt >= now
  BY RateLimitAssumption DEF TypeOK, Counted, Live, Full, Bucket, Times

(* The quota that Quota reports is between none and all of the limit.        *)
LEMMA RemainingRange ==
  ASSUME NEW b \in Bucket \cup {Nil}
  PROVE  Remaining(b) \in 0..Limit
  BY RateLimitAssumption DEF Remaining, Live, Bucket

(* What Allow does to the buckets and the clocks, refused or not.            *)
LEMMA AllowFacts ==
  ASSUME TypeOK, NEW r \in Requests, NEW k \in Keys, Allow(r, k)
  PROVE  /\ now' = now /\ lastAllow' = now
         /\ lastSwept' = IF SweepDue THEN now ELSE lastSwept
         /\ \/ Refused(k) /\ buckets' = Swept(SweepDue)
            \/ ~Refused(k) /\ buckets' = [Swept(SweepDue) EXCEPT ![k] = Counted(Swept(SweepDue)[k])]
  BY DEF Allow, LastSwept

(* The initial state satisfies the invariant.                                *)
LEMMA InitInv == Init => IInv
  <1> SUFFICES ASSUME Init PROVE IInv
    OBVIOUS
  <1>1. TypeOK
    BY IdleFacts, RateLimitAssumption DEF Init, TypeOK, Times
  <1>2. KeyKnown
    BY DEF Init, KeyKnown, Idle
  <1>3. Clocks
    BY RateLimitAssumption DEF Init, Clocks
  <1> QED
    BY <1>1, <1>2, <1>3 DEF IInv

(* Allow keeps the types: a bucket's count never passes the limit.           *)
LEMMA AllowType ==
  ASSUME TypeOK, NEW r \in Requests, NEW k \in Keys, Allow(r, k)
  PROVE  TypeOK'
  <1> DEFINE swept == Swept(SweepDue)
  <1>1. swept \in [Keys -> Bucket \cup {Nil}]
    BY SweptFacts
  <1>2. swept[k] \in Bucket \cup {Nil}
    BY <1>1
  <1>3. now' = now /\ now \in Times /\ lastAllow' \in Int /\ lastSwept' \in Int
    BY AllowFacts DEF TypeOK, Times
  <1>4. CASE Refused(k)
    <2>1. Live(swept[k]) /\ swept[k] \in Bucket /\ now <= swept[k].expiresAt
      BY <1>2, <1>4 DEF Refused, Live
    <2>3. /\ buckets' = swept
          /\ req' = [req EXCEPT ![r] = Asked(k, FALSE, swept[k].expiresAt)]
          /\ admitted' = admitted
      BY <1>4 DEF Allow
    <2>4. buckets' \in [Keys -> Bucket \cup {Nil}]
      BY <2>3, <1>1
    <2>5. req' \in [Requests -> Request]
      BY <2>3, <2>1, AskedFacts DEF TypeOK, Bucket
    <2> QED
      BY <1>3, <2>3, <2>4, <2>5 DEF TypeOK
  <1>5. CASE ~Refused(k)
    <2>1. Counted(swept[k]) \in Bucket
      BY <1>2, <1>5, CountedFacts DEF Refused
    <2>2. /\ buckets' = [swept EXCEPT ![k] = Counted(swept[k])]
          /\ req' = [req EXCEPT ![r] = Asked(k, TRUE, 0)]
          /\ admitted' = [admitted EXCEPT ![k] =
                            [t \in Times |-> IF t < now THEN @[t] ELSE @[t] + 1]]
      BY <1>5 DEF Allow
    <2>3. buckets' \in [Keys -> Bucket \cup {Nil}]
      BY <2>2, <2>1, <1>1
    <2>4. req' \in [Requests -> Request]
      BY <2>2, AskedFacts DEF TypeOK
    <2>5. admitted' \in [Keys -> [Times -> Nat]]
      BY <2>2, <1>3 DEF TypeOK
    <2> QED
      BY <1>3, <2>3, <2>4, <2>5 DEF TypeOK
  <1> QED
    BY <1>4, <1>5

(* Allow sweeps often enough: what it leaves is younger than its last sweep. *)
LEMMA AllowClocks ==
  ASSUME TypeOK, Clocks, NEW r \in Requests, NEW k \in Keys, Allow(r, k)
  PROVE  Clocks'
  <1> DEFINE swept == Swept(SweepDue)
  <1>1. now \in Nat /\ lastSwept \in Int /\ Window \in Nat \ {0}
    BY RateLimitAssumption DEF TypeOK, Times
  <1>2. lastSwept' <= now /\ now - lastSwept' < Window
    BY <1>1, AllowFacts DEF Clocks, SweepDue
  <1>3. swept \in [Keys -> Bucket \cup {Nil}]
    BY SweptFacts
  <1>4. \A j \in Keys : swept[j] # Nil => swept[j].expiresAt >= lastSwept'
    BY SweptFacts, AllowFacts DEF Clocks
  <1>5. \A j \in Keys : buckets'[j] # Nil => buckets'[j].expiresAt >= lastSwept'
    <2>1. CASE Refused(k)
      BY <2>1, <1>4, AllowFacts
    <2>2. CASE ~Refused(k)
      <3>1. Counted(swept[k]) \in Bucket /\ Counted(swept[k]).expiresAt >= now
        BY <2>2, <1>3, CountedFacts DEF Refused
      <3>2. Counted(swept[k]).expiresAt >= lastSwept'
        BY <3>1, <1>1, <1>2, AllowFacts DEF Bucket
      <3>3. buckets' = [swept EXCEPT ![k] = Counted(swept[k])]
        BY <2>2, AllowFacts
      <3> QED
        BY <3>2, <3>3, <1>3, <1>4
    <2> QED
      BY <2>1, <2>2
  <1> QED
    BY <1>1, <1>2, <1>5, AllowFacts DEF Clocks

(* Every step keeps the invariant.                                           *)
LEMMA NextInv == IInv /\ [Next]_vars => IInv'
  <1> SUFFICES ASSUME IInv, [Next]_vars PROVE IInv'
    OBVIOUS
  <1> USE DEF IInv
  <1>1. ASSUME NEW r \in Requests, NEW k \in Keys, Allow(r, k) PROVE IInv'
    <2>1. TypeOK' /\ Clocks'
      BY <1>1, AllowType, AllowClocks
    <2>2. KeyKnown'
      <3>1. \A allowed, t : Asked(k, allowed, t).key = k
        BY Zenon DEF Asked
      <3>2. \/ req' = [req EXCEPT ![r] = Asked(k, FALSE, Swept(SweepDue)[k].expiresAt)]
            \/ req' = [req EXCEPT ![r] = Asked(k, TRUE, 0)]
        BY <1>1 DEF Allow
      <3>3. req \in [Requests -> Request]
        BY DEF TypeOK
      <3>4. ASSUME NEW a, a.key = k, req' = [req EXCEPT ![r] = a] PROVE KeyKnown'
        BY <3>3, <3>4 DEF KeyKnown
      <3> QED
        BY <3>1, <3>2, <3>4
    <2> QED
      BY <2>1, <2>2
  <1>2. ASSUME NEW r \in Requests, Quota(r) PROVE IInv'
    <2>1. Remaining(buckets[req[r].key]) \in 0..Limit
      BY <1>2, RemainingRange DEF Quota, KeyKnown, TypeOK
    <2>2. TypeOK'
      BY <1>2, <2>1 DEF Quota, TypeOK, Request
    <2>3. KeyKnown' /\ Clocks'
      BY <1>2 DEF Quota, KeyKnown, Clocks, TypeOK
    <2> QED
      BY <2>2, <2>3
  <1>3. ASSUME NEW r \in Requests, Done(r) PROVE IInv'
    BY <1>3, IdleFacts DEF Done, TypeOK, KeyKnown, Clocks
  <1>4. CASE Tick
    BY <1>4, RateLimitAssumption DEF Tick, TypeOK, KeyKnown, Clocks, Times
  <1>5. CASE UNCHANGED vars
    BY <1>5 DEF vars, TypeOK, KeyKnown, Clocks, Times
  <1> QED
    BY <1>1, <1>2, <1>3, <1>4, <1>5 DEF Next, Respond

(* The inductive invariant holds of every behaviour.                         *)
THEOREM Invariance == Spec => []IInv
  BY InitInv, NextInv, PTL DEF Spec

(* Type correctness: no bucket counts past the limit and no header shows a   *)
(* quota outside 0..Limit, for any limit, window, keys and requests.         *)
THEOREM TypeCorrect == Spec => []TypeOK
  <1>1. IInv => TypeOK
    BY DEF IInv
  <1> QED
    BY <1>1, Invariance, PTL

(* Lazy eviction keeps up: a bucket outlives its window by less than another *)
(* window of traffic.                                                        *)
THEOREM EvictionKeepsUp == Spec => []EvictionBound
  <1>1. IInv => EvictionBound
    <2> SUFFICES ASSUME IInv PROVE EvictionBound
      OBVIOUS
    <2>1. \A k \in Keys : buckets[k] # Nil => buckets[k].expiresAt \in Nat
      BY DEF IInv, TypeOK, Bucket
    <2> QED
      BY <2>1, RateLimitAssumption DEF IInv, TypeOK, Clocks, EvictionBound
  <1> QED
    BY <1>1, Invariance, PTL

-----------------------------------------------------------------------------
(* A key's admissions are counted once: the running total never falls and    *)
(* does not move after the present.                                          *)
Running(k) ==
  /\ \A t, u \in Times : t <= u => admitted[k][t] <= admitted[k][u]
  /\ \A t \in Times : t >= now => admitted[k][t] = admitted[k][now]

(* m is where the key's latest window opened (before the start of time when  *)
(* it has none): its bucket is live exactly through m + Window and counts    *)
(* the admissions since m, nothing is admitted after it expires, and the     *)
(* Window ticks before m, which one older window covers, saw at most the     *)
(* limit.                                                                    *)
Opened(k, m) ==
  /\ m <= now
  /\ Live(buckets[k]) <=> now <= m + Window
  /\ Live(buckets[k]) => /\ buckets[k].expiresAt = m + Window
                         /\ buckets[k].count = AdmittedIn(k, m, now)
  /\ ~Live(buckets[k]) => AdmittedBy(k, now) = AdmittedBy(k, m + Window)
  /\ AdmittedIn(k, m, now) <= Limit
  /\ AdmittedIn(k, m - Window, m - 1) <= Limit

(* The invariant behind BurstBound.                                          *)
Bursts == \A k \in Keys : Running(k) /\ \E m \in Int : Opened(k, m)

(* The running total is a number and grows with time.                        *)
LEMMA TotalGrows ==
  ASSUME TypeOK, NEW k \in Keys, Running(k)
  PROVE  /\ \A t \in Int : t <= now => AdmittedBy(k, t) \in Nat
         /\ \A t, u \in Int : t <= u /\ u <= now => AdmittedBy(k, t) <= AdmittedBy(k, u)
  <1>1. \A t \in Int : t <= now /\ ~(t < 0) => t \in Times
    BY RateLimitAssumption DEF TypeOK, Times
  <1>2. admitted[k] \in [Times -> Nat]
    BY DEF TypeOK
  <1>3. \A t \in Times : admitted[k][t] \in Nat /\ t \in Int
    BY <1>2, RateLimitAssumption DEF Times
  <1>4. \A t \in Int : t <= now => AdmittedBy(k, t) \in Nat
    BY <1>1, <1>3 DEF AdmittedBy
  <1>5. ASSUME NEW t \in Int, NEW u \in Int, t <= u, u <= now
        PROVE  AdmittedBy(k, t) <= AdmittedBy(k, u)
    <2>0. now \in Int
      BY RateLimitAssumption DEF TypeOK, Times
    <2>1. t <= now
      BY <1>5, <2>0
    <2>2. CASE t < 0
      BY <2>2, <1>4, <1>5 DEF AdmittedBy
    <2>3. CASE ~(t < 0)
      <3>1. t \in Times /\ u \in Times /\ ~(u < 0)
        BY <2>1, <2>3, <1>1, <1>5
      <3> QED
        BY <3>1, <2>3, <1>5 DEF AdmittedBy, Running
    <2> QED
      BY <2>2, <2>3
  <1> QED
    BY <1>4, <1>5

(* Two stretches that meet at m hold every admission of the burst.           *)
LEMMA BurstFromOpened ==
  ASSUME TypeOK, NEW k \in Keys, Running(k), NEW m \in Int, Opened(k, m)
  PROVE  AdmittedIn(k, now - Window, now) <= 2 * Limit
  <1>1. now \in Int /\ Window \in Int /\ Limit \in Int /\ Window > 0
    BY RateLimitAssumption DEF TypeOK, Times
  <1>2. m <= now
    BY DEF Opened
  <1>3. /\ AdmittedBy(k, now) \in Nat /\ AdmittedBy(k, m - 1) \in Nat
        /\ AdmittedBy(k, m - Window - 1) \in Nat /\ AdmittedBy(k, now - Window - 1) \in Nat
    BY <1>1, <1>2, TotalGrows
  <1>4. AdmittedBy(k, m - Window - 1) <= AdmittedBy(k, now - Window - 1)
    BY <1>1, <1>2, TotalGrows
  <1>5. m - 1 - 0 = m - 1 /\ (m - Window) - 1 = m - Window - 1 /\ (now - Window) - 1 = now - Window - 1
    BY <1>1
  <1>6. /\ AdmittedBy(k, now) - AdmittedBy(k, m - 1) <= Limit
        /\ AdmittedBy(k, m - 1) - AdmittedBy(k, m - Window - 1) <= Limit
    BY <1>5 DEF Opened, AdmittedIn
  <1>7. AdmittedIn(k, now - Window, now) = AdmittedBy(k, now) - AdmittedBy(k, now - Window - 1)
    BY <1>5 DEF AdmittedIn
  <1> QED
    BY <1>1, <1>3, <1>4, <1>6, <1>7

(* Nothing is admitted at the start.                                         *)
LEMMA InitBursts == Init => Bursts
  <1> SUFFICES ASSUME Init, NEW k \in Keys PROVE Running(k) /\ \E m \in Int : Opened(k, m)
    BY DEF Bursts
  <1>1. 0 \in Times /\ \A t \in Times : admitted[k][t] = 0
    BY RateLimitAssumption DEF Init, Times
  <1>2. Running(k)
    BY <1>1 DEF Running, Init, Times
  <1>3. AdmittedBy(k, now) = 0 /\ \A t \in Int : t < 0 => AdmittedBy(k, t) = 0
    BY <1>1 DEF AdmittedBy, Init
  <1>4. Opened(k, -Window - 1)
    <2> DEFINE m == -Window - 1
    <2>1. now = 0 /\ m \in Int /\ m < 0 /\ m - 1 < 0 /\ m - Window - 1 < 0 /\ ~(now <= m + Window)
      BY RateLimitAssumption DEF Init
    <2>2. ~Live(buckets[k])
      BY DEF Init, Live
    <2>3. m - 1 \in Int /\ (m - Window) - 1 \in Int /\ (m - Window) - 1 < 0 /\ (m - 1) < 0
      BY <2>1, RateLimitAssumption
    <2>4. AdmittedIn(k, m, now) = 0 /\ AdmittedIn(k, m - Window, m - 1) = 0
      BY <2>3, <1>3 DEF AdmittedIn
    <2>5. AdmittedBy(k, m + Window) = AdmittedBy(k, now)
      <3>1. m + Window \in Int /\ m + Window < 0
        BY RateLimitAssumption
      <3> QED
        BY <3>1, <1>3
    <2> HIDE DEF m
    <2>6. Opened(k, m)
      BY <2>1, <2>2, <2>4, <2>5, RateLimitAssumption DEF Opened
    <2> QED
      BY <2>6 DEF m
  <1>5. -Window - 1 \in Int
    BY RateLimitAssumption
  <1> QED
    BY <1>2, <1>4, <1>5

(* A key whose total and whose live bucket stay as they are keeps its        *)
(* window, swept or not.                                                     *)
LEMMA OpenedStays ==
  ASSUME NEW k \in Keys, NEW m \in Int, Opened(k, m), Running(k),
         now' = now, admitted'[k] = admitted[k], Live(buckets[k])' <=> Live(buckets[k]),
         Live(buckets[k]) => buckets'[k] = buckets[k]
  PROVE  Opened(k, m)' /\ Running(k)'
  BY DEF Opened, Running, AdmittedIn, AdmittedBy

(* An admission moves the key's total from the present on, by one.           *)
LEMMA AdmittedOnce ==
  ASSUME TypeOK, NEW k \in Keys, Running(k), now' = now,
         admitted' = [admitted EXCEPT ![k] = [t \in Times |-> IF t < now THEN @[t] ELSE @[t] + 1]]
  PROVE  /\ Running(k)'
         /\ AdmittedBy(k, now)' = AdmittedBy(k, now) + 1
         /\ \A t \in Int : t < now => AdmittedBy(k, t)' = AdmittedBy(k, t)
  <1>1. now \in Times /\ now \in Int /\ ~(now < 0)
    BY RateLimitAssumption DEF TypeOK, Times
  <1>2. admitted[k] \in [Times -> Nat]
    BY DEF TypeOK
  <1>3. admitted'[k] = [t \in Times |-> IF t < now THEN admitted[k][t] ELSE admitted[k][t] + 1]
    BY DEF TypeOK
  <1>4. \A t \in Times : /\ admitted[k][t] \in Nat /\ t \in Int
                         /\ t < now => admitted'[k][t] = admitted[k][t]
                         /\ ~(t < now) => admitted'[k][t] = admitted[k][t] + 1
    BY <1>2, <1>3, RateLimitAssumption DEF Times
  <1>5. Running(k)'
    BY <1>1, <1>4 DEF Running
  <1>6. AdmittedBy(k, now)' = AdmittedBy(k, now) + 1
    BY <1>1, <1>4 DEF AdmittedBy
  <1>7. \A t \in Int : t < now /\ ~(t < 0) => t \in Times
    BY RateLimitAssumption DEF TypeOK, Times
  <1>8. \A t \in Int : t < now => AdmittedBy(k, t)' = AdmittedBy(k, t)
    BY <1>7, <1>4 DEF AdmittedBy
  <1> QED
    BY <1>5, <1>6, <1>8

(* One more in the live window: the bucket counts it with the total.         *)
LEMMA CountKeeps ==
  ASSUME TypeOK, NEW k \in Keys, Running(k), NEW m \in Int, Opened(k, m), now' = now,
         Live(buckets[k]), buckets[k].count < Limit,
         buckets'[k] = [buckets[k] EXCEPT !.count = @ + 1],
         AdmittedBy(k, now)' = AdmittedBy(k, now) + 1,
         \A t \in Int : t < now => AdmittedBy(k, t)' = AdmittedBy(k, t)
  PROVE  Opened(k, m)'
  <1>1. /\ now \in Int /\ Window \in Int /\ Limit \in Int /\ Window > 0
        /\ buckets[k] \in Bucket /\ buckets[k] # Nil
    BY RateLimitAssumption DEF TypeOK, Times, Live
  <1>2. /\ buckets'[k].count = buckets[k].count + 1 /\ buckets'[k].expiresAt = buckets[k].expiresAt
        /\ buckets'[k] \in Bucket /\ buckets'[k] # Nil
    <2>1. /\ buckets'[k].count = buckets[k].count + 1 /\ buckets'[k].expiresAt = buckets[k].expiresAt
          /\ buckets'[k] \in Bucket
      BY <1>1 DEF Bucket
    <2> QED
      BY <2>1, RateLimitAssumption DEF Bucket
  <1>3. Live(buckets[k])'
    BY <1>2 DEF Live
  <1>4. m <= now /\ now <= m + Window /\ buckets[k].expiresAt = m + Window
        /\ buckets[k].count = AdmittedIn(k, m, now)
        /\ AdmittedIn(k, m - Window, m - 1) <= Limit
    BY DEF Opened
  <1>5. AdmittedBy(k, now) \in Nat /\ AdmittedBy(k, m - 1) \in Nat
    BY <1>1, <1>4, TotalGrows
  <1>6. /\ m - 1 \in Int /\ m - 1 < now /\ m - Window - 1 \in Int /\ m - Window - 1 < now
    BY <1>1, <1>4
  <1>7. /\ AdmittedBy(k, m - 1)' = AdmittedBy(k, m - 1)
        /\ AdmittedBy(k, m - Window - 1)' = AdmittedBy(k, m - Window - 1)
    BY <1>6
  <1>8. AdmittedIn(k, m, now)' = AdmittedIn(k, m, now) + 1
    BY <1>5, <1>7 DEF AdmittedIn
  <1>9. AdmittedIn(k, m - Window, m - 1)' = AdmittedIn(k, m - Window, m - 1)
    BY <1>7 DEF AdmittedIn
  <1>10. buckets[k].count \in Int
    BY <1>1 DEF Bucket
  <1> QED
    BY <1>1, <1>2, <1>3, <1>4, <1>8, <1>9, <1>10 DEF Opened

(* A new window: it opens after the last one closed, so the Window ticks     *)
(* before it belong to that one alone.                                       *)
LEMMA OpenKeeps ==
  ASSUME TypeOK, NEW k \in Keys, Running(k), NEW m \in Int, Opened(k, m), now' = now,
         ~Live(buckets[k]), buckets'[k] = [count |-> 1, expiresAt |-> now + Window],
         AdmittedBy(k, now)' = AdmittedBy(k, now) + 1,
         \A t \in Int : t < now => AdmittedBy(k, t)' = AdmittedBy(k, t)
  PROVE  Opened(k, now)'
  <1>1. /\ now \in Nat /\ Window \in Nat /\ Limit \in Nat /\ Window > 0 /\ Limit > 0
    BY RateLimitAssumption DEF TypeOK, Times
  <1>2. m + Window < now
    BY <1>1 DEF Opened
  <1>3. buckets'[k] # Nil
    <2>1. [count |-> 1, expiresAt |-> now + Window] \in Bucket
      BY <1>1 DEF Bucket
    <2> QED
      BY <2>1, RateLimitAssumption DEF Bucket
  <1>4. /\ Live(buckets[k])' /\ buckets'[k].count = 1 /\ buckets'[k].expiresAt = now + Window
    BY <1>1, <1>3 DEF Live
  <1>5. /\ now - 1 \in Int /\ now - 1 < now /\ now - Window - 1 \in Int /\ now - Window - 1 < now
        /\ m - 1 \in Int /\ m - 1 <= now - Window - 1 /\ now - Window - 1 <= now - 1
        /\ m + Window \in Int /\ m + Window <= now - 1
    BY <1>1, <1>2
  <1>6. /\ AdmittedBy(k, now) \in Nat /\ AdmittedBy(k, now - 1) \in Nat /\ AdmittedBy(k, m - 1) \in Nat
        /\ AdmittedBy(k, now - Window - 1) \in Nat /\ AdmittedBy(k, m + Window) \in Nat
    BY <1>1, <1>5, TotalGrows
  <1>7. /\ AdmittedBy(k, m + Window) <= AdmittedBy(k, now - 1)
        /\ AdmittedBy(k, now - 1) <= AdmittedBy(k, now)
        /\ AdmittedBy(k, m - 1) <= AdmittedBy(k, now - Window - 1)
    BY <1>1, <1>5, TotalGrows
  <1>8. /\ AdmittedBy(k, now) = AdmittedBy(k, m + Window)
        /\ AdmittedBy(k, now) - AdmittedBy(k, m - 1) <= Limit
    BY DEF Opened, AdmittedIn
  <1>9. AdmittedBy(k, now) = AdmittedBy(k, now - 1)
    BY <1>6, <1>7, <1>8
  <1>10. /\ AdmittedBy(k, now - 1)' = AdmittedBy(k, now - 1)
         /\ AdmittedBy(k, now - Window - 1)' = AdmittedBy(k, now - Window - 1)
    <2>1. \A t \in Int : t < now => AdmittedBy(k, t)' = AdmittedBy(k, t)
      OBVIOUS
    <2>2. (now - 1)' = now - 1 /\ (now - Window - 1)' = now - Window - 1
      OBVIOUS
    <2> QED
      BY <2>1, <2>2, <1>5 DEF AdmittedBy
  <1>11. AdmittedIn(k, now, now)' = 1
    BY <1>6, <1>9, <1>10 DEF AdmittedIn
  <1>12. AdmittedIn(k, now - Window, now - 1)' <= Limit
    <2>1. AdmittedIn(k, now - Window, now - 1)' = AdmittedBy(k, now - 1)' - AdmittedBy(k, now - Window - 1)'
      BY DEF AdmittedIn
    <2> QED
      BY <2>1, <1>1, <1>6, <1>7, <1>8, <1>9, <1>10
  <1> QED
    BY <1>1, <1>4, <1>11, <1>12 DEF Opened

(* Every step keeps each key's total and its window.                         *)
LEMMA NextBursts == IInv /\ Bursts /\ [Next]_vars => Bursts'
  <1> SUFFICES ASSUME IInv, Bursts, [Next]_vars PROVE Bursts'
    OBVIOUS
  <1>t. TypeOK
    BY DEF IInv
  <1>1. ASSUME NEW r \in Requests, NEW k \in Keys, Allow(r, k) PROVE Bursts'
    <2> DEFINE swept == Swept(SweepDue)
    <2>a. /\ swept \in [Keys -> Bucket \cup {Nil}]
          /\ \A j \in Keys : Live(buckets[j]) => swept[j] = buckets[j]
          /\ \A j \in Keys : Live(swept[j]) <=> Live(buckets[j])
      BY <1>t, SweptFacts
    <2>b. now' = now
      BY <1>1 DEF Allow
    <2> HIDE DEF swept
    <2>s. ASSUME NEW j \in Keys, admitted'[j] = admitted[j], buckets'[j] = swept[j]
          PROVE  Running(j)' /\ \E m \in Int : Opened(j, m)'
      <3>1. PICK m \in Int : Opened(j, m)
        BY DEF Bursts
      <3>2. Live(buckets[j])' <=> Live(buckets[j])
        BY <2>s, <2>a, <2>b DEF Live
      <3>3. Opened(j, m)' /\ Running(j)'
        BY <3>1, <3>2, <2>s, <2>a, <2>b, OpenedStays DEF Bursts
      <3> QED
        BY <3>3
    <2>1. CASE Refused(k)
      <3>1. admitted' = admitted /\ buckets' = swept
        BY <1>1, <2>1 DEF Allow, swept
      <3> QED
        BY <3>1, <2>s DEF Bursts
    <2>2. CASE ~Refused(k)
      <3>1. /\ buckets' = [swept EXCEPT ![k] = Counted(swept[k])]
            /\ admitted' = [admitted EXCEPT ![k] = [t \in Times |-> IF t < now THEN @[t] ELSE @[t] + 1]]
        BY <1>1, <2>2 DEF Allow, swept
      <3>2. \A j \in Keys : j # k => admitted'[j] = admitted[j] /\ buckets'[j] = swept[j]
        BY <3>1, <2>a, <1>t DEF TypeOK
      <3>3. buckets'[k] = Counted(swept[k])
        BY <3>1, <2>a
      <3>4. Running(k)
        BY DEF Bursts
      <3>5. /\ Running(k)'
            /\ AdmittedBy(k, now)' = AdmittedBy(k, now) + 1
            /\ \A t \in Int : t < now => AdmittedBy(k, t)' = AdmittedBy(k, t)
        BY <3>1, <3>4, <2>b, <1>t, AdmittedOnce
      <3>6. PICK m \in Int : Opened(k, m)
        BY DEF Bursts
      <3>7. \E n \in Int : Opened(k, n)'
        <4>1. CASE Live(buckets[k])
          <5>1. swept[k] = buckets[k] /\ Live(swept[k])
            BY <4>1, <2>a
          <5>2. buckets'[k] = [buckets[k] EXCEPT !.count = @ + 1]
            BY <5>1, <3>3 DEF Counted
          <5>3. buckets[k].count < Limit
            <6>1. ~(buckets[k].count >= Limit) /\ buckets[k] \in Bucket
              BY <5>1, <2>2, <2>a DEF Refused, Full, swept, Live
            <6> QED
              BY <6>1, RateLimitAssumption DEF Bucket
          <5>4. Opened(k, m)'
            BY <4>1, <5>2, <5>3, <3>4, <3>5, <3>6, <2>b, <1>t, CountKeeps
          <5> QED
            BY <5>4
        <4>2. CASE ~Live(buckets[k])
          <5>1. buckets'[k] = [count |-> 1, expiresAt |-> now + Window]
            BY <4>2, <2>a, <3>3 DEF Counted
          <5>2. Opened(k, now)'
            BY <4>2, <5>1, <3>4, <3>5, <3>6, <2>b, <1>t, OpenKeeps
          <5>3. PICK n \in Int : n = now
            BY <1>t, RateLimitAssumption DEF TypeOK, Times
          <5>4. Opened(k, n)'
            BY <5>2, <5>3, <2>b DEF Opened, AdmittedIn, AdmittedBy
          <5> QED
            BY <5>4
        <4> QED
          BY <4>1, <4>2
      <3>8. \A j \in Keys : Running(j)' /\ \E n \in Int : Opened(j, n)'
        BY <3>2, <3>5, <3>7, <2>s
      <3> QED
        BY <3>8 DEF Bursts
    <2> QED
      BY <2>1, <2>2
  <1>2. CASE Tick
    <2>1. /\ now' = now + 1 /\ now \in Nat /\ now' \in Times /\ now \in Times
          /\ buckets' = buckets /\ admitted' = admitted /\ Window \in Nat
      BY <1>2, <1>t, RateLimitAssumption DEF Tick, TypeOK, Times
    <2> SUFFICES ASSUME NEW k \in Keys PROVE Running(k)' /\ \E m \in Int : Opened(k, m)'
      BY DEF Bursts
    <2>2. Running(k)
      BY DEF Bursts
    <2>3. PICK m \in Int : Opened(k, m)
      BY DEF Bursts
    <2>4. admitted[k][now'] = admitted[k][now]
      BY <2>1, <2>2 DEF Running
    <2>5. Running(k)'
      <3>1. \A t \in Times : t \in Int
        BY DEF Times
      <3> QED
        BY <3>1, <2>1, <2>2, <2>4 DEF Running
    <2>6. /\ AdmittedBy(k, now)' = AdmittedBy(k, now)
          /\ \A t \in Int : AdmittedBy(k, t)' = AdmittedBy(k, t)
      BY <2>1, <2>4 DEF AdmittedBy
    <2>7. /\ AdmittedIn(k, m, now)' = AdmittedIn(k, m, now)
          /\ AdmittedIn(k, m - Window, m - 1)' = AdmittedIn(k, m - Window, m - 1)
      <3>1. m - 1 \in Int /\ m - Window - 1 \in Int
        BY <2>1
      <3> QED
        BY <2>6, <3>1 DEF AdmittedIn
    <2>8. Live(buckets[k])' <=> now' <= m + Window
      <3>1. CASE Live(buckets[k])
        <4>1. buckets[k].expiresAt = m + Window /\ buckets[k] # Nil
          BY <3>1, <2>3 DEF Opened, Live
        <4> QED
          BY <4>1, <2>1 DEF Live
      <3>2. CASE ~Live(buckets[k])
        <4>1. ~(now <= m + Window)
          BY <3>2, <2>3 DEF Opened
        <4>2. ~(now' <= m + Window)
          BY <4>1, <2>1
        <4>3. ~Live(buckets[k])'
          <5>1. CASE buckets[k] = Nil
            BY <5>1, <2>1 DEF Live
          <5>2. CASE buckets[k] # Nil
            <6>1. buckets[k].expiresAt \in Int /\ ~(now <= buckets[k].expiresAt)
              BY <5>2, <3>2, <1>t DEF Live, TypeOK, Bucket
            <6> QED
              BY <6>1, <2>1 DEF Live
          <5> QED
            BY <5>1, <5>2
        <4> QED
          BY <4>2, <4>3
      <3> QED
        BY <3>1, <3>2
    <2>9. ~Live(buckets[k])' => AdmittedBy(k, now)' = AdmittedBy(k, m + Window)'
      <3> SUFFICES ASSUME ~Live(buckets[k])' PROVE AdmittedBy(k, now)' = AdmittedBy(k, m + Window)'
        OBVIOUS
      <3>1. ~(now' <= m + Window) /\ m + Window \in Int
        BY <2>1, <2>8
      <3>2. AdmittedBy(k, m + Window)' = AdmittedBy(k, m + Window)
        BY <3>1, <2>6
      <3>3. CASE Live(buckets[k])
        <4>1. now = m + Window
          BY <3>1, <3>3, <2>1, <2>3 DEF Opened
        <4> QED
          BY <4>1, <3>2, <2>6
      <3>4. CASE ~Live(buckets[k])
        BY <3>4, <3>2, <2>3, <2>6 DEF Opened
      <3> QED
        BY <3>3, <3>4
    <2>10. Live(buckets[k])' => Live(buckets[k])
      BY <2>8, <2>3, <2>1 DEF Opened
    <2>11. Opened(k, m)'
      <3>1. m <= now'
        BY <2>1, <2>3 DEF Opened
      <3> QED
        BY <3>1, <2>1, <2>3, <2>7, <2>8, <2>9, <2>10 DEF Opened
    <2> QED
      BY <2>5, <2>11
  <1>3. CASE Respond \/ UNCHANGED vars
    <2>1. UNCHANGED <<now, buckets, admitted>>
      BY <1>3 DEF Respond, Quota, Done, vars
    <2> QED
      BY <2>1 DEF Bursts, Running, Opened, Live, AdmittedIn, AdmittedBy
  <1> QED
    BY <1>1, <1>2, <1>3 DEF Next

(* At most twice the limit in any stretch of a window's length, for any      *)
(* limit, window, keys and requests: each stretch meets two windows at most, *)
(* and no sweep gives a window back early.                                   *)
THEOREM BurstsBounded == Spec => []BurstBound
  <1>1. IInv /\ Bursts => BurstBound
    BY BurstFromOpened DEF IInv, Bursts, BurstBound
  <1> QED
    BY <1>1, Invariance, InitBursts, NextBursts, PTL DEF Spec

-----------------------------------------------------------------------------
(* The refinement mapping, named: the open windows.                          *)
OpenWindows == [k \in Keys |-> IF Live(buckets[k]) THEN buckets[k] ELSE Nil]

(* A request of one key counts in, or opens, that key's window and leaves    *)
(* every other window alone, although it may sweep all of them.              *)
LEMMA AllowImplements ==
  ASSUME TypeOK, NEW r \in Requests, NEW k \in Keys, Allow(r, k)
  PROVE  Promise!Next \/ UNCHANGED <<now, OpenWindows>>
  <1> DEFINE swept == Swept(SweepDue)
  <1>1. swept \in [Keys -> Bucket \cup {Nil}]
    BY SweptFacts
  <1>2. now' = now
    BY AllowFacts
  <1>3. \A j \in Keys : Live(swept[j]) <=> Live(buckets[j])
    BY SweptFacts
  <1>4. \A j \in Keys : Live(buckets[j]) => swept[j] = buckets[j]
    BY SweptFacts
  <1>5. CASE Refused(k)
    <2>1. buckets' = swept
      BY <1>5, AllowFacts
    <2>2. \A j \in Keys : Live(buckets[j])' <=> Live(buckets[j])
      BY <2>1, <1>2, <1>3 DEF Live
    <2> QED
      BY <2>1, <2>2, <1>2, <1>4 DEF OpenWindows
  <1>6. CASE ~Refused(k)
    <2>1. buckets' = [swept EXCEPT ![k] = Counted(swept[k])]
      BY <1>6, AllowFacts
    <2>2. Counted(swept[k]) \in Bucket /\ Counted(swept[k]).expiresAt >= now
      BY <1>6, <1>1, CountedFacts DEF Refused
    <2>3. buckets'[k] = Counted(swept[k]) /\ \A j \in Keys \ {k} : buckets'[j] = swept[j]
      BY <2>1, <1>1
    <2>4. Live(buckets[k])'
      BY <2>2, <2>3, <1>2, RateLimitAssumption DEF Live, Bucket
    <2>5. \A j \in Keys \ {k} : Live(buckets[j])' <=> Live(buckets[j])
      BY <2>3, <1>2, <1>3 DEF Live
    <2>6. OpenWindows' = [OpenWindows EXCEPT ![k] = Counted(swept[k])]
      BY <2>3, <2>4, <2>5, <1>4 DEF OpenWindows
    <2>7. CASE Live(buckets[k])
      <3>1. swept[k] = buckets[k] /\ Live(swept[k]) /\ buckets[k] \in Bucket
        BY <2>7, <1>1, <1>4, <1>3 DEF Live
      <3>2. buckets[k].count < Limit
        BY <3>1, <1>6, RateLimitAssumption DEF Refused, Full, Bucket
      <3>3. Counted(swept[k]) = [buckets[k] EXCEPT !.count = @ + 1]
        BY <3>1 DEF Counted
      <3>4. OpenWindows[k] = buckets[k] /\ buckets[k] # Nil
        BY <2>7 DEF OpenWindows, Live
      <3>5. OpenWindows' = [OpenWindows EXCEPT ![k].count = @ + 1]
        BY <2>6, <3>3, <3>4 DEF OpenWindows
      <3>6. Promise!Count(k)
        BY <3>2, <3>4, <3>5, <1>2 DEF Promise!Count, OpenWindows
      <3> QED
        BY <3>6 DEF Promise!Next
    <2>8. CASE ~Live(buckets[k])
      <3>1. Counted(swept[k]) = [count |-> 1, expiresAt |-> now + Window]
        BY <2>8, <1>3 DEF Counted
      <3>2. OpenWindows[k] = Nil
        BY <2>8 DEF OpenWindows
      <3>3. Promise!Open(k)
        BY <2>6, <3>1, <3>2, <1>2 DEF Promise!Open, OpenWindows
      <3> QED
        BY <3>3 DEF Promise!Next
    <2> QED
      BY <2>7, <2>8
  <1> QED
    BY <1>5, <1>6

(* The clock closes exactly the windows that it leaves behind.               *)
LEMMA TickImplements ==
  ASSUME TypeOK, Tick
  PROVE  Promise!Next
  <1>1. now' = now + 1 /\ now < MaxTime /\ buckets' = buckets /\ now \in Nat
    BY DEF Tick, TypeOK, Times
  <1>2. \A k \in Keys : OpenWindows'[k] =
          IF OpenWindows[k] # Nil /\ now' > OpenWindows[k].expiresAt THEN Nil ELSE OpenWindows[k]
    BY <1>1, RateLimitAssumption DEF OpenWindows, Live, TypeOK, Bucket
  <1>3. OpenWindows' = [k \in Keys |->
          IF OpenWindows[k] # Nil /\ now' > OpenWindows[k].expiresAt THEN Nil ELSE OpenWindows[k]]
    BY <1>2 DEF OpenWindows
  <1>4. Promise!Pass
    BY <1>1, <1>3 DEF Promise!Pass, OpenWindows
  <1> QED
    BY <1>4 DEF Promise!Next

(* Memory implements FixedWindow for any limit, window and set of keys.      *)
THEOREM Refinement == Spec => Implements
  <1>1. Init => Promise!Init
    BY DEF Init, Promise!Init, Live
  <1>2. IInv /\ [Next]_vars => [Promise!Next]_(Promise!vars)
    <2> SUFFICES ASSUME IInv, [Next]_vars PROVE Promise!Next \/ UNCHANGED <<now, OpenWindows>>
      BY DEF Promise!vars, OpenWindows
    <2>1. ASSUME NEW r \in Requests, NEW k \in Keys, Allow(r, k)
          PROVE Promise!Next \/ UNCHANGED <<now, OpenWindows>>
      BY <2>1, AllowImplements DEF IInv
    <2>2. CASE Tick
      BY <2>2, TickImplements DEF IInv
    <2>3. CASE Respond \/ UNCHANGED vars
      <3>1. now' = now /\ buckets' = buckets
        BY <2>3 DEF Respond, Quota, Done, vars
      <3> QED
        BY <3>1 DEF OpenWindows, Live
    <2> QED
      BY <2>1, <2>2, <2>3 DEF Next
  <1> QED
    BY <1>1, <1>2, Invariance, PTL DEF Spec, Implements, Promise!Spec
===============================================================================
