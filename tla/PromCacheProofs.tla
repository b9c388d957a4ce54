--------------------------- MODULE PromCacheProofs ---------------------------
(***************************************************************************)
(* Proofs about PromCache for any callers, queries, ranges, TTLs, entry    *)
(* limit and clock.                                                        *)
(***************************************************************************)
EXTENDS PromCache, FiniteSetTheorems, TLAPS

CachedFinite == IsFiniteSet(Cached)

IndInv ==
  /\ TypeOK
  /\ SingleFlight
  /\ CachedXorInflight
  /\ CachedFinite
  /\ Bounded
  /\ NoOrphans

(* A request's key is one of the keys.                                       *)
LEMMA KeyInKeys == \A r \in Requests : Key(r) \in Keys
  BY DEF Keys

(* TTLs are natural numbers.                                                *)
LEMMA TTLNat == \A r \in Requests : TTL(r) \in Nat
  BY TTLs DEF TTL

(* The empty cache satisfies the invariant.                                  *)
LEMMA InitIndInv == Init => IndInv
<1> SUFFICES ASSUME Init PROVE IndInv
  OBVIOUS
<1>1. Cached = {}
  BY DEF Init, Cached
<1>2. TypeOK
  BY ClockBound DEF Init, TypeOK, Times, CallerStates
<1>3. SingleFlight /\ CachedXorInflight
  BY NoCallerNotACaller DEF Init, SingleFlight, CachedXorInflight, Leaders
<1>4. CachedFinite /\ Bounded
  BY <1>1, FS_EmptySet, CacheHoldsOne DEF CachedFinite, Bounded
<1>5. NoOrphans
  BY DEF Init, NoOrphans
<1> QED
  BY <1>2, <1>3, <1>4, <1>5 DEF IndInv

-----------------------------------------------------------------------------
(* acquire, the three ways it ends, keeps the types.                         *)
LEMMA TypeAcquire ==
  ASSUME TypeOK, NEW c \in Callers, NEW r \in Requests, Acquire(c, r)
  PROVE  TypeOK'
<1> DEFINE k == Key(r)
<1>k. k \in Keys
  BY KeyInKeys
<1> HIDE DEF k
<1>a. now' = now /\ asked' \in [Callers -> Times] /\ req' = [req EXCEPT ![c] = r]
  BY DEF TypeOK, Acquire
<1>b. pc[c] = "idle"
  BY DEF Acquire
<1>1. CASE Hit(c, k)
  BY <1>1, <1>a, <1>b, <1>k DEF TypeOK, Hit, Live, CallerStates
<1>2. CASE Follow(c, k)
  BY <1>2, <1>a, <1>b, <1>k DEF TypeOK, Follow, Dropped, CallerStates
<1>3. CASE Lead(c, k)
  BY <1>3, <1>a, <1>b, <1>k DEF TypeOK, Lead, Dropped, CallerStates
<1> QED
  BY <1>1, <1>2, <1>3 DEF Acquire, k

(* The entry a leader fetches is well typed.                                 *)
LEMMA TypeFetch ==
  ASSUME TypeOK, NEW c \in Callers, Fetch(c) PROVE TypeOK'
<1>1. req[c] \in Requests /\ now \in Nat
  BY ClockBound DEF TypeOK, Fetch, Times
<1>2. TTL(req[c]) \in Nat
  BY <1>1, TTLNat
<1>3. [req |-> req[c], expiresAt |-> now + TTL(req[c])] \in Entries
  BY <1>1, <1>2 DEF Entries
<1>4. got' \in [Callers -> Entries \cup {NoEntry}] /\ got'[c] \in Entries
  BY <1>3 DEF TypeOK, Fetch
<1>5. \A d \in Callers : d # c => got'[d] = got[d] /\ pc'[d] = pc[d]
  BY DEF TypeOK, Fetch
<1> QED
  BY <1>4, <1>5, <1>1 DEF TypeOK, Fetch, CallerStates

(* Storing keeps the entries' type, evicting or not.                         *)
LEMMA TypeStore ==
  ASSUME TypeOK, NEW k \in Keys, NEW e \in Entries, storeLocked(k, e)
  PROVE  entries' \in [Keys -> Entries \cup {NoEntry}]
BY DEF TypeOK, storeLocked, Victims, Cached

(* A release stores a well-typed entry and frees the key.                    *)
LEMMA TypeRelease ==
  ASSUME TypeOK, NEW c \in Callers, Release(c) PROVE TypeOK'
<1>1. req[c] \in Requests /\ got[c] \in Entries
  BY DEF TypeOK, Release
<1>2. Key(req[c]) \in Keys
  BY <1>1, KeyInKeys
<1>3. entries' \in [Keys -> Entries \cup {NoEntry}]
  BY <1>1, <1>2, TypeStore DEF Release
<1>4. inflight' \in [Keys -> Callers \cup {NoCaller}]
  BY <1>2 DEF TypeOK, Release
<1> QED
  BY <1>1, <1>3, <1>4 DEF TypeOK, Release, CallerStates

(* The followers leave with the leader's entry.                              *)
LEMMA TypeDone ==
  ASSUME TypeOK, NEW c \in Callers, Done(c) PROVE TypeOK'
<1>1. got[c] \in Entries
  BY DEF TypeOK, Done
<1>2. got' \in [Callers -> Entries \cup {NoEntry}] /\ pc' \in [Callers -> CallerStates]
  BY <1>1 DEF TypeOK, Done, CallerStates
<1>3. \A d \in Callers : pc'[d] # "idle" => pc'[d] = pc[d] /\ got'[d] = got[d]
  BY DEF Done
<1> QED
  BY <1>2, <1>3 DEF TypeOK, Done

(* Every step keeps the types.                                               *)
LEMMA TypeStep == TypeOK /\ [Next]_vars => TypeOK'
<1> SUFFICES ASSUME TypeOK, [Next]_vars PROVE TypeOK'
  OBVIOUS
<1>1. CASE Tick
  BY <1>1, ClockBound DEF TypeOK, Tick, Times
<1>2. CASE UNCHANGED vars
  BY <1>2 DEF TypeOK, vars
<1> QED
  BY <1>1, <1>2, TypeAcquire, TypeFetch, TypeRelease, TypeDone DEF Next, LeaderStep

-----------------------------------------------------------------------------
(* A caller only becomes a leader by entering itself under a key nobody      *)
(* fetches, and only leaves by clearing that very entry.                     *)
LEMMA FlightStep == TypeOK /\ SingleFlight /\ [Next]_vars => SingleFlight'
<1> SUFFICES ASSUME TypeOK, SingleFlight, [Next]_vars PROVE SingleFlight'
  OBVIOUS
<1>s. ASSUME UNCHANGED <<inflight, req>>, Leaders' = Leaders PROVE SingleFlight'
  BY <1>s DEF SingleFlight
<1>1. ASSUME NEW c \in Callers, NEW r \in Requests, Acquire(c, r) PROVE SingleFlight'
  <2> DEFINE k == Key(r)
  <2>k. k \in Keys
    BY KeyInKeys
  <2>a. req' = [req EXCEPT ![c] = r] /\ c \notin Leaders
    BY <1>1 DEF Acquire, Leaders
  <2>b. Key(req'[c]) = k /\ \A d \in Callers : d # c => req'[d] = req[d]
    BY <2>a DEF TypeOK
  <2> HIDE DEF k
  <2>1. CASE Hit(c, k) \/ Follow(c, k)
    <3>1. inflight' = inflight /\ Leaders' = Leaders
      BY <2>1, <2>a DEF Hit, Follow, Leaders, TypeOK
    <3> QED
      BY <3>1, <2>a, <2>b DEF SingleFlight, Leaders
  <2>2. CASE Lead(c, k)
    <3>1. inflight' = [inflight EXCEPT ![k] = c] /\ inflight[k] = NoCaller
      BY <2>2 DEF Lead
    <3>2. Leaders' = Leaders \cup {c}
      BY <2>2 DEF Lead, Leaders, TypeOK
    <3>3. \A d \in Leaders : Key(req[d]) # k /\ d # c
      BY <3>1, <2>a, NoCallerNotACaller DEF SingleFlight, Leaders
    <3>4. \A d \in Leaders' : inflight'[Key(req'[d])] = d
      BY <3>1, <3>2, <3>3, <2>b, <2>k DEF SingleFlight, TypeOK, Leaders
    <3>5. \A j \in Keys : inflight'[j] # NoCaller => inflight'[j] \in Leaders' /\ Key(req'[inflight'[j]]) = j
      BY <3>1, <3>2, <3>3, <2>b, <2>k DEF SingleFlight, TypeOK, Leaders
    <3> QED
      BY <3>4, <3>5 DEF SingleFlight
  <2> QED
    BY <1>1, <2>1, <2>2 DEF Acquire, k
<1>2. ASSUME NEW c \in Callers, Fetch(c) PROVE SingleFlight'
  BY <1>2, <1>s DEF Fetch, Leaders, TypeOK
<1>3. ASSUME NEW c \in Callers, Release(c) PROVE SingleFlight'
  <2> DEFINE k == Key(req[c])
  <2>1. c \in Leaders /\ req[c] \in Requests
    BY <1>3 DEF Release, Leaders, TypeOK
  <2>2. k \in Keys /\ inflight[k] = c
    BY <2>1, KeyInKeys DEF SingleFlight
  <2>3. Leaders' = Leaders \ {c} /\ req' = req
    BY <1>3 DEF Release, Leaders, TypeOK
  <2>4. inflight' = [inflight EXCEPT ![k] = NoCaller]
    BY <1>3 DEF Release
  <2> HIDE DEF k
  <2>5. \A d \in Leaders' : Key(req[d]) # k
    BY <2>2, <2>3 DEF SingleFlight
  <2>6. \A d \in Leaders' : inflight'[Key(req'[d])] = d
    BY <2>3, <2>4, <2>5 DEF SingleFlight, TypeOK
  <2>7. \A j \in Keys : inflight'[j] # NoCaller => inflight'[j] \in Leaders' /\ Key(req'[inflight'[j]]) = j
    <3> SUFFICES ASSUME NEW j \in Keys, inflight'[j] # NoCaller
                 PROVE  inflight'[j] \in Leaders' /\ Key(req'[inflight'[j]]) = j
      OBVIOUS
    <3>1. j # k /\ inflight'[j] = inflight[j]
      BY <2>2, <2>4 DEF TypeOK
    <3>2. inflight[j] \in Leaders /\ Key(req[inflight[j]]) = j
      BY <3>1 DEF SingleFlight
    <3> QED
      BY <3>1, <3>2, <2>3 DEF k
  <2> QED
    BY <2>6, <2>7 DEF SingleFlight
<1>4. ASSUME NEW c \in Callers, Done(c) PROVE SingleFlight'
  BY <1>4, <1>s DEF Done, Leaders, TypeOK, Followers
<1>5. CASE Tick
  BY <1>5, <1>s DEF Tick, Leaders
<1>6. CASE UNCHANGED vars
  BY <1>6, <1>s DEF vars, Leaders
<1> QED
  BY <1>1, <1>2, <1>3, <1>4, <1>5, <1>6 DEF Next, LeaderStep

(* A leader starts with its key uncached; only it stores under that key, in  *)
(* the critical section that ends its flight.                                *)
LEMMA XorStep == TypeOK /\ SingleFlight /\ CachedXorInflight /\ [Next]_vars => CachedXorInflight'
<1> SUFFICES ASSUME TypeOK, SingleFlight, CachedXorInflight, [Next]_vars
             PROVE  CachedXorInflight'
  OBVIOUS
<1>s. ASSUME UNCHANGED <<entries, inflight>> PROVE CachedXorInflight'
  BY <1>s DEF CachedXorInflight
<1>1. ASSUME NEW c \in Callers, NEW r \in Requests, Acquire(c, r) PROVE CachedXorInflight'
  <2> DEFINE k == Key(r)
  <2>k. k \in Keys
    BY KeyInKeys
  <2> HIDE DEF k
  <2>1. CASE Hit(c, k)
    BY <2>1, <1>s DEF Hit
  <2>2. CASE Follow(c, k)
    BY <2>2, <2>k DEF Follow, Dropped, CachedXorInflight, TypeOK
  <2>3. CASE Lead(c, k)
    BY <2>3, <2>k DEF Lead, Dropped, CachedXorInflight, TypeOK
  <2> QED
    BY <1>1, <2>1, <2>2, <2>3 DEF Acquire, k
<1>2. ASSUME NEW c \in Callers, Release(c) PROVE CachedXorInflight'
  <2> DEFINE k == Key(req[c])
  <2>1. k \in Keys
    BY <1>2, KeyInKeys DEF Release, TypeOK
  <2>2. inflight' = [inflight EXCEPT ![k] = NoCaller] /\ storeLocked(k, got[c])
    BY <1>2 DEF Release
  <2> HIDE DEF k
  <2>3. \A j \in Keys : j # k => entries'[j] = NoEntry \/ entries'[j] = entries[j]
    BY <2>2 DEF storeLocked, Victims, Cached, TypeOK
  <2> QED
    BY <2>1, <2>2, <2>3 DEF CachedXorInflight, TypeOK
<1>3. ASSUME NEW c \in Callers, Fetch(c) \/ Done(c) PROVE CachedXorInflight'
  BY <1>3, <1>s DEF Fetch, Done
<1>4. CASE Tick
  BY <1>4, <1>s DEF Tick
<1>5. CASE UNCHANGED vars
  BY <1>5, <1>s DEF vars
<1> QED
  BY <1>1, <1>2, <1>3, <1>4, <1>5 DEF Next, LeaderStep

(* What storeLocked leaves cached is at most what was there, less the victim *)
(* when the cache is full, and the new key.                                  *)
LEMMA StoreBounded ==
  ASSUME TypeOK, CachedFinite, Bounded, NEW k \in Keys, NEW e, storeLocked(k, e)
  PROVE  CachedFinite' /\ Bounded'
<1> DEFINE n == Cardinality(Cached)
<1>n. n \in Nat /\ n <= MaxEntries /\ MaxEntries \in Nat
  BY FS_CardinalityType, CacheHoldsOne DEF CachedFinite, Bounded
<1>1. CASE n >= MaxEntries
  <2>1. PICK v \in Victims : entries' = [[entries EXCEPT ![v] = NoEntry] EXCEPT ![k] = e]
    BY <1>1 DEF storeLocked
  <2>2. v \in Cached
    BY DEF Victims
  <2>3. Cached' \subseteq (Cached \ {v}) \cup {k}
    BY <2>1, <2>2 DEF Cached, TypeOK
  <2>4. IsFiniteSet(Cached \ {v}) /\ Cardinality(Cached \ {v}) = n - 1
    BY <2>2, FS_RemoveElement DEF CachedFinite
  <2>5. /\ IsFiniteSet((Cached \ {v}) \cup {k})
        /\ Cardinality((Cached \ {v}) \cup {k}) \in {n - 1, n}
    BY <2>4, <1>n, FS_AddElement
  <2>6. IsFiniteSet(Cached') /\ Cardinality(Cached') <= Cardinality((Cached \ {v}) \cup {k})
    BY <2>3, <2>5, FS_Subset
  <2>7. Cardinality(Cached') \in Nat
    BY <2>6, FS_CardinalityType
  <2> QED
    BY <2>5, <2>6, <2>7, <1>n DEF CachedFinite, Bounded
<1>2. CASE ~(n >= MaxEntries)
  <2>1. entries' = [entries EXCEPT ![k] = e]
    BY <1>2 DEF storeLocked
  <2>2. Cached' \subseteq Cached \cup {k}
    BY <2>1 DEF Cached, TypeOK
  <2>3. /\ IsFiniteSet(Cached \cup {k})
        /\ Cardinality(Cached \cup {k}) \in {n, n + 1}
    BY <1>n, FS_AddElement DEF CachedFinite
  <2>4. IsFiniteSet(Cached') /\ Cardinality(Cached') <= Cardinality(Cached \cup {k})
    BY <2>2, <2>3, FS_Subset
  <2>5. Cardinality(Cached') \in Nat
    BY <2>4, FS_CardinalityType
  <2> QED
    BY <1>2, <2>3, <2>4, <2>5, <1>n DEF CachedFinite, Bounded
<1> QED
  BY <1>1, <1>2

(* Dropping entries keeps the bound.                                         *)
LEMMA ShrinkBounded ==
  ASSUME CachedFinite, Bounded, Cached' \subseteq Cached PROVE CachedFinite' /\ Bounded'
<1>1. IsFiniteSet(Cached') /\ Cardinality(Cached') <= Cardinality(Cached)
  BY FS_Subset DEF CachedFinite
<1>2. Cardinality(Cached') \in Nat /\ Cardinality(Cached) \in Nat
  BY <1>1, FS_CardinalityType DEF CachedFinite
<1> QED
  BY <1>1, <1>2, CacheHoldsOne DEF CachedFinite, Bounded

(* Every step keeps the bound.                                               *)
LEMMA BoundStep ==
  TypeOK /\ CachedFinite /\ Bounded /\ [Next]_vars => CachedFinite' /\ Bounded'
<1> SUFFICES ASSUME TypeOK, CachedFinite, Bounded, [Next]_vars PROVE CachedFinite' /\ Bounded'
  OBVIOUS
<1>1. ASSUME NEW c \in Callers, NEW r \in Requests, Acquire(c, r) PROVE Cached' \subseteq Cached
  BY <1>1, KeyInKeys DEF Acquire, Hit, Follow, Lead, Dropped, Cached, TypeOK
<1>2. ASSUME NEW c \in Callers, Release(c) PROVE CachedFinite' /\ Bounded'
  <2>1. Key(req[c]) \in Keys
    BY <1>2, KeyInKeys DEF Release, TypeOK
  <2> QED
    BY <1>2, <2>1, StoreBounded DEF Release
<1>3. ASSUME NEW c \in Callers, Fetch(c) \/ Done(c) PROVE Cached' \subseteq Cached
  BY <1>3 DEF Fetch, Done, Cached
<1>4. ASSUME Tick \/ UNCHANGED vars PROVE Cached' \subseteq Cached
  BY <1>4 DEF Tick, vars, Cached
<1> QED
  BY <1>1, <1>2, <1>3, <1>4, ShrinkBounded DEF Next, LeaderStep

-----------------------------------------------------------------------------
(* A follower joins a call whose leader is in flight for the follower's key; *)
(* that leader keeps its request until Done, which wakes the follower.       *)
LEMMA OrphanStep ==
  TypeOK /\ SingleFlight /\ NoOrphans /\ [Next]_vars => NoOrphans'
<1> SUFFICES ASSUME TypeOK, SingleFlight, NoOrphans, [Next]_vars PROVE NoOrphans'
  OBVIOUS
<1>c. \A f \in Callers : pc[f] = "waiting" => call[f] \in Callers
  BY DEF NoOrphans, TypeOK
<1>1. ASSUME NEW c \in Callers, NEW r \in Requests, Acquire(c, r) PROVE NoOrphans'
  <2> DEFINE k == Key(r)
  <2>k. k \in Keys
    BY KeyInKeys
  <2>a. req' = [req EXCEPT ![c] = r] /\ pc[c] = "idle"
    BY <1>1 DEF Acquire
  <2>b. Key(req'[c]) = k /\ \A d \in Callers : d # c => req'[d] = req[d]
    BY <2>a DEF TypeOK
  <2>c. \A f \in Callers : pc[f] = "waiting" => f # c /\ call[f] # c
    BY <2>a DEF NoOrphans
  <2> HIDE DEF k
  <2>1. CASE Hit(c, k)
    <3>1. pc' = pc /\ \A f \in Callers : f # c => call'[f] = call[f]
      BY <2>1 DEF Hit, TypeOK
    <3> QED
      BY <3>1, <2>b, <2>c, <1>c DEF NoOrphans
  <2>2. CASE Follow(c, k)
    <3>1. /\ inflight[k] \in Leaders /\ Key(req[inflight[k]]) = k
          /\ inflight[k] # NoCaller /\ inflight[k] # c
      BY <2>2, <2>k, <2>a DEF Follow, SingleFlight, Leaders
    <3>2. /\ pc' = [pc EXCEPT ![c] = "waiting"]
          /\ call' = [call EXCEPT ![c] = inflight[k]]
      BY <2>2 DEF Follow
    <3>3. /\ \A f \in Callers : f # c => call'[f] = call[f] /\ pc'[f] = pc[f]
          /\ call'[c] = inflight[k]
      BY <3>2 DEF TypeOK
    <3> QED
      BY <3>1, <3>3, <2>b, <2>c, <1>c DEF NoOrphans, Leaders
  <2>3. CASE Lead(c, k)
    <3>1. /\ pc'[c] = "leading"
          /\ \A f \in Callers : f # c => call'[f] = call[f] /\ pc'[f] = pc[f]
      BY <2>3 DEF Lead, TypeOK
    <3> QED
      BY <3>1, <2>b, <2>c, <1>c DEF NoOrphans
  <2> QED
    BY <1>1, <2>1, <2>2, <2>3 DEF Acquire, k
<1>2. ASSUME NEW c \in Callers, Fetch(c) \/ Release(c) PROVE NoOrphans'
  <2>1. /\ req' = req /\ call' = call /\ pc'[c] \in {"fetched", "released"}
        /\ \A f \in Callers : f # c => pc'[f] = pc[f]
    BY <1>2 DEF Fetch, Release, TypeOK
  <2> QED
    BY <2>1, <1>c DEF NoOrphans
<1>3. ASSUME NEW c \in Callers, Done(c) PROVE NoOrphans'
  <2>1. /\ req' = req /\ call' = call
        /\ \A f \in Callers : pc'[f] = IF f = c \/ f \in Followers(c) THEN "idle" ELSE pc[f]
    BY <1>3 DEF Done
  <2>2. \A f \in Callers : pc'[f] = "waiting" => pc[f] = "waiting" /\ call[f] # c
    BY <2>1 DEF Followers
  <2>3. \A f \in Callers : pc[f] # "waiting" => f \notin Followers(c)
    BY DEF Followers
  <2> QED
    BY <2>1, <2>2, <2>3, <1>c DEF NoOrphans
<1>4. ASSUME Tick \/ UNCHANGED vars PROVE NoOrphans'
  BY <1>4 DEF Tick, vars, NoOrphans
<1> QED
  BY <1>1, <1>2, <1>3, <1>4 DEF Next, LeaderStep

-----------------------------------------------------------------------------
(* The entry e answers request r, by the clock of this state.                *)
Answers(e, r) ==
  /\ r \in Requests
  /\ Key(e.req) = Key(r)
  /\ e.expiresAt <= now + TTL(r)

(* What FreshAnswer rests on: an entry is stored under its own request's key *)
(* and expires within its TTL, a leader holds the entry it fetched for its   *)
(* own request, and a caller that returned holds an answer to its request.   *)
FreshInv ==
  /\ \A k \in Keys : entries[k] # NoEntry =>
       Key(entries[k].req) = k /\ entries[k].expiresAt <= now + TTL(entries[k].req)
  /\ \A c \in Callers : asked[c] <= now
  /\ \A c \in Callers : pc[c] \in {"fetched", "released"} =>
       /\ Answers(got[c], req[c])
       /\ got[c].req = req[c]
       /\ asked[c] <= got[c].expiresAt
  /\ \A c \in Callers : pc[c] = "idle" /\ got[c] # NoEntry =>
       /\ Answers(got[c], req[c])
       /\ call[c] = NoCaller => asked[c] <= got[c].expiresAt

(* Two times in one bucket are less than a TTL apart.                        *)
LEMMA SameBucket ==
  ASSUME NEW a \in Nat, NEW b \in Nat, NEW d \in Nat \ {0},
         bucketKey(a, d) = bucketKey(b, d)
  PROVE  a - b < d /\ b - a < d
<1>1. a % d \in 0..(d - 1) /\ b % d \in 0..(d - 1)
  OBVIOUS
<1> QED
  BY <1>1 DEF bucketKey

(* Requests with one key have one TTL, and instant ones are asked for times  *)
(* less than that TTL apart.                                                 *)
LEMMA SameKey ==
  ASSUME NEW r \in Requests, NEW s \in Requests, Key(r) = Key(s)
  PROVE  /\ r.kind = s.kind /\ TTL(r) = TTL(s)
         /\ r.kind = "q" => r.at - s.at < InstantTTL /\ s.at - r.at < InstantTTL
<1>1. Key(r).kind = r.kind /\ Key(s).kind = s.kind
  BY DEF Key
<1>2. r.kind = s.kind
  BY <1>1
<1>3. TTL(r) = TTL(s)
  BY <1>2 DEF TTL
<1>4. ASSUME r.kind = "q" PROVE r.at - s.at < InstantTTL /\ s.at - r.at < InstantTTL
  <2>0. Times \subseteq Nat
    BY ClockBound DEF Times
  <2>1. r.at \in Nat /\ s.at \in Nat
    BY <1>2, <1>4, <2>0 DEF Requests
  <2>2. Key(r).bucket = bucketKey(r.at, InstantTTL) /\ Key(s).bucket = bucketKey(s.at, InstantTTL)
    BY <1>2, <1>4 DEF Key
  <2> QED
    BY <2>1, <2>2, SameBucket, TTLs
<1> QED
  BY <1>2, <1>3, <1>4

(* The invariant gives the freshness of every answer.                        *)
LEMMA FreshEnough == TypeOK /\ FreshInv => FreshAnswer
<1> SUFFICES ASSUME TypeOK, FreshInv, NEW c \in Callers, pc[c] = "idle", got[c] # NoEntry
             PROVE  /\ Key(got[c].req) = Key(req[c])
                    /\ call[c] = NoCaller => asked[c] <= got[c].expiresAt
                    /\ got[c].expiresAt <= now + TTL(req[c])
                    /\ req[c].kind = "q" =>
                         /\ req[c].at - got[c].req.at < InstantTTL
                         /\ got[c].req.at - req[c].at < InstantTTL
  BY DEF FreshAnswer
<1>1. got[c].req \in Requests /\ req[c] \in Requests
  BY DEF TypeOK, Entries, FreshInv, Answers
<1> QED
  BY <1>1, SameKey DEF FreshInv, Answers

(* Nothing is cached or answered at the start.                               *)
LEMMA InitFresh == Init => FreshInv
  BY DEF Init, FreshInv

(* An answer stays one as the clock goes on.                                 *)
LEMMA AnswersLater ==
  ASSUME TypeOK, NEW e \in Entries, NEW r, Answers(e, r), now' \in Int, now <= now'
  PROVE  Answers(e, r)'
<1>1. TTL(r) \in Nat /\ now \in Int /\ e.expiresAt \in Int
  BY TTLNat, ClockBound DEF Answers, TypeOK, Times, Entries
<1> QED
  BY <1>1 DEF Answers

(* acquire hands out a live entry of its own key, or starts a fetch.         *)
LEMMA FreshAcquire ==
  ASSUME TypeOK, FreshInv, NEW c \in Callers, NEW r \in Requests, Acquire(c, r)
  PROVE  FreshInv'
<1> DEFINE k == Key(r)
<1>k. k \in Keys /\ k = Key(r)
  BY KeyInKeys
<1> HIDE DEF k
<1>a. now' = now /\ now \in Int /\ pc[c] = "idle"
  BY ClockBound DEF TypeOK, Acquire, Times
<1>b. /\ req'[c] = r /\ asked'[c] = now
      /\ \A d \in Callers : d # c => req'[d] = req[d] /\ asked'[d] = asked[d]
  BY DEF TypeOK, Acquire
<1>c. \A d \in Callers : d # c => /\ pc'[d] = pc[d] /\ got'[d] = got[d] /\ call'[d] = call[d]
  BY <1>k DEF TypeOK, Acquire, Hit, Follow, Lead
<1>d. \A j \in Keys : entries'[j] = entries[j] \/ entries'[j] = NoEntry
  BY <1>k DEF TypeOK, Acquire, Hit, Follow, Lead, Dropped
<1>e. /\ pc'[c] \notin {"fetched", "released"}
      /\ pc'[c] = "idle" /\ got'[c] # NoEntry =>
           Answers(got'[c], r) /\ asked'[c] <= got'[c].expiresAt
  <2>1. CASE Hit(c, k)
    <3>1. pc' = pc /\ got'[c] = entries[k] /\ now <= entries[k].expiresAt /\ entries[k] # NoEntry
      BY <2>1, <1>k DEF Hit, Live, TypeOK
    <3>2. Key(entries[k].req) = k /\ entries[k].expiresAt <= now + TTL(entries[k].req)
      BY <3>1, <1>k DEF FreshInv
    <3>3. entries[k].req \in Requests
      BY <3>1, <1>k DEF TypeOK, Entries
    <3>4. TTL(entries[k].req) = TTL(r)
      BY <3>2, <3>3, <1>k, SameKey
    <3> QED
      BY <3>1, <3>2, <3>4, <1>k, <1>a, <1>b DEF Answers
  <2>2. CASE Follow(c, k)
    BY <2>2 DEF Follow, TypeOK
  <2>3. CASE Lead(c, k)
    BY <2>3 DEF Lead, TypeOK
  <2> QED
    BY <2>1, <2>2, <2>3 DEF Acquire, k
<1>1. \A j \in Keys : entries'[j] # NoEntry =>
         Key(entries'[j].req) = j /\ entries'[j].expiresAt <= now' + TTL(entries'[j].req)
  BY <1>a, <1>d DEF FreshInv
<1>2. \A d \in Callers : asked'[d] <= now'
  BY <1>a, <1>b DEF FreshInv
<1>3. \A d \in Callers : pc'[d] \in {"fetched", "released"} =>
         /\ Answers(got[d], req[d])' /\ got'[d].req = req'[d] /\ asked'[d] <= got'[d].expiresAt
  BY <1>a, <1>b, <1>c, <1>e DEF FreshInv, Answers
<1>4. \A d \in Callers : pc'[d] = "idle" /\ got'[d] # NoEntry =>
         Answers(got[d], req[d])' /\ (call'[d] = NoCaller => asked'[d] <= got'[d].expiresAt)
  BY <1>a, <1>b, <1>c, <1>e DEF FreshInv, Answers
<1> QED
  BY <1>1, <1>2, <1>3, <1>4 DEF FreshInv

(* The fetched entry is for the leader's request and expires a TTL from now. *)
LEMMA FreshFetch ==
  ASSUME TypeOK, FreshInv, NEW c \in Callers, Fetch(c) PROVE FreshInv'
<1>a. now' = now /\ now \in Int /\ req[c] \in Requests /\ TTL(req[c]) \in Nat /\ asked[c] \in Int
  BY ClockBound, TTLNat DEF TypeOK, Fetch, Times
<1>b. got'[c] = [req |-> req[c], expiresAt |-> now + TTL(req[c])] /\ pc'[c] = "fetched"
  BY DEF TypeOK, Fetch
<1>c. \A d \in Callers : d # c => got'[d] = got[d] /\ pc'[d] = pc[d]
  BY DEF TypeOK, Fetch
<1>d. req' = req /\ asked' = asked /\ call' = call /\ entries' = entries
  BY DEF Fetch
<1>e. Answers(got'[c], req[c]) /\ got'[c].req = req[c] /\ asked[c] <= got'[c].expiresAt
  BY <1>a, <1>b DEF Answers, FreshInv
<1> QED
  BY <1>a, <1>b, <1>c, <1>d, <1>e DEF FreshInv, Answers

(* The leader's entry goes under the leader's key.                           *)
LEMMA FreshRelease ==
  ASSUME TypeOK, FreshInv, NEW c \in Callers, Release(c) PROVE FreshInv'
<1> DEFINE k == Key(req[c])
<1>k. k \in Keys /\ k = Key(req[c])
  BY KeyInKeys DEF Release, TypeOK
<1>a. UNCHANGED <<now, req, asked, call, got>>
  BY DEF Release
<1>b. storeLocked(k, got[c])
  BY DEF Release
<1> HIDE DEF k
<1>c. \A j \in Keys : \/ entries'[j] \in {entries[j], NoEntry}
                      \/ j = k /\ entries'[j] = got[c]
  BY <1>b, <1>k DEF storeLocked, Victims, Cached, TypeOK
<1>d. Key(got[c].req) = k /\ got[c].expiresAt <= now + TTL(got[c].req)
  BY <1>k DEF FreshInv, Answers, Release
<1>e. pc'[c] = "released" /\ \A d \in Callers : d # c => pc'[d] = pc[d]
  BY DEF TypeOK, Release
<1>1. \A j \in Keys : entries'[j] # NoEntry =>
         Key(entries'[j].req) = j /\ entries'[j].expiresAt <= now' + TTL(entries'[j].req)
  BY <1>a, <1>c, <1>d DEF FreshInv
<1>f. pc[c] = "fetched"
  BY DEF Release
<1> QED
  BY <1>1, <1>a, <1>e, <1>f DEF FreshInv, Answers

(* The followers take the answer of the call they joined, for their own key. *)
LEMMA FreshDone ==
  ASSUME TypeOK, NoOrphans, FreshInv, NEW c \in Callers, Done(c) PROVE FreshInv'
<1>a. UNCHANGED <<now, entries, req, asked, call>> /\ pc[c] = "released"
  BY DEF Done
<1>b. Answers(got[c], req[c]) /\ asked[c] <= got[c].expiresAt
  BY <1>a DEF FreshInv
<1>c. \A f \in Followers(c) : /\ f \in Callers /\ call[f] = c /\ c # NoCaller /\ pc[f] = "waiting"
                              /\ req[f] \in Requests /\ Key(req[c]) = Key(req[f])
  BY NoCallerNotACaller DEF Followers, NoOrphans, TypeOK
<1>d. \A f \in Followers(c) : Answers(got[c], req[f])
  BY <1>b, <1>c, SameKey DEF Answers
<1>e. \A f \in Callers : /\ f \in Followers(c) => pc'[f] = "idle" /\ got'[f] = got[c]
                         /\ f \notin Followers(c) => got'[f] = got[f]
                         /\ f \notin Followers(c) /\ f # c => pc'[f] = pc[f]
  BY DEF Done
<1>f. c \notin Followers(c) /\ pc'[c] = "idle"
  BY <1>a DEF Followers, Done
<1>1. \A f \in Callers : pc'[f] = "idle" /\ got'[f] # NoEntry =>
         Answers(got[f], req[f])' /\ (call'[f] = NoCaller => asked'[f] <= got'[f].expiresAt)
  <2> SUFFICES ASSUME NEW f \in Callers, pc'[f] = "idle", got'[f] # NoEntry
               PROVE  Answers(got[f], req[f])' /\ (call'[f] = NoCaller => asked'[f] <= got'[f].expiresAt)
    OBVIOUS
  <2>1. CASE f \in Followers(c)
    BY <2>1, <1>a, <1>c, <1>d, <1>e DEF Answers
  <2>2. CASE f = c
    BY <2>2, <1>a, <1>b, <1>e, <1>f DEF Answers
  <2>3. CASE f \notin Followers(c) /\ f # c
    BY <2>3, <1>a, <1>e DEF Answers, FreshInv
  <2> QED
    BY <2>1, <2>2, <2>3
<1>2. \A f \in Callers : pc'[f] \in {"fetched", "released"} =>
         /\ Answers(got[f], req[f])' /\ got'[f].req = req'[f] /\ asked'[f] <= got'[f].expiresAt
  BY <1>a, <1>e, <1>f DEF Answers, FreshInv
<1> QED
  BY <1>1, <1>2, <1>a DEF FreshInv

(* Time passes: what expired within a TTL of the clock still does.           *)
LEMMA FreshTick == TypeOK /\ FreshInv /\ Tick => FreshInv'
<1> SUFFICES ASSUME TypeOK, FreshInv, Tick PROVE FreshInv'
  OBVIOUS
<1>a. now' = now + 1 /\ now \in Int /\ UNCHANGED <<entries, pc, req, asked, call, got>>
  BY ClockBound DEF Tick, TypeOK, Times
<1>1. \A k \in Keys : entries[k] # NoEntry => entries[k].expiresAt <= now' + TTL(entries[k].req)
  <2> SUFFICES ASSUME NEW k \in Keys, entries[k] # NoEntry
               PROVE  entries[k].expiresAt <= now' + TTL(entries[k].req)
    OBVIOUS
  <2>1. entries[k].expiresAt \in Int /\ TTL(entries[k].req) \in Int
    BY TTLNat DEF TypeOK, Entries
  <2> QED
    BY <2>1, <1>a DEF FreshInv
<1>2. \A c \in Callers : asked[c] <= now'
  BY <1>a DEF FreshInv, TypeOK, Times
<1>3. \A c \in Callers : got[c] # NoEntry /\ Answers(got[c], req[c]) => Answers(got[c], req[c])'
  BY <1>a, AnswersLater DEF TypeOK, Answers, Entries
<1>4. \A c \in Callers : pc[c] \in {"fetched", "released"} /\ Answers(got[c], req[c]) => Answers(got[c], req[c])'
  BY <1>a, AnswersLater DEF TypeOK, Answers, Entries
<1> QED
  BY <1>a, <1>1, <1>2, <1>3, <1>4 DEF FreshInv

-----------------------------------------------------------------------------
(* The inductive invariant holds in every reachable state.                   *)
THEOREM Invariance == Spec => []IndInv
<1>1. IndInv /\ [Next]_vars => IndInv'
  BY TypeStep, FlightStep, XorStep, BoundStep, OrphanStep DEF IndInv
<1> QED
  BY InitIndInv, <1>1, PTL DEF Spec

(* The cache's state is well typed: a leader always has a request, a         *)
(* finished one always has its entry.                                        *)
THEOREM TypeCorrect == Spec => []TypeOK
  BY Invariance, PTL DEF IndInv

(* Singleflight holds for any number of goroutines and keys.                 *)
THEOREM OneRoundTripPerKey == Spec => []SingleFlight
  BY Invariance, PTL DEF IndInv

(* No key is cached and in flight at once.                                   *)
THEOREM NeverCachedAndInflight == Spec => []CachedXorInflight
  BY Invariance, PTL DEF IndInv

(* The cache is bounded by MaxEntries for any limit and any load.            *)
THEOREM CacheBounded == Spec => []Bounded
  BY Invariance, PTL DEF IndInv

(* No follower ever waits on a call that is over.                            *)
THEOREM NobodyLeftBehind == Spec => []NoOrphans
  BY Invariance, PTL DEF IndInv

(* No caller ever returns with another key's answer, with one evaluated a    *)
(* TTL or more from its own time, or, unless it joined a call, with one that *)
(* had expired: for any TTLs, lags, callers and evictions.                   *)
THEOREM AnswersFresh == Spec => []FreshAnswer
<1>1. IndInv /\ FreshInv /\ [Next]_vars => FreshInv'
  <2> SUFFICES ASSUME IndInv, FreshInv, [Next]_vars PROVE FreshInv'
    OBVIOUS
  <2>t. TypeOK /\ NoOrphans
    BY DEF IndInv
  <2>1. CASE UNCHANGED vars
    BY <2>1 DEF vars, FreshInv, Answers
  <2> QED
    BY <2>t, <2>1, FreshTick, FreshAcquire, FreshFetch, FreshRelease, FreshDone DEF Next, LeaderStep
<1>2. IndInv /\ FreshInv => FreshAnswer
  BY FreshEnough DEF IndInv
<1> QED
  BY Invariance, InitFresh, <1>1, <1>2, PTL DEF Spec
===============================================================================
