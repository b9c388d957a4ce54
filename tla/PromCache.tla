------------------------------- MODULE PromCache -------------------------------
(***************************************************************************)
(* The agent's caching Prometheus client, agent/prom/cache.go: a TTL cache *)
(* with a bounded number of entries in front of an upstream Client, and    *)
(* singleflight so that concurrent misses on one key share one round trip. *)
(*                                                                         *)
(* acquire and release hold the mutex; the upstream query, the stamping of *)
(* the expiry time and wg.Done happen outside it.                          *)
(***************************************************************************)
EXTENDS Integers, FiniteSets

CONSTANTS Callers,      \* goroutines that query
          NoCaller,
          Promqls,      \* PromQL strings
          Ranges,       \* distinct (start, end, step) triples
          InstantTTL,   \* TTL of instant queries, in seconds
          RangeTTL,     \* TTL of range queries
          MaxEntries,   \* bound on the number of entries
          MaxTime,      \* bound: the clock runs from 0 to MaxTime
          MaxLag,       \* bound: a query's time is at most MaxLag behind the clock
          NoEntry, NoRequest

ASSUME TTLs == InstantTTL \in Nat \ {0} /\ RangeTTL \in Nat \ {0}
ASSUME CacheHoldsOne == MaxEntries \in Nat \ {0}
ASSUME ClockBound == MaxTime \in Nat /\ MaxLag \in Nat
ASSUME NoCallerNotACaller == NoCaller \notin Callers

Times == 0..MaxTime

Requests == [kind : {"q"}, promql : Promqls, at : Times]
              \cup [kind : {"qr"}, promql : Promqls, range : Ranges]

(* Mutant: buckets twice as wide as the TTL.                                  *)
bucketKeyWide(at, ttl) == at - (at % (2 * ttl))

(* The evaluation time rounded down to a multiple of the TTL.                *)
bucketKey(at, ttl) == at - (at % ttl)

(* The cache key of Query and of QueryRange.                                 *)
Key(r) ==
  IF r.kind = "q"
  THEN [kind |-> "q", promql |-> r.promql, bucket |-> bucketKey(r.at, InstantTTL)]
  ELSE r

TTL(r) == IF r.kind = "q" THEN InstantTTL ELSE RangeTTL

Keys == {Key(r) : r \in Requests}

(* What an upstream query yields: the request it answers and the expiry      *)
(* stamped on it.  Samples and errors are stored and shared alike, errors    *)
(* for the full TTL too, so what the answer says is left out.                *)
Entries == [req : Requests, expiresAt : Nat]

VARIABLES
  now,       \* NowFunc
  entries,   \* CachingClient.entries
  inflight,  \* CachingClient.inflight: the leader of each key's call
  pc,        \* where each caller is
  req,       \* the request each caller is serving
  asked,     \* when it called acquire
  call,      \* the leader whose inflightCall a follower joined
  got        \* the entry a leader fetched, or the answer a caller returned

vars == <<now, entries, inflight, pc, req, asked, call, got>>

CallerStates == {"idle", "leading", "fetched", "released", "waiting"}

Init ==
  /\ now = 0
  /\ entries = [k \in Keys |-> NoEntry]
  /\ inflight = [k \in Keys |-> NoCaller]
  /\ pc = [c \in Callers |-> "idle"]
  /\ req = [c \in Callers |-> NoRequest]
  /\ asked = [c \in Callers |-> 0]
  /\ call = [c \in Callers |-> NoCaller]
  /\ got = [c \in Callers |-> NoEntry]

Cached == {k \in Keys : entries[k] # NoEntry}

Tick ==
  /\ now < MaxTime
  /\ now' = now + 1
  /\ UNCHANGED <<entries, inflight, pc, req, asked, call, got>>

-----------------------------------------------------------------------------
(* An entry answers until its expiry time, inclusive.                        *)
Live(k) == entries[k] # NoEntry /\ now <= entries[k].expiresAt

Hit(c, k) ==
  /\ Live(k)
  /\ got' = [got EXCEPT ![c] = entries[k]]
  /\ call' = [call EXCEPT ![c] = NoCaller]
  /\ UNCHANGED <<entries, inflight, pc>>

(* acquire drops an expired entry on its way to the miss.                    *)
Dropped(k) == [entries EXCEPT ![k] = NoEntry]

Follow(c, k) ==
  /\ ~Live(k)
  /\ inflight[k] # NoCaller
  /\ entries' = Dropped(k)
  /\ pc' = [pc EXCEPT ![c] = "waiting"]
  /\ call' = [call EXCEPT ![c] = inflight[k]]
  /\ got' = [got EXCEPT ![c] = NoEntry]
  /\ UNCHANGED inflight

(* Mutant: a miss leads whether or not a call is in flight.                   *)
LeadAlways(c, k) ==
  /\ ~Live(k)
  /\ entries' = Dropped(k)
  /\ inflight' = [inflight EXCEPT ![k] = c]
  /\ pc' = [pc EXCEPT ![c] = "leading"]
  /\ got' = [got EXCEPT ![c] = NoEntry]
  /\ call' = [call EXCEPT ![c] = NoCaller]

Lead(c, k) ==
  /\ ~Live(k)
  /\ inflight[k] = NoCaller
  /\ entries' = Dropped(k)
  /\ inflight' = [inflight EXCEPT ![k] = c]
  /\ pc' = [pc EXCEPT ![c] = "leading"]
  /\ got' = [got EXCEPT ![c] = NoEntry]
  /\ call' = [call EXCEPT ![c] = NoCaller]

(* Query or QueryRange up to the end of acquire.  Scrape passes the time it  *)
(* started, which is not in the future.                                      *)
Acquire(c, r) ==
  /\ pc[c] = "idle"
  /\ r.kind = "q" => r.at \in (now - MaxLag)..now
  /\ req' = [req EXCEPT ![c] = r]
  /\ asked' = [asked EXCEPT ![c] = now]
  /\ Hit(c, Key(r)) \/ Follow(c, Key(r)) \/ Lead(c, Key(r))
  /\ UNCHANGED now

(* The upstream query returns, with samples or with an error (its own, or    *)
(* the leader's context); the leader fills its call and stamps the expiry.   *)
Fetch(c) ==
  /\ pc[c] = "leading"
  /\ got' = [got EXCEPT ![c] = [req |-> req[c], expiresAt |-> now + TTL(req[c])]]
  /\ pc' = [pc EXCEPT ![c] = "fetched"]
  /\ UNCHANGED <<now, entries, inflight, req, asked, call>>

-----------------------------------------------------------------------------
(* storeLocked scans for an oldest expiry; map order picks among equals.     *)
Victims == {v \in Cached : \A k \in Cached : entries[v].expiresAt <= entries[k].expiresAt}

(* Mutant: the limit is tested with > instead of >=.                          *)
storeLockedOffByOne(k, e) ==
  IF Cardinality(Cached) > MaxEntries
  THEN \E v \in Victims : entries' = [[entries EXCEPT ![v] = NoEntry] EXCEPT ![k] = e]
  ELSE entries' = [entries EXCEPT ![k] = e]

storeLocked(k, e) ==
  IF Cardinality(Cached) >= MaxEntries
  THEN \E v \in Victims : entries' = [[entries EXCEPT ![v] = NoEntry] EXCEPT ![k] = e]
  ELSE entries' = [entries EXCEPT ![k] = e]

(* The locked part of release: the call leaves inflight as its entry is      *)
(* stored, in one critical section.                                          *)
Release(c) ==
  /\ pc[c] = "fetched"
  /\ inflight' = [inflight EXCEPT ![Key(req[c])] = NoCaller]
  /\ storeLocked(Key(req[c]), got[c])
  /\ pc' = [pc EXCEPT ![c] = "released"]
  /\ UNCHANGED <<now, req, asked, call, got>>

Followers(c) == {f \in Callers : pc[f] = "waiting" /\ call[f] = c}

(* Mutant: wg.Done wakes nobody.                                              *)
DoneForgotten(c) ==
  /\ pc[c] = "released"
  /\ pc' = [pc EXCEPT ![c] = "idle"]
  /\ UNCHANGED <<now, entries, inflight, req, asked, call, got>>

(* wg.Done: the followers read the finished call, the leader returns.        *)
Done(c) ==
  /\ pc[c] = "released"
  /\ pc' = [f \in Callers |-> IF f = c \/ f \in Followers(c) THEN "idle" ELSE pc[f]]
  /\ got' = [f \in Callers |-> IF f \in Followers(c) THEN got[c] ELSE got[f]]
  /\ UNCHANGED <<now, entries, inflight, req, asked, call>>

LeaderStep(c) == Fetch(c) \/ Release(c) \/ Done(c)

Next ==
  \/ Tick
  \/ \E c \in Callers, r \in Requests : Acquire(c, r)
  \/ \E c \in Callers : LeaderStep(c)

Spec == Init /\ [][Next]_vars

-----------------------------------------------------------------------------
TypeOK ==
  /\ now \in Times
  /\ entries \in [Keys -> Entries \cup {NoEntry}]
  /\ inflight \in [Keys -> Callers \cup {NoCaller}]
  /\ pc \in [Callers -> CallerStates]
  /\ req \in [Callers -> Requests \cup {NoRequest}]
  /\ \A c \in Callers : pc[c] # "idle" => req[c] \in Requests
  /\ asked \in [Callers -> Times]
  /\ call \in [Callers -> Callers \cup {NoCaller}]
  /\ got \in [Callers -> Entries \cup {NoEntry}]
  /\ \A c \in Callers : pc[c] \in {"fetched", "released"} => got[c] \in Entries

Leaders == {c \in Callers : pc[c] \in {"leading", "fetched"}}

(* "Concurrent in-flight queries collapse via singleflight" (cache.go): the  *)
(* goroutines with a round trip under way are exactly the ones inflight      *)
(* names, so two of them never work on one key.                              *)
SingleFlight ==
  /\ \A c \in Leaders : inflight[Key(req[c])] = c
  /\ \A k \in Keys : inflight[k] # NoCaller => inflight[k] \in Leaders /\ Key(req[inflight[k]]) = k

(* A key is never both cached and being fetched: an entry that went stale is *)
(* gone before its refresh starts, and a refresh never meets an older entry. *)
CachedXorInflight == \A k \in Keys : entries[k] = NoEntry \/ inflight[k] = NoCaller

(* The cache never outgrows MaxEntries, whichever leaders store at once.     *)
Bounded == Cardinality(Cached) <= MaxEntries

(* Every answer a caller returns with, own, shared or cached, is for its own *)
(* key and was evaluated less than a TTL from the time it asked for; unless  *)
(* it joined a call under way, the answer had not expired when it asked.     *)
FreshAnswer ==
  \A c \in Callers :
    pc[c] = "idle" /\ got[c] # NoEntry =>
      /\ Key(got[c].req) = Key(req[c])
      /\ call[c] = NoCaller => asked[c] <= got[c].expiresAt
      /\ got[c].expiresAt <= now + TTL(req[c])
      /\ req[c].kind = "q" =>
           /\ req[c].at - got[c].req.at < InstantTTL
           /\ got[c].req.at - req[c].at < InstantTTL

(* No follower is left behind: whoever waits does so on a call that is still *)
(* under way, for its own key, even when the key has a new leader by then.   *)
(* A leader always goes on, so every caller returns.                         *)
NoOrphans ==
  \A f \in Callers : pc[f] = "waiting" =>
    /\ call[f] # NoCaller
    /\ pc[call[f]] \in {"leading", "fetched", "released"}
    /\ Key(req[call[f]]) = Key(req[f])
================================================================================
