------------------------- MODULE AgentTelemetryProofs -------------------------
(***************************************************************************)
(* Proofs for AgentTelemetry: type correctness, that the health pill is    *)
(* green only while an agent is heard, and where the provisioner class     *)
(* comes from, for any number of agents, any clocks and any delays.        *)
(***************************************************************************)
EXTENDS AgentTelemetry, TLAPS

(* A token is signed after the tick of its snapshot.                         *)
SignedAfterCapture == \A p \in posts : p.snap.age >= p.issued

(* The check-in of the row is at most the skew younger than the moment the   *)
(* api heard of it.                                                          *)
RowHeard == row # Nil => row.seen >= -Skew /\ heard <= row.seen + Skew

(* A class that is reported, on its way or stored was found by a detection.  *)
ClassesProbed ==
  /\ \A a \in Agents : proc[a].class # Unknown => proc[a].class \in probed
  /\ \A p \in posts : p.snap.class # Unknown => p.snap.class \in probed
  /\ ClassFromProbe

(* A post is from an earlier life of its agent, or carries what the agent's  *)
(* one detection found.                                                      *)
PostsOfTheirBoot ==
  /\ \A p \in posts :
       LET q == proc[p.snap.agent]
       IN  /\ p.snap.boot <= q.boot
           /\ p.snap.boot = q.boot /\ q.up => q.detected /\ q.class = p.snap.class
  /\ OneClassPerBoot

(* The inductive invariant.                                                  *)
IInv == TypeOK /\ SignedAfterCapture /\ RowHeard /\ ClassesProbed /\ PostsOfTheirBoot

(* The resting state of an agent.                                            *)
LEMMA DownFacts == Down \in Process /\ Down.class = Unknown
  BY TelemetryAssumption DEF Down, Process

(* The constants the clocks and reports are drawn from are numbers.          *)
LEMMA Ranges ==
  /\ \A t \in Intervals \cup {0} : t \in Nat
  /\ \A t \in Offsets \cup {0} : t \in Int
  /\ \A t \in Delays : t \in Int /\ t >= 0
  <1>0. 0 \in Nat /\ 0 \in Int
    OBVIOUS
  <1>1. \A t \in Intervals \cup {0} : t \in Nat
    BY <1>0, TelemetryAssumption, Zenon
  <1>2. \A t \in Offsets \cup {0} : t \in Int
    BY <1>0, TelemetryAssumption, Zenon
  <1>3. \A t \in Delays : t \in Nat
    BY TelemetryAssumption, Zenon
  <1>4. \A t \in Nat : t \in Int /\ t >= 0
    OBVIOUS
  <1> QED
    BY <1>1, <1>2, <1>3, <1>4, Zenon

(* What a start makes of an agent.                                           *)
LEMMA StartFacts ==
  ASSUME NEW b \in 0..MaxBoots, NEW ahead \in Offsets, NEW i \in Intervals
  PROVE  LET q == [Down EXCEPT !.up = TRUE, !.boot = b, !.ahead = ahead, !.interval = i]
         IN  q \in Process /\ q.class = Unknown /\ q.boot = b
  BY TelemetryAssumption DEF Down, Process

(* Detection touches nothing but the populator.                              *)
LEMMA DetectFacts ==
  ASSUME NEW p \in Process, NEW found \in Classes \cup {Unknown}
  PROVE  LET q == Detect(p, found)
         IN  /\ q \in Process
             /\ q.detected
             /\ q.boot = p.boot
             /\ q.class = IF p.detected THEN p.class ELSE found
  BY DEF Detect, Process

(* A snapshot is well typed and carries the clock, the boot and the class of *)
(* its process.                                                              *)
LEMMA PostFacts ==
  ASSUME NEW a \in Agents, NEW q \in Process, NEW late \in Delays
  PROVE  LET p == PostSnapshot(Build(a, q, late), q)
         IN  /\ p \in Post
             /\ p.snap.agent = a /\ p.snap.boot = q.boot /\ p.snap.class = q.class
             /\ p.snap.age >= p.issued
  <1> DEFINE snap == Build(a, q, late)
  <1>1. late \in Int /\ late >= 0 /\ q.ahead \in Int /\ q.boot \in 0..MaxBoots
        /\ q.interval \in Intervals \cup {0} /\ q.class \in Classes \cup {Unknown}
    <2>1. q.ahead \in Offsets \cup {0} /\ q.boot \in 0..MaxBoots
          /\ q.interval \in Intervals \cup {0} /\ q.class \in Classes \cup {Unknown}
      BY DEF Process
    <2> QED
      BY <2>1, Ranges, Zenon
  <1>2. snap \in Snap /\ snap.agent = a /\ snap.boot = q.boot /\ snap.class = q.class
        /\ snap.age = late - q.ahead
    BY <1>1, late - q.ahead \in Int DEF Build, Snap
  <1> QED
    BY <1>1, <1>2 DEF PostSnapshot, Post

(* A later look at a time: types and order are kept.                         *)
LEMMA OlderFacts ==
  /\ \A t \in Int : Older(t) \in Int /\ Older(t) >= t
  /\ \A s, t \in Int : s <= t => Older(s) <= Older(t)
  /\ \A t \in 0..Cap : Older(t) \in 0..Cap
  BY TelemetryAssumption DEF Older

(* The row of table agents, when there is one.                               *)
LEMMA RowTyped ==
  ASSUME TypeOK, row # Nil
  PROVE  /\ row \in [seen : Int, status : Statuses, fresh : Intervals \cup {0}]
         /\ row.seen \in Int /\ row.fresh \in Nat
  <1>1. row \in [seen : Int, status : Statuses, fresh : Intervals \cup {0}]
    BY DEF TypeOK
  <1>2. row.seen \in Int /\ row.fresh \in Intervals \cup {0}
    BY <1>1
  <1> QED
    BY <1>1, <1>2, Ranges, Zenon

(* The invariant holds when nothing has started.                             *)
LEMMA InitInv == Init => IInv
  BY DownFacts, TelemetryAssumption DEF Init, IInv, TypeOK, SignedAfterCapture, RowHeard, ClassesProbed,
     ClassFromProbe, PostsOfTheirBoot, OneClassPerBoot

(* A restart loses what the process knew, and its posts become those of an   *)
(* earlier life.                                                             *)
LEMMA StartInv ==
  ASSUME IInv, NEW a \in Agents, Start(a)
  PROVE  IInv'
  <1>1. PICK ahead \in Offsets, i \in Intervals :
          proc' = [proc EXCEPT ![a] = [Down EXCEPT !.up = TRUE, !.boot = proc[a].boot + 1,
                                                   !.ahead = ahead, !.interval = i]]
    BY DEF Start
  <1>2. /\ proc[a].boot + 1 \in 0..MaxBoots
        /\ UNCHANGED <<posts, row, class, heard, probed>>
    BY TelemetryAssumption DEF Start, IInv, TypeOK, Process
  <1>3. /\ proc' \in [Agents -> Process]
        /\ proc'[a].class = Unknown /\ proc'[a].boot = proc[a].boot + 1
        /\ \A b \in Agents \ {a} : proc'[b] = proc[b]
    <2> DEFINE q == [Down EXCEPT !.up = TRUE, !.boot = proc[a].boot + 1,
                                 !.ahead = ahead, !.interval = i]
    <2>1. q \in Process /\ q.class = Unknown /\ q.boot = proc[a].boot + 1
      BY <1>2, StartFacts
    <2> HIDE DEF q
    <2>2. proc' = [proc EXCEPT ![a] = q] /\ proc \in [Agents -> Process]
      BY <1>1 DEF q, IInv, TypeOK
    <2> QED
      BY <2>1, <2>2
  <1>4. TypeOK' /\ SignedAfterCapture' /\ RowHeard'
    BY <1>2, <1>3 DEF IInv, TypeOK, SignedAfterCapture, RowHeard
  <1>5. ClassesProbed'
    BY <1>2, <1>3 DEF IInv, ClassesProbed, ClassFromProbe
  <1>6. PostsOfTheirBoot'
    BY <1>2, <1>3, TelemetryAssumption
       DEF IInv, TypeOK, Post, Snap, Process, PostsOfTheirBoot, OneClassPerBoot
  <1> QED
    BY <1>4, <1>5, <1>6 DEF IInv

(* A stop forgets the process and leaves its posts under way.                *)
LEMMA StopInv ==
  ASSUME IInv, NEW a \in Agents, Stop(a)
  PROVE  IInv'
  <1> DEFINE q == [Down EXCEPT !.boot = proc[a].boot]
  <1>1. proc' = [proc EXCEPT ![a] = q] /\ UNCHANGED <<posts, row, class, heard, probed>>
    BY DEF Stop
  <1>2. q \in Process /\ q.class = Unknown /\ q.boot = proc[a].boot /\ ~q.up
    BY DownFacts DEF IInv, TypeOK, Process, Down
  <1> HIDE DEF q
  <1>3. /\ proc' \in [Agents -> Process] /\ proc'[a] = q
        /\ \A b \in Agents \ {a} : proc'[b] = proc[b]
    BY <1>1, <1>2 DEF IInv, TypeOK
  <1>4. TypeOK' /\ SignedAfterCapture' /\ RowHeard'
    BY <1>1, <1>3 DEF IInv, TypeOK, SignedAfterCapture, RowHeard
  <1>5. ClassesProbed'
    BY <1>1, <1>2, <1>3 DEF IInv, ClassesProbed, ClassFromProbe
  <1>6. PostsOfTheirBoot'
    BY <1>1, <1>2, <1>3 DEF IInv, TypeOK, Post, Snap, Process, PostsOfTheirBoot, OneClassPerBoot
  <1> QED
    BY <1>4, <1>5, <1>6 DEF IInv

(* A turn of the loop posts what the one detection of this boot found.       *)
LEMMA SnapshotInv ==
  ASSUME IInv, NEW a \in Agents, Snapshot(a)
  PROVE  IInv'
  <1>1. PICK late \in Delays, found \in Classes \cup {Unknown} :
          LET q == Detect(proc[a], found)
          IN  /\ proc' = [proc EXCEPT ![a] = q]
              /\ posts' = posts \cup {PostSnapshot(Build(a, q, late), q)}
              /\ probed' = IF proc[a].detected \/ found = Unknown THEN probed
                           ELSE probed \cup {found}
    BY DEF Snapshot
  <1> DEFINE q == Detect(proc[a], found)
             n == PostSnapshot(Build(a, q, late), q)
  <1>2. /\ proc' = [proc EXCEPT ![a] = q] /\ posts' = posts \cup {n}
        /\ UNCHANGED <<row, class, heard>> /\ proc[a] \in Process /\ proc[a].up
    BY <1>1 DEF Snapshot, IInv, TypeOK
  <1>3. /\ q \in Process /\ q.detected /\ q.boot = proc[a].boot
        /\ q.class = IF proc[a].detected THEN proc[a].class ELSE found
    BY <1>2, DetectFacts
  <1>4. /\ n \in Post /\ n.snap.agent = a /\ n.snap.boot = q.boot /\ n.snap.class = q.class
        /\ n.snap.age >= n.issued
    BY <1>3, PostFacts
  <1>5. probed \subseteq probed' /\ probed' \subseteq Classes
        /\ (q.class # Unknown => q.class \in probed')
    BY <1>1, <1>3 DEF IInv, TypeOK, ClassesProbed
  <1> HIDE DEF q, n
  <1>6. /\ proc' \in [Agents -> Process] /\ proc'[a] = q
        /\ \A b \in Agents \ {a} : proc'[b] = proc[b]
    BY <1>2, <1>3 DEF IInv, TypeOK
  <1>7. TypeOK'
    BY <1>2, <1>4, <1>5, <1>6 DEF IInv, TypeOK
  <1>8. SignedAfterCapture' /\ RowHeard'
    BY <1>2, <1>4 DEF IInv, SignedAfterCapture, RowHeard
  <1>9. ClassesProbed'
    BY <1>2, <1>4, <1>5, <1>6 DEF IInv, ClassesProbed, ClassFromProbe
  <1>10. \A p \in posts : p.snap.agent = a /\ p.snap.boot = q.boot => p.snap.class = q.class
    BY <1>2, <1>3 DEF IInv, PostsOfTheirBoot
  <1>11. PostsOfTheirBoot'
    BY <1>2, <1>3, <1>4, <1>6, <1>10
       DEF IInv, TypeOK, Post, Snap, Process, PostsOfTheirBoot, OneClassPerBoot
  <1> QED
    BY <1>7, <1>8, <1>9, <1>11 DEF IInv

(* An accepted post is heard now, and its check-in is within the skew.       *)
LEMMA AcceptInv ==
  ASSUME IInv, NEW p \in posts, Accept(p)
  PROVE  IInv'
  <1>1. p \in Post /\ p.snap \in Snap /\ p.issued >= -Skew /\ p.snap.age >= p.issued
    BY TelemetryAssumption DEF IInv, TypeOK, Post, SignedAfterCapture, Accept, Verify
  <1>2. classifyStatus(p.snap.fresh) \in Statuses
    BY <1>1, TelemetryAssumption DEF classifyStatus, Statuses, Snap
  <1>3. TypeOK'
    BY <1>1, <1>2, TelemetryAssumption DEF Accept, IInv, TypeOK, Snap
  <1>4. RowHeard'
    BY <1>1, TelemetryAssumption DEF Accept, RowHeard, Snap, Post
  <1>5. SignedAfterCapture' /\ ClassesProbed' /\ PostsOfTheirBoot'
    BY DEF Accept, IInv, SignedAfterCapture, ClassesProbed, ClassFromProbe, PostsOfTheirBoot,
           OneClassPerBoot
  <1> QED
    BY <1>3, <1>4, <1>5 DEF IInv

(* A lost post takes nothing with it.                                        *)
LEMMA LoseInv ==
  ASSUME IInv, NEW p \in posts, Lose(p)
  PROVE  IInv'
  BY DEF Lose, IInv, TypeOK, SignedAfterCapture, RowHeard, ClassesProbed, ClassFromProbe,
         PostsOfTheirBoot, OneClassPerBoot

(* Ages grow together, up to the cap, so that the order of the check-in and  *)
(* the hearing of it is kept.                                                *)
LEMMA TickInv ==
  ASSUME IInv, Tick
  PROVE  IInv'
  <1> DEFINE Aged(p) == [p EXCEPT !.snap.age = Older(@), !.issued = Older(@)]
  <1>1. posts' = {Aged(p) : p \in posts} /\ UNCHANGED <<proc, class, probed>>
    BY DEF Tick
  <1>2. ASSUME NEW p \in Post
        PROVE  /\ Aged(p) \in Post
               /\ Aged(p).snap.age = Older(p.snap.age) /\ Aged(p).issued = Older(p.issued)
               /\ Aged(p).snap.agent = p.snap.agent /\ Aged(p).snap.boot = p.snap.boot
               /\ Aged(p).snap.class = p.snap.class
    <2>1. p.snap \in Snap /\ p.issued \in Int
      BY DEF Post
    <2>2. Older(p.snap.age) \in Int /\ Older(p.issued) \in Int
      BY <2>1, OlderFacts DEF Snap
    <2> QED
      BY <2>1, <2>2 DEF Post, Snap
  <1> HIDE DEF Aged
  <1>3. posts \subseteq Post
    BY DEF IInv, TypeOK
  <1>4. posts' \subseteq Post /\ SignedAfterCapture'
    BY <1>1, <1>2, <1>3, OlderFacts DEF IInv, SignedAfterCapture, Post, Snap
  <1>5. ClassesProbed' /\ PostsOfTheirBoot'
    BY <1>1, <1>2, <1>3 DEF IInv, ClassesProbed, ClassFromProbe, PostsOfTheirBoot, OneClassPerBoot
  <1>6. TypeOK'
    BY <1>1, <1>4, OlderFacts DEF Tick, IInv, TypeOK
  <1>7. RowHeard'
    <2> SUFFICES ASSUME row # Nil PROVE RowHeard'
      BY DEF Tick, RowHeard
    <2>1. row.seen \in Int /\ heard \in Int /\ heard <= Cap /\ Skew \in Nat /\ Cap \in Nat
          /\ row.seen >= -Skew /\ heard <= row.seen + Skew
      BY RowTyped, TelemetryAssumption DEF IInv, TypeOK, RowHeard
    <2>2. row'.seen = Older(row.seen) /\ heard' = Older(heard)
      BY RowTyped DEF Tick, IInv
    <2> QED
      BY <2>1, <2>2 DEF Older, RowHeard
  <1> QED
    BY <1>4, <1>5, <1>6, <1>7 DEF IInv

(* Every step keeps the invariant.                                           *)
LEMMA StepInv == IInv /\ [Next]_vars => IInv'
  <1> SUFFICES ASSUME IInv, [Next]_vars PROVE IInv'
    OBVIOUS
  <1>1. CASE UNCHANGED vars
    BY <1>1 DEF vars, IInv, TypeOK, SignedAfterCapture, RowHeard, ClassesProbed, ClassFromProbe,
               PostsOfTheirBoot, OneClassPerBoot
  <1> QED
    BY <1>1, StartInv, StopInv, SnapshotInv, AcceptInv, LoseInv, TickInv DEF Next

(* IInv holds in every reachable state.                                      *)
LEMMA Invariance == Spec => []IInv
  BY InitInv, StepInv, PTL DEF Spec

(* Every state keeps the types of the variables, and with them the spelling  *)
(* that the tables' constraints ask for.                                     *)
THEOREM TypeCorrect == Spec => []TypeOK
  BY Invariance, PTL DEF IInv

(* No clock, however wrong, and no delay puts a check-in further into the    *)
(* future than the verifier's skew.                                          *)
THEOREM NoFutureCheckin == Spec => []CheckinNotAhead
  <1>1. IInv => CheckinNotAhead
    BY DEF IInv, RowHeard, CheckinNotAhead
  <1> QED
    BY <1>1, Invariance, PTL

(* The pill is green only while an agent is heard: what degradeStatus and    *)
(* recomputeFreshness show is never younger than the last accepted post.     *)
THEOREM PillIsHonest == Spec => []HealthyMeansHeard
  <1>1. IInv => HealthyMeansHeard
    <2> SUFFICES ASSUME IInv, Pill = "healthy" PROVE heard <= Hour + Skew
      BY DEF HealthyMeansHeard
    <2>1. row # Nil /\ degradeStatus(row.status, recomputeFreshness(row)) = "healthy"
      BY DEF Pill
    <2>2. row.seen \in Int /\ row.fresh \in Nat
      BY <2>1, RowTyped DEF IInv
    <2>3. recomputeFreshness(row) \in Nat /\ recomputeFreshness(row) >= row.seen
      BY <2>2 DEF recomputeFreshness
    <2>4. recomputeFreshness(row) <= Hour
      BY <2>1, <2>3, TelemetryAssumption DEF degradeStatus
    <2> QED
      BY <2>1, <2>2, <2>3, <2>4, TelemetryAssumption DEF IInv, TypeOK, RowHeard
  <1> QED
    BY <1>1, Invariance, PTL

(* What the dashboard reads off a row only grows older, and worse.           *)
LEMMA DegradesOnly ==
  ASSUME NEW s \in Statuses, NEW live \in Nat, NEW later \in Nat, live <= later
  PROVE  Rank(degradeStatus(s, later)) >= Rank(degradeStatus(s, live))
  <1>1. Hour \in Nat /\ SixHours \in Nat /\ Hour <= SixHours
    BY TelemetryAssumption
  <1> QED
    BY <1>1 DEF Statuses, degradeStatus, Rank

(* The pill never recovers by itself: no start, stop, loss or passing of     *)
(* time shows a better status than the one before, only an accepted          *)
(* snapshot does.                                                            *)
THEOREM SilenceOnlyWorsens == Spec => OnlyNewsHeals
  <1>1. ASSUME IInv, [Next]_vars, heard' # 0 PROVE Rank(Pill') >= Rank(Pill)
    <2>1. \A s : Rank(s) \in Int
      BY DEF Rank
    <2>2. CASE row' = row
      BY <2>1, <2>2 DEF Pill
    <2>3. CASE Tick /\ row # Nil
      <3>0. /\ row.seen \in Int /\ row.fresh \in Nat
            /\ row \in [seen : Int, status : Statuses, fresh : Intervals \cup {0}]
        BY <1>1, <2>3, RowTyped DEF IInv
      <3>1. /\ row.seen \in Int /\ row.fresh \in Nat /\ row.status \in Statuses
            /\ row \in [seen : Int, status : Statuses, fresh : Intervals \cup {0}]
        BY <3>0
      <3>2. row' = [row EXCEPT !.seen = Older(@)]
        BY <2>3 DEF Tick
      <3>3. /\ row'.seen = Older(row.seen) /\ row'.fresh = row.fresh /\ row'.status = row.status
            /\ row'.seen \in Int /\ row'.seen >= row.seen
        BY <3>1, <3>2, OlderFacts
      <3>4. CASE row' = Nil
        BY <3>4 DEF Pill, Rank
      <3>5. /\ recomputeFreshness(row) \in Nat /\ recomputeFreshness(row') \in Nat
            /\ recomputeFreshness(row) <= recomputeFreshness(row')
        BY <3>1, <3>3 DEF recomputeFreshness
      <3>6. /\ Pill = degradeStatus(row.status, recomputeFreshness(row))
            /\ row' # Nil => Pill' = degradeStatus(row.status, recomputeFreshness(row'))
        BY <2>3, <3>3 DEF Pill
      <3> QED
        BY <3>1, <3>4, <3>5, <3>6, DegradesOnly
    <2> QED
      BY <1>1, <2>2, <2>3 DEF Next, Start, Stop, Snapshot, Accept, Lose, Tick, vars
  <1> QED
    BY <1>1, Invariance, PTL DEF Spec, OnlyNewsHeals

(* The class in table clusters was found by a detection of some agent.       *)
THEOREM ClassWasFound == Spec => []ClassFromProbe
  BY Invariance, PTL DEF IInv, ClassesProbed

(* All snapshots under way of one life of an agent name the same class.      *)
THEOREM OneDetectionPerBoot == Spec => []OneClassPerBoot
  BY Invariance, PTL DEF IInv, PostsOfTheirBoot
===============================================================================
