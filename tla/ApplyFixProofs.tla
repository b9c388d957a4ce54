---------------------------- MODULE ApplyFixProofs ----------------------------
(***************************************************************************)
(* Proofs for ApplyFix: for any payloads, wirings, answers of the model,   *)
(* owner indexes and changes of the tenant's flag, a pull request that is  *)
(* sent passed every gate, and skeptic mode keeps its floor.  Two parts    *)
(* are about the recursions that this rests on: the walk up the owners of  *)
(* a workload, which neither the cut-off nor a cycle misleads, and the     *)
(* application of a diff, hunk by hunk, to another text than the one that  *)
(* the model was shown, which makes the edit that was meant.               *)
(***************************************************************************)
EXTENDS ApplyFix, FiniteSetTheorems, WellFoundedInduction, TLAPS

-----------------------------------------------------------------------------
(* Induction.  The theorems of the library take the induction formula as an  *)
(* operator; the least member of a set of naturals serves as well.           *)

(* A set of naturals that is not empty has a least member.                   *)
LEMMA LeastNat ==
  ASSUME NEW T \in SUBSET Nat, T # {}
  PROVE  \E m \in T : \A k \in T : m <= k
  <1> DEFINE R == OpToRel(<, Nat)
  <1>1. IsWellFoundedOn(R, Nat)
    BY NatLessThanWellFounded
  <1>2. \A x, y \in Nat : <<y, x>> \in R <=> y < x
    BY DEF OpToRel
  <1> HIDE DEF R
  <1>3. PICK m \in T : \A y \in T : ~(<<y, m>> \in R)
    BY <1>1, WFMin
  <1>4. \A y \in T : y \in Nat /\ m \in Nat
    OBVIOUS
  <1>5. \A y \in T : ~(y < m)
    BY <1>2, <1>3, <1>4, Zenon
  <1> QED
    BY <1>4, <1>5

(* What holds at 0 and is handed on holds up to n: S is the set of numbers   *)
(* at which it does.                                                         *)
LEMMA UpTo ==
  ASSUME NEW n \in Nat, NEW S, 0 \in S, \A i \in 1..n : i - 1 \in S => i \in S
  PROVE  \A i \in 0..n : i \in S
  <1> DEFINE T == {i \in 0..n : i \notin S}
  <1> SUFFICES ASSUME T # {} PROVE FALSE
    BY Zenon
  <1>1. T \in SUBSET Nat
    OBVIOUS
  <1>2. \A i : i \in T <=> i \in 0..n /\ i \notin S
    OBVIOUS
  <1> HIDE DEF T
  <1>3. PICK m \in T : \A k \in T : m <= k
    BY <1>1, LeastNat
  <1>4. m \in 0..n /\ m \notin S /\ m # 0
    BY <1>2
  <1>5. m - 1 \notin T /\ m - 1 \in 0..n
    BY <1>3, <1>4
  <1> QED
    BY <1>2, <1>4, <1>5

-----------------------------------------------------------------------------
(* The operator detector.                                                    *)

WalkStart(owners) == [ref |-> controllingOwner(owners), visited |-> {}, verdict |-> "walking"]

(* walk of Classify, up to turn m.                                           *)
IsWalk(f, m, owners, resolve) ==
  f = [n \in 0..m |-> IF n = 0 THEN WalkStart(owners)
                      ELSE IF f[n - 1].verdict # "walking" THEN f[n - 1]
                      ELSE Step(f[n - 1], resolve)]

(* Every number of turns has its walk.                                       *)
LEMMA WalkExists ==
  ASSUME NEW m \in Nat, NEW owners, NEW resolve
  PROVE  \E f : IsWalk(f, m, owners, resolve)
  <1> DEFINE S == {n \in 0..m : \E f : IsWalk(f, n, owners, resolve)}
             next(w) == IF w.verdict # "walking" THEN w ELSE Step(w, resolve)
  <1>1. 0 \in S
    <2>1. IsWalk([n \in 0..0 |-> WalkStart(owners)], 0, owners, resolve)
      BY DEF IsWalk
    <2> QED
      BY <2>1
  <1>2. ASSUME NEW i \in 1..m, i - 1 \in S PROVE i \in S
    <2>1. PICK f : IsWalk(f, i - 1, owners, resolve)
      BY <1>2
    <2> DEFINE g == [n \in 0..i |-> IF n = i THEN next(f[i - 1]) ELSE f[n]]
    <2>2. IsWalk(g, i, owners, resolve)
      BY <2>1 DEF IsWalk
    <2> QED
      BY <2>2
  <1> HIDE DEF S
  <1>3. m \in S
    BY <1>1, <1>2, UpTo
  <1> QED
    BY <1>3 DEF S

(* A turn of the walk: the owner it looks at, those it has passed, and what  *)
(* they are owned by.                                                        *)
Turns(owners, resolve) ==
  LET U == {controllingOwner(owners)} \cup {resolve[r] : r \in BuiltInRefs}
  IN  {w \in [ref : U, visited : SUBSET BuiltInRefs,
              verdict : {"walking", "direct", "operator", "unknown"}] :
         /\ controllingOwner(owners) \in w.visited \cup {w.ref}
         /\ \A v \in w.visited : resolve[v] \in w.visited \cup {w.ref}
         /\ w.verdict = "direct" => w.ref \in BuiltInRefs /\ resolve[w.ref] = NoRef}

(* Step keeps to the chain.                                                  *)
LEMMA StepTurns ==
  ASSUME NEW owners, NEW resolve, NEW w \in Turns(owners, resolve), w.verdict = "walking"
  PROVE  Step(w, resolve) \in Turns(owners, resolve)
  <1> DEFINE U == {controllingOwner(owners)} \cup {resolve[r] : r \in BuiltInRefs}
             T == [ref : U, visited : SUBSET BuiltInRefs,
                   verdict : {"walking", "direct", "operator", "unknown"}]
             On(x) == /\ controllingOwner(owners) \in x.visited \cup {x.ref}
                      /\ \A v \in x.visited : resolve[v] \in x.visited \cup {x.ref}
                      /\ x.verdict = "direct" => x.ref \in BuiltInRefs /\ resolve[x.ref] = NoRef
  <1>1. \A x : x \in Turns(owners, resolve) <=> x \in T /\ On(x)
    BY DEF Turns
  <1>2. w \in T /\ On(w)
    BY <1>1
  <1>3. ASSUME NEW v \in {"direct", "operator", "unknown"},
               v = "direct" => w.ref \in BuiltInRefs /\ resolve[w.ref] = NoRef
        PROVE  [w EXCEPT !.verdict = v] \in Turns(owners, resolve)
    <2> DEFINE x == [w EXCEPT !.verdict = v]
    <2>1. x \in T /\ x.ref = w.ref /\ x.visited = w.visited /\ x.verdict = v
      BY <1>2
    <2> HIDE DEF x, T
    <2>2. On(x)
      BY <1>2, <1>3, <2>1
    <2> QED
      BY <1>1, <2>1, <2>2 DEF x
  <1>4. CASE w.ref \in w.visited
    BY <1>3, <1>4 DEF Step
  <1>5. CASE w.ref \notin w.visited /\ w.ref \in BuiltInRefs /\ resolve[w.ref] = NoRef
    BY <1>3, <1>5 DEF Step
  <1>6. CASE w.ref \notin w.visited /\ w.ref \in BuiltInRefs /\ resolve[w.ref] # NoRef
    <2> DEFINE x == [w EXCEPT !.ref = resolve[w.ref], !.visited = @ \cup {w.ref}]
    <2>1. Step(w, resolve) = x
      BY <1>6 DEF Step
    <2>2. resolve[w.ref] \in U /\ w.visited \cup {w.ref} \in SUBSET BuiltInRefs
      BY <1>2, <1>6
    <2>3. x \in T /\ x.ref = resolve[w.ref] /\ x.visited = w.visited \cup {w.ref}
          /\ x.verdict = "walking"
      BY <1>2, <2>2
    <2> HIDE DEF x, T
    <2>4. On(x)
      BY <1>2, <2>3
    <2> QED
      BY <1>1, <2>1, <2>3, <2>4
  <1>7. CASE w.ref \notin BuiltInRefs
    BY <1>2, <1>3, <1>7 DEF Step
  <1> QED
    BY <1>4, <1>5, <1>6, <1>7

(* So does the whole walk.                                                   *)
LEMMA WalkTurns ==
  ASSUME NEW m \in Nat, NEW owners, NEW resolve, NEW f, IsWalk(f, m, owners, resolve)
  PROVE  f[m] \in Turns(owners, resolve)
  <1> DEFINE S == {n \in 0..m : f[n] \in Turns(owners, resolve)}
  <1>1. f[0] = WalkStart(owners)
    BY DEF IsWalk
  <1>2. WalkStart(owners) \in Turns(owners, resolve)
    BY DEF WalkStart, Turns
  <1>3. 0 \in S
    BY <1>1, <1>2
  <1>4. ASSUME NEW i \in 1..m, i - 1 \in S PROVE i \in S
    <2>1. f[i] = IF f[i - 1].verdict # "walking" THEN f[i - 1] ELSE Step(f[i - 1], resolve)
      BY DEF IsWalk
    <2> QED
      BY <1>4, <2>1, StepTurns
  <1> HIDE DEF S
  <1>5. m \in S
    BY <1>3, <1>4, UpTo
  <1> QED
    BY <1>5 DEF S

(* A verdict of direct comes from such a walk.                               *)
LEMMA DirectWalk ==
  ASSUME NEW owners, NEW resolve, owners # <<>>, Classify(owners, resolve) = "direct"
  PROVE  \E w \in Turns(owners, resolve) : w.verdict = "direct"
  <1> DEFINE f == CHOOSE x : IsWalk(x, MaxDepth, owners, resolve)
  <1>1. IsWalk(f, MaxDepth, owners, resolve)
    BY WalkExists, DetectorAssumption
  <1>2. Classify(owners, resolve) =
          IF f[MaxDepth].verdict = "walking" THEN "unknown" ELSE f[MaxDepth].verdict
    BY Zenon DEF Classify, IsWalk, WalkStart
  <1> HIDE DEF f
  <1>3. f[MaxDepth].verdict = "direct"
    BY <1>2
  <1> QED
    BY <1>1, <1>3, WalkTurns, DetectorAssumption

(* reach of Reached, up to m steps.                                          *)
First(owners) == {controllingOwner(owners)}
More(R, resolve) == R \cup ({resolve[s] : s \in R} \ {NoRef})
IsReach(f, m, owners, resolve) ==
  f = [n \in 0..m |-> IF n = 0 THEN First(owners) ELSE More(f[n - 1], resolve)]

(* The function by which the owners reached are defined exists.              *)
LEMMA ReachExists ==
  ASSUME NEW m \in Nat, NEW owners, NEW resolve
  PROVE  \E f : IsReach(f, m, owners, resolve)
  <1> DEFINE S == {n \in 0..m : \E f : IsReach(f, n, owners, resolve)}
  <1>1. 0 \in S
    <2>1. IsReach([n \in 0..0 |-> First(owners)], 0, owners, resolve)
      BY DEF IsReach
    <2> QED
      BY <2>1
  <1>2. ASSUME NEW i \in 1..m, i - 1 \in S PROVE i \in S
    <2>1. PICK f : IsReach(f, i - 1, owners, resolve)
      BY <1>2
    <2> DEFINE g == [n \in 0..i |-> IF n = i THEN More(f[i - 1], resolve) ELSE f[n]]
    <2>2. IsReach(g, i, owners, resolve)
      BY <2>1 DEF IsReach
    <2> QED
      BY <2>2
  <1> HIDE DEF S
  <1>3. m \in S
    BY <1>1, <1>2, UpTo
  <1> QED
    BY <1>3 DEF S

(* A set of references that holds the first owner and whoever owns one of    *)
(* its members holds the whole chain.                                        *)
LEMMA ReachedWithin ==
  ASSUME NEW owners, NEW resolve, owners # <<>>, NEW C, controllingOwner(owners) \in C,
         \A v \in C : resolve[v] \in C \cup {NoRef}
  PROVE  Reached(owners, resolve) \subseteq C
  <1> DEFINE m == Cardinality(Refs)
             f == CHOOSE x : IsReach(x, m, owners, resolve)
             S == {n \in 0..m : f[n] \subseteq C}
  <1>1. m \in Nat
    BY FS_CardinalityType, DetectorAssumption
  <1>2. IsReach(f, m, owners, resolve)
    BY <1>1, ReachExists
  <1>3. Reached(owners, resolve) = f[m]
    BY Zenon DEF Reached, IsReach, First, More
  <1> HIDE DEF f, m
  <1>4. /\ f[0] = {controllingOwner(owners)}
        /\ \A i \in 1..m : f[i] = f[i - 1] \cup ({resolve[s] : s \in f[i - 1]} \ {NoRef})
    BY <1>1, <1>2 DEF IsReach, First, More
  <1>5. 0 \in S
    BY <1>1, <1>4
  <1>6. \A i \in 1..m : i - 1 \in S => i \in S
    BY <1>1, <1>4
  <1>7. \A i : i \in S <=> i \in 0..m /\ f[i] \subseteq C
    OBVIOUS
  <1> HIDE DEF S
  <1>8. \A i \in 0..m : i \in S
    BY <1>1, <1>5, <1>6, UpTo
  <1>9. m \in 0..m
    BY <1>1
  <1> QED
    BY <1>3, <1>7, <1>8, <1>9

(* A workload is called direct only if no owner that its controlling chain   *)
(* reaches, at any depth, is a custom resource (detector.go, Classify), for  *)
(* every owner index, cycles included, and every cut-off of the walk.        *)
THEOREM DirectIsSound ==
  ASSUME NEW owners, NEW resolve, Classify(owners, resolve) = "direct"
  PROVE  Reached(owners, resolve) \subseteq BuiltInRefs
  <1>1. CASE owners = <<>>
    BY <1>1 DEF Reached
  <1>2. CASE owners # <<>>
    <2>1. PICK w \in Turns(owners, resolve) : w.verdict = "direct"
      BY <1>2, DirectWalk
    <2>2. /\ w.visited \subseteq BuiltInRefs /\ w.ref \in BuiltInRefs /\ resolve[w.ref] = NoRef
          /\ controllingOwner(owners) \in w.visited \cup {w.ref}
          /\ \A v \in w.visited : resolve[v] \in w.visited \cup {w.ref}
      BY <2>1 DEF Turns
    <2>3. Reached(owners, resolve) \subseteq w.visited \cup {w.ref}
      BY <1>2, <2>2, ReachedWithin
    <2> QED
      BY <2>2, <2>3
  <1> QED
    BY <1>1, <1>2

(* A member of a sequence.                                                   *)
LEMMA MemberOf ==
  ASSUME NEW S, NEW s \in Seq(S)
  PROVE  Len(s) \in Nat /\ DOMAIN s = 1..Len(s) /\ \A i \in DOMAIN s : s[i] \in S
  OBVIOUS

(* The controlling owner is one of the list.                                 *)
LEMMA OwnerIsListed ==
  ASSUME NEW owners \in Seq([ref : Refs, controller : BOOLEAN]), owners # <<>>
  PROVE  controllingOwner(owners) \in Refs
  <1> DEFINE marked == {i \in DOMAIN owners : owners[i].controller}
             best == CHOOSE i \in marked : \A j \in marked : i <= j
  <1>1. Len(owners) \in Nat /\ DOMAIN owners = 1..Len(owners) /\ Len(owners) # 0
    OBVIOUS
  <1>2. \A i \in DOMAIN owners : owners[i].ref \in Refs
    <2>1. \A i \in DOMAIN owners : owners[i] \in [ref : Refs, controller : BOOLEAN]
      BY MemberOf
    <2> QED
      BY <2>1
  <1>3. CASE marked = {}
    <2>1. 1 \in DOMAIN owners
      BY <1>1
    <2> QED
      BY <1>2, <1>3, <2>1 DEF controllingOwner
  <1>4. CASE marked # {}
    <2>1. marked \in SUBSET Nat /\ marked \subseteq DOMAIN owners
      BY <1>1
    <2> HIDE DEF marked
    <2>2. best \in marked
      BY <1>4, <2>1, LeastNat
    <2>3. controllingOwner(owners) = owners[best].ref
      BY <1>4 DEF controllingOwner, marked
    <2> HIDE DEF best
    <2> QED
      BY <1>2, <2>1, <2>2, <2>3
  <1> QED
    BY <1>3, <1>4

(* What is reached in n steps, for every n up to the number of references,   *)
(* is among what is reached.                                                 *)
LEMMA ReachedBySteps ==
  ASSUME NEW owners, NEW resolve, owners # <<>>
  PROVE  \E f : /\ controllingOwner(owners) \in f[0]
                /\ \A i \in 1..Cardinality(Refs) : \A s \in f[i - 1] :
                     resolve[s] # NoRef => resolve[s] \in f[i]
                /\ \A i \in 0..Cardinality(Refs) : f[i] \subseteq Reached(owners, resolve)
  <1> DEFINE m == Cardinality(Refs)
             f == CHOOSE x : IsReach(x, m, owners, resolve)
             S == {n \in 0..m : \A j \in 0..n : f[j] \subseteq f[n]}
  <1>1. m \in Nat
    BY FS_CardinalityType, DetectorAssumption
  <1>2. IsReach(f, m, owners, resolve)
    BY <1>1, ReachExists
  <1>3. Reached(owners, resolve) = f[m]
    BY Zenon DEF Reached, IsReach, First, More
  <1> HIDE DEF f, m
  <1>4. /\ f[0] = {controllingOwner(owners)}
        /\ \A i \in 1..m : f[i] = f[i - 1] \cup ({resolve[s] : s \in f[i - 1]} \ {NoRef})
    BY <1>1, <1>2 DEF IsReach, First, More
  <1>5. 0 \in S
    BY <1>1
  <1>6. ASSUME NEW i \in 1..m, i - 1 \in S PROVE i \in S
    <2>1. f[i - 1] \subseteq f[i]
      BY <1>4
    <2>2. \A j \in 0..i : j = i \/ j \in 0..(i - 1)
      BY <1>1
    <2>3. \A j \in 0..(i - 1) : f[j] \subseteq f[i - 1]
      BY <1>6
    <2> QED
      BY <1>1, <2>1, <2>2, <2>3
  <1>7. \A i : i \in S => \A j \in 0..i : f[j] \subseteq f[i]
    OBVIOUS
  <1> HIDE DEF S
  <1>8. m \in S
    BY <1>1, <1>5, <1>6, UpTo
  <1>9. \A i \in 0..m : f[i] \subseteq Reached(owners, resolve)
    BY <1>3, <1>7, <1>8
  <1> QED
    BY <1>4, <1>9 DEF m

(* What is known of a walk at its turn n: it has passed owners that are all  *)
(* built in and owned, n of them while it goes on, and looks at one of the   *)
(* reached, in n steps while it goes on.                                     *)
At(w, n, f, R, resolve) ==
  /\ w.visited \subseteq BuiltInRefs /\ w.visited \subseteq R /\ w.ref \in R
  /\ \A v \in w.visited : resolve[v] # NoRef
  /\ w.verdict = "walking" => Cardinality(w.visited) = n /\ w.ref \in f[n]
  /\ w.verdict = "unknown" => w.ref \in w.visited
  /\ w.verdict = "operator" => w.ref \notin BuiltInRefs

(* The steps of ReachedBySteps.                                              *)
Steps(f, R, resolve) ==
  /\ \A i \in 1..Cardinality(Refs) : \A s \in f[i - 1] : resolve[s] # NoRef => resolve[s] \in f[i]
  /\ \A i \in 0..Cardinality(Refs) : f[i] \subseteq R

(* Step keeps to what is known.                                              *)
LEMMA StepAt ==
  ASSUME NEW owners, NEW resolve, NEW f, NEW R, Steps(f, R, resolve), NEW i \in Nat \ {0},
         NEW w \in Turns(owners, resolve), w.verdict = "walking", At(w, i - 1, f, R, resolve)
  PROVE  At(Step(w, resolve), i, f, R, resolve)
  <1>1. w = [ref |-> w.ref, visited |-> w.visited, verdict |-> w.verdict]
    BY DEF Turns
  <1>2. ASSUME NEW v \in {"direct", "operator", "unknown"},
               v = "unknown" => w.ref \in w.visited, v = "operator" => w.ref \notin BuiltInRefs
        PROVE  At([w EXCEPT !.verdict = v], i, f, R, resolve)
    <2> DEFINE x == [w EXCEPT !.verdict = v]
    <2>1. x.ref = w.ref /\ x.visited = w.visited /\ x.verdict = v
      BY <1>1
    <2> HIDE DEF x
    <2>2. At(x, i, f, R, resolve)
      BY <1>2, <2>1 DEF At
    <2> QED
      BY <2>2 DEF x
  <1>3. CASE w.ref \in w.visited
    BY <1>2, <1>3 DEF Step
  <1>4. CASE w.ref \notin w.visited /\ w.ref \in BuiltInRefs /\ resolve[w.ref] = NoRef
    BY <1>2, <1>4 DEF Step
  <1>5. CASE w.ref \notin w.visited /\ w.ref \in BuiltInRefs /\ resolve[w.ref] # NoRef
    <2> DEFINE x == [w EXCEPT !.ref = resolve[w.ref], !.visited = @ \cup {w.ref}]
               m == Cardinality(Refs)
    <2>1. Step(w, resolve) = x
      BY <1>5 DEF Step
    <2>2. x.ref = resolve[w.ref] /\ x.visited = w.visited \cup {w.ref} /\ x.verdict = "walking"
      BY <1>1
    <2> HIDE DEF x
    <2>3. IsFiniteSet(BuiltInRefs) /\ IsFiniteSet(w.visited)
      BY DetectorAssumption, FS_Subset DEF At
    <2>4. Cardinality(x.visited) = i /\ IsFiniteSet(x.visited)
      <3>1. Cardinality(w.visited) = i - 1
        BY DEF At
      <3>2. IsFiniteSet(w.visited \cup {w.ref})
            /\ Cardinality(w.visited \cup {w.ref}) = Cardinality(w.visited) + 1
        BY <1>5, <2>3, FS_AddElement
      <3> QED
        BY <2>2, <3>1, <3>2
    <2>5. x.visited \subseteq Refs
      BY <1>5, <2>2, DetectorAssumption DEF At
    <2>6. m \in Nat /\ i <= m
      BY <2>4, <2>5, FS_Subset, FS_CardinalityType, DetectorAssumption
    <2> HIDE DEF m
    <2>7. i \in 1..m /\ i \in 0..m
      BY <2>6
    <2>8. resolve[w.ref] \in f[i] /\ f[i] \subseteq R
      BY <1>5, <2>7 DEF At, Steps, m
    <2> QED
      BY <1>5, <2>1, <2>2, <2>4, <2>8 DEF At
  <1>6. CASE w.ref \notin BuiltInRefs
    <2>1. w.ref \notin w.visited
      BY <1>6 DEF At
    <2> QED
      BY <1>2, <1>6, <2>1 DEF Step
  <1> QED
    BY <1>3, <1>4, <1>5, <1>6

(* So does the whole walk.                                                   *)
LEMMA WalkAt ==
  ASSUME NEW m \in Nat, NEW owners, NEW resolve, NEW g, IsWalk(g, m, owners, resolve),
         NEW f, NEW R, Steps(f, R, resolve), controllingOwner(owners) \in f[0]
  PROVE  At(g[m], m, f, R, resolve) /\ g[m] \in Turns(owners, resolve)
  <1> DEFINE S == {n \in 0..m : At(g[n], n, f, R, resolve) /\ g[n] \in Turns(owners, resolve)}
  <1>1. g[0] = WalkStart(owners)
    BY DEF IsWalk
  <1>2. WalkStart(owners) \in Turns(owners, resolve)
    BY DEF WalkStart, Turns
  <1>3. At(WalkStart(owners), 0, f, R, resolve)
    <2>1. Cardinality(Refs) \in Nat
      BY FS_CardinalityType, DetectorAssumption
    <2>2. 0 \in 0..Cardinality(Refs)
      BY <2>1
    <2>3. f[0] \subseteq R
      BY <2>2 DEF Steps
    <2> QED
      BY <2>3, FS_EmptySet DEF WalkStart, At
  <1>4. 0 \in S
    BY <1>1, <1>2, <1>3
  <1>5. ASSUME NEW i \in 1..m, i - 1 \in S PROVE i \in S
    <2>1. g[i] = IF g[i - 1].verdict # "walking" THEN g[i - 1] ELSE Step(g[i - 1], resolve)
      BY DEF IsWalk
    <2>2. At(g[i - 1], i - 1, f, R, resolve) /\ g[i - 1] \in Turns(owners, resolve)
      BY <1>5
    <2>3. CASE g[i - 1].verdict # "walking"
      BY <2>1, <2>2, <2>3 DEF At
    <2>4. CASE g[i - 1].verdict = "walking"
      <3>1. i \in Nat \ {0}
        OBVIOUS
      <3> QED
        BY <2>1, <2>2, <2>4, <3>1, StepAt, StepTurns
    <2> QED
      BY <2>3, <2>4
  <1> HIDE DEF S
  <1>6. m \in S
    BY <1>4, <1>5, UpTo
  <1> QED
    BY <1>6 DEF S

(* A chain that ends, and within the cut-off, is decided, and rightly        *)
(* (detector.go, Classify): neither the cut-off nor the cycle guard costs    *)
(* anything else, for every owner list and every owner index.                *)
THEOREM ShortChainsAreDecided ==
  ASSUME NEW owners \in Seq([ref : Refs, controller : BOOLEAN]),
         NEW resolve \in [Refs -> Refs \cup {NoRef}],
         Cardinality(Reached(owners, resolve)) <= MaxDepth,
         \E r \in Reached(owners, resolve) : resolve[r] = NoRef \/ r \notin BuiltInRefs
  PROVE  Classify(owners, resolve) =
           IF Reached(owners, resolve) \subseteq BuiltInRefs THEN "direct" ELSE "operator"
  <1> DEFINE R == Reached(owners, resolve)
             g == CHOOSE x : IsWalk(x, MaxDepth, owners, resolve)
             w == g[MaxDepth]
  <1>1. owners # <<>>
    BY DEF Reached
  <1>2. PICK f : Steps(f, R, resolve) /\ controllingOwner(owners) \in f[0]
    BY <1>1, ReachedBySteps DEF Steps
  <1>3. IsWalk(g, MaxDepth, owners, resolve)
    BY WalkExists, DetectorAssumption
  <1>4. Classify(owners, resolve) = IF w.verdict = "walking" THEN "unknown" ELSE w.verdict
    BY <1>1, Zenon DEF Classify, IsWalk, WalkStart
  <1> HIDE DEF g
  <1>5. At(w, MaxDepth, f, R, resolve) /\ w \in Turns(owners, resolve)
    BY <1>2, <1>3, WalkAt, DetectorAssumption
  <1>6. R \subseteq Refs
    BY <1>1, OwnerIsListed, ReachedWithin
  <1>7. IsFiniteSet(R)
    BY <1>6, FS_Subset, DetectorAssumption
  <1>8. PICK r \in R : resolve[r] = NoRef \/ r \notin BuiltInRefs
    OBVIOUS
  <1> HIDE DEF R, w
  <1>9. r \notin w.visited
    BY <1>5, <1>8 DEF At
  <1>10. w.verdict # "walking"
    <2> SUFFICES ASSUME w.verdict = "walking" PROVE FALSE
      OBVIOUS
    <2>1. Cardinality(w.visited) = MaxDepth /\ w.visited \subseteq R
      BY <1>5 DEF At
    <2>2. Cardinality(R) <= MaxDepth /\ Cardinality(R) \in Nat /\ MaxDepth \in Nat
      BY <1>7, FS_CardinalityType, DetectorAssumption DEF R
    <2>3. Cardinality(w.visited) <= Cardinality(R)
          /\ (Cardinality(w.visited) = Cardinality(R) => w.visited = R)
      BY <1>7, <2>1, FS_Subset
    <2> QED
      BY <1>8, <1>9, <2>1, <2>2, <2>3
  <1>11. w.verdict # "unknown"
    <2> SUFFICES ASSUME w.verdict = "unknown" PROVE FALSE
      OBVIOUS
    <2>1. w.ref \in w.visited
      BY <1>5 DEF At
    <2>2. controllingOwner(owners) \in w.visited /\ \A v \in w.visited : resolve[v] \in w.visited
      BY <1>5, <2>1 DEF Turns
    <2>3. R \subseteq w.visited
      BY <1>1, <2>2, ReachedWithin DEF R
    <2> QED
      BY <1>8, <1>9, <2>3
  <1>12. w.verdict = "direct" => R \subseteq BuiltInRefs
    BY <1>4, DirectIsSound DEF R
  <1>13. w.verdict = "operator" => ~(R \subseteq BuiltInRefs)
    BY <1>5 DEF At
  <1>14. w.verdict \in {"walking", "direct", "operator", "unknown"}
    BY <1>5 DEF Turns
  <1> QED
    BY <1>4, <1>10, <1>11, <1>12, <1>13, <1>14 DEF R

-----------------------------------------------------------------------------
(* The diff.  A line as the sanitizer leaves it, where a hunk is found, and  *)
(* what applying one hunk after another makes of the chart.                  *)

(* A line as the model is shown it.                                          *)
Shown(l) == truncateLongFields(stripComments(l))

(* A record of four fields.                                                  *)
LEMMA RecordIs ==
  ASSUME NEW k, NEW n, NEW v, NEW b, NEW w, w = [kind |-> k, name |-> n, val |-> v, note |-> b]
  PROVE  /\ w.kind = k /\ w.name = n /\ w.val = v /\ w.note = b
         /\ w = [kind |-> w.kind, name |-> w.name, val |-> w.val, note |-> w.note]
  OBVIOUS

(* Where there is no comment there is none to strip.                         *)
LEMMA NothingToStrip ==
  ASSUME NEW K, NEW N, NEW S, NEW w \in [kind : K, name : N, val : S, note : BOOLEAN],
         w.note = FALSE
  PROVE  stripComments(w) = w
  BY DEF stripComments

(* A line is its fields.                                                     *)
LEMMA LineIs ==
  ASSUME NEW l \in Lines
  PROVE  /\ l = [kind |-> l.kind, name |-> l.name, val |-> l.val, note |-> l.note]
         /\ l.val \in Int
  <1>1. CASE l = wrapUserData
    <2>1. l = [kind |-> "mark", name |-> "", val |-> 0, note |-> FALSE]
      BY <1>1 DEF wrapUserData
    <2>2. /\ l.val = 0
          /\ l = [kind |-> l.kind, name |-> l.name, val |-> l.val, note |-> l.note]
      BY <2>1, RecordIs, Zenon
    <2> QED
      BY <2>2
  <1>2. CASE l # wrapUserData
    <2>1. l \in [kind : STRING, name : STRING, val : Int, note : BOOLEAN]
      BY <1>2 DEF Lines
    <2> QED
      BY <2>1
  <1> QED
    BY <1>1, <1>2

(* The sanitizer leaves the line that opens and closes a text.               *)
LEMMA MarkStays ==
  wrapUserData \in Lines /\ wrapUserData.note = FALSE /\ Shown(wrapUserData) = wrapUserData
  <1>1. wrapUserData.kind = "mark" /\ wrapUserData.note = FALSE
    BY DEF wrapUserData
  <1>2. stripComments(wrapUserData) = wrapUserData
    <2>1. wrapUserData \in [kind : {"mark"}, name : {""}, val : {0}, note : BOOLEAN]
      BY DEF wrapUserData
    <2> QED
      BY <1>1, <2>1, NothingToStrip
  <1>3. Shown(wrapUserData) = wrapUserData
    BY <1>1, <1>2 DEF Shown, truncateLongFields
  <1> QED
    BY <1>1, <1>3 DEF Lines

(* From any other it takes the comment, and it cuts a long setting.          *)
LEMMA ShownIs ==
  ASSUME NEW l \in Lines, l # wrapUserData
  PROVE  Shown(l) = [kind |-> l.kind, name |-> l.name, note |-> FALSE,
                     val |-> IF l.kind = "other" /\ l.val = 1 THEN 2 ELSE l.val]
         /\ Shown(l) \in Lines
  <1> DEFINE Recs == [kind : STRING, name : STRING, val : Int, note : BOOLEAN]
             a == stripComments(l)
             b == [a EXCEPT !.val = 2]
  <1>1. l \in Recs
    BY DEF Lines
  <1>2. /\ a \in Recs
        /\ a.kind = l.kind /\ a.name = l.name /\ a.val = l.val /\ a.note = FALSE
    BY <1>1 DEF stripComments
  <1> HIDE DEF a
  <1>3. /\ b \in Recs
        /\ b.kind = a.kind /\ b.name = a.name /\ b.val = 2 /\ b.note = a.note
    BY <1>2
  <1>4. Shown(l) = IF a.kind = "other" /\ a.val = 1 THEN b ELSE a
    BY DEF Shown, truncateLongFields, a
  <1> HIDE DEF b
  <1>5. a = [kind |-> a.kind, name |-> a.name, val |-> a.val, note |-> a.note]
    BY <1>2
  <1>6. b = [kind |-> b.kind, name |-> b.name, val |-> b.val, note |-> b.note]
    BY <1>3
  <1>7. Shown(l) \in Recs
    BY <1>2, <1>3, <1>4
  <1> QED
    BY <1>2, <1>3, <1>4, <1>5, <1>6, <1>7 DEF Lines

(* What the sanitizer has done to a line it does not do again.               *)
LEMMA ShownOnce ==
  ASSUME NEW l \in Lines
  PROVE  Shown(l) \in Lines /\ Shown(Shown(l)) = Shown(l)
  <1>1. CASE l = wrapUserData
    BY <1>1, MarkStays
  <1>2. CASE l # wrapUserData
    <2> DEFINE a == Shown(l)
               v == IF l.kind = "other" /\ l.val = 1 THEN 2 ELSE l.val
    <2>1. a = [kind |-> l.kind, name |-> l.name, note |-> FALSE, val |-> v] /\ a \in Lines
      BY <1>2, ShownIs
    <2>2. a.kind = l.kind /\ a.name = l.name /\ a.note = FALSE /\ a.val = v
      BY <2>1
    <2> HIDE DEF a
    <2>3. (IF a.kind = "other" /\ a.val = 1 THEN 2 ELSE a.val) = v
      BY <2>2, LineIs
    <2> HIDE DEF v
    <2>4. CASE a = wrapUserData
      BY <2>1, <2>4, MarkStays DEF a
    <2>5. CASE a # wrapUserData
      BY <2>1, <2>2, <2>3, <2>5, ShownIs DEF a
    <2> QED
      BY <2>4, <2>5
  <1> QED
    BY <1>1, <1>2

Offset(c) == IF c.suspicious THEN 1 ELSE 0

(* The text that the model is shown: the lines of the chart in their order.  *)
LEMMA TextIs ==
  ASSUME NEW c \in [lines : Seq(Lines), suspicious : BOOLEAN]
  PROVE  /\ Sanitize(c) \in Seq(Lines) /\ Len(Sanitize(c)) = Len(c.lines) + 2 * Offset(c)
         /\ \A i \in 1..Len(c.lines) : Sanitize(c)[i + Offset(c)] = Shown(c.lines[i])
         /\ \A i \in 1..Len(Sanitize(c)) : Shown(Sanitize(c)[i]) = Sanitize(c)[i]
  <1> DEFINE L == c.lines
             text == [i \in DOMAIN L |-> Shown(L[i])]
  <1>1. L \in Seq(Lines) /\ c.suspicious \in BOOLEAN
    OBVIOUS
  <1> HIDE DEF L
  <1>2. Len(L) \in Nat /\ DOMAIN L = 1..Len(L) /\ \A i \in 1..Len(L) : L[i] \in Lines
    BY <1>1
  <1>3. /\ text \in Seq(Lines) /\ Len(text) = Len(L)
        /\ \A i \in 1..Len(L) : text[i] = Shown(L[i]) /\ Shown(text[i]) = text[i]
    <2>1. \A i \in 1..Len(L) : Shown(L[i]) \in Lines /\ Shown(Shown(L[i])) = Shown(L[i])
      BY <1>2, ShownOnce
    <2>2. text = [i \in 1..Len(L) |-> Shown(L[i])]
      BY <1>2
    <2> QED
      BY <1>2, <2>1, <2>2
  <1>4. Sanitize(c) = IF c.suspicious THEN <<wrapUserData>> \o text \o <<wrapUserData>> ELSE text
    BY DEF Sanitize, Shown, L
  <1> HIDE DEF text
  <1>5. CASE c.suspicious
    <2> DEFINE S == <<wrapUserData>> \o text \o <<wrapUserData>>
    <2>1. /\ S \in Seq(Lines) /\ Len(S) = Len(L) + 2
          /\ \A i \in 1..Len(L) : S[i + 1] = text[i]
          /\ S[1] = wrapUserData /\ S[Len(L) + 2] = wrapUserData
      BY <1>2, <1>3, MarkStays
    <2> HIDE DEF S
    <2>2. ASSUME NEW i \in 1..(Len(L) + 2) PROVE Shown(S[i]) = S[i]
      <3>1. CASE i = 1 \/ i = Len(L) + 2
        BY <2>1, <3>1, MarkStays
      <3>2. CASE i # 1 /\ i # Len(L) + 2
        <4>1. i - 1 \in 1..Len(L) /\ (i - 1) + 1 = i
          BY <1>2, <3>2
        <4> QED
          BY <1>3, <2>1, <4>1
      <3> QED
        BY <3>1, <3>2
    <2> QED
      <3>1. Sanitize(c) = S /\ Offset(c) = 1
        BY <1>4, <1>5 DEF Offset, S
      <3>2. \A i \in 1..Len(L) : S[i + 1] = Shown(L[i])
        BY <1>3, <2>1
      <3>3. Len(S) = Len(L) + 2 * 1
        BY <1>2, <2>1
      <3>4. \A i \in 1..Len(S) : Shown(S[i]) = S[i]
        BY <2>1, <2>2
      <3> QED
        BY <2>1, <3>1, <3>2, <3>3, <3>4, Zenon DEF L
  <1>6. CASE ~c.suspicious
    BY <1>2, <1>3, <1>4, <1>6 DEF Offset, L
  <1> QED
    BY <1>1, <1>5, <1>6

(* Old lines that are once in the text are found in the chart at the place   *)
(* they have in the text, or not at all.                                     *)
LEMMA OncePlaced ==
  ASSUME NEW c \in [lines : Seq(Lines), suspicious : BOOLEAN], NEW want \in Seq(Lines),
         NEW at \in Int, tryAt(Sanitize(c), want, at),
         Cardinality({k \in 0..Len(Sanitize(c)) : tryAt(Sanitize(c), want, k)}) = 1,
         NEW x \in Int, tryAt(c.lines, want, x)
  PROVE  x = at - Offset(c)
  <1> DEFINE text == Sanitize(c)
             S == {k \in 0..Len(text) : tryAt(text, want, k)}
             L == c.lines
             o == Offset(c)
  <1>1. /\ text \in Seq(Lines) /\ Len(text) = Len(L) + 2 * o
        /\ \A i \in 1..Len(L) : text[i + o] = Shown(L[i])
        /\ \A i \in 1..Len(text) : Shown(text[i]) = text[i]
    BY TextIs
  <1>2. L \in Seq(Lines)
    OBVIOUS
  <1>3. o \in {0, 1}
    BY DEF Offset
  <1> HIDE DEF text, L, o
  <1>4. Len(L) \in Nat /\ Len(text) \in Nat /\ Len(want) \in Nat
    BY <1>1, <1>2
  <1>5. /\ at >= 0 /\ at + Len(want) <= Len(text)
        /\ \A k \in 1..Len(want) : text[at + k] = want[k]
    BY DEF tryAt, text
  <1>6. /\ x >= 0 /\ x + Len(want) <= Len(L)
        /\ \A k \in 1..Len(want) : L[x + k] = want[k]
    BY DEF tryAt, L
  <1>7. ASSUME NEW k \in 1..Len(want) PROVE text[x + o + k] = want[k]
    <2>1. x + k \in 1..Len(L) /\ at + k \in 1..Len(text) /\ (x + k) + o = x + o + k
      BY <1>3, <1>4, <1>5, <1>6
    <2>2. text[(x + k) + o] = Shown(want[k])
      BY <1>1, <1>6, <2>1
    <2>3. Shown(want[k]) = want[k]
      BY <1>1, <1>5, <2>1
    <2> QED
      BY <2>1, <2>2, <2>3
  <1>8. x + o \in S
    <2>1. x + o \in 0..Len(text) /\ x + o + Len(want) <= Len(text) /\ x + o >= 0
      BY <1>1, <1>3, <1>4, <1>6
    <2>2. tryAt(text, want, x + o)
      BY <1>7, <2>1 DEF tryAt
    <2> QED
      BY <2>1, <2>2
  <1>9. at \in S
    <2>1. at \in 0..Len(text)
      BY <1>4, <1>5
    <2>2. tryAt(text, want, at)
      BY DEF text
    <2> QED
      BY <2>1, <2>2
  <1>10. \E y : S = {y}
    <2>1. IsFiniteSet(0..Len(text)) /\ S \subseteq 0..Len(text)
      BY <1>4, FS_Interval
    <2>2. Cardinality(S) = 1
      BY DEF text
    <2> HIDE DEF S
    <2>3. IsFiniteSet(S)
      BY <2>1, FS_Subset
    <2> QED
      BY <2>2, <2>3, FS_Singleton
  <1> HIDE DEF S
  <1>11. x + o = at
    BY <1>8, <1>9, <1>10
  <1> QED
    BY <1>3, <1>11 DEF o

(* findBlock answers a place where the lines are: the line of the header, or *)
(* one from the cursor on.                                                   *)
LEMMA FoundWhere ==
  ASSUME NEW src \in Seq(Lines), NEW want \in Seq(Lines), want # <<>>,
         NEW cursor \in Nat, NEW hint \in Int
  PROVE  LET idx == findBlock(src, want, cursor, hint)
         IN  /\ tryAt(src, want, hint) => idx = hint
             /\ idx \in Int
             /\ idx >= 0 => tryAt(src, want, idx) /\ (idx = hint \/ idx >= cursor)
  <1> DEFINE at == {i \in cursor..Len(src) : tryAt(src, want, i)}
             least == CHOOSE i \in at : \A j \in at : i <= j
  <1>1. findBlock(src, want, cursor, hint) =
          IF tryAt(src, want, hint) THEN hint ELSE IF at = {} THEN -1 ELSE least
    BY DEF findBlock
  <1>2. at \in SUBSET Nat /\ \A i \in at : i >= cursor /\ tryAt(src, want, i)
    OBVIOUS
  <1> HIDE DEF at
  <1>3. at # {} => least \in at
    BY <1>2, LeastNat
  <1> HIDE DEF least
  <1>4. at # {} => least \in Nat /\ least >= cursor /\ tryAt(src, want, least)
    BY <1>2, <1>3
  <1> QED
    BY <1>1, <1>4

(* acc has the chart's lines from cut on as they were, behind its cursor.    *)
Follows(acc, lines, cut) ==
  /\ acc.lines \in Seq(Lines) /\ cut \in 0..Len(lines)
  /\ acc.cursor = cut + Len(acc.lines) - Len(lines) /\ acc.cursor \in Nat
  /\ \A x \in (cut + 1)..Len(lines) : acc.lines[x + Len(acc.lines) - Len(lines)] = lines[x]

(* The second of two sequences put together.                                 *)
LEMMA Second ==
  ASSUME NEW S, NEW C \in Seq(S), NEW B \in Seq(S)
  PROVE  /\ C \o B \in Seq(S) /\ Len(C \o B) = Len(C) + Len(B)
         /\ \A x \in 1..Len(B) : (C \o B)[Len(C) + x] = B[x]
  <1>1. Len(C) \in Nat /\ Len(B) \in Nat
    OBVIOUS
  <1>2. C \o B \in Seq(S) /\ Len(C \o B) = Len(C) + Len(B)
    OBVIOUS
  <1>3. ASSUME NEW x \in 1..Len(B) PROVE (C \o B)[Len(C) + x] = B[x]
    <2>1. PICK y \in Int : y = Len(C) + x
      BY <1>1
    <2>2. y \in 1..(Len(C) + Len(B)) /\ ~(y <= Len(C)) /\ y - Len(C) = x
      BY <1>1, <2>1
    <2>3. (C \o B)[y] = B[y - Len(C)]
      BY <1>1, <2>2
    <2> QED
      BY <2>1, <2>2, <2>3
  <1> QED
    BY <1>2, <1>3

(* A sequence with the part from i to j exchanged for another.               *)
Exchange(T, N, i, j) == SubSeq(T, 1, i) \o N \o SubSeq(T, j + 1, Len(T))
Exchangeable(S, T, N, i, j) ==
  T \in Seq(S) /\ N \in Seq(S) /\ i \in 0..Len(T) /\ j \in 0..Len(T)
IsExchange(S, T, N, i, j, U) ==
  /\ U \in Seq(S) /\ Len(U) = i + Len(N) + Len(T) - j
  /\ \A k \in 1..(Len(T) - j) : U[i + Len(N) + k] = T[j + k]

(* It has what followed behind what was put in.                              *)
LEMMA Exchanged ==
  ASSUME NEW S, NEW T, NEW N, NEW i, NEW j, Exchangeable(S, T, N, i, j)
  PROVE  IsExchange(S, T, N, i, j, Exchange(T, N, i, j))
  <1> DEFINE A == SubSeq(T, 1, i)
             B == SubSeq(T, j + 1, Len(T))
             t == Len(T)
             b == Len(N)
  <1>0. T \in Seq(S) /\ N \in Seq(S) /\ i \in 0..Len(T) /\ j \in 0..Len(T)
    BY DEF Exchangeable
  <1>1. t \in Nat /\ b \in Nat /\ i \in Nat /\ j \in Nat /\ i <= t /\ j <= t
    BY <1>0
  <1>2. A \in Seq(S) /\ Len(A) = i
    <2>1. \A k \in 1..i : T[k] \in S
      BY <1>0, <1>1
    <2>2. A = [k \in 1..i |-> T[k]]
      BY <1>1
    <2> QED
      BY <1>1, <2>1, <2>2
  <1>3. B \in Seq(S) /\ Len(B) = t - j /\ \A k \in 1..(t - j) : B[k] = T[j + k]
    <2>1. \A k \in 1..(t - j) : T[j + k] \in S
      BY <1>0, <1>1
    <2>2. B = [k \in 1..(t - j) |-> T[j + k]]
      BY <1>1
    <2>3. t - j \in Nat
      BY <1>1
    <2> HIDE DEF B
    <2> QED
      BY <2>1, <2>2, <2>3
  <1> HIDE DEF A, B
  <1>4. A \o N \in Seq(S) /\ Len(A \o N) = i + b
    BY <1>0, <1>1, <1>2
  <1> DEFINE C == A \o N
  <1>5. C \in Seq(S) /\ Len(C) = i + b
    BY <1>4
  <1> HIDE DEF C
  <1>6. /\ C \o B \in Seq(S) /\ Len(C \o B) = i + b + (t - j)
        /\ \A k \in 1..(t - j) : (C \o B)[i + b + k] = B[k]
    <2>1. /\ C \o B \in Seq(S) /\ Len(C \o B) = Len(C) + Len(B)
          /\ \A x \in 1..Len(B) : (C \o B)[Len(C) + x] = B[x]
      <3>1. C \in Seq(S) /\ B \in Seq(S)
        BY <1>3, <1>5
      <3> QED
        BY <3>1, Second, Zenon
    <2> QED
      BY <1>3, <1>5, <2>1, Zenon
  <1>7. Exchange(T, N, i, j) = C \o B
    BY DEF C, A, B, Exchange
  <1>8. i + b + (t - j) = i + b + t - j
    BY <1>1
  <1> QED
    BY <1>3, <1>6, <1>7, <1>8, Zenon DEF IsExchange

(* new is acc after a hunk that goes where the lines at place of the chart   *)
(* have come to, and what that leaves.                                       *)
Put(lines, acc, cut, h, place, new) ==
  /\ lines \in Seq(Lines) /\ OldBlock(h) \in Seq(Lines) /\ NewBlock(h) \in Seq(Lines)
  /\ place \in Int /\ cut <= place /\ place + Len(OldBlock(h)) <= Len(lines)
  /\ Follows(acc, lines, cut)
  /\ new.cursor = place + Len(acc.lines) - Len(lines) + Len(NewBlock(h))
  /\ new.lines = Splice(acc.lines, place + Len(acc.lines) - Len(lines), h)
Left(lines, acc, h, place, new) ==
  /\ Follows(new, lines, place + Len(OldBlock(h)))
  /\ Len(new.lines) = Len(acc.lines) + Len(NewBlock(h)) - Len(OldBlock(h))

(* Behind the hunk the chart is as it was.                                   *)
LEMMA SpliceFollows ==
  ASSUME NEW lines, NEW acc, NEW cut, NEW h, NEW place, NEW new,
         Put(lines, acc, cut, h, place, new)
  PROVE  Left(lines, acc, h, place, new)
  <1> DEFINE T == acc.lines
             Old == OldBlock(h)
             New == NewBlock(h)
             n == Len(lines)
             t == Len(T)
             a == Len(Old)
             b == Len(New)
             idx == place + t - n
  <1>1. /\ T \in Seq(Lines) /\ Old \in Seq(Lines) /\ New \in Seq(Lines)
        /\ lines \in Seq(Lines) /\ place \in Int
    BY DEF Follows, Put
  <1>2. /\ new.lines = SubSeq(T, 1, idx) \o New \o SubSeq(T, idx + a + 1, t)
        /\ new.cursor = idx + b
    BY DEF Splice, Put
  <1>3. n \in Nat /\ t \in Nat /\ a \in Nat /\ b \in Nat /\ place \in Int
    BY <1>1
  <1>4. /\ cut \in 0..n /\ cut + t - n >= 0 /\ cut <= place /\ place + a <= n
        /\ \A x \in (cut + 1)..n : T[x + t - n] = lines[x]
    BY DEF Follows, Put
  <1> HIDE DEF T, Old, New, n, t, a, b
  <1>5. cut \in Nat /\ idx \in 0..t /\ idx + a \in 0..t /\ idx = place + t - n
    BY <1>3, <1>4
  <1> HIDE DEF idx
  <1>6. PICK e \in 0..t : e = idx + a
    BY <1>5
  <1>7. /\ new.lines \in Seq(Lines) /\ Len(new.lines) = idx + b + t - e
        /\ \A i \in 1..(t - e) : new.lines[idx + b + i] = T[e + i]
    <2>1. new.lines = SubSeq(T, 1, idx) \o New \o SubSeq(T, e + 1, t)
      BY <1>2, <1>6
    <2> QED
      <3>1. Exchangeable(Lines, T, New, idx, e)
        BY <1>1, <1>5 DEF t, Exchangeable
      <3>2. new.lines = Exchange(T, New, idx, e)
        BY <2>1 DEF t, Exchange
      <3>3. IsExchange(Lines, T, New, idx, e, new.lines)
        BY <3>1, <3>2, Exchanged
      <3> QED
        BY <3>3 DEF t, b, IsExchange
  <1>8. place + a \in 0..n
    BY <1>3, <1>4
  <1>9. PICK m \in Int : m = t + b - a /\ m = Len(new.lines)
    BY <1>3, <1>5, <1>6, <1>7
  <1>10. ASSUME NEW x \in (place + a + 1)..n
         PROVE  new.lines[x + m - n] = lines[x]
    <2>1. PICK i \in Int : i = x - place - a
      BY <1>3
    <2>2. i \in 1..(t - e) /\ x + m - n = idx + b + i /\ e + i = x + t - n /\ x \in (cut + 1)..n
      BY <1>3, <1>4, <1>5, <1>6, <1>9, <2>1
    <2> QED
      BY <1>4, <1>7, <2>2, Zenon
  <1>11. new.cursor = (place + a) + m - n /\ new.cursor \in Nat
    <2>1. new.cursor = idx + b
      BY <1>2
    <2>2. idx + b = (place + a) + m - n /\ idx + b \in Nat
      BY <1>3, <1>5, <1>9
    <2> QED
      BY <2>1, <2>2, Zenon
  <1>12. Follows(new, lines, place + a)
    BY <1>7, <1>8, <1>9, <1>10, <1>11, Zenon DEF Follows, n
  <1> QED
    BY <1>9, <1>12 DEF n, a, b, t, T, Old, New, Left

(* acc is a record of these fields.                                          *)
Shaped(acc) ==
  acc = [ok |-> acc.ok, cursor |-> acc.cursor, lines |-> acc.lines] /\ acc.ok \in BOOLEAN

(* What a hunk does to the text so far, if it and those before it apply.     *)
LEMMA HunkIs ==
  ASSUME NEW acc, Shaped(acc), NEW h
  PROVE  LET idx == findBlock(acc.lines, OldBlock(h), acc.cursor, h.start - 1)
             new == ApplyHunk(acc, h)
         IN  /\ Shaped(new)
             /\ new.ok => /\ acc.ok /\ ~(idx < 0)
                          /\ new.cursor = idx + Len(NewBlock(h))
                          /\ new.lines = Splice(acc.lines, idx, h)
  <1> DEFINE idx == findBlock(acc.lines, OldBlock(h), acc.cursor, h.start - 1)
             new == ApplyHunk(acc, h)
  <1>1. CASE ~acc.ok \/ idx < 0
    <2>1. new = [acc EXCEPT !.ok = FALSE]
      BY <1>1 DEF ApplyHunk
    <2>2. new = [ok |-> FALSE, cursor |-> acc.cursor, lines |-> acc.lines]
      BY <2>1 DEF Shaped
    <2> HIDE DEF new
    <2>3. new.ok = FALSE /\ new.cursor = acc.cursor /\ new.lines = acc.lines
      BY <2>2
    <2> QED
      BY <2>2, <2>3 DEF Shaped, new
  <1>2. CASE acc.ok /\ ~(idx < 0)
    <2>1. new = [ok |-> TRUE, cursor |-> idx + Len(NewBlock(h)), lines |-> Splice(acc.lines, idx, h)]
      BY <1>2 DEF ApplyHunk
    <2> HIDE DEF new, idx
    <2>2. /\ new.ok = TRUE /\ new.cursor = idx + Len(NewBlock(h))
          /\ new.lines = Splice(acc.lines, idx, h)
      BY <2>1
    <2> QED
      BY <1>2, <2>1, <2>2 DEF Shaped, new, idx
  <1> QED
    BY <1>1, <1>2 DEF Shaped

(* A diff of a chart, each hunk with old lines.                              *)
IsGood(c, d) ==
  /\ c \in [lines : Seq(Lines), suspicious : BOOLEAN]
  /\ Len(d) \in Nat /\ DOMAIN d = 1..Len(d) /\ IsDiffOf(c, d)
  /\ \A i \in DOMAIN d : OldBlock(d[i]) # <<>>

(* How far into the chart the first n hunks reach.                           *)
Cut(c, d, n) == IF n = 0 THEN 0 ELSE Place(c, d[n]) + Len(OldBlock(d[n]))

(* Hunk i has one place to go in the text acc, either way.                   *)
OnceThere(c, d, acc, i) ==
  /\ Cardinality({k \in 0..Len(Sanitize(c)) : tryAt(Sanitize(c), OldBlock(d[i]), k)}) = 1
  /\ acc.cursor < d[i].start
Unmoved(c, acc) == Sanitize(c) = c.lines /\ Len(acc.lines) = Len(c.lines)

(* What is known of hunk i.                                                  *)
LEMMA GoodHunk ==
  ASSUME NEW c, NEW d, IsGood(c, d), NEW i \in 1..Len(d)
  PROVE  /\ d[i].start \in Int /\ Place(c, d[i]) = d[i].start - 1 - Offset(c)
         /\ OldBlock(d[i]) \in Seq(Lines) /\ NewBlock(d[i]) \in Seq(Lines) /\ OldBlock(d[i]) # <<>>
         /\ tryAt(Sanitize(c), OldBlock(d[i]), d[i].start - 1)
         /\ i > 1 => Cut(c, d, i - 1) <= Place(c, d[i])
  <1>1. c.suspicious \in BOOLEAN /\ Offset(c) \in {0, 1}
    BY DEF IsGood, Offset
  <1>2. \A j \in 1..Len(d) : /\ d[j].start \in Int /\ OldBlock(d[j]) \in Seq(Lines)
                             /\ Place(c, d[j]) = d[j].start - 1 - Offset(c)
    BY DEF IsGood, IsDiffOf, Place, Offset
  <1>3. /\ NewBlock(d[i]) \in Seq(Lines) /\ OldBlock(d[i]) # <<>>
        /\ tryAt(Sanitize(c), OldBlock(d[i]), d[i].start - 1)
        /\ i > 1 => d[i].start >= d[i - 1].start + Len(OldBlock(d[i - 1]))
    BY DEF IsGood, IsDiffOf
  <1>4. ASSUME i > 1 PROVE Cut(c, d, i - 1) <= Place(c, d[i])
    <2>1. i - 1 \in 1..Len(d) /\ i - 1 # 0
      BY <1>4 DEF IsGood
    <2>2. PICK m \in Nat : m = Len(OldBlock(d[i - 1]))
      BY <1>2, <2>1
    <2>3. Cut(c, d, i - 1) = d[i - 1].start - 1 - Offset(c) + m
      BY <1>2, <2>1, <2>2 DEF Cut
    <2>4. PICK a \in Int, b \in Int, o \in {0, 1} :
            a = d[i - 1].start /\ b = d[i].start /\ o = Offset(c)
      BY <1>1, <1>2, <2>1
    <2>5. b >= a + m /\ Cut(c, d, i - 1) = a - 1 - o + m /\ Place(c, d[i]) = b - 1 - o
      BY <1>2, <1>3, <1>4, <2>2, <2>3, <2>4
    <2> QED
      BY <2>5
  <1> QED
    BY <1>2, <1>3, <1>4

(* Then findBlock finds it, if anything.                                     *)
LEMMA FoundAtItsPlace ==
  ASSUME NEW c, NEW d, IsGood(c, d), NEW i \in 1..Len(d), NEW acc,
         Follows(acc, c.lines, Cut(c, d, i - 1)),
         OnceThere(c, d, acc, i) \/ Unmoved(c, acc),
         ~(findBlock(acc.lines, OldBlock(d[i]), acc.cursor, d[i].start - 1) < 0)
  PROVE  /\ tryAt(c.lines, OldBlock(d[i]), Place(c, d[i]))
         /\ Cut(c, d, i - 1) <= Place(c, d[i])
         /\ findBlock(acc.lines, OldBlock(d[i]), acc.cursor, d[i].start - 1)
              = Place(c, d[i]) + Len(acc.lines) - Len(c.lines)
  <1> DEFINE L == c.lines
             T == acc.lines
             want == OldBlock(d[i])
             hint == d[i].start - 1
             idx == findBlock(T, want, acc.cursor, hint)
             place == Place(c, d[i])
             cut == Cut(c, d, i - 1)
             o == Offset(c)
             n == Len(L)
             t == Len(T)
             w == Len(want)
  <1>1. L \in Seq(Lines) /\ c \in [lines : Seq(Lines), suspicious : BOOLEAN]
    BY DEF IsGood
  <1>2. /\ d[i].start \in Int /\ hint \in Int /\ want \in Seq(Lines) /\ want # <<>> /\ place = hint - o
        /\ tryAt(Sanitize(c), want, hint) /\ (i > 1 => cut <= place)
    BY GoodHunk
  <1>3. /\ T \in Seq(Lines) /\ cut \in 0..n /\ acc.cursor \in Nat /\ acc.cursor = cut + t - n
        /\ \A x \in (cut + 1)..n : T[x + t - n] = L[x]
    BY DEF Follows
  <1>4. o \in {0, 1}
    BY DEF Offset
  <1>5. n \in Nat /\ t \in Nat /\ w \in Nat
    BY <1>1, <1>2, <1>3
  <1>6. /\ tryAt(T, want, hint) => idx = hint
        /\ idx \in Int
        /\ idx >= 0 => tryAt(T, want, idx) /\ (idx = hint \/ idx >= acc.cursor)
    BY <1>2, <1>3, FoundWhere
  <1>7. idx >= 0
    BY <1>6
  <1>8. i = 1 => cut = 0
    BY DEF Cut
  <1> HIDE DEF L, T, want, hint, idx, place, cut, o, n, t, w
  <1>9. ASSUME NEW x \in Int, cut <= x, x + w <= n, NEW y \in Int, y = x + t - n
        PROVE  \A k \in 1..w : T[y + k] = L[x + k]
    <2> SUFFICES ASSUME NEW k \in 1..w PROVE T[y + k] = L[x + k]
      OBVIOUS
    <2>1. cut \in Int
      BY <1>3, <1>5
    <2>2. k \in Int /\ 1 <= k /\ k <= w
      BY <1>5
    <2>3. x + k \in (cut + 1)..n /\ (x + k) + t - n = y + k
      BY <1>5, <1>9, <2>1, <2>2
    <2> QED
      BY <1>3, <2>3
  <1>10. CASE OnceThere(c, d, acc, i)
    <2>1. idx >= acc.cursor
      <3>1. acc.cursor < d[i].start
        BY <1>10 DEF OnceThere
      <3> QED
        BY <1>2, <1>3, <1>6, <1>7, <3>1 DEF hint
    <2>2. PICK x \in Int : x = idx - t + n
      BY <1>5, <1>6
    <2>3. idx + w <= t /\ \A k \in 1..w : T[idx + k] = want[k]
      BY <1>6, <1>7 DEF tryAt, t, w
    <2>4. cut <= x /\ x + w <= n /\ idx = x + t - n /\ x >= 0
      BY <1>3, <1>5, <1>6, <2>1, <2>2, <2>3
    <2>5. \A k \in 1..w : L[x + k] = want[k]
      BY <1>6, <1>9, <2>3, <2>4
    <2>6. tryAt(L, want, x)
      BY <2>4, <2>5 DEF tryAt, n, w
    <2>7. Cardinality({k \in 0..Len(Sanitize(c)) : tryAt(Sanitize(c), want, k)}) = 1
      BY <1>10 DEF OnceThere, want
    <2>8. x = hint - o
      BY <1>1, <1>2, <2>6, <2>7, OncePlaced DEF L, o
    <2> QED
      BY <1>2, <2>4, <2>6, <2>8 DEF L, T, want, hint, idx, place, cut, n, t
  <1>11. CASE Unmoved(c, acc)
    <2>1. Sanitize(c) = L /\ t = n
      BY <1>11 DEF Unmoved, L, t, n, T
    <2>2. Len(Sanitize(c)) = n + 2 * o
      BY <1>1, TextIs DEF L, n, o
    <2>3. o = 0
      BY <1>4, <1>5, <2>1, <2>2 DEF n
    <2>4. place = hint
      BY <1>2, <2>3
    <2>5. tryAt(L, want, place)
      BY <1>2, <2>1, <2>4
    <2>6. place >= 0 /\ place + w <= n /\ \A k \in 1..w : L[place + k] = want[k]
      BY <2>5 DEF tryAt, n, w
    <2>7. cut <= place
      <3>1. i = 1 \/ i > 1
        BY DEF IsGood
      <3> QED
        BY <1>2, <1>8, <2>6, <3>1
    <2>8. place \in Int /\ place = place + t - n
      BY <1>2, <1>5, <2>1, <2>4
    <2>9. \A k \in 1..w : T[place + k] = want[k]
      BY <1>9, <2>6, <2>7, <2>8
    <2>10. tryAt(T, want, place)
      BY <2>1, <2>6, <2>9 DEF tryAt, t, w
    <2>11. idx = place + t - n
      BY <1>6, <2>4, <2>8, <2>10
    <2> QED
      BY <2>5, <2>7, <2>11 DEF L, T, want, hint, idx, place, cut, n, t
  <1> QED
    BY <1>10, <1>11 DEF L, T, want, hint, idx, place, cut, n, t

(* acc of Applied and text of Edited, up to hunk m.                          *)
Unapplied(lines, d) ==
  [ok |-> d # <<>> /\ \A i \in DOMAIN d : d[i].header, cursor |-> 0, lines |-> lines]
IsApplied(f, m, lines, d) ==
  f = [n \in 0..m |-> IF n = 0 THEN Unapplied(lines, d) ELSE ApplyHunk(f[n - 1], d[n])]
EditOf(T, c, h) == Splice(T, Place(c, h) + Len(T) - Len(c.lines), h)
IsEdited(f, m, c, d) ==
  f = [n \in 0..m |-> IF n = 0 THEN c.lines ELSE EditOf(f[n - 1], c, d[n])]

(* The function by which the first is defined exists.                        *)
LEMMA AppliedExists ==
  ASSUME NEW m \in Nat, NEW lines, NEW d
  PROVE  \E f : IsApplied(f, m, lines, d)
  <1> DEFINE S == {n \in 0..m : \E f : IsApplied(f, n, lines, d)}
  <1>1. 0 \in S
    <2>1. IsApplied([n \in 0..0 |-> Unapplied(lines, d)], 0, lines, d)
      BY DEF IsApplied
    <2> QED
      BY <2>1
  <1>2. ASSUME NEW i \in 1..m, i - 1 \in S PROVE i \in S
    <2>1. PICK f : IsApplied(f, i - 1, lines, d)
      BY <1>2
    <2> DEFINE g == [n \in 0..i |-> IF n = i THEN ApplyHunk(f[i - 1], d[i]) ELSE f[n]]
    <2>2. IsApplied(g, i, lines, d)
      BY <2>1 DEF IsApplied
    <2> QED
      BY <2>2
  <1> HIDE DEF S
  <1>3. m \in S
    BY <1>1, <1>2, UpTo
  <1> QED
    BY <1>3 DEF S

(* So does the other.                                                        *)
LEMMA EditedExists ==
  ASSUME NEW m \in Nat, NEW c, NEW d
  PROVE  \E f : IsEdited(f, m, c, d)
  <1> DEFINE S == {n \in 0..m : \E f : IsEdited(f, n, c, d)}
  <1>1. 0 \in S
    <2>1. IsEdited([n \in 0..0 |-> c.lines], 0, c, d)
      BY DEF IsEdited
    <2> QED
      BY <2>1
  <1>2. ASSUME NEW i \in 1..m, i - 1 \in S PROVE i \in S
    <2>1. PICK f : IsEdited(f, i - 1, c, d)
      BY <1>2
    <2> DEFINE g == [n \in 0..i |-> IF n = i THEN EditOf(f[i - 1], c, d[i]) ELSE f[n]]
    <2>2. IsEdited(g, i, c, d)
      BY <2>1 DEF IsEdited
    <2> QED
      BY <2>2
  <1> HIDE DEF S
  <1>3. m \in S
    BY <1>1, <1>2, UpTo
  <1> QED
    BY <1>3 DEF S

(* What applying has come to after n hunks, if they apply: the chart with    *)
(* each of them at its place.                                                *)
Right(c, d, acc, text, n) ==
  /\ acc.lines = text /\ Follows(acc, c.lines, Cut(c, d, n))
  /\ \A j \in 1..n : tryAt(c.lines, OldBlock(d[j]), Place(c, d[j]))

(* One hunk more.                                                            *)
LEMMA HunkRight ==
  ASSUME NEW c, NEW d, IsGood(c, d), NEW i \in 1..Len(d), NEW acc, NEW text, Shaped(acc),
         acc.ok => Right(c, d, acc, text, i - 1),
         OnceThere(c, d, acc, i) \/ (acc.ok => Unmoved(c, acc)),
         ApplyHunk(acc, d[i]).ok
  PROVE  /\ acc.ok /\ Right(c, d, ApplyHunk(acc, d[i]), EditOf(text, c, d[i]), i)
         /\ Len(ApplyHunk(acc, d[i]).lines)
              = Len(acc.lines) + Len(NewBlock(d[i])) - Len(OldBlock(d[i]))
  <1> DEFINE new == ApplyHunk(acc, d[i])
             place == Place(c, d[i])
             idx == findBlock(acc.lines, OldBlock(d[i]), acc.cursor, d[i].start - 1)
  <1>1. /\ acc.ok /\ ~(idx < 0) /\ new.cursor = idx + Len(NewBlock(d[i]))
        /\ new.lines = Splice(acc.lines, idx, d[i])
    BY HunkIs
  <1>2. /\ acc.lines = text /\ Follows(acc, c.lines, Cut(c, d, i - 1))
        /\ \A j \in 1..(i - 1) : tryAt(c.lines, OldBlock(d[j]), Place(c, d[j]))
    BY <1>1 DEF Right
  <1>3. /\ tryAt(c.lines, OldBlock(d[i]), place) /\ Cut(c, d, i - 1) <= place
        /\ idx = place + Len(acc.lines) - Len(c.lines)
    BY <1>1, <1>2, FoundAtItsPlace
  <1>4. /\ OldBlock(d[i]) \in Seq(Lines) /\ NewBlock(d[i]) \in Seq(Lines) /\ place \in Int
        /\ c.lines \in Seq(Lines)
    <2>1. Offset(c) \in Int /\ c.lines \in Seq(Lines)
      BY DEF Offset, IsGood
    <2> QED
      BY <2>1, GoodHunk
  <1>5. place + Len(OldBlock(d[i])) <= Len(c.lines)
    BY <1>3 DEF tryAt
  <1> HIDE DEF new, place, idx
  <1>6. /\ new.cursor = place + Len(acc.lines) - Len(c.lines) + Len(NewBlock(d[i]))
        /\ new.lines = Splice(acc.lines, place + Len(acc.lines) - Len(c.lines), d[i])
    BY <1>1, <1>3
  <1>7. /\ Follows(new, c.lines, place + Len(OldBlock(d[i])))
        /\ Len(new.lines) = Len(acc.lines) + Len(NewBlock(d[i])) - Len(OldBlock(d[i]))
    <2>1. Put(c.lines, acc, Cut(c, d, i - 1), d[i], place, new)
      BY <1>2, <1>3, <1>4, <1>5, <1>6 DEF Put
    <2>2. Left(c.lines, acc, d[i], place, new)
      BY <2>1, SpliceFollows
    <2> QED
      BY <2>2 DEF Left
  <1>8. Cut(c, d, i) = place + Len(OldBlock(d[i]))
    BY DEF Cut, place
  <1>9. new.lines = EditOf(text, c, d[i])
    BY <1>2, <1>6 DEF EditOf, place
  <1>10. \A j \in 1..i : tryAt(c.lines, OldBlock(d[j]), Place(c, d[j]))
    <2>1. \A j \in 1..i : j = i \/ j \in 1..(i - 1)
      OBVIOUS
    <2> QED
      BY <1>2, <1>3, <2>1 DEF place
  <1> QED
    BY <1>1, <1>7, <1>8, <1>9, <1>10 DEF Right, new

(* No hunk but the last shifts the lines behind it.                          *)
Stays(c, d) ==
  /\ Sanitize(c) = c.lines
  /\ \A i \in 1..(Len(d) - 1) : Len(OldBlock(d[i])) = Len(NewBlock(d[i]))

(* Every hunk has one place to go.                                           *)
Settled(c, d, f) == (\A i \in DOMAIN d : OnceThere(c, d, f[i - 1], i)) \/ Stays(c, d)

(* Applying a diff whose hunks have one place each puts them there.          *)
LEMMA AllRight ==
  ASSUME NEW c, NEW d, IsGood(c, d), NEW f, IsApplied(f, Len(d), c.lines, d),
         NEW e, IsEdited(e, Len(d), c, d), Settled(c, d, f), f[Len(d)].ok
  PROVE  Right(c, d, f[Len(d)], e[Len(d)], Len(d))
  <1> DEFINE m == Len(d)
             Known(n) == /\ Shaped(f[n])
                         /\ f[n].ok => Right(c, d, f[n], e[n], n)
                         /\ n < m /\ Stays(c, d) /\ f[n].ok => Len(f[n].lines) = Len(c.lines)
             S == {n \in 0..m : Known(n)}
  <1>1. m \in Nat /\ DOMAIN d = 1..m /\ c.lines \in Seq(Lines)
    BY DEF IsGood
  <1>2. /\ f[0] = Unapplied(c.lines, d)
        /\ \A i \in 1..m : f[i] = ApplyHunk(f[i - 1], d[i])
    <2>1. f = [n \in 0..m |-> IF n = 0 THEN Unapplied(c.lines, d) ELSE ApplyHunk(f[n - 1], d[n])]
      BY DEF IsApplied
    <2> HIDE DEF m
    <2>2. 0 \in 0..m /\ \A i \in 1..m : i \in 0..m /\ i # 0
      BY <1>1
    <2> QED
      BY <2>1, <2>2
  <1>3. e[0] = c.lines /\ \A i \in 1..m : e[i] = EditOf(e[i - 1], c, d[i])
    BY <1>1 DEF IsEdited
  <1>4. 0 \in S
    <2>1. /\ f[0].lines = c.lines /\ f[0].cursor = 0 /\ f[0].ok \in BOOLEAN
          /\ f[0] = [ok |-> f[0].ok, cursor |-> f[0].cursor, lines |-> f[0].lines]
      BY <1>2 DEF Unapplied
    <2>2. Follows(f[0], c.lines, 0)
      <3>1. Len(c.lines) \in Nat
        BY <1>1
      <3>2. \A x \in (0 + 1)..Len(c.lines) : x + Len(c.lines) - Len(c.lines) = x
        BY <3>1
      <3> QED
        BY <1>1, <2>1, <3>1, <3>2 DEF Follows
    <2>3. Right(c, d, f[0], e[0], 0)
      BY <1>3, <2>1, <2>2 DEF Right, Cut
    <2> QED
      BY <1>1, <2>1, <2>3 DEF Shaped
  <1>5. ASSUME NEW i \in 1..m, i - 1 \in S PROVE i \in S
    <2>1. Known(i - 1) /\ f[i] = ApplyHunk(f[i - 1], d[i]) /\ e[i] = EditOf(e[i - 1], c, d[i])
      BY <1>2, <1>3, <1>5
    <2>2. Shaped(f[i])
      BY <2>1, HunkIs
    <2>3. ASSUME f[i].ok
          PROVE  /\ Right(c, d, f[i], e[i], i) /\ f[i - 1].ok
                 /\ Len(f[i].lines) = Len(f[i - 1].lines) + Len(NewBlock(d[i])) - Len(OldBlock(d[i]))
      <3>1. OnceThere(c, d, f[i - 1], i) \/ (f[i - 1].ok => Unmoved(c, f[i - 1]))
        <4>1. CASE Stays(c, d)
          BY <1>1, <2>1, <4>1 DEF Unmoved, Stays
        <4>2. CASE ~Stays(c, d)
          BY <1>1, <4>2 DEF Settled
        <4> QED
          BY <4>1, <4>2
      <3>2. Shaped(f[i - 1]) /\ (f[i - 1].ok => Right(c, d, f[i - 1], e[i - 1], i - 1))
        BY <2>1
      <3>3. ApplyHunk(f[i - 1], d[i]).ok
        BY <2>1, <2>3
      <3>4. /\ f[i - 1].ok /\ Right(c, d, ApplyHunk(f[i - 1], d[i]), EditOf(e[i - 1], c, d[i]), i)
            /\ Len(ApplyHunk(f[i - 1], d[i]).lines)
                 = Len(f[i - 1].lines) + Len(NewBlock(d[i])) - Len(OldBlock(d[i]))
        BY <3>1, <3>2, <3>3, HunkRight
      <3> QED
        BY <2>1, <3>4
    <2>4. ASSUME i < m, Stays(c, d), f[i].ok PROVE Len(f[i].lines) = Len(c.lines)
      <3>1. Len(OldBlock(d[i])) = Len(NewBlock(d[i])) /\ OldBlock(d[i]) \in Seq(Lines)
        <4>1. i \in 1..(m - 1)
          BY <1>1, <2>4
        <4> QED
          BY <2>4, <4>1, GoodHunk DEF Stays
      <3>2. Len(f[i - 1].lines) = Len(c.lines) /\ Len(c.lines) \in Nat /\ Len(OldBlock(d[i])) \in Nat
        BY <1>1, <2>1, <2>3, <2>4, <3>1
      <3> QED
        BY <2>3, <2>4, <3>1, <3>2
    <2>5. Known(i)
      BY <2>2, <2>3, <2>4
    <2> QED
      BY <1>1, <2>5
  <1>6. \A n : n \in S => Known(n)
    OBVIOUS
  <1>7. \A i \in 1..m : i - 1 \in S => i \in S
    BY <1>5
  <1> HIDE DEF S, m
  <1>8. m \in S
    <2>1. m \in Nat /\ m \in 0..m
      BY <1>1
    <2>2. \A i \in 0..m : i \in S
      BY <1>4, <1>7, <2>1, UpTo, Zenon
    <2> QED
      BY <2>1, <2>2
  <1> QED
    BY <1>6, <1>8 DEF m

(* The texts after each hunk are those of such a function.                   *)
LEMMA AppliedIs ==
  ASSUME NEW lines, NEW d, Len(d) \in Nat
  PROVE  IsApplied(Applied(lines, d), Len(d), lines, d)
  <1> DEFINE f == CHOOSE x : IsApplied(x, Len(d), lines, d)
  <1>1. IsApplied(f, Len(d), lines, d)
    BY AppliedExists
  <1>2. Applied(lines, d) = f
    BY Zenon DEF Applied, IsApplied, Unapplied
  <1> QED
    BY <1>1, <1>2

(* The chart that is meant is the last of such a function.                   *)
LEMMA EditedIs ==
  ASSUME NEW c, NEW d, Len(d) \in Nat
  PROVE  \E e : IsEdited(e, Len(d), c, d) /\ Edited(c, d) = e[Len(d)]
  <1> DEFINE e == CHOOSE x : IsEdited(x, Len(d), c, d)
  <1>1. IsEdited(e, Len(d), c, d)
    BY EditedExists
  <1>2. Edited(c, d) = e[Len(d)]
    BY Zenon DEF Edited, IsEdited, EditOf
  <1> QED
    BY <1>1, <1>2

(* A correct diff of the text shown for a chart whose hunks have one place   *)
(* each, if it applies at all, makes the chart that it means.                *)
THEOREM AppliedAsMeant ==
  ASSUME NEW q \in Payloads, NEW a \in Answers[q.chart], a.meant # Nil,
         \A i \in DOMAIN a.diff : OldBlock(a.diff[i]) # <<>>,
         Settled(q.chart, a.diff, Applied(q.chart.lines, a.diff)),
         applyUnifiedDiff(q.chart.lines, a.diff).ok
  PROVE  applyUnifiedDiff(q.chart.lines, a.diff).lines = a.meant
  <1> DEFINE c == q.chart
             d == a.diff
             f == Applied(c.lines, d)
  <1>1. c \in [lines : Seq(Lines), suspicious : BOOLEAN]
    BY PayloadAssumption
  <1>2. /\ d \in Seq(Range(d)) /\ IsDiffOf(c, d)
        /\ (\A i \in DOMAIN d : tryAt(c.lines, OldBlock(d[i]), Place(c, d[i])))
             => a.meant = Edited(c, d)
    BY AnswersAssumption
  <1>3. Len(d) \in Nat /\ DOMAIN d = 1..Len(d)
    BY <1>2, MemberOf
  <1>4. IsGood(c, d)
    BY <1>1, <1>2, <1>3 DEF IsGood
  <1>5. IsApplied(f, Len(d), c.lines, d)
    BY <1>3, AppliedIs
  <1>6. PICK e : IsEdited(e, Len(d), c, d) /\ Edited(c, d) = e[Len(d)]
    BY <1>3, EditedIs
  <1>7. applyUnifiedDiff(c.lines, d) = f[Len(d)]
    BY DEF applyUnifiedDiff
  <1>8. Settled(c, d, f) /\ f[Len(d)].ok
    BY <1>7
  <1> HIDE DEF f, c, d
  <1>9. Right(c, d, f[Len(d)], e[Len(d)], Len(d))
    BY <1>4, <1>5, <1>6, <1>8, AllRight
  <1>10. f[Len(d)].lines = Edited(c, d) /\ a.meant = Edited(c, d)
    BY <1>2, <1>3, <1>6, <1>9 DEF Right
  <1> QED
    BY <1>7, <1>10 DEF c, d

-----------------------------------------------------------------------------
(* What the gates say of the payload.                                        *)

(* EnvironmentRespected, whatever became of the run.                         *)
InEnvironment ==
  p.env # "" =>
    /\ p.env \in {"prod", "unknown"} \/ p.class = "static" => Reduction <= 0
    /\ p.env = "staging" => Reduction <= 2
    /\ p.confidence # "" =>
         /\ p.env \in {"prod", "unknown"} => p.confidence = "high"
         /\ p.env = "staging" \/ p.class = "static" => p.confidence \in {"medium", "high"}

(* The sizing of each environment, on static nodes and on others.            *)
LEMMA SizingIs ==
  ASSUME NEW env, NEW class
  PROVE  LET s == ForClass(env, class)
         IN  /\ env \in {"prod", "unknown"} => s.replicas = 0 /\ s.minConfidence = "high"
             /\ class = "static" => s.replicas = 0 /\ s.minConfidence \in {"medium", "high"}
             /\ env = "staging" => s.replicas \in {0, 2} /\ s.minConfidence = "medium"
             /\ s.aggressiveness \in {50, 100}
  <1>1. CASE env = "dev"
    BY <1>1 DEF ForClass, Sized, baseSizing, aggressivenessCap
  <1>2. CASE env = "staging"
    BY <1>2 DEF ForClass, Sized, baseSizing, aggressivenessCap
  <1>3. CASE env \notin {"dev", "staging"}
    BY <1>3 DEF ForClass, Sized, baseSizing, aggressivenessCap
  <1> QED
    BY <1>1, <1>2, <1>3

(* A confidence that meets a floor.                                          *)
LEMMA RankIs ==
  ASSUME NEW c
  PROVE  /\ confidenceRank(c) >= confidenceRank("high") => c = "high"
         /\ confidenceRank(c) >= confidenceRank("medium") => c \in {"medium", "high"}
  <1>1. CASE c \in {"high", "medium", "low"}
    BY <1>1 DEF confidenceRank
  <1>2. CASE c \notin {"high", "medium", "low"}
    BY <1>2 DEF confidenceRank
  <1> QED
    BY <1>1, <1>2

(* The cap on replicas that a sizing without any, or of two, comes to.       *)
LEMMA CapIs ==
  ASSUME NEW s, NEW r \in Int, s.aggressiveness \in {50, 100}, ReplicaCutAllowed(s, r)
  PROVE  /\ s.replicas = 0 => r <= 0
         /\ s.replicas = 2 => r <= 2
  <1>1. r <= 0 \/ r <= EffectiveReplicaCap(s)
    BY DEF ReplicaCutAllowed
  <1>2. s.replicas = 0 => EffectiveReplicaCap(s) = 0
    BY DEF EffectiveReplicaCap, scaleByAggressiveness
  <1>3. s.replicas = 2 => EffectiveReplicaCap(s) \in {1, 2}
    BY DEF EffectiveReplicaCap, scaleByAggressiveness
  <1> QED
    BY <1>1, <1>2, <1>3

(* The reduction is a number, with or without an HPA.                        *)
LEMMA ReductionInt ==
  ASSUME p \in Payloads
  PROVE  Reduction \in Int
  <1>1. p.replicas \in Int
    BY PayloadAssumption
  <1>2. p.hpa # Nil => p.hpa.current \in Int
    BY PayloadAssumption
  <1>3. p.hpa # Nil => p.hpa.current - p.replicas \in Int
    BY <1>1, <1>2
  <1>4. 0 \in Int
    OBVIOUS
  <1> QED
    BY <1>3, <1>4, Zenon DEF Reduction

(* The strategy gate keeps a fix to its environment.                         *)
LEMMA StrategyMeans ==
  ASSUME p \in Payloads, StrategyAllows
  PROVE  InEnvironment
  <1> DEFINE s == ForClass(p.env, classOrKarpenter(p.class))
  <1> SUFFICES ASSUME p.env # ""
               PROVE  /\ p.env \in {"prod", "unknown"} \/ p.class = "static" => Reduction <= 0
                      /\ p.env = "staging" => Reduction <= 2
                      /\ p.confidence # "" =>
                           /\ p.env \in {"prod", "unknown"} => p.confidence = "high"
                           /\ p.env = "staging" \/ p.class = "static" =>
                                p.confidence \in {"medium", "high"}
    BY DEF InEnvironment
  <1>1. (p.confidence # "" => ConfidenceMeets(s, p.confidence)) /\ ReplicaCutAllowed(s, Reduction)
    BY DEF StrategyAllows
  <1>2. Reduction \in Int
    BY ReductionInt
  <1>3. p.class = "static" => classOrKarpenter(p.class) = "static"
    BY DEF classOrKarpenter
  <1>4. /\ p.env \in {"prod", "unknown"} => s.replicas = 0 /\ s.minConfidence = "high"
        /\ p.class = "static" => s.replicas = 0 /\ s.minConfidence \in {"medium", "high"}
        /\ p.env = "staging" => s.replicas \in {0, 2} /\ s.minConfidence = "medium"
        /\ s.aggressiveness \in {50, 100}
    BY <1>3, SizingIs
  <1> HIDE DEF s
  <1>5. (s.replicas = 0 => Reduction <= 0) /\ (s.replicas = 2 => Reduction <= 2)
    BY <1>1, <1>2, <1>4, CapIs
  <1>6. p.confidence # "" => confidenceRank(p.confidence) >= confidenceRank(s.minConfidence)
    BY <1>1 DEF ConfidenceMeets
  <1>7. p.env \in {"prod", "unknown"} \/ p.class = "static" => Reduction <= 0
    BY <1>4, <1>5
  <1>8. p.env = "staging" => Reduction <= 2
    BY <1>2, <1>4, <1>5
  <1>9. p.confidence # "" /\ s.minConfidence = "high" => p.confidence = "high"
    BY <1>6, RankIs
  <1>10. p.confidence # "" /\ s.minConfidence = "medium" => p.confidence \in {"medium", "high"}
    BY <1>6, RankIs
  <1> QED
    BY <1>4, <1>7, <1>8, <1>9, <1>10

(* The operator gate, with the resolver wired.                               *)
LEMMA OwnersMean ==
  ASSUME OwnersDirect, wired.resolver
  PROVE  Reached(p.owners, Resolve) \subseteq BuiltInRefs
  <1>1. p.owners = <<>> => Classify(p.owners, Resolve) = "direct"
    BY DEF Classify
  <1>2. Classify(p.owners, Resolve) = "direct"
    BY <1>1 DEF OwnersDirect
  <1> QED
    BY <1>2, DirectIsSound

(* A verdict is hard or a warning.                                           *)
LEMMA VerdictIs ==
  ASSUME NEW c, NEW v \in V!Verdicts(c)
  PROVE  v.severity \in {"hard", "warn"}
  <1>1. /\ V!PDBCheck(c) \in {"none", "hard"} /\ V!ResourceQuotaCheck(c) \in {"none", "hard"}
        /\ V!LimitRangeCheck(c) \in {"none", "hard"} /\ V!DependencyCheck(c) \in {"none", "hard"}
        /\ V!OOMRecentCheck(c) \in {"none", "hard"}
    BY DEF V!PDBCheck, V!ResourceQuotaCheck, V!LimitRangeCheck, V!DependencyCheck, V!OOMRecentCheck
  <1>2. V!HPABoundsCheck(c) \in {"none", "warn", "hard"}
    BY DEF V!HPABoundsCheck
  <1> QED
    BY <1>1, <1>2 DEF V!Verdicts, V!Default

(* ClusterLimitsRespected, whatever became of the run.                       *)
InLimits ==
  /\ p.replicas > 0 /\ p.pdb # Nil => p.replicas >= p.pdb
  /\ p.replicas > 0 /\ p.hpa # Nil => p.replicas \in p.hpa.min..p.hpa.max
  /\ p.mem > 0 /\ p.quota # Nil => p.quota.mem = 0 \/ p.quota.usedMem + p.mem <= p.quota.mem
  /\ p.mem > 0 /\ p.limits # Nil => p.mem >= p.limits.minMem
  /\ p.mem > 0 => ~p.oomRecent

(* A candidate that no check rejects keeps to the cluster's limits.          *)
LEMMA NotRejectedMeans ==
  ASSUME p \in Payloads, ~V!Rejected(V!Verdicts(p))
  PROVE  InLimits
  <1>1. \A v \in V!Default(p) : v.severity # "hard"
    BY DEF V!Rejected, V!Has, V!Verdicts
  <1>2. /\ V!PDBCheck(p) # "hard" /\ V!ResourceQuotaCheck(p) # "hard" /\ V!LimitRangeCheck(p) # "hard"
        /\ V!HPABoundsCheck(p) # "hard" /\ V!OOMRecentCheck(p) # "hard"
    BY <1>1 DEF V!Default
  <1>3. p.replicas > 0 /\ p.pdb # Nil => p.replicas >= p.pdb
    BY <1>2, PayloadAssumption DEF V!PDBCheck
  <1>4. p.replicas > 0 /\ p.hpa # Nil => p.replicas \in p.hpa.min..p.hpa.max
    BY <1>2, PayloadAssumption DEF V!HPABoundsCheck
  <1>5. p.mem > 0 /\ p.quota # Nil => p.quota.mem = 0 \/ p.quota.usedMem + p.mem <= p.quota.mem
    BY <1>2, PayloadAssumption DEF V!ResourceQuotaCheck, V!Exceeds
  <1>6. p.mem > 0 /\ p.limits # Nil => p.mem >= p.limits.minMem
    BY <1>2, PayloadAssumption DEF V!LimitRangeCheck, V!Outside
  <1>7. p.mem > 0 => ~p.oomRecent
    BY <1>2 DEF V!OOMRecentCheck
  <1> QED
    BY <1>3, <1>4, <1>5, <1>6, <1>7 DEF InLimits

-----------------------------------------------------------------------------
(* The run.                                                                  *)

(* Where a run that was not refused has come to.                             *)
Beyond(S) == pc \in S \/ Sent

AfterGate == {"validate", "publish"}
AfterCompose == {"gate"} \cup AfterGate
AfterStrategy == {"compose"} \cup AfterCompose
AfterOwners == {"strategy"} \cup AfterStrategy
AfterSkeptic == {"parse", "owners"} \cup AfterOwners

Types ==
  /\ wired \in Wirings /\ p \in Payloads /\ llmCalls \in Nat
  /\ flag \in BOOLEAN /\ skeptic \in BOOLEAN /\ steadyFlag \in BOOLEAN
  /\ pc \in {"wiring", "skeptic", "done"} \cup AfterSkeptic
  /\ pc # "done" => outcome = "running"

(* The mode that was read: a flag that was up all along is in it.            *)
ModeRead ==
  /\ steadyFlag => flag
  /\ Beyond(AfterSkeptic) => (steadyFlag /\ wired.skeptic => skeptic) /\ (skeptic => wired.validator)

(* The gates before the model was called.                                    *)
CheapGates ==
  /\ Beyond(AfterOwners) \/ llmCalls > 0 => OwnersDirect
  /\ Beyond(AfterStrategy) \/ llmCalls > 0 => StrategyAllows

(* The stages that were run, each with one of its statuses.                  *)
StagesRun ==
  /\ pc \in {"wiring", "skeptic", "parse", "owners", "strategy", "compose"} => stages = <<>>
  /\ Beyond(AfterCompose) =>
       /\ stages \in Seq({"passed", "failed", "not_implemented"})
       /\ \A i \in 1..Len(stages) : Allow(stages[i]) /\ stages[i] \in StageStatuses(StageNames[i])
  /\ pc = "gate" => Len(stages) < 4
  /\ Beyond(AfterGate) => Len(stages) = 4 /\ (skeptic => \A i \in 1..4 : stages[i] = "passed")

(* The verdicts that let a fix pass.                                         *)
ValidatorsRun ==
  Beyond({"publish"}) /\ wired.validator =>
    /\ verdicts = V!Verdicts(p) /\ ~V!Rejected(verdicts)
    /\ skeptic => ~V!Has(verdicts, "warn")

IInv == Types /\ ModeRead /\ CheapGates /\ StagesRun /\ ValidatorsRun

USE WiringAssumption

(* Names of the places in a run.                                             *)
LEMMA Places ==
  /\ AfterGate = {"validate", "publish"} /\ AfterCompose = {"gate", "validate", "publish"}
  /\ AfterStrategy = {"compose", "gate", "validate", "publish"}
  /\ AfterOwners = {"strategy", "compose", "gate", "validate", "publish"}
  /\ AfterSkeptic = {"parse", "owners", "strategy", "compose", "gate", "validate", "publish"}
  BY DEF AfterGate, AfterCompose, AfterStrategy, AfterOwners, AfterSkeptic

(* What the gates say of a payload stays said.                               *)
LEMMA SameSaid ==
  ASSUME UNCHANGED <<wired, p>>
  PROVE  OwnersDirect' = OwnersDirect /\ StrategyAllows' = StrategyAllows
  BY DEF OwnersDirect, StrategyAllows, Reduction

(* A run that has not started has passed no gate.                            *)
LEMMA InitInv == Init => IInv
  <1> SUFFICES ASSUME Init PROVE IInv
    OBVIOUS
  <1>1. pc = "wiring" /\ ~Sent /\ llmCalls = 0 /\ stages = <<>>
    BY DEF Init, Sent
  <1>2. Types
    BY DEF Init, Types
  <1>3. ModeRead
    BY <1>1, Places DEF Init, ModeRead, Beyond
  <1>4. CheapGates /\ StagesRun /\ ValidatorsRun
    BY <1>1, Places DEF CheapGates, StagesRun, ValidatorsRun, Beyond
  <1> QED
    BY <1>2, <1>3, <1>4 DEF IInv

(* A refusal claims nothing but what the model was called for.               *)
LEMMA RefuseStep ==
  ASSUME IInv, Refuse, UNCHANGED <<wired, p, flag, steadyFlag>>, skeptic' \in BOOLEAN,
         llmCalls' \in Nat, llmCalls' > 0 => OwnersDirect /\ StrategyAllows
  PROVE  IInv'
  <1>1. pc' = "done" /\ ~Sent'
    BY DEF Refuse, Sent
  <1>2. Types'
    BY <1>1 DEF IInv, Types
  <1>3. ModeRead'
    BY <1>1, Places DEF IInv, ModeRead, Beyond
  <1>4. CheapGates'
    BY <1>1, Places, SameSaid DEF CheapGates, Beyond
  <1>5. StagesRun' /\ ValidatorsRun'
    BY <1>1, Places DEF StagesRun, ValidatorsRun, Beyond
  <1> QED
    BY <1>2, <1>3, <1>4, <1>5 DEF IInv

(* A gate before the model that lets the run pass.                           *)
LEMMA PassStep ==
  ASSUME IInv, pc \in {"wiring", "skeptic", "parse", "owners", "strategy"},
         NEW s \in {"skeptic", "parse", "owners", "strategy", "compose"}, Go(s),
         UNCHANGED <<wired, p, flag, steadyFlag, llmCalls, stages>>, skeptic' \in BOOLEAN,
         s # "skeptic" => (steadyFlag /\ wired.skeptic => skeptic') /\ (skeptic' => wired.validator),
         s \in {"strategy", "compose"} => OwnersDirect,
         s = "compose" => StrategyAllows
  PROVE  IInv'
  <1>1. pc' = s /\ outcome' = "running" /\ ~Sent'
    BY DEF Go, IInv, Types, Sent
  <1>2. Types'
    BY <1>1, Places DEF IInv, Types
  <1>3. ModeRead'
    BY <1>1, Places DEF IInv, ModeRead, Beyond
  <1>4. CheapGates'
    BY <1>1, Places, SameSaid DEF IInv, CheapGates, Beyond
  <1>5. StagesRun' /\ ValidatorsRun'
    BY <1>1, Places DEF IInv, StagesRun, ValidatorsRun, Beyond
  <1> QED
    BY <1>2, <1>3, <1>4, <1>5 DEF IInv

(* The tenant changes its flag.                                              *)
LEMMA ToggleStep ==
  ASSUME IInv, Toggle
  PROVE  IInv'
  <1>1. /\ UNCHANGED <<wired, pc, p, skeptic, stages, verdicts, llmCalls, answer, outcome>>
        /\ flag' = ~flag /\ steadyFlag' = FALSE
    BY DEF Toggle
  <1>2. Sent' = Sent
    BY <1>1 DEF Sent
  <1>3. Types'
    BY <1>1 DEF IInv, Types
  <1>4. ModeRead'
    BY <1>1, <1>2 DEF IInv, ModeRead, Beyond
  <1>5. CheapGates'
    BY <1>1, <1>2, SameSaid DEF IInv, CheapGates, Beyond
  <1>6. StagesRun'
    BY <1>1, <1>2 DEF IInv, StagesRun, Beyond, Allow, StageStatuses, DryrunStatuses
  <1>7. ValidatorsRun'
    BY <1>1, <1>2 DEF IInv, ValidatorsRun, Beyond
  <1> QED
    BY <1>3, <1>4, <1>5, <1>6, <1>7 DEF IInv

(* Nothing was spent before the composer unless the gates had agreed.        *)
LEMMA SpentSaid ==
  ASSUME IInv
  PROVE  llmCalls \in Nat /\ (llmCalls > 0 => OwnersDirect /\ StrategyAllows)
  BY DEF IInv, Types, CheapGates

(* Decoding the payload keeps the invariant.                                 *)
LEMMA DecodeStep ==
  ASSUME IInv, Decode
  PROVE  IInv'
  <1>1. /\ pc = "wiring" /\ UNCHANGED <<wired, flag, p, skeptic, stages, llmCalls, steadyFlag>>
        /\ Go("skeptic") \/ Refuse
    BY DEF Decode
  <1>2. skeptic' \in BOOLEAN /\ llmCalls' \in Nat
    BY <1>1 DEF IInv, Types
  <1>3. CASE Go("skeptic")
    BY <1>1, <1>2, <1>3, PassStep
  <1>4. CASE Refuse
    BY <1>1, <1>2, <1>4, RefuseStep, SpentSaid
  <1> QED
    BY <1>1, <1>3, <1>4

(* The mode that is read, or the worker's own when the read fails.           *)
LEMMA ReadSkepticStep ==
  ASSUME IInv, ReadSkeptic
  PROVE  IInv'
  <1>1. /\ pc = "skeptic" /\ UNCHANGED <<wired, flag, p, stages, llmCalls, steadyFlag>>
        /\ EffectiveSkeptic /\ IF skeptic' /\ ~wired.validator THEN Refuse ELSE Go("parse")
    BY DEF ReadSkeptic
  <1>2. skeptic' \in BOOLEAN /\ (steadyFlag /\ wired.skeptic => skeptic') /\ llmCalls' \in Nat
    BY <1>1 DEF EffectiveSkeptic, IInv, Types, ModeRead
  <1>3. CASE Refuse
    BY <1>1, <1>2, <1>3, RefuseStep, SpentSaid
  <1>4. CASE Go("parse") /\ (skeptic' => wired.validator)
    BY <1>1, <1>2, <1>4, PassStep
  <1> QED
    BY <1>1, <1>3, <1>4

(* The three gates that only look.                                           *)
LEMMA LookStep ==
  ASSUME IInv, ParseChart \/ OperatorGate \/ StrategyGate
  PROVE  IInv'
  <1>1. /\ UNCHANGED <<wired, flag, p, skeptic, stages, llmCalls, steadyFlag>>
        /\ pc \in {"parse", "owners", "strategy"}
    BY DEF ParseChart, OperatorGate, StrategyGate
  <1>2. /\ skeptic' \in BOOLEAN /\ llmCalls' \in Nat
        /\ (steadyFlag /\ wired.skeptic => skeptic') /\ (skeptic' => wired.validator)
    BY <1>1, Places DEF IInv, Types, ModeRead, Beyond
  <1>3. CASE Refuse
    BY <1>1, <1>2, <1>3, RefuseStep, SpentSaid
  <1>4. CASE pc = "parse" /\ Go("owners")
    BY <1>1, <1>2, <1>4, PassStep
  <1>5. CASE pc = "owners" /\ Go("strategy") /\ OwnersDirect
    BY <1>1, <1>2, <1>5, PassStep
  <1>6. CASE pc = "strategy" /\ Go("compose") /\ StrategyAllows
    <2>1. OwnersDirect
      BY <1>6, Places DEF IInv, CheapGates, Beyond
    <2> QED
      BY <1>1, <1>2, <1>6, <2>1, PassStep
  <1> QED
    BY <1>3, <1>4, <1>5, <1>6 DEF ParseChart, OperatorGate, StrategyGate

(* The model is called, or not; a diff comes with no stage run yet.          *)
LEMMA ComposeStep ==
  ASSUME IInv, Compose
  PROVE  IInv'
  <1>1. /\ pc = "compose" /\ UNCHANGED <<wired, flag, p, skeptic, stages, verdicts, steadyFlag>>
        /\ llmCalls' \in {llmCalls, llmCalls + 1} /\ (Refuse \/ Go("gate"))
    BY DEF Compose
  <1>2. /\ skeptic' \in BOOLEAN /\ llmCalls' \in Nat /\ OwnersDirect /\ StrategyAllows
        /\ stages = <<>> /\ outcome = "running"
    BY <1>1, Places DEF IInv, Types, CheapGates, StagesRun, Beyond
  <1>3. CASE Refuse
    BY <1>1, <1>2, <1>3, RefuseStep
  <1>4. CASE Go("gate")
    <2>1. pc' = "gate" /\ outcome' = "running" /\ ~Sent' /\ stages' = <<>>
      BY <1>1, <1>2, <1>4 DEF Go, Sent
    <2>2. Types'
      BY <1>1, <1>2, <2>1, Places DEF IInv, Types
    <2>3. ModeRead'
      BY <1>1, <2>1, Places DEF IInv, ModeRead, Beyond
    <2>4. CheapGates'
      BY <1>1, <1>2, SameSaid DEF CheapGates
    <2>5. StagesRun' /\ ValidatorsRun'
      BY <2>1, Places DEF StagesRun, ValidatorsRun, Beyond
    <2> QED
      BY <2>2, <2>3, <2>4, <2>5 DEF IInv
  <1> QED
    BY <1>1, <1>3, <1>4

(* One of the statuses that a stage can have.                                *)
LEMMA StatusIs ==
  ASSUME NEW i \in 1..4, NEW status \in StageStatuses(StageNames[i])
  PROVE  /\ status \in {"passed", "failed", "not_implemented"}
         /\ i # 3 => status \in {"passed", "failed"}
         /\ i = 3 /\ ~wired.client => status = "not_implemented"
  BY DEF StageStatuses, StageNames, DryrunStatuses

(* The policy and the stages judge the same while the answer stays.          *)
LEMMA SameStages ==
  ASSUME UNCHANGED <<wired, p, answer>>
  PROVE  (\A v : Allow(v)' <=> Allow(v)) /\ \A n : StageStatuses(n)' = StageStatuses(n)
  BY DEF Allow, StageStatuses, DryrunStatuses

(* A stage is run; the last one goes on only past skeptic mode's look back.  *)
LEMMA GateStep ==
  ASSUME IInv, GateStage
  PROVE  IInv'
  <1>1. /\ pc = "gate"
        /\ UNCHANGED <<wired, flag, p, skeptic, verdicts, llmCalls, answer, steadyFlag>>
    BY DEF GateStage
  <1>2. /\ outcome = "running" /\ skeptic' \in BOOLEAN /\ llmCalls' \in Nat
        /\ OwnersDirect /\ StrategyAllows
    BY <1>1, Places DEF IInv, Types, CheapGates, Beyond
  <1>3. /\ stages \in Seq({"passed", "failed", "not_implemented"}) /\ Len(stages) \in 0..3
        /\ \A i \in 1..Len(stages) : Allow(stages[i]) /\ stages[i] \in StageStatuses(StageNames[i])
    <2>1. /\ stages \in Seq({"passed", "failed", "not_implemented"}) /\ Len(stages) < 4
          /\ \A i \in 1..Len(stages) : Allow(stages[i]) /\ stages[i] \in StageStatuses(StageNames[i])
      BY <1>1, Places DEF IInv, StagesRun, Beyond
    <2>2. Len(stages) \in Nat
      BY <2>1
    <2>3. Len(stages) \in 0..3
      <3>1. \A n \in Nat : n < 4 => n \in 0..3
        OBVIOUS
      <3> QED
        BY <2>1, <2>2, <3>1, Zenon
    <2> QED
      BY <2>1, <2>3, Zenon
  <1>4. PICK status \in StageStatuses(StageNames[Len(stages) + 1]) :
          /\ stages' = Append(stages, status)
          /\ \/ Refuse
             \/ Allow(status) /\ Len(stages') < 4 /\ Go("gate")
             \/ /\ Allow(status) /\ Len(stages') = 4
                /\ skeptic => \A i \in DOMAIN stages' : stages'[i] = "passed"
                /\ Go(IF wired.validator THEN "validate" ELSE "publish")
    <2>1. Len(StageNames) = 4
      BY DEF StageNames
    <2>2. PICK status \in StageStatuses(StageNames[Len(stages) + 1]) :
            /\ stages' = Append(stages, status)
            /\ CASE ~Allow(status) -> Refuse
                 [] Allow(status) /\ Len(stages') < Len(StageNames) -> Go("gate")
                 [] Allow(status) /\ Len(stages') = Len(StageNames) ->
                      IF skeptic /\ \E i \in DOMAIN stages' : ~SkepticAllows(stages'[i])
                      THEN Refuse
                      ELSE Go(IF wired.validator THEN "validate" ELSE "publish")
      BY DEF GateStage
    <2>3. Len(stages') \in 1..4
      <3>1. status \in {"passed", "failed", "not_implemented"}
        BY <1>3, StatusIs
      <3> QED
        BY <1>3, <2>2, <3>1
    <2>4. ~Allow(status) => Refuse
      BY <2>2
    <2>5. Allow(status) /\ Len(stages') < 4 => Go("gate")
      <3>1. Len(stages') # 4 \/ ~(Len(stages') < 4)
        BY <2>3
      <3> QED
        BY <2>1, <2>2, <3>1
    <2>6. Allow(status) /\ Len(stages') = 4 =>
            \/ Refuse
            \/ /\ skeptic => \A i \in DOMAIN stages' : stages'[i] = "passed"
               /\ Go(IF wired.validator THEN "validate" ELSE "publish")
      BY <2>1, <2>2 DEF SkepticAllows
    <2>7. Len(stages') < 4 \/ Len(stages') = 4
      <3>1. \A n \in 1..4 : n < 4 \/ n = 4
        OBVIOUS
      <3> QED
        BY <2>3, <3>1, Zenon
    <2> QED
      BY <2>2, <2>4, <2>5, <2>6, <2>7, Zenon
  <1>5. CASE Refuse
    BY <1>1, <1>2, <1>5, RefuseStep
  <1>6. CASE Allow(status) /\ ~Refuse
    <2>1. status \in {"passed", "failed", "not_implemented"}
      BY <1>3, StatusIs
    <2>2. /\ stages' \in Seq({"passed", "failed", "not_implemented"})
          /\ Len(stages') = Len(stages) + 1 /\ stages'[Len(stages) + 1] = status
          /\ \A i \in 1..Len(stages) : stages'[i] = stages[i]
      BY <1>3, <1>4, <2>1
    <2>3. \A i \in 1..Len(stages') :
            Allow(stages'[i]) /\ stages'[i] \in StageStatuses(StageNames[i])
      BY <1>3, <1>6, <2>2
    <2>4. (\A i \in 1..Len(stages) : Allow(stages[i]) /\ stages[i] \in StageStatuses(StageNames[i]))'
      BY <1>1, <2>3, SameStages DEF StageNames
    <2>5. /\ outcome' = "running" /\ ~Sent'
          /\ \/ pc' = "gate" /\ Len(stages') < 4
             \/ /\ pc' \in AfterGate /\ (pc' = "publish" => ~wired.validator) /\ Len(stages') = 4
                /\ skeptic => \A i \in DOMAIN stages' : stages'[i] = "passed"
      BY <1>2, <1>4, <1>6 DEF Go, Sent, AfterGate
    <2>6. Types'
      BY <1>1, <1>2, <2>5, Places DEF IInv, Types
    <2>7. ModeRead'
      BY <1>1, <2>5, Places DEF IInv, ModeRead, Beyond
    <2>8. CheapGates'
      BY <1>1, <1>2, SameSaid DEF CheapGates
    <2>9. StagesRun'
      BY <1>1, <2>2, <2>4, <2>5, Places DEF StagesRun, Beyond
    <2>10. ValidatorsRun'
      BY <1>1, <2>5, Places DEF ValidatorsRun, Beyond
    <2> QED
      BY <2>6, <2>7, <2>8, <2>9, <2>10 DEF IInv
  <1> QED
    BY <1>4, <1>5, <1>6

(* The validators look at the payload, the whole of it.                      *)
LEMMA ValidateStep ==
  ASSUME IInv, Validate
  PROVE  IInv'
  <1>1. /\ pc = "validate" /\ verdicts' = V!Verdicts(p)
        /\ UNCHANGED <<wired, flag, p, skeptic, stages, llmCalls, answer, steadyFlag>>
        /\ \/ Refuse
           \/ Go("publish") /\ ~V!Rejected(verdicts') /\ (skeptic => ~V!Has(verdicts', "warn"))
    BY DEF Validate
  <1>2. /\ outcome = "running" /\ skeptic' \in BOOLEAN /\ llmCalls' \in Nat
        /\ OwnersDirect /\ StrategyAllows
    BY <1>1, Places DEF IInv, Types, CheapGates, Beyond
  <1>3. CASE Refuse
    BY <1>1, <1>2, <1>3, RefuseStep
  <1>4. CASE ~Refuse
    <2>1. pc' = "publish" /\ outcome' = "running" /\ ~Sent'
      BY <1>1, <1>2, <1>4 DEF Go, Sent
    <2>2. Types'
      BY <1>1, <1>2, <2>1, Places DEF IInv, Types
    <2>3. ModeRead'
      BY <1>1, <2>1, Places DEF IInv, ModeRead, Beyond
    <2>4. CheapGates'
      BY <1>1, <1>2, SameSaid DEF CheapGates
    <2>5. StagesRun'
      BY <1>1, <2>1, Places DEF IInv, StagesRun, Beyond, Allow, StageStatuses, DryrunStatuses
    <2>6. ValidatorsRun'
      BY <1>1, <1>4 DEF ValidatorsRun
    <2> QED
      BY <2>2, <2>3, <2>4, <2>5, <2>6 DEF IInv
  <1> QED
    BY <1>3, <1>4

(* The pull request is sent with all of that behind it.                      *)
LEMMA PublishStep ==
  ASSUME IInv, Publish
  PROVE  IInv'
  <1>1. /\ pc = "publish"
        /\ UNCHANGED <<wired, flag, p, skeptic, stages, verdicts, llmCalls, answer, steadyFlag>>
        /\ Refuse \/ pc' = "done"
    BY DEF Publish
  <1>2. /\ skeptic' \in BOOLEAN /\ llmCalls' \in Nat /\ OwnersDirect /\ StrategyAllows
    BY <1>1, Places DEF IInv, Types, CheapGates, Beyond
  <1>3. CASE Refuse
    BY <1>1, <1>2, <1>3, RefuseStep
  <1>4. CASE pc' = "done"
    <2>1. Types'
      BY <1>1, <1>2, <1>4 DEF IInv, Types
    <2>2. ModeRead'
      BY <1>1, <1>4, Places DEF IInv, ModeRead, Beyond
    <2>3. CheapGates'
      BY <1>1, <1>2, SameSaid DEF CheapGates
    <2>4. StagesRun'
      BY <1>1, <1>4, Places DEF IInv, StagesRun, Beyond, Allow, StageStatuses, DryrunStatuses
    <2>5. ValidatorsRun'
      BY <1>1, <1>4 DEF IInv, ValidatorsRun, Beyond
    <2> QED
      BY <2>1, <2>2, <2>3, <2>4, <2>5 DEF IInv
  <1> QED
    BY <1>1, <1>3, <1>4

(* Every step keeps the invariant.                                           *)
LEMMA NextInv == IInv /\ [Next]_vars => IInv'
  <1> SUFFICES ASSUME IInv, [Next]_vars PROVE IInv'
    OBVIOUS
  <1>1. CASE UNCHANGED vars
    <2>1. Sent' = Sent /\ UNCHANGED <<wired, flag, pc, p, skeptic, stages, verdicts, llmCalls,
                                      answer, outcome, steadyFlag>>
      BY <1>1 DEF vars, Sent
    <2>2. Types' /\ ModeRead' /\ ValidatorsRun'
      BY <2>1 DEF IInv, Types, ModeRead, ValidatorsRun, Beyond
    <2>3. CheapGates'
      BY <2>1, SameSaid DEF IInv, CheapGates, Beyond
    <2>4. StagesRun'
      BY <2>1, SameStages DEF IInv, StagesRun, Beyond
    <2> QED
      BY <2>2, <2>3, <2>4 DEF IInv
  <1>2. CASE Next
    BY <1>2, ToggleStep, DecodeStep, ReadSkepticStep, LookStep, ComposeStep, GateStep,
       ValidateStep, PublishStep DEF Next, Work
  <1> QED
    BY <1>1, <1>2

-----------------------------------------------------------------------------
(* What the invariant says of a pull request that was sent.                  *)

(* The invariant holds throughout.                                           *)
LEMMA Invariant == Spec => []IInv
  BY InitInv, NextInv, PTL DEF Spec

(* All four stages, and what each was answered.                              *)
LEMMA SentStages ==
  ASSUME IInv, Sent
  PROVE  /\ Len(stages) = 4 /\ DOMAIN stages = 1..4
         /\ \A i \in {1, 2, 4} : stages[i] = "passed"
         /\ stages[3] # "failed" /\ (~wired.client => stages[3] = "not_implemented")
         /\ skeptic => \A i \in 1..4 : stages[i] = "passed"
         /\ stages[4] \in StageStatuses(StageNames[4])
  <1>1. /\ Len(stages) = 4 /\ stages \in Seq({"passed", "failed", "not_implemented"})
        /\ skeptic => \A i \in 1..4 : stages[i] = "passed"
    BY Places DEF IInv, StagesRun, Beyond
  <1>2. \A i \in 1..4 : Allow(stages[i]) /\ stages[i] \in StageStatuses(StageNames[i])
    BY <1>1, Places DEF IInv, StagesRun, Beyond
  <1>3. ASSUME NEW i \in 1..4
        PROVE  /\ stages[i] # "failed" /\ (i # 3 => stages[i] = "passed")
               /\ i = 3 /\ ~wired.client => stages[i] = "not_implemented"
    <2>1. Allow(stages[i]) /\ stages[i] \in StageStatuses(StageNames[i])
      BY <1>2
    <2>2. stages[i] # "failed"
      BY <2>1 DEF Allow
    <2> QED
      BY <2>1, <2>2, StatusIs
  <1> QED
    BY <1>1, <1>2, <1>3

(* No fix is sent for a workload that an operator owns, at any depth (the    *)
(* operator gate of Execute), for every owner chain and index.               *)
THEOREM NoOperatorOwnedHolds == Spec => []NoOperatorOwned
  <1>1. IInv => NoOperatorOwned
    BY OwnersMean DEF IInv, CheapGates, Beyond, NoOperatorOwned
  <1> QED
    BY <1>1, Invariant, PTL

(* A fix that is sent keeps to its environment (strategyGate).               *)
THEOREM EnvironmentRespectedHolds == Spec => []EnvironmentRespected
  <1>1. IInv => EnvironmentRespected
    BY StrategyMeans DEF IInv, Types, CheapGates, Beyond, InEnvironment, EnvironmentRespected
  <1> QED
    BY <1>1, Invariant, PTL

(* With the validators wired, a fix that is sent keeps to the cluster's      *)
(* limits (Pipeline.Run), whatever signals are attached.                     *)
THEOREM ClusterLimitsRespectedHolds == Spec => []ClusterLimitsRespected
  <1>1. IInv => ClusterLimitsRespected
    BY NotRejectedMeans
       DEF IInv, Types, ValidatorsRun, Beyond, InLimits, ClusterLimitsRespected
  <1> QED
    BY <1>1, Invariant, PTL

(* A pull request went through all four stages (gate.Pipeline.Run), under    *)
(* either policy.                                                            *)
THEOREM GateCompletedHolds == Spec => []GateCompleted
  <1>1. ASSUME IInv PROVE GateCompleted
    <2>1. Len(StageNames) = 4 /\ StageNames[3] = "dryrun"
      BY DEF StageNames
    <2> QED
      BY <1>1, <2>1, SentStages DEF GateCompleted
  <1> QED
    BY <1>1, Invariant, PTL

(* The model is called only for what the operator gate and the strategy gate *)
(* let pass (Execute), however often the call fails.                         *)
THEOREM NoSpendOnRefusedHolds == Spec => []NoSpendOnRefused
  <1>1. ASSUME IInv PROVE NoSpendOnRefused
    <2> SUFFICES ASSUME llmCalls > 0
                 PROVE  /\ wired.resolver => Reached(p.owners, Resolve) \subseteq BuiltInRefs
                        /\ p.env \in {"prod", "unknown"} => Reduction <= 0
      BY DEF NoSpendOnRefused
    <2>1. OwnersDirect /\ InEnvironment
      BY <1>1, SpentSaid, StrategyMeans DEF IInv, Types
    <2>2. p.env \in {"prod", "unknown"} => p.env # ""
      OBVIOUS
    <2> QED
      BY <2>1, <2>2, OwnersMean DEF InEnvironment
  <1> QED
    BY <1>1, Invariant, PTL

(* A tenant whose flag was up throughout gets the strict floor, and nothing  *)
(* without a dry run (effectiveSkeptic), whether or not the flag was read.   *)
THEOREM SkepticRespectedHolds == Spec => []SkepticRespected
  <1>1. ASSUME IInv PROVE SkepticRespected
    <2>1. ASSUME Sent, steadyFlag, wired.skeptic
          PROVE  /\ \A i \in DOMAIN stages : stages[i] = "passed"
                 /\ verdicts = {} /\ wired.client
      <3>1. skeptic /\ wired.validator
        BY <1>1, <2>1 DEF IInv, ModeRead, Beyond
      <3>2. /\ DOMAIN stages = 1..4 /\ \A i \in 1..4 : stages[i] = "passed"
            /\ ~wired.client => stages[3] = "not_implemented"
        BY <1>1, <2>1, <3>1, SentStages
      <3>3. verdicts = V!Verdicts(p) /\ ~V!Has(verdicts, "hard") /\ ~V!Has(verdicts, "warn")
        BY <1>1, <2>1, <3>1 DEF IInv, ValidatorsRun, Beyond, V!Rejected
      <3>4. verdicts = {}
        BY <3>3, VerdictIs DEF V!Has
      <3>5. wired.client
        BY <3>2
      <3> QED
        BY <3>2, <3>4, <3>5
    <2> QED
      BY <2>1 DEF SkepticRespected, SkepticTenantStrict, SkepticTenantBlocked
  <1> QED
    BY <1>1, Invariant, PTL

(* A text that the last stage passed keeps labels and quantities.            *)
LEMMA PassedIsSafe ==
  ASSUME NEW before, NEW after, checkLabelsPreserved(before, after),
         checkResourceBounds(before, after)
  PROVE  /\ walkLabels(before) \subseteq walkLabels(after)
         /\ \A i \in DOMAIN before :
              before[i].kind = "res" /\ before[i].val > 0 =>
                \E j \in DOMAIN after :
                  /\ after[j].kind = "res" /\ after[j].name = before[i].name
                  /\ Section(after, j) = Section(before, i)
                  /\ 2 * after[j].val >= before[i].val
  <1>1. walkLabels(before) \subseteq walkLabels(after)
    BY DEF checkLabelsPreserved
  <1>2. ASSUME NEW i \in DOMAIN before, before[i].kind = "res", before[i].val > 0
        PROVE  \E j \in DOMAIN after :
                 /\ after[j].kind = "res" /\ after[j].name = before[i].name
                 /\ Section(after, j) = Section(before, i) /\ 2 * after[j].val >= before[i].val
    <2> DEFINE b == [path |-> <<Section(before, i), before[i].name>>, q |-> before[i].val]
    <2>1. b \in collectResources(before)
      BY <1>2 DEF collectResources
    <2>2. PICK a \in collectResources(after) : a.path = b.path /\ 2 * a.q >= b.q
      BY <2>1 DEF checkResourceBounds
    <2>3. PICK j \in DOMAIN after :
            /\ after[j].kind = "res"
            /\ a = [path |-> <<Section(after, j), after[j].name>>, q |-> after[j].val]
      BY DEF collectResources
    <2>4. <<Section(after, j), after[j].name>> = <<Section(before, i), before[i].name>>
          /\ 2 * after[j].val >= before[i].val
      BY <2>2, <2>3
    <2> QED
      BY <2>3, <2>4
  <1> QED
    BY <1>1, <1>2

(* The walk up the owners decides as it must when a run comes to the         *)
(* operator gate (Classify), whatever the owners, the index and the cut-off. *)
THEOREM WalkDecidesHolds == Spec => []WalkDecides
  <1>1. ASSUME IInv PROVE WalkDecides
    <2> SUFFICES ASSUME NEW index \in [Refs -> Refs \cup {NoRef}]
                 PROVE  DirectWithoutOperator(index) /\ ShortChainDecided(index)
      BY DEF WalkDecides
    <2>1. p.owners \in Seq([ref : Refs, controller : BOOLEAN])
      BY <1>1, PayloadAssumption DEF IInv, Types
    <2>2. DirectWithoutOperator(index)
      BY DirectIsSound DEF DirectWithoutOperator
    <2>3. ShortChainDecided(index)
      BY <2>1, ShortChainsAreDecided DEF ShortChainDecided
    <2> QED
      BY <2>2, <2>3
  <1>2. IInv => WalkDecides
    BY <1>1
  <1> QED
    BY <1>2, Invariant, PTL

-----------------------------------------------------------------------------
(* The answer is the model's, and the first stage passed only if the diff    *)
(* could be applied to the chart.                                            *)
Judged ==
  /\ answer.meant = Nil \/ answer \in Answers[p.chart]
  /\ stages \in Seq({"passed", "failed", "not_implemented"})
  /\ stages # <<>> /\ stages[1] = "passed" => RenderValidator(p.chart.lines, answer.diff)

(* That stays so whatever the run does.                                      *)
LEMMA JudgedStep ==
  ASSUME IInv, Judged, [Next]_vars
  PROVE  Judged'
  <1>1. CASE Compose
    <2>1. stages = <<>> /\ stages' = <<>> /\ p' = p
      BY <1>1 DEF Compose, IInv, StagesRun
    <2>2. answer' = answer \/ answer' \in Answers[p.chart]
      BY <1>1 DEF Compose
    <2> QED
      BY <2>1, <2>2 DEF Judged
  <1>2. CASE GateStage
    <2>1. pc = "gate" /\ UNCHANGED <<p, answer>>
      BY <1>2 DEF GateStage
    <2>2. PICK status \in StageStatuses(StageNames[Len(stages) + 1]) : stages' = Append(stages, status)
      BY <1>2 DEF GateStage
    <2>3. stages \in Seq({"passed", "failed", "not_implemented"}) /\ Len(stages) \in 0..3
      <3>1. stages \in Seq({"passed", "failed", "not_implemented"}) /\ Len(stages) < 4
        BY <2>1, Places DEF Judged, IInv, StagesRun, Beyond
      <3>2. Len(stages) \in Nat
        BY <3>1
      <3>3. \A n \in Nat : n < 4 => n \in 0..3
        OBVIOUS
      <3> QED
        BY <3>1, <3>2, <3>3, Zenon
    <2>4. Len(stages) + 1 \in 1..4
      <3>1. \A n \in 0..3 : n + 1 \in 1..4
        OBVIOUS
      <3> QED
        BY <2>3, <3>1, Zenon
    <2>5. status \in {"passed", "failed", "not_implemented"}
      BY <2>2, <2>4, StatusIs
    <2>6. /\ stages' \in Seq({"passed", "failed", "not_implemented"})
          /\ stages'[Len(stages) + 1] = status
          /\ \A i \in 1..Len(stages) : stages'[i] = stages[i]
      BY <2>2, <2>3, <2>5
    <2>7. ASSUME stages'[1] = "passed" PROVE RenderValidator(p.chart.lines, answer.diff)
      <3>1. CASE stages = <<>>
        <4>1. status = "passed" /\ status \in StageStatuses(StageNames[1])
          BY <2>2, <2>6, <2>7, <3>1
        <4> QED
          BY <4>1 DEF StageStatuses, StageNames
      <3>2. CASE stages # <<>>
        <4>1. stages[1] = "passed"
          BY <2>3, <2>6, <2>7, <3>2
        <4> QED
          BY <3>2, <4>1 DEF Judged
      <3> QED
        BY <3>1, <3>2
    <2> QED
      BY <2>1, <2>6, <2>7 DEF Judged
  <1>3. CASE UNCHANGED <<p, stages, answer>>
    BY <1>3 DEF Judged
  <1>4. Compose \/ GateStage \/ UNCHANGED <<p, stages, answer>>
    BY DEF Next, Work, Toggle, Decode, ReadSkeptic, ParseChart, OperatorGate, StrategyGate,
           Validate, Publish, vars
  <1> QED
    BY <1>1, <1>2, <1>3, <1>4

(* The gate refuses a correct diff of the text that the model was shown, or  *)
(* judges it as the edit it means of the original (applyUnifiedDiff,         *)
(* findBlock), provided that each hunk has one place to go: for any charts   *)
(* and any number of hunks.                                                  *)
THEOREM JudgedAsMeantHolds == Spec => []JudgedAsMeant
  <1>1. Init => Judged
    BY DEF Init, Judged
  <1>2. IInv /\ Judged /\ [Next]_vars => Judged'
    BY JudgedStep
  <1>3. ASSUME IInv, Judged PROVE JudgedAsMeant
    <2> SUFFICES ASSUME answer.meant # Nil, stages # <<>>, stages[1] = "passed", OnePlace
                 PROVE  applyUnifiedDiff(p.chart.lines, answer.diff).lines = answer.meant
      BY DEF JudgedAsMeant
    <2>1. p \in Payloads /\ answer \in Answers[p.chart]
      BY <1>3 DEF IInv, Types, Judged
    <2>2. applyUnifiedDiff(p.chart.lines, answer.diff).ok
      BY <1>3 DEF Judged, RenderValidator, Patches
    <2>3. /\ \A i \in DOMAIN answer.diff : OldBlock(answer.diff[i]) # <<>>
          /\ Settled(p.chart, answer.diff, Applied(p.chart.lines, answer.diff))
      BY DEF OnePlace, Settled, OnceThere, Stays
    <2> QED
      BY <2>1, <2>2, <2>3, AppliedAsMeant
  <1>4. IInv /\ Judged => JudgedAsMeant
    BY <1>3
  <1> QED
    BY <1>1, <1>2, <1>4, Invariant, PTL DEF Spec

(* Every pull request that is sent was vetted by every gate (Execute), and   *)
(* what is merged is what was vetted wherever each hunk has one place to go. *)
THEOREM OnlyVettedHolds == Spec => []OnlyVetted
  <1>1. ASSUME IInv, JudgedAsMeant PROVE MergedIsSafe
    <2> SUFFICES ASSUME Sent, answer.meant # Nil, OnePlace PROVE MergedIsSafe
      BY DEF MergedIsSafe
    <2> DEFINE after == applyUnifiedDiff(p.chart.lines, answer.diff).lines
    <2>1. Len(stages) = 4 /\ stages[1] = "passed" /\ stages[4] = "passed"
          /\ stages[4] \in StageStatuses(StageNames[4])
      BY <1>1, SentStages
    <2>2. stages # <<>>
      BY <2>1
    <2>3. after = answer.meant
      BY <1>1, <2>1, <2>2 DEF JudgedAsMeant
    <2>4. StageNames[4] = "post"
      BY DEF StageNames
    <2>5. PostValidator(p.chart.lines, answer.diff)
      BY <2>1, <2>4 DEF StageStatuses
    <2>6. checkLabelsPreserved(p.chart.lines, after) /\ checkResourceBounds(p.chart.lines, after)
      BY <2>5 DEF PostValidator
    <2> HIDE DEF after
    <2> QED
      BY <2>3, <2>6, PassedIsSafe DEF MergedIsSafe
  <1>2. IInv => (JudgedAsMeant => MergedIsSafe)
    BY <1>1
  <1> QED
    BY <1>2, Invariant, JudgedAsMeantHolds, NoOperatorOwnedHolds, EnvironmentRespectedHolds,
       ClusterLimitsRespectedHolds, GateCompletedHolds, PTL DEF OnlyVetted
===============================================================================
