------------------------------ MODULE Operators ------------------------------
(***************************************************************************)
(* The operator detector of operators/detector.go: walk the controlling    *)
(* owner chain of a workload until it ends (direct), reaches a kind that   *)
(* is not built in (operator-owned), repeats itself or gets too deep (both *)
(* unknown).  A kind is built in by its name alone, whatever its API       *)
(* group, so BuiltInRefs may hold an operator's own kind of such a name;   *)
(* a repeat is one of the group, kind and name.                            *)
(***************************************************************************)
EXTENDS Naturals, Sequences, FiniteSets

CONSTANTS Refs,         \* owner references
          BuiltInRefs,  \* those of a built-in controller kind
          NoRef,        \* what resolve answers for a chain's end
          MaxDepth      \* 16 in the code

(* The controller=true entry wins, else the first owner.                     *)
controllingOwner(owners) ==
  LET marked == {i \in DOMAIN owners : owners[i].controller}
  IN  IF marked = {} THEN owners[1].ref
      ELSE owners[CHOOSE i \in marked : \A j \in marked : i <= j].ref

(* Mutant: the walk stops at the first built-in controller.                   *)
StepFirstBuiltIn(w, resolve) ==
  CASE w.ref \in w.visited -> [w EXCEPT !.verdict = "unknown"]
    [] w.ref \in BuiltInRefs -> [w EXCEPT !.verdict = "direct"]
    [] OTHER -> [w EXCEPT !.verdict = "operator"]

(* One turn of the loop.                                                     *)
Step(w, resolve) ==
  CASE w.ref \in w.visited -> [w EXCEPT !.verdict = "unknown"]
    [] w.ref \notin w.visited /\ w.ref \in BuiltInRefs /\ resolve[w.ref] = NoRef ->
         [w EXCEPT !.verdict = "direct"]
    [] w.ref \notin w.visited /\ w.ref \in BuiltInRefs /\ resolve[w.ref] # NoRef ->
         [w EXCEPT !.ref = resolve[w.ref], !.visited = @ \cup {w.ref}]
    [] OTHER -> [w EXCEPT !.verdict = "operator"]

(* The verdict for a workload: "direct", "operator" or "unknown".            *)
Classify(owners, resolve) ==
  IF owners = <<>> THEN "direct"
  ELSE LET start == [ref |-> controllingOwner(owners), visited |-> {}, verdict |-> "walking"]
           walk[n \in 0..MaxDepth] ==
             IF n = 0 THEN start
             ELSE IF walk[n - 1].verdict # "walking" THEN walk[n - 1]
             ELSE Step(walk[n - 1], resolve)
           end == walk[MaxDepth].verdict
       IN  IF end = "walking" THEN "unknown" ELSE end

(* Reference: every owner the chain reaches, however long it is.             *)
Reached(owners, resolve) ==
  LET reach[n \in 0..Cardinality(Refs)] ==
        IF n = 0 THEN {controllingOwner(owners)}
        ELSE reach[n - 1] \cup ({resolve[s] : s \in reach[n - 1]} \ {NoRef})
  IN  IF owners = <<>> THEN {} ELSE reach[Cardinality(Refs)]
===============================================================================
