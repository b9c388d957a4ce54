------------------------------- MODULE Strategy -------------------------------
(***************************************************************************)
(* The per-environment sizing bundle of cost/strategy/strategy.go that the *)
(* apply-fix workflow gates against, as pure operators.                    *)
(***************************************************************************)
LOCAL INSTANCE Integers

Environments == {"prod", "staging", "dev", "unknown"}
Classes == {"karpenter", "autoscaler", "static"}

(* Anything that is neither dev nor staging, the unknown environment         *)
(* included, gets the production profile.                                    *)
baseSizing(env) ==
  CASE env = "dev" ->
         [memoryPct |-> 0, replicas |-> 100, minConfidence |-> "low"]
    [] env = "staging" ->
         [memoryPct |-> 25, replicas |-> 2, minConfidence |-> "medium"]
    [] OTHER ->
         [memoryPct |-> 10, replicas |-> 0, minConfidence |-> "high"]

aggressivenessCap(class) == IF class = "static" THEN 50 ELSE 100

Sized(s, class) ==
  [memoryPct |-> s.memoryPct, replicas |-> s.replicas,
   minConfidence |-> s.minConfidence, aggressiveness |-> aggressivenessCap(class)]

(* A static node group halves the allowance, forbids replica cuts and lifts  *)
(* a low confidence floor to medium.                                         *)
ForClass(env, class) ==
  LET s == Sized(baseSizing(env), class)
  IN  IF class # "static" THEN s
      ELSE [s EXCEPT !.minConfidence = IF @ = "low" THEN "medium" ELSE @,
                     !.replicas = 0]

confidenceRank(c) ==
  CASE c = "high" -> 3 [] c = "medium" -> 2 [] c = "low" -> 1 [] OTHER -> 0

ConfidenceMeets(s, candidate) == confidenceRank(candidate) >= confidenceRank(s.minConfidence)

scaleByAggressiveness(base, agg) ==
  CASE agg <= 0 \/ base <= 0 -> 0
    [] agg >= 100 -> base
    [] OTHER -> (base * agg) \div 100

EffectiveReplicaCap(s) == scaleByAggressiveness(s.replicas, s.aggressiveness)

ReplicaCutAllowed(s, reduction) == reduction <= 0 \/ reduction <= EffectiveReplicaCap(s)
===============================================================================
