------------------------------ MODULE Validators ------------------------------
(***************************************************************************)
(* The validation-before-recommendation pipeline of validator/checks.go    *)
(* and validator/validator.go: six checks of a candidate against the       *)
(* signals the in-cluster agent attached, each optional.                   *)
(*                                                                         *)
(* A candidate c has the proposed cpu, mem and replicas (0: unchanged) and *)
(* the signals pdb, quota, limits, hpa (each a record or Nil), oomRecent   *)
(* and dependents.                                                         *)
(***************************************************************************)
EXTENDS Integers

CONSTANT Nil

MaxDependents == 3

PDBCheck(c) ==
  IF c.pdb # Nil /\ c.replicas # 0 /\ c.pdb > 0 /\ c.replicas < c.pdb
  THEN "hard" ELSE "none"

Exceeds(used, proposed, max) == proposed > 0 /\ max > 0 /\ used + proposed > max

ResourceQuotaCheck(c) ==
  IF c.quota # Nil /\ (\/ Exceeds(c.quota.usedCPU, c.cpu, c.quota.cpu)
                       \/ Exceeds(c.quota.usedMem, c.mem, c.quota.mem))
  THEN "hard" ELSE "none"

Outside(proposed, min, max) ==
  proposed > 0 /\ ((max > 0 /\ proposed > max) \/ (min > 0 /\ proposed < min))

LimitRangeCheck(c) ==
  IF c.limits # Nil /\ (\/ Outside(c.cpu, c.limits.minCPU, c.limits.maxCPU)
                        \/ Outside(c.mem, c.limits.minMem, c.limits.maxMem))
  THEN "hard" ELSE "none"

(* An HPA makes even a change inside its bounds worth a warning.             *)
HPABoundsCheck(c) ==
  CASE c.hpa = Nil \/ c.replicas = 0 -> "none"
    [] c.hpa # Nil /\ c.replicas # 0 ->
         IF c.replicas \in c.hpa.min..c.hpa.max THEN "warn" ELSE "hard"

DependencyCheck(c) == IF c.dependents > MaxDependents THEN "hard" ELSE "none"

OOMRecentCheck(c) == IF c.oomRecent /\ c.mem > 0 THEN "hard" ELSE "none"

(* Default: the checks by name.                                              *)
Default(c) ==
  {[validator |-> "pdb", severity |-> PDBCheck(c)],
   [validator |-> "resourcequota", severity |-> ResourceQuotaCheck(c)],
   [validator |-> "limitrange", severity |-> LimitRangeCheck(c)],
   [validator |-> "hpabounds", severity |-> HPABoundsCheck(c)],
   [validator |-> "dependency", severity |-> DependencyCheck(c)],
   [validator |-> "oom-recent", severity |-> OOMRecentCheck(c)]}

(* Pipeline.Run is the union of the verdicts that are not nil; a hard one    *)
(* does not stop the loop, so their order says nothing.                      *)
Verdicts(c) == {v \in Default(c) : v.severity # "none"}

Has(verdicts, severity) == \E v \in verdicts : v.severity = severity

(* Result.Rejected is a hard verdict.                                        *)
Rejected(verdicts) == Has(verdicts, "hard")
===============================================================================
