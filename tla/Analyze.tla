------------------------------- MODULE Analyze -------------------------------
(***************************************************************************)
(* internal/analyze as pure operators: the report filter, the efficiency   *)
(* score with its band, letter and percentile, and the cost difference of  *)
(* two values files.                                                       *)
(***************************************************************************)
EXTENDS Rules, FiniteSets

(* Mutant: a finding exactly at the minimum severity is dropped too.         *)
FilterAbove(findings, minSeverity, detectors, securityOnly) ==
  {f \in findings :
     /\ securityOnly => f.finding.category = "security"
     /\ detectors # {} => f.finding.id \in detectors
     /\ minSeverity # "" => severityRank(f.finding.severity) > severityRank(minSeverity)}

(* An unknown minimum severity ranks zero and drops nothing.                 *)
Filter(findings, minSeverity, detectors, securityOnly) ==
  {f \in findings :
     /\ securityOnly => f.finding.category = "security"
     /\ detectors # {} => f.finding.id \in detectors
     /\ minSeverity # "" => severityRank(f.finding.severity) >= severityRank(minSeverity)}

-----------------------------------------------------------------------------
penaltyFor(s) ==
  CASE s = "HIGH" -> 25 [] s = "MED" -> 10 [] s = "LOW" -> 3 [] OTHER -> 1

penaltyCap == 100

bandFor(score) ==
  CASE score >= 85 -> "high" [] score \in 60..84 -> "medium" [] score < 60 -> "low"

(* letterFor: one letter for every five points from 50 up.                   *)
letterFor(score) ==
  CASE score >= 95 -> "A+" [] score \in 90..94 -> "A" [] score \in 85..89 -> "A-"
    [] score \in 80..84 -> "B+" [] score \in 75..79 -> "B" [] score \in 70..74 -> "B-"
    [] score \in 65..69 -> "C+" [] score \in 60..64 -> "C" [] score \in 55..59 -> "C-"
    [] score \in 50..54 -> "D" [] score < 50 -> "F"

calibrationScores ==
  <<18, 22, 24, 26, 28, 30, 31, 33, 34, 35,
    37, 38, 39, 40, 41, 42, 43, 44, 45, 46,
    47, 48, 49, 50, 51, 52, 53, 54, 55, 56,
    57, 58, 59, 60, 61, 62, 63, 64, 65, 66,
    66, 67, 67, 68, 68, 69, 69, 70, 70, 70,
    71, 71, 72, 72, 73, 73, 74, 74, 75, 75,
    76, 76, 77, 77, 78, 78, 79, 79, 80, 80,
    81, 82, 83, 84, 85, 85, 86, 87, 88, 88,
    89, 90, 90, 91, 91, 92, 92, 93, 93, 94,
    94, 95, 95, 96, 96, 97, 97, 98, 99, 100>>

(* sort.Search: bisection for the first of the n positions, counted from     *)
(* zero, at which the population is not below the score; n when none is.     *)
Search(score, population) ==
  LET n == Len(population)
      bisect[lo \in 0..n, hi \in 0..n] ==
        IF lo >= hi THEN lo
        ELSE LET h == (lo + hi) \div 2
             IN  IF population[h + 1] >= score THEN bisect[lo, h] ELSE bisect[h + 1, hi]
  IN  bisect[0, n]

percentileRank(score, population) ==
  IF population = <<>> THEN 0
  ELSE Min({100, (Search(score, population) * 100) \div Len(population)})

GradeFor(score) ==
  [letter |-> letterFor(score), percentile |-> percentileRank(score, calibrationScores)]

Compute(findings) ==
  LET penalty == SumFunction([f \in findings |-> penaltyFor(f.finding.severity)])
      value == 100 - Min({penalty, penaltyCap})
  IN  [value |-> value, band |-> bandFor(value), grade |-> GradeFor(value)]

-----------------------------------------------------------------------------
(* Go's integer division and its conversion of a float to an integer both    *)
(* truncate toward zero.                                                     *)
Truncated(x, y) == IF x >= 0 THEN x \div y ELSE -((-x) \div y)

qDelta(a, b) == (IF b = Nil THEN 0 ELSE b) - (IF a = Nil THEN 0 ELSE a)

(* Mutant: the division rounds down, as the operator \div does.              *)
monthlyDeltaFloor(cpu, mem) ==
  ((cpu * MonthlyHours * CorePriceCents) \div 1000) + ((mem * GiBPriceCents) \div 1024)

monthlyDelta(cpu, mem) ==
  Truncated(cpu * MonthlyHours * CorePriceCents, 1000) + Truncated(mem * GiBPriceCents, 1024)

Absent == [reqCPU |-> Nil, limCPU |-> Nil, reqMem |-> Nil, limMem |-> Nil]

(* byName keeps the last workload of a name; get reads an absent one as      *)
(* unset.                                                                    *)
Named(workloads, name) ==
  LET found == {i \in DOMAIN workloads : workloads[i].name = name}
  IN  IF found = {} THEN Absent ELSE workloads[Max(found)]

Names(workloads) == {workloads[i].name : i \in DOMAIN workloads}

Entry(a, b, name) ==
  LET x == Named(a, name)
      y == Named(b, name)
      cpu == qDelta(x.reqCPU, y.reqCPU)
      mem == qDelta(x.reqMem, y.reqMem)
  IN  [name |-> name, new |-> name \notin Names(a), removed |-> name \notin Names(b),
       cpu |-> cpu, cpuLimit |-> qDelta(x.limCPU, y.limCPU),
       mem |-> mem, memLimit |-> qDelta(x.limMem, y.limMem),
       cents |-> monthlyDelta(cpu, mem)]

(* Entries that change nothing are left out, new and removed ones kept.      *)
Diff(a, b) ==
  {e \in {Entry(a, b, n) : n \in Names(a) \cup Names(b)} :
     e.new \/ e.removed \/ e.cpu # 0 \/ e.cpuLimit # 0 \/ e.mem # 0 \/ e.memLimit # 0}

(* DiffReport.MonthlyUSDCentsDelta.                                          *)
MonthlyUSDCentsDelta(entries) == SumFunction([e \in entries |-> e.cents])
===============================================================================
