------------------------------- MODULE Handlers --------------------------------
(***************************************************************************)
(* The handlers of tenant data.  POST /v1/ingest takes a batch of          *)
(* Prometheus series, of AWS cost rows, or of both, and hands them to two  *)
(* sinks one after the other; the others only read.                        *)
(***************************************************************************)
EXTENDS Integers, Sequences

CONSTANT Absent       \* a part that the request does not have

(* A handler's early returns: the first check that fails, and its status.    *)
FirstFailed(steps) ==
  CHOOSE i \in 1..(Len(steps) + 1) :
    /\ i = Len(steps) + 1 \/ ~steps[i].ok
    /\ \A j \in 1..(i - 1) : steps[j].ok
StatusAt(steps, i, good) == IF i = Len(steps) + 1 THEN good ELSE steps[i].code

(* ParsePrometheusMatrix takes a matrix, and nothing that is not JSON, says  *)
(* no success, is of another type or has a pair that is not a time and a     *)
(* number.                                                                   *)
PromParts == {Absent, "matrix", "vector", "failed", "badpair", "junk"}
ParsePrometheusMatrix(p) == p = "matrix"

(* ParseCURRows takes no bytes at all for no rows; a missing column, a row   *)
(* of another width and a field that is not a time or a number are errors.   *)
CURParts == {Absent, "rows", "nocolumn", "ragged", "badfield"}
ParseCURRows(c) == c = "rows"

(* The checks that batch q of tenant t passes through, in order, each with   *)
(* the status it fails with; prom and cur say whether the sinks do their     *)
(* work.  The series are stored before the cost rows are parsed.             *)
ingestSteps(t, q, prom, cur) ==
  << [ok |-> q.read # "big", code |-> 413],
     [ok |-> q.read # "junk", code |-> 400],
     [ok |-> q.tenant \in {Absent, t}, code |-> 400],
     [ok |-> q.prom # Absent \/ q.cur # Absent, code |-> 400],
     [ok |-> q.prom = Absent \/ ParsePrometheusMatrix(q.prom), code |-> 400],
     [ok |-> q.prom = Absent \/ prom, code |-> 500],
     [ok |-> q.cur = Absent \/ ParseCURRows(q.cur), code |-> 400],
     [ok |-> q.cur = Absent \/ cur, code |-> 500] >>

PromStored == 6
CURStored == 8

(* Mutant: the error of the second sink is not looked at.                    *)
IngestUnchecked(t, q, prom, cur) ==
  LET steps == ingestSteps(t, q, prom, cur)
      n     == FirstFailed([steps EXCEPT ![CURStored].ok = TRUE])
  IN  [code |-> StatusAt(steps, n, 200),
       prom |-> n > PromStored /\ q.prom # Absent,
       cur  |-> n > CURStored /\ q.cur # Absent /\ cur]

(* Handler.Ingest: the answer, and whether the batch reached each sink.      *)
IngestBatch(t, q, prom, cur) ==
  LET steps == ingestSteps(t, q, prom, cur)
      n     == FirstFailed(steps)
  IN  [code |-> StatusAt(steps, n, 200),
       prom |-> n > PromStored /\ q.prom # Absent,
       cur  |-> n > CURStored /\ q.cur # Absent]

-----------------------------------------------------------------------------
(* The handlers that keep no state, for the parts of a request q that they   *)
(* look at.                                                                  *)
Decoded(q) == << [ok |-> q.read # "big", code |-> 413], [ok |-> q.read # "junk", code |-> 400] >>

(* SpikeHandler.Receive; the dispatcher that is wired accepts everything.    *)
Receive(q) ==
  LET steps == Decoded(q) \o << [ok |-> q.tenant # Absent, code |-> 400],
                                [ok |-> q.workload, code |-> 400] >>
  IN  StatusAt(steps, FirstFailed(steps), 202)

(* Preview: fix is what the composer did.                                    *)
Preview(q, fix) ==
  LET steps == Decoded(q) \o << [ok |-> q.chart, code |-> 400], [ok |-> q.yaml, code |-> 400],
                                [ok |-> fix # "budget", code |-> 402],
                                [ok |-> fix = "fix", code |-> 502] >>
  IN  StatusAt(steps, FirstFailed(steps), 200)

(* The OAuth callback: a redirect, whatever the state is.                    *)
Callback(q) == IF q.code THEN 303 ELSE 400

(* ListApplyFixes: the state defaults to open, and a bad limit to 50; no     *)
(* source is wired, so the list is empty.                                    *)
FixStates == {Absent, "open", "merged", "closed", "rolled-back"}
ListApplyFixes(q) == IF q.state \in FixStates THEN 200 ELSE 400

(* AgentHealth: without a database the agent is offline; otherwise the pill  *)
(* of AgentTelemetry, or its error.                                          *)
AgentHealth(dsn, ok) == IF dsn /\ ~ok THEN 500 ELSE 200
=============================================================================
