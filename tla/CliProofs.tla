------------------------------ MODULE CliProofs ------------------------------
(***************************************************************************)
(* Proofs for Cli: for any chart, flags and configuration, the exit code   *)
(* of analyze is the verdict of the detectors, a late refusal is about the *)
(* threshold word, and nothing is uploaded unasked. The parser and the     *)
(* detectors stay unexpanded: these results hold whatever they find. That  *)
(* no two findings contradict each other opens both. That a difference is  *)
(* a ledger needs sums over finite sets, which come first: what is true of *)
(* a set whenever it is true of the set without any one member is true of  *)
(* every finite set, because a least counterexample would have none. The   *)
(* same sums show that the advice pays: the savings it promises are the    *)
(* difference it makes, and a limit's findings cost less than its lack.    *)
(*                                                                         *)
(* The last part is about Observe, the other program that runs at the      *)
(* customer's: a token goes out fresh, a missing metric is counted, and    *)
(* the rows of a snapshot carry the samples, each once.                    *)
(***************************************************************************)
EXTENDS Cli, Observe, FiniteSetTheorems, WellFoundedInduction, NaturalsInduction, TLAPS

(* The report of analyze is the filtered analysis, whatever its tone.        *)
Shown ==
  /\ rep.findings = Filtered
  /\ rep = [source |-> inv.source, findings |-> rep.findings, roast |-> rep.roast]

(* Nothing leaves the process before the output is written.                  *)
SilentBefore == pc \in {"start", "read", "html", "emit"} => out = Nil /\ sent = Nil

(* From the analysis on, the report is the one of this invocation.           *)
ReportKept ==
  pc \in {"html", "emit", "share", "check"} /\ inv.cmd = "analyze" => Shown

(* The upload comes after the report was written, and only when asked for.   *)
ShareAsked == pc = "share" => inv.share /\ inv.cmd = "analyze" /\ out = rep

Places == {"start", "read", "html", "emit", "share", "check", "done"}

(* The inductive invariant.                                                  *)
IInv ==
  /\ inv \in Invocations
  /\ pc \in Places
  /\ Loads(cfg)
  /\ SilentBefore
  /\ ReportKept
  /\ ShareAsked
  /\ GateSound
  /\ LateRefusal
  /\ NoUploadUnasked

(* Every severity has a rank, an unknown one the lowest.                     *)
LEMMA RankIsNat == \A s : severityRank(s) \in 0..3
  BY DEF severityRank

(* A filter whose minimum is at or below the threshold keeps every finding   *)
(* the threshold asks about.                                                 *)
LEMMA FilterKeepsGate ==
  ASSUME NEW workloads, NEW minimum, NEW threshold,
         severityRank(minimum) =< severityRank(threshold)
  PROVE  (\E f \in Filter(Run(workloads), minimum, {}, FALSE) :
            severityRank(f.finding.severity) >= severityRank(threshold))
         <=> (\E i \in DOMAIN workloads : \E f \in All(workloads[i]) :
                severityRank(f.severity) >= severityRank(threshold))
  <1> DEFINE found == Run(workloads)
  <1>1. \A f : f \in found <=>
          \E i \in DOMAIN workloads : \E g \in All(workloads[i]) : f = [at |-> i, finding |-> g]
    BY DEF Run
  <1>2. \A f : f \in Filter(found, minimum, {}, FALSE) <=>
          /\ f \in found
          /\ minimum # "" => severityRank(f.finding.severity) >= severityRank(minimum)
    BY Zenon DEF Filter
  <1> HIDE DEF found
  <1>3. ASSUME NEW f \in Filter(found, minimum, {}, FALSE),
               severityRank(f.finding.severity) >= severityRank(threshold)
        PROVE  \E i \in DOMAIN workloads : \E g \in All(workloads[i]) :
                 severityRank(g.severity) >= severityRank(threshold)
    <2>1. PICK i \in DOMAIN workloads : \E g \in All(workloads[i]) : f = [at |-> i, finding |-> g]
      BY <1>1, <1>2, <1>3, Zenon
    <2>2. PICK g \in All(workloads[i]) : f = [at |-> i, finding |-> g]
      BY <2>1
    <2>3. severityRank(g.severity) >= severityRank(threshold)
      BY <2>2, <1>3
    <2> QED
      BY <2>3, Zenon
  <1>4. ASSUME NEW i \in DOMAIN workloads, NEW g \in All(workloads[i]),
               severityRank(g.severity) >= severityRank(threshold)
        PROVE  \E f \in Filter(found, minimum, {}, FALSE) :
                 severityRank(f.finding.severity) >= severityRank(threshold)
    <2> DEFINE f == [at |-> i, finding |-> g]
    <2>1. f \in found /\ f.finding = g
      BY <1>1
    <2>2. severityRank(f.finding.severity) >= severityRank(minimum)
      BY <2>1, <1>4, RankIsNat
    <2>3. f \in Filter(found, minimum, {}, FALSE)
      BY <1>2, <2>1, <2>2
    <2> QED
      BY <2>1, <2>3, <1>4
  <1> QED
    BY <1>3, <1>4, Zenon DEF found

(* The invariant holds when a command starts.                                *)
LEMMA InitInv == Init => IInv
  <1> SUFFICES ASSUME Init PROVE IInv
    OBVIOUS
  <1>1. Loads(cfg)
    BY DEF Init, Loads, Validate, NoConfig
  <1>2. pc = "start" /\ out = Nil /\ sent = Nil /\ inv \in Invocations
    BY DEF Init
  <1>3. SilentBefore /\ ReportKept /\ ShareAsked /\ pc \in Places
    BY <1>2 DEF SilentBefore, ReportKept, ShareAsked, Places
  <1>4. GateSound /\ LateRefusal /\ NoUploadUnasked
    BY <1>2 DEF GateSound, LateRefusal, NoUploadUnasked
  <1> QED
    BY <1>1, <1>2, <1>3, <1>4 DEF IInv

(* A failing step before the output says nothing about the gate.             *)
LEMMA FailKeeps ==
  ASSUME IInv, Fail, pc \in {"start", "read", "html", "emit"},
         UNCHANGED <<inv, cfg, rep, out, sent>>
  PROVE  IInv'
  <1>1. out' = Nil /\ sent' = Nil /\ pc' = "done"
    BY DEF IInv, SilentBefore, Fail
  <1> QED
    BY <1>1 DEF IInv, Places, Loads, Validate, SilentBefore, ReportKept, ShareAsked,
            GateSound, LateRefusal, NoUploadUnasked

(* Before the process is done, a step that does not end it and leaves output *)
(* and upload alone keeps the three results.                                 *)
LEMMA RunningKeeps ==
  ASSUME IInv, pc' # "done", UNCHANGED <<inv, sent>>, sent = Nil
  PROVE  GateSound' /\ LateRefusal' /\ NoUploadUnasked'
  <1>1. GateSound' /\ LateRefusal'
    BY DEF GateSound, LateRefusal
  <1>2. NoUploadUnasked'
    BY DEF NoUploadUnasked
  <1> QED
    BY <1>1, <1>2

(* Loading the configuration.                                                *)
LEMMA PreRunKeeps == IInv /\ PreRun => IInv'
  <1> SUFFICES ASSUME IInv, PreRun PROVE IInv'
    OBVIOUS
  <1>0. pc = "start" /\ out = Nil /\ sent = Nil /\ UNCHANGED <<inv, rep, html, out, sent>>
    BY DEF PreRun, IInv, SilentBefore
  <1>1. CASE Fail /\ UNCHANGED cfg
    BY <1>0, <1>1, FailKeeps
  <1>2. CASE Loads(Load(inv)) /\ cfg' = Load(inv) /\ pc' = "read"
    <2>1. Loads(cfg')
      BY <1>2
    <2>2. Loads(cfg)'
      BY <2>1 DEF Loads, Validate
    <2>3. SilentBefore' /\ ReportKept' /\ ShareAsked' /\ pc' \in Places /\ inv' \in Invocations
      BY <1>0, <1>2 DEF SilentBefore, ReportKept, ShareAsked, Places, IInv
    <2> QED
      BY <2>2, <2>3, <1>0, <1>2, RunningKeeps DEF IInv
  <1> QED
    BY <1>1, <1>2, Zenon DEF PreRun

(* Reading and analyzing one chart.                                          *)
LEMMA AnalysisKeeps == IInv /\ Analysis => IInv'
  <1> SUFFICES ASSUME IInv, Analysis PROVE IInv'
    OBVIOUS
  <1>0. pc = "read" /\ out = Nil /\ sent = Nil /\ UNCHANGED <<inv, cfg, html, out, sent>>
    BY DEF Analysis, IInv, SilentBefore
  <1>1. CASE Fail /\ UNCHANGED rep
    BY <1>0, <1>1, FailKeeps
  <1> DEFINE r == [source |-> inv.source, findings |-> Filtered, roast |-> FALSE]
  <1>2. CASE /\ pc' \in {"html", "emit"}
             /\ rep' = r \/ rep' = Apply(r)
    <2>1. Filtered' = Filtered
      BY <1>0 DEF Filtered, effSev, effDetectors
    <2>2. rep'.findings = Filtered
          /\ rep' = [source |-> inv.source, findings |-> rep'.findings, roast |-> rep'.roast]
      BY <1>2 DEF Apply
    <2>3. Shown'
      BY <2>1, <2>2, <1>0 DEF Shown
    <2>4. SilentBefore' /\ ReportKept' /\ ShareAsked' /\ pc' \in Places /\ inv' \in Invocations
      BY <2>3, <1>0, <1>2 DEF SilentBefore, ReportKept, ShareAsked, Places, IInv
    <2>5. Loads(cfg)'
      BY <1>0 DEF IInv, Loads, Validate
    <2> QED
      BY <2>4, <2>5, <1>0, <1>2, RunningKeeps DEF IInv
  <1> QED
    BY <1>1, <1>2, Zenon DEF Analysis

(* Comparing two charts.                                                     *)
LEMMA DiffKeeps == IInv /\ DiffPaths => IInv'
  <1> SUFFICES ASSUME IInv, DiffPaths PROVE IInv'
    OBVIOUS
  <1>0. /\ pc = "read" /\ out = Nil /\ sent = Nil /\ UNCHANGED <<inv, cfg, html, out, sent>>
        /\ inv.cmd # "analyze"
    BY DEF DiffPaths, IInv, SilentBefore
  <1>1. CASE Fail /\ UNCHANGED rep
    BY <1>0, <1>1, FailKeeps
  <1>2. CASE pc' = "emit"
    <2>1. SilentBefore' /\ ReportKept' /\ ShareAsked' /\ pc' \in Places /\ inv' \in Invocations
      BY <1>0, <1>2 DEF SilentBefore, ReportKept, ShareAsked, Places, IInv
    <2>2. Loads(cfg)'
      BY <1>0 DEF IInv, Loads, Validate
    <2> QED
      BY <2>1, <2>2, <1>0, <1>2, RunningKeeps DEF IInv
  <1> QED
    BY <1>1, <1>2, Zenon DEF DiffPaths

(* The report stays the same when neither it nor what it is made from does.  *)
LEMMA ShownStays ==
  ASSUME Shown, UNCHANGED <<inv, cfg, rep>>
  PROVE  Shown'
  <1>1. Filtered' = Filtered
    BY DEF Filtered, effSev, effDetectors
  <1> QED
    BY <1>1 DEF Shown

(* Writing the HTML file.                                                    *)
LEMMA HtmlKeeps == IInv /\ writeHTMLReport => IInv'
  <1> SUFFICES ASSUME IInv, writeHTMLReport PROVE IInv'
    OBVIOUS
  <1>0. pc = "html" /\ out = Nil /\ sent = Nil /\ UNCHANGED <<inv, cfg, rep, out, sent>>
    BY DEF writeHTMLReport, IInv, SilentBefore
  <1>1. CASE Fail
    BY <1>0, <1>1, FailKeeps
  <1>2. CASE pc' = "emit"
    <2>1. ReportKept'
      BY <1>0, <1>2, ShownStays DEF ReportKept, IInv
    <2>2. SilentBefore' /\ ShareAsked' /\ pc' \in Places /\ inv' \in Invocations
      BY <1>0, <1>2 DEF SilentBefore, ShareAsked, Places, IInv
    <2>3. Loads(cfg)'
      BY <1>0 DEF IInv, Loads, Validate
    <2> QED
      BY <2>1, <2>2, <2>3, <1>0, <1>2, RunningKeeps DEF IInv
  <1> QED
    BY <1>1, <1>2, Zenon DEF writeHTMLReport

(* Writing the output.                                                       *)
LEMMA EmitKeeps == IInv /\ emitReport => IInv'
  <1> SUFFICES ASSUME IInv, emitReport PROVE IInv'
    OBVIOUS
  <1>0. pc = "emit" /\ out = Nil /\ sent = Nil /\ UNCHANGED <<inv, cfg, rep, html, sent>>
    BY DEF emitReport, IInv, SilentBefore
  <1>1. CASE Fail /\ UNCHANGED out
    BY <1>0, <1>1, FailKeeps
  <1>2. CASE out' = Output /\ pc' = AfterEmit
    <2>1. pc' \in {"share", "check"}
      BY <1>2 DEF AfterEmit
    <2>2. ReportKept'
      BY <1>0, <2>1, ShownStays DEF ReportKept, IInv
    <2>3. ShareAsked'
      BY <1>0, <1>2 DEF ShareAsked, AfterEmit, Output
    <2>4. SilentBefore' /\ pc' \in Places /\ inv' \in Invocations
      BY <1>0, <2>1 DEF SilentBefore, Places, IInv
    <2>5. Loads(cfg)'
      BY <1>0 DEF IInv, Loads, Validate
    <2> QED
      BY <2>1, <2>2, <2>3, <2>4, <2>5, <1>0, RunningKeeps DEF IInv
  <1> QED
    BY <1>1, <1>2, Zenon DEF emitReport

(* The upload.                                                               *)
LEMMA ShareKeeps == IInv /\ emitShareURL => IInv'
  <1> SUFFICES ASSUME IInv, emitShareURL PROVE IInv'
    OBVIOUS
  <1>0. /\ pc = "share" /\ pc' = "check" /\ UNCHANGED <<inv, cfg, rep, html, out, exit>>
        /\ sent' = Sanitise(rep)
    BY DEF emitShareURL
  <1>1. Shown /\ inv.share /\ out = rep
    BY <1>0 DEF IInv, ReportKept, ShareAsked
  <1>2. ReportKept'
    BY <1>0, <1>1, ShownStays DEF ReportKept
  <1>3. sent'.findings = rep.findings /\ sent'.source = "(redacted)"
    BY <1>0, <1>1 DEF Shown, Sanitise
  <1>4. NoUploadUnasked'
    BY <1>0, <1>1, <1>3, CliAssumption DEF NoUploadUnasked, IInv
  <1>5. GateSound' /\ LateRefusal' /\ SilentBefore' /\ ShareAsked' /\ pc' \in Places
    BY <1>0 DEF GateSound, LateRefusal, SilentBefore, ShareAsked, Places
  <1>6. Loads(cfg)' /\ inv' \in Invocations
    BY <1>0 DEF IInv, Loads, Validate
  <1> QED
    BY <1>2, <1>4, <1>5, <1>6 DEF IInv

(* The verdict of checkFailOn on the report of analyze is the detectors'.    *)
LEMMA Verdict ==
  ASSUME inv.cmd = "analyze", Shown, toUpper(FailOn) \in Severities, effDetectors = {},
         severityRank(toUpper(effSev)) =< severityRank(toUpper(FailOn))
  PROVE  LET workloads == ParseValues(inv.chart)
         IN  checkFailOn = exitFindings <=>
               \E i \in DOMAIN workloads : \E f \in All(workloads[i]) :
                 severityRank(f.severity) >= severityRank(toUpper(FailOn))
  <1> DEFINE workloads == ParseValues(inv.chart)
             reached == \E f \in rep.findings :
                          severityRank(f.finding.severity) >= severityRank(toUpper(FailOn))
  <1>1. rep.findings = Filter(Run(workloads), toUpper(effSev), {}, FALSE)
    BY DEF Shown, Filtered
  <1>2. FailOn # ""
    BY DEF toUpper, Severities
  <1>3. checkFailOn = IF reached THEN exitFindings ELSE exitSuccess
    BY <1>2 DEF checkFailOn
  <1>4. checkFailOn = exitFindings <=> reached
    BY <1>3 DEF exitFindings, exitSuccess
  <1> QED
    BY <1>1, <1>4, FilterKeepsGate

(* The exit code.                                                            *)
LEMMA ExitKeeps == IInv /\ Exit => IInv'
  <1> SUFFICES ASSUME IInv, Exit PROVE IInv'
    OBVIOUS
  <1>0. /\ pc = "check" /\ pc' = "done" /\ exit' = checkFailOn
        /\ UNCHANGED <<inv, cfg, rep, html, out, sent>>
    BY DEF Exit
  <1>1. FailOn' = FailOn /\ effSev' = effSev /\ effDetectors' = effDetectors
    BY <1>0 DEF FailOn, effFailOn, effSev, effDetectors
  <1>2. GateSound'
    <2>1. inv.cmd = "analyze" => Shown
      BY <1>0 DEF IInv, ReportKept
    <2> QED
      BY <1>0, <1>1, <2>1, Verdict DEF GateSound
  <1>3. LateRefusal'
    <2> SUFFICES ASSUME checkFailOn = exitInvocation
                 PROVE  toUpper(FailOn) \notin Severities /\ (inv.failOn = "" => FailOn = "medium")
      BY <1>0, <1>1 DEF LateRefusal
    <2>1. FailOn # "" /\ toUpper(FailOn) \notin Severities
      <3>1. FailOn = "" => checkFailOn = 0
        BY DEF checkFailOn, exitSuccess
      <3>2. FailOn # "" /\ toUpper(FailOn) \in Severities =>
              checkFailOn = 0 \/ checkFailOn = 1
        BY DEF checkFailOn, exitSuccess, exitFindings
      <3>3. checkFailOn # 0 /\ checkFailOn # 1
        BY DEF exitInvocation
      <3> QED
        BY <3>1, <3>2, <3>3, Zenon
    <2>2. ASSUME inv.failOn = "" PROVE FailOn = "medium"
      <3>1. FailOn = cfg.failOn
        BY <2>1, <2>2 DEF FailOn, effFailOn
      <3>2. cfg.failOn \in {"", "low", "med", "medium", "high"}
        BY DEF IInv, Loads, Validate
      <3> QED
        BY <3>1, <3>2, <2>1 DEF toUpper, Severities
    <2> QED
      BY <2>1, <2>2
  <1>4. NoUploadUnasked' /\ SilentBefore' /\ ReportKept' /\ ShareAsked' /\ pc' \in Places
    BY <1>0 DEF IInv, NoUploadUnasked, SilentBefore, ReportKept, ShareAsked, Places
  <1>5. Loads(cfg)' /\ inv' \in Invocations
    BY <1>0 DEF IInv, Loads, Validate
  <1> QED
    BY <1>2, <1>3, <1>4, <1>5 DEF IInv

(* A step that changes nothing.                                              *)
LEMMA StutterKeeps == IInv /\ UNCHANGED vars => IInv'
  <1> SUFFICES ASSUME IInv, UNCHANGED vars PROVE IInv'
    OBVIOUS
  <1>1. FailOn' = FailOn /\ effSev' = effSev /\ effDetectors' = effDetectors
    BY DEF vars, FailOn, effFailOn, effSev, effDetectors
  <1>2. ReportKept'
    BY ShownStays DEF IInv, ReportKept, vars
  <1>3. GateSound' /\ LateRefusal'
    BY <1>1 DEF IInv, GateSound, LateRefusal, vars
  <1>4. NoUploadUnasked' /\ SilentBefore' /\ ShareAsked'
    BY DEF IInv, NoUploadUnasked, SilentBefore, ShareAsked, vars
  <1>5. Loads(cfg)' /\ inv' \in Invocations /\ pc' \in Places
    BY DEF IInv, Loads, Validate, Places, vars
  <1> QED
    BY <1>2, <1>3, <1>4, <1>5 DEF IInv

(* The invariant holds throughout.                                           *)
LEMMA Invariance == Spec => []IInv
  <1>1. IInv /\ [Next]_vars => IInv'
    BY PreRunKeeps, AnalysisKeeps, DiffKeeps, HtmlKeeps, EmitKeeps, ShareKeeps, ExitKeeps,
       StutterKeeps, Zenon DEF Next
  <1> QED
    BY InitInv, <1>1, PTL DEF Spec

(* checkFailOn, as a CI gate: for every chart, flags and configuration whose *)
(* filter hides nothing at or above the threshold, analyze exits with 1      *)
(* exactly when a detector finds a workload at or above it.                  *)
THEOREM GateIsSound == Spec => []GateSound
  <1>1. IInv => GateSound
    BY DEF IInv
  <1> QED
    BY Invariance, <1>1, PTL

(* checkFailOn and Config.Validate: once the report is written, only the     *)
(* word given as threshold is refused, and a validated configuration is      *)
(* refused for "medium" alone.                                               *)
THEOREM RefusalIsAboutTheWord == Spec => []LateRefusal
  <1>1. IInv => LateRefusal
    BY DEF IInv
  <1> QED
    BY Invariance, <1>1, PTL

(* share.Upload: whatever happens to the writes, an upload was asked for,    *)
(* was shown first and does not carry the path of the chart.                 *)
THEOREM UploadIsAsked == Spec => []NoUploadUnasked
  <1>1. IInv => NoUploadUnasked
    BY DEF IInv
  <1> QED
    BY Invariance, <1>1, PTL

-----------------------------------------------------------------------------
(* A parsed quantity is a natural number, or not there.                      *)
LEMMA ParsedQuantity ==
  ASSUME NEW t
  PROVE  ParseCPU(t) \in Nat \cup {Nil} /\ ParseMemory(t) \in Nat \cup {Nil}
  <1>1. ParseCPU(t) \in Nat \cup {Nil}
    BY DEF ParseCPU
  <1>2. \A form \in DOMAIN splitMemorySuffix : splitMemorySuffix[form] \in Nat
    BY DEF splitMemorySuffix
  <1>3. ParseMemory(t) \in Nat \cup {Nil}
    BY <1>2 DEF ParseMemory
  <1> QED
    BY <1>1, <1>3

(* What a finding of a workload says about that workload, by its name.       *)
Means(f, w) ==
  /\ f.id = "cpu-overprovisioned" => Overprovisioned(w.reqCPU, w.limCPU) /\ f \in cpuOverprovisioned(w)
  /\ f.id = "memory-overprovisioned" => Overprovisioned(w.reqMem, w.limMem) /\ f \in memoryOverprovisioned(w)
  /\ f.id = "cpu-limit-far-above-request" => FarAbove(w.reqCPU, w.limCPU)
  /\ f.id = "memory-limit-far-above-request" => FarAbove(w.reqMem, w.limMem)
  /\ f.id = "image-pinned-latest" => w.image \in {"", "latest"}
  /\ f.id = "unbounded-image-tag" => w.image \in floatingTags
  /\ f.id = "replicas-too-high" => w.replicas > 5
  /\ f.id = "idle-workload" => w.replicas = 0
  /\ f.id = "missing-memory-limit" => w.limMem = Nil
  /\ f.id = "oversized-memory-limit" => w.limMem # Nil
  /\ f.id = "cpu-without-memory-request" => w.reqMem = Nil
  /\ f.id = "memory-without-cpu-request" => w.reqMem # Nil

(* Every detector's finding means what its name says.                        *)
LEMMA FindingMeans == ASSUME NEW w, NEW f \in All(w) PROVE Means(f, w)
  <1>1. CASE f \in cpuOverprovisioned(w)
    <2>1. f.id = "cpu-overprovisioned" /\ Overprovisioned(w.reqCPU, w.limCPU)
      BY <1>1 DEF cpuOverprovisioned, Finding
    <2> QED
      BY <1>1, <2>1 DEF Means
  <1>2. CASE f \in memoryOverprovisioned(w)
    <2>1. f.id = "memory-overprovisioned" /\ Overprovisioned(w.reqMem, w.limMem)
      BY <1>2 DEF memoryOverprovisioned, Finding
    <2> QED
      BY <1>2, <2>1 DEF Means
  <1>3. CASE f \in cpuLimitFarAboveRequest(w)
    <2>1. f.id = "cpu-limit-far-above-request" /\ FarAbove(w.reqCPU, w.limCPU)
      BY <1>3 DEF cpuLimitFarAboveRequest, Cost, Finding
    <2> QED
      BY <2>1 DEF Means
  <1>4. CASE f \in memoryLimitFarAboveRequest(w)
    <2>1. f.id = "memory-limit-far-above-request" /\ FarAbove(w.reqMem, w.limMem)
      BY <1>4 DEF memoryLimitFarAboveRequest, Cost, Finding
    <2> QED
      BY <2>1 DEF Means
  <1>5. CASE f \in oversizedMemoryLimit(w)
    <2>1. f.id = "oversized-memory-limit" /\ w.limMem # Nil
      BY <1>5 DEF oversizedMemoryLimit, Cost, Finding
    <2> QED
      BY <2>1 DEF Means
  <1>6. CASE f \in replicasTooHigh(w)
    <2>1. f.id = "replicas-too-high" /\ w.replicas > 5
      BY <1>6 DEF replicasTooHigh, Cost, Finding
    <2> QED
      BY <2>1 DEF Means
  <1>7. CASE f \in unboundedImageTag(w)
    <2>1. f.id = "unbounded-image-tag" /\ w.image \in floatingTags
      BY <1>7 DEF unboundedImageTag, Cost, Finding
    <2> QED
      BY <2>1 DEF Means
  <1>8. CASE f \in cpuWithoutMemoryRequest(w)
    <2>1. f.id = "cpu-without-memory-request" /\ w.reqMem = Nil
      BY <1>8 DEF cpuWithoutMemoryRequest, Cost, Finding
    <2> QED
      BY <2>1 DEF Means
  <1>9. CASE f \in memoryWithoutCPURequest(w)
    <2>1. f.id = "memory-without-cpu-request" /\ w.reqMem # Nil
      BY <1>9 DEF memoryWithoutCPURequest, Cost, Finding
    <2> QED
      BY <2>1 DEF Means
  <1>10. CASE f \in idleWorkload(w)
    <2>1. f.id = "idle-workload" /\ w.replicas = 0
      BY <1>10 DEF idleWorkload, Finding
    <2> QED
      BY <2>1 DEF Means
  <1>11. CASE f \in missingMemoryLimit(w)
    <2>1. f.id = "missing-memory-limit" /\ w.limMem = Nil
      BY <1>11 DEF missingMemoryLimit, Security, Finding
    <2> QED
      BY <2>1 DEF Means
  <1>12. CASE f \in imagePinnedLatest(w)
    <2> DEFINE fires == w.image # Nil /\ w.image \in {"", "latest"}
    <2>0. f \in Security(fires, "image-pinned-latest", "MED")
      BY <1>12 DEF imagePinnedLatest
    <2> HIDE DEF fires
    <2>1. f.id = "image-pinned-latest"
      BY <2>0 DEF Security, Finding
    <2>2. w.image \in {"", "latest"}
      BY <1>12, Zenon DEF imagePinnedLatest, Security, Finding
    <2> QED
      BY <2>1, <2>2 DEF Means
  <1>13. f \in oversizedCPULimit(w) => f.id = "oversized-cpu-limit"
    BY DEF oversizedCPULimit, Cost, Finding
  <1>14. f \in excessiveReplicaCount(w) => f.id = "excessive-replica-count"
    BY DEF excessiveReplicaCount, Cost, Finding
  <1>15. f \in cpuRequestEqualsLimit(w) => f.id = "cpu-request-equals-limit"
    BY DEF cpuRequestEqualsLimit, Cost, Finding
  <1>16. f \in memoryRequestEqualsLimit(w) => f.id = "memory-request-equals-limit"
    BY DEF memoryRequestEqualsLimit, Cost, Finding
  <1>17. f \in tinyCPURequest(w) => f.id = "tiny-cpu-request"
    BY DEF tinyCPURequest, Cost, Finding
  <1>18. f \in tinyMemoryRequest(w) => f.id = "tiny-memory-request"
    BY DEF tinyMemoryRequest, Cost, Finding
  <1>19. f \in missingCPULimit(w) => f.id = "missing-cpu-limit"
    BY DEF missingCPULimit, Security, Finding
  <1>20. f \in runAsRoot(w) => f.id = "run-as-root"
    BY DEF runAsRoot, Posture, Security, Finding
  <1>21. f \in runsAsUIDZero(w) => f.id = "runs-as-uid-zero"
    BY DEF runsAsUIDZero, Security, Finding
  <1>22. f \in privilegedContainer(w) => f.id = "privileged-container"
    BY DEF privilegedContainer, Security, Finding
  <1>23. f \in hostNetwork(w) => f.id = "host-network"
    BY DEF hostNetwork, Security, Finding
  <1>24. f \in hostPID(w) => f.id = "host-pid"
    BY DEF hostPID, Security, Finding
  <1>25. f \in hostIPC(w) => f.id = "host-ipc"
    BY DEF hostIPC, Security, Finding
  <1>26. f \in readOnlyRootFSMissing(w) => f.id = "read-only-root-fs-missing"
    BY DEF readOnlyRootFSMissing, Posture, Security, Finding
  <1>27. f \in allowPrivilegeEscalation(w) => f.id = "allow-privilege-escalation"
    BY DEF allowPrivilegeEscalation, Posture, Security, Finding
  <1>28. f \in hostPathVolume(w) => f.id = "host-path-volume"
    BY DEF hostPathVolume, Security, Finding
  <1>29. f \in dangerousCapabilityAdded(w) => f.id = "dangerous-capability-added"
    BY DEF dangerousCapabilityAdded, Security, Finding
  <1>30. f \in capabilitiesNotDroppedAll(w) => f.id = "capabilities-not-dropped-all"
    BY DEF capabilitiesNotDroppedAll, Security, Finding
  <1>31. f \in serviceAccountTokenAutomount(w) => f.id = "service-account-token-automount"
    BY DEF serviceAccountTokenAutomount, Posture, Security, Finding
  <1>32. ASSUME f.id \in
           {"oversized-cpu-limit", "excessive-replica-count", "cpu-request-equals-limit",
            "memory-request-equals-limit", "tiny-cpu-request", "tiny-memory-request",
            "missing-cpu-limit", "run-as-root", "runs-as-uid-zero",
            "privileged-container", "host-network", "host-pid",
            "host-ipc", "read-only-root-fs-missing", "allow-privilege-escalation",
            "host-path-volume", "dangerous-capability-added", "capabilities-not-dropped-all",
            "service-account-token-automount"}
        PROVE  Means(f, w)
    BY <1>32 DEF Means
  <1>33. \/ f \in cpuOverprovisioned(w) \/ f \in memoryOverprovisioned(w) \/ f \in cpuLimitFarAboveRequest(w)
         \/ f \in memoryLimitFarAboveRequest(w) \/ f \in oversizedCPULimit(w) \/ f \in oversizedMemoryLimit(w)
         \/ f \in replicasTooHigh(w) \/ f \in excessiveReplicaCount(w) \/ f \in unboundedImageTag(w)
         \/ f \in cpuWithoutMemoryRequest(w) \/ f \in memoryWithoutCPURequest(w) \/ f \in cpuRequestEqualsLimit(w)
         \/ f \in memoryRequestEqualsLimit(w) \/ f \in tinyCPURequest(w) \/ f \in tinyMemoryRequest(w)
         \/ f \in idleWorkload(w) \/ f \in missingCPULimit(w) \/ f \in missingMemoryLimit(w)
         \/ f \in imagePinnedLatest(w) \/ f \in runAsRoot(w) \/ f \in runsAsUIDZero(w)
         \/ f \in privilegedContainer(w) \/ f \in hostNetwork(w) \/ f \in hostPID(w)
         \/ f \in hostIPC(w) \/ f \in readOnlyRootFSMissing(w) \/ f \in allowPrivilegeEscalation(w)
         \/ f \in hostPathVolume(w) \/ f \in dangerousCapabilityAdded(w) \/ f \in capabilitiesNotDroppedAll(w)
         \/ f \in serviceAccountTokenAutomount(w)
    BY DEF All
  <1> QED
    BY <1>1, <1>2, <1>3, <1>4, <1>5, <1>6, <1>7, <1>8, <1>9, <1>10, <1>11, <1>12, <1>13,
       <1>14, <1>15, <1>16, <1>17, <1>18, <1>19, <1>20, <1>21, <1>22, <1>23, <1>24, <1>25,
       <1>26, <1>27, <1>28, <1>29, <1>30, <1>31, <1>32, <1>33

(* Lowering a request and raising it are never both advised.                 *)
LEMMA BetweenThresholds ==
  ASSUME NEW req \in Nat \cup {Nil}, NEW lim \in Nat \cup {Nil}
  PROVE  ~(Overprovisioned(req, lim) /\ FarAbove(req, lim))
  BY DEF Overprovisioned, FarAbove, limitBurstRatio

(* A request of a workload as it was, or its half, which is neither too      *)
(* close to the limit nor too far below it.                                  *)
Settled(r, half, lim) ==
  \/ half = r
  \/ /\ r \in Nat /\ half \in Nat /\ half > 0 /\ 2 * half = r
     /\ lim \in Nat /\ half # lim
     /\ ~Overprovisioned(half, lim) /\ ~FarAbove(half, lim)

(* A request above half of its limit, and within it, can be halved once.     *)
LEMMA HalfSettles ==
  ASSUME NEW req \in Nat \cup {Nil}, NEW lim \in Nat \cup {Nil},
         Overprovisioned(req, lim), Halvable(req, lim)
  PROVE  /\ req - (req \div 2) = req \div 2
         /\ Settled(req, req \div 2, lim)
         /\ ~Overprovisioned(req \div 2, lim)
  <1>1. req \in Nat /\ lim \in Nat /\ 2 * req > lim /\ req <= lim /\ req % 2 = 0
    BY DEF Overprovisioned, Halvable
  <1>2. PICK h \in Nat : h = req \div 2 /\ 2 * h = req
    BY <1>1
  <1>3. h > 0 /\ h # lim /\ 2 * h <= lim /\ lim <= 4 * h
    BY <1>1, <1>2
  <1>4. ~Overprovisioned(h, lim) /\ ~FarAbove(h, lim)
    BY <1>1, <1>3 DEF Overprovisioned, FarAbove, limitBurstRatio
  <1>5. Settled(req, h, lim)
    BY <1>1, <1>2, <1>3, <1>4 DEF Settled
  <1> QED
    BY <1>1, <1>2, <1>4, <1>5

(* v is w with requests that have settled.                                   *)
Eased(w, v) ==
  /\ v.limCPU = w.limCPU /\ v.limMem = w.limMem
  /\ v.image = w.image /\ v.replicas = w.replicas /\ v.hasHPA = w.hasHPA /\ v.sec = w.sec
  /\ Settled(w.reqCPU, v.reqCPU, w.limCPU)
  /\ Settled(w.reqMem, v.reqMem, w.limMem)

(* Halved requests bring in no finding but that they are tiny now.           *)
LEMMA EasedKeeps ==
  ASSUME NEW w, NEW v, Eased(w, v)
  PROVE  Ids(All(v)) \subseteq Ids(All(w)) \cup NearTiny(w)
  <1>1. /\ oversizedCPULimit(v) = oversizedCPULimit(w)
        /\ oversizedMemoryLimit(v) = oversizedMemoryLimit(w)
        /\ replicasTooHigh(v) = replicasTooHigh(w)
        /\ excessiveReplicaCount(v) = excessiveReplicaCount(w)
        /\ unboundedImageTag(v) = unboundedImageTag(w) /\ idleWorkload(v) = idleWorkload(w)
    BY DEF Eased, oversizedCPULimit, oversizedMemoryLimit, replicasTooHigh,
         excessiveReplicaCount, unboundedImageTag, idleWorkload
  <1>2. /\ imagePinnedLatest(v) = imagePinnedLatest(w) /\ runAsRoot(v) = runAsRoot(w)
        /\ runsAsUIDZero(v) = runsAsUIDZero(w) /\ privilegedContainer(v) = privilegedContainer(w)
        /\ hostNetwork(v) = hostNetwork(w) /\ hostPID(v) = hostPID(w) /\ hostIPC(v) = hostIPC(w)
    BY DEF Eased, imagePinnedLatest, runAsRoot, runsAsUIDZero, privilegedContainer,
         hostNetwork, hostPID, hostIPC
  <1>3. /\ readOnlyRootFSMissing(v) = readOnlyRootFSMissing(w)
        /\ allowPrivilegeEscalation(v) = allowPrivilegeEscalation(w)
        /\ hostPathVolume(v) = hostPathVolume(w)
        /\ dangerousCapabilityAdded(v) = dangerousCapabilityAdded(w)
        /\ capabilitiesNotDroppedAll(v) = capabilitiesNotDroppedAll(w)
        /\ serviceAccountTokenAutomount(v) = serviceAccountTokenAutomount(w)
    BY DEF Eased, readOnlyRootFSMissing, allowPrivilegeEscalation, hostPathVolume,
         dangerousCapabilityAdded, capabilitiesNotDroppedAll, serviceAccountTokenAutomount
  <1>4. (v.reqCPU = Nil <=> w.reqCPU = Nil) /\ (v.reqMem = Nil <=> w.reqMem = Nil)
    BY NilAssumption DEF Eased, Settled
  <1>5. /\ cpuWithoutMemoryRequest(v) = cpuWithoutMemoryRequest(w)
        /\ memoryWithoutCPURequest(v) = memoryWithoutCPURequest(w)
        /\ missingCPULimit(v) = missingCPULimit(w)
        /\ missingMemoryLimit(v) = missingMemoryLimit(w)
    BY <1>4 DEF Eased, cpuWithoutMemoryRequest, memoryWithoutCPURequest, missingCPULimit,
         missingMemoryLimit, Cost, Security, Finding
  <1>6. /\ cpuOverprovisioned(v) \subseteq cpuOverprovisioned(w)
        /\ cpuLimitFarAboveRequest(v) \subseteq cpuLimitFarAboveRequest(w)
        /\ cpuRequestEqualsLimit(v) \subseteq cpuRequestEqualsLimit(w)
    BY DEF Eased, Settled, cpuOverprovisioned, cpuLimitFarAboveRequest, cpuRequestEqualsLimit,
         Cost, Finding
  <1>7. /\ memoryOverprovisioned(v) \subseteq memoryOverprovisioned(w)
        /\ memoryLimitFarAboveRequest(v) \subseteq memoryLimitFarAboveRequest(w)
        /\ memoryRequestEqualsLimit(v) \subseteq memoryRequestEqualsLimit(w)
    BY DEF Eased, Settled, memoryOverprovisioned, memoryLimitFarAboveRequest,
         memoryRequestEqualsLimit, Cost, Finding
  <1>8. ASSUME NEW f \in tinyCPURequest(v) PROVE f \in tinyCPURequest(w) \/ f.id \in NearTiny(w)
    <2>1. f.id = "tiny-cpu-request" /\ v.reqCPU \in 1..9
      BY DEF tinyCPURequest, Cost, Finding
    <2>2. CASE v.reqCPU = w.reqCPU
      BY <2>2 DEF tinyCPURequest
    <2>3. CASE v.reqCPU # w.reqCPU
      <3>1. w.reqCPU \in 1..19 /\ w.reqCPU # Nil
        BY <2>1, <2>3, NilAssumption DEF Eased, Settled
      <3> QED
        BY <2>1, <3>1 DEF NearTiny
    <2> QED
      BY <2>2, <2>3
  <1>9. ASSUME NEW f \in tinyMemoryRequest(v) PROVE f \in tinyMemoryRequest(w) \/ f.id \in NearTiny(w)
    <2>1. f.id = "tiny-memory-request" /\ v.reqMem \in 1..31
      BY DEF tinyMemoryRequest, Cost, Finding
    <2>2. CASE v.reqMem = w.reqMem
      BY <2>2 DEF tinyMemoryRequest
    <2>3. CASE v.reqMem # w.reqMem
      <3>1. w.reqMem \in 1..63 /\ w.reqMem # Nil
        BY <2>1, <2>3, NilAssumption DEF Eased, Settled
      <3> QED
        BY <2>1, <3>1 DEF NearTiny
    <2> QED
      BY <2>2, <2>3
  <1>10. \A f \in All(v) : f \in All(w) \/ f \in tinyCPURequest(v) \/ f \in tinyMemoryRequest(v)
    BY <1>1, <1>2, <1>3, <1>5, <1>6, <1>7, Zenon DEF All
  <1>11. \A f : f \in tinyCPURequest(w) \/ f \in tinyMemoryRequest(w) => f \in All(w)
    BY Zenon DEF All
  <1> QED
    BY <1>8, <1>9, <1>10, <1>11 DEF Ids

(* Findings only come from the detectors on the invocation's own chart.      *)
FindingsFound == Reported => rep.findings \subseteq Run(ParseValues(inv.chart))

(* Filtering and roasting add no finding.                                    *)
LEMMA FoundStep == FindingsFound /\ [Next]_vars => FindingsFound'
  <1> SUFFICES ASSUME FindingsFound, [Next]_vars PROVE FindingsFound'
    OBVIOUS
  <1>1. CASE UNCHANGED <<inv, rep>>
    BY <1>1 DEF FindingsFound, Reported
  <1>2. CASE Analysis
    <2>1. Filtered \subseteq Run(ParseValues(inv.chart))
      BY DEF Filtered, Filter
    <2>2. inv' = inv
      BY <1>2 DEF Analysis
    <2>3. CASE rep' = rep
      BY <2>2, <2>3 DEF FindingsFound, Reported
    <2>4. CASE rep' # rep
      <3> DEFINE r == [source |-> inv.source, findings |-> Filtered, roast |-> FALSE]
      <3>1. rep' = r \/ rep' = Apply(r)
        BY <1>2, <2>4 DEF Analysis
      <3>2. rep'.findings = Filtered
        <4>1. r.findings = Filtered /\ Apply(r).findings = Filtered
          BY DEF Apply
        <4> QED
          BY <3>1, <4>1
      <3> QED
        BY <3>2, <2>1, <2>2 DEF FindingsFound
    <2> QED
      BY <2>3, <2>4
  <1>3. CASE DiffPaths
    <2>1. inv' = inv /\ (rep' = rep \/ \E e : rep' = [entries |-> e])
      BY <1>3 DEF DiffPaths
    <2>2. \A e : "findings" \notin DOMAIN [entries |-> e]
      OBVIOUS
    <2> QED
      BY <2>1, <2>2 DEF FindingsFound, Reported
  <1>4. ASSUME PreRun \/ writeHTMLReport \/ emitReport \/ emitShareURL \/ Exit
        PROVE  UNCHANGED <<inv, rep>>
    BY <1>4 DEF PreRun, writeHTMLReport, emitReport, emitShareURL, Exit
  <1> QED
    BY <1>1, <1>2, <1>3, <1>4 DEF Next, vars

(* What the advice shown makes of a workload of the chart.                   *)
LEMMA FollowSettles ==
  ASSUME NEW b, NEW shown, Followable(Workload(b), shown),
         "cpu-overprovisioned" \in shown => Overprovisioned(Workload(b).reqCPU, Workload(b).limCPU),
         "memory-overprovisioned" \in shown => Overprovisioned(Workload(b).reqMem, Workload(b).limMem)
  PROVE  LET v == Follow(Workload(b), shown)
         IN  /\ Eased(Workload(b), v)
             /\ "cpu-overprovisioned" \in shown => ~Overprovisioned(v.reqCPU, v.limCPU)
             /\ "memory-overprovisioned" \in shown => ~Overprovisioned(v.reqMem, v.limMem)
  <1> DEFINE w == Workload(b)
             v == Follow(w, shown)
             cpu == IF "cpu-overprovisioned" \in shown THEN w.reqCPU - (w.reqCPU \div 2) ELSE w.reqCPU
             mem == IF "memory-overprovisioned" \in shown THEN w.reqMem \div 2 ELSE w.reqMem
  <1>1. /\ w.reqCPU \in Nat \cup {Nil} /\ w.limCPU \in Nat \cup {Nil}
        /\ w.reqMem \in Nat \cup {Nil} /\ w.limMem \in Nat \cup {Nil}
    BY ParsedQuantity DEF Workload
  <1>2. /\ v.reqCPU = cpu /\ v.reqMem = mem
        /\ v.limCPU = w.limCPU /\ v.limMem = w.limMem
        /\ v.image = w.image /\ v.replicas = w.replicas /\ v.hasHPA = w.hasHPA /\ v.sec = w.sec
    BY DEF Follow, Workload
  <1>3. /\ "cpu-overprovisioned" \in shown => Overprovisioned(w.reqCPU, w.limCPU) /\ Halvable(w.reqCPU, w.limCPU)
        /\ "memory-overprovisioned" \in shown => Overprovisioned(w.reqMem, w.limMem) /\ Halvable(w.reqMem, w.limMem)
    BY DEF Followable
  <1> HIDE DEF w, v
  <1>4. /\ Settled(w.reqCPU, cpu, w.limCPU)
        /\ "cpu-overprovisioned" \in shown => ~Overprovisioned(cpu, w.limCPU)
    <2>1. CASE "cpu-overprovisioned" \in shown
      BY <1>1, <1>3, <2>1, HalfSettles
    <2>2. CASE "cpu-overprovisioned" \notin shown
      BY <2>2 DEF Settled
    <2> QED
      BY <2>1, <2>2
  <1>5. /\ Settled(w.reqMem, mem, w.limMem)
        /\ "memory-overprovisioned" \in shown => ~Overprovisioned(mem, w.limMem)
    <2>1. CASE "memory-overprovisioned" \in shown
      BY <1>1, <1>3, <2>1, HalfSettles
    <2>2. CASE "memory-overprovisioned" \notin shown
      BY <2>2 DEF Settled
    <2> QED
      BY <2>1, <2>2
  <1> HIDE DEF cpu, mem
  <1>6. Eased(w, v)
    BY <1>2, <1>4, <1>5 DEF Eased
  <1>7. /\ "cpu-overprovisioned" \in shown => ~Overprovisioned(v.reqCPU, v.limCPU)
        /\ "memory-overprovisioned" \in shown => ~Overprovisioned(v.reqMem, v.limMem)
    BY <1>2, <1>4, <1>5
  <1> QED
    BY <1>6, <1>7 DEF w, v

(* For any chart and any filter, requests within their limits that are       *)
(* halved as the report advises lose those findings and gain none but that a *)
(* request below twice a placeholder's size is tiny now.                     *)
THEOREM AdviceIsSettled == Spec => []AdviceSettles
  <1>1. Init => FindingsFound
    BY DEF Init, FindingsFound, Reported
  <1>2. FindingsFound => AdviceSettles
    <2> DEFINE workloads == ParseValues(inv.chart)
    <2> SUFFICES ASSUME FindingsFound, Reported, NEW i \in DOMAIN workloads,
                        Followable(workloads[i], ShownAt(i))
                 PROVE  Ids(All(Follow(workloads[i], ShownAt(i))))
                          \subseteq (Ids(All(workloads[i])) \ (ShownAt(i) \cap Advised))
                                    \cup NearTiny(workloads[i])
      BY DEF AdviceSettles
    <2>1. \A id \in ShownAt(i) : \E f \in All(workloads[i]) : f.id = id
      <3> SUFFICES ASSUME NEW id \in ShownAt(i) PROVE \E f \in All(workloads[i]) : f.id = id
        OBVIOUS
      <3>1. PICK g \in rep.findings : g.at = i /\ g.finding.id = id
        BY DEF ShownAt, Ids
      <3>2. PICK j \in DOMAIN workloads : \E h \in All(workloads[j]) : g = [at |-> j, finding |-> h]
        BY DEF FindingsFound, Run
      <3> QED
        BY <3>1, <3>2
    <2>2. PICK b : workloads[i] = Workload(b)
      BY DEF ParseValues
    <2> HIDE DEF workloads
    <2> DEFINE w == workloads[i]
               v == Follow(w, ShownAt(i))
    <2>3. /\ "cpu-overprovisioned" \in ShownAt(i) => Overprovisioned(w.reqCPU, w.limCPU)
          /\ "memory-overprovisioned" \in ShownAt(i) => Overprovisioned(w.reqMem, w.limMem)
      BY <2>1, FindingMeans DEF Means
    <2>4. /\ Eased(w, v)
          /\ "cpu-overprovisioned" \in ShownAt(i) => ~Overprovisioned(v.reqCPU, v.limCPU)
          /\ "memory-overprovisioned" \in ShownAt(i) => ~Overprovisioned(v.reqMem, v.limMem)
      BY <2>2, <2>3, FollowSettles
    <2> HIDE DEF w, v
    <2>5. Ids(All(v)) \subseteq Ids(All(w)) \cup NearTiny(w)
      BY <2>4, EasedKeeps
    <2>6. ASSUME NEW f \in All(v), f.id \in Advised, f.id \in ShownAt(i) PROVE FALSE
      <3>1. Means(f, v)
        BY FindingMeans
      <3> QED
        BY <2>4, <2>6, <3>1 DEF Means, Advised
    <2>7. Ids(All(v)) \subseteq (Ids(All(w)) \ (ShownAt(i) \cap Advised)) \cup NearTiny(w)
      BY <2>5, <2>6 DEF Ids
    <2> QED
      BY <2>7 DEF w, v
  <1> QED
    BY <1>1, <1>2, FoundStep, PTL DEF Spec

-----------------------------------------------------------------------------
(* A set of numbers that is not empty has a least one.                       *)
LEMMA LeastNat ==
  ASSUME NEW T \in SUBSET Nat, T # {}
  PROVE  \E m \in T : \A k \in T : m <= k
  <1> DEFINE R == OpToRel(<, Nat)
  <1>1. IsWellFoundedOn(R, Nat)
    BY NatLessThanWellFounded
  <1>2. \A x, y \in Nat : <<y, x>> \in R <=> y < x
    BY DEF OpToRel
  <1> HIDE DEF R
  <1>3. PICK m \in T : \A y \in T : ~(<<y, m>> \in R)
    BY <1>1, WFMin
  <1>4. \A y \in T : y \in Nat /\ m \in Nat
    OBVIOUS
  <1>5. \A y \in T : ~(y < m)
    BY <1>2, <1>3, <1>4, Zenon
  <1> QED
    BY <1>4, <1>5

(* Induction over a finite set: Good holds its subsets of which something is *)
(* true.                                                                     *)
LEMMA BySubset ==
  ASSUME NEW T, IsFiniteSet(T), NEW Good,
         \A s \in SUBSET T : (\A x \in s : s \ {x} \in Good) => s \in Good
  PROVE  T \in Good
  <1> DEFINE Bad == {s \in SUBSET T : s \notin Good}
             N == {Cardinality(s) : s \in Bad}
  <1> SUFFICES ASSUME Bad # {} PROVE FALSE
    BY Zenon
  <1>1. \A s \in SUBSET T : IsFiniteSet(s) /\ Cardinality(s) \in Nat
    BY FS_Subset, FS_CardinalityType
  <1>2. N \in SUBSET Nat /\ N # {}
    BY <1>1
  <1>3. PICK m \in N : \A k \in N : m <= k
    BY <1>2, LeastNat
  <1>4. PICK s \in Bad : m = Cardinality(s)
    BY <1>3
  <1>5. \A x \in s : s \ {x} \in SUBSET T /\ Cardinality(s \ {x}) = Cardinality(s) - 1
    BY <1>1, <1>4, FS_RemoveElement
  <1>6. \A x \in s : s \ {x} \notin Bad
    <2> SUFFICES ASSUME NEW x \in s, s \ {x} \in Bad PROVE FALSE
      OBVIOUS
    <2>1. Cardinality(s \ {x}) \in N
      OBVIOUS
    <2> QED
      BY <2>1, <1>1, <1>3, <1>4, <1>5
  <1> QED
    BY <1>4, <1>5, <1>6

Pick(s) == CHOOSE x \in s : TRUE

(* The function by which the sums over the subsets of S are defined, and the *)
(* start of it, for sets of up to n members.                                 *)
IsIter(g, f, S) ==
  g = [s \in SUBSET S |-> IF s = {} THEN 0 ELSE f[Pick(s)] + g[s \ {Pick(s)}]]

Small(S, n) == {s \in SUBSET S : Cardinality(s) <= n}

IsStart(g, f, S, n) ==
  g = [s \in Small(S, n) |-> IF s = {} THEN 0 ELSE f[Pick(s)] + g[s \ {Pick(s)}]]

(* The fold over S is what that function gives for S.                        *)
LEMMA SumIs == ASSUME NEW f, NEW S
               PROVE  SumFunctionOnSet(f, S) = (CHOOSE g : IsIter(g, f, S))[S]
  BY Zenon DEF SumFunctionOnSet, FoldFunctionOnSet, MapThenFoldSet, IsIter, Pick

(* Pick takes a member.                                                      *)
LEMMA Picked == \A s : s # {} => Pick(s) \in s
  BY Zenon DEF Pick

(* It exists for a finite S.                                                 *)
LEMMA IterExists ==
  ASSUME NEW f, NEW S, IsFiniteSet(S)
  PROVE  \E g : IsIter(g, f, S)
  <1> DEFINE n == Cardinality(S)
             Ok == {k \in 0..n : \E g : IsStart(g, f, S, k)}
  <1>1. \A s \in SUBSET S : IsFiniteSet(s) /\ Cardinality(s) \in Nat /\ Cardinality(s) <= n
    BY FS_Subset, FS_CardinalityType
  <1>2. n \in Nat
    BY FS_CardinalityType
  <1>3. ASSUME NEW s \in SUBSET S, s # {}
        PROVE  s \ {Pick(s)} \in SUBSET S /\ Cardinality(s \ {Pick(s)}) = Cardinality(s) - 1
    BY <1>1, <1>3, Picked, FS_RemoveElement
  <1>4. 0 \in Ok
    <2> DEFINE g == [s \in Small(S, 0) |-> 0]
    <2>1. \A s \in Small(S, 0) : s = {}
      BY <1>1, FS_EmptySet DEF Small
    <2>2. IsStart(g, f, S, 0)
      BY <2>1 DEF IsStart
    <2> QED
      BY <2>2, <1>2
  <1>5. ASSUME NEW k \in 1..n, k - 1 \in Ok PROVE k \in Ok
    <2>1. PICK g : IsStart(g, f, S, k - 1)
      BY <1>5
    <2> DEFINE h == [s \in Small(S, k) |-> IF s = {} THEN 0 ELSE f[Pick(s)] + g[s \ {Pick(s)}]]
    <2>2. \A s \in Small(S, k - 1) : s \in Small(S, k) /\ h[s] = g[s]
      <3>1. \A s \in Small(S, k - 1) : s \in Small(S, k)
        BY <1>1 DEF Small
      <3> QED
        BY <3>1, <2>1 DEF IsStart
    <2>3. \A s \in Small(S, k) : s # {} => s \ {Pick(s)} \in Small(S, k - 1)
      BY <1>1, <1>3 DEF Small
    <2>4. IsStart(h, f, S, k)
      BY <2>2, <2>3 DEF IsStart
    <2> QED
      BY <2>4
  <1>6. n \in Ok
    <2> DEFINE T == {k \in 0..n : k \notin Ok}
    <2> SUFFICES ASSUME T # {} PROVE FALSE
      BY <1>2
    <2> HIDE DEF Ok, n
    <2>0. T \in SUBSET Nat
      BY <1>2
    <2>1. PICK m \in T : \A k \in T : m <= k
      BY <2>0, LeastNat
    <2>2. m # 0 /\ m - 1 \in 0..n
      BY <2>1, <1>2, <1>4
    <2>3. m - 1 \in Ok
      BY <2>1, <2>2
    <2> QED
      BY <2>2, <2>3, <1>5
  <1>7. Small(S, n) = SUBSET S
    BY <1>1 DEF Small
  <1> QED
    BY <1>6, <1>7 DEF IsStart, IsIter

(* What the sum over a subset is does not depend on the set around it.       *)
LEMMA IterIs ==
  ASSUME NEW f, NEW S, IsFiniteSet(S), NEW g, IsIter(g, f, S)
  PROVE  \A T \in SUBSET S : SumFunctionOnSet(f, T) = g[T]
  <1> SUFFICES ASSUME NEW T \in SUBSET S PROVE SumFunctionOnSet(f, T) = g[T]
    OBVIOUS
  <1>1. IsFiniteSet(T)
    BY FS_Subset
  <1>2. PICK h : h = CHOOSE k : IsIter(k, f, T)
    OBVIOUS
  <1>3. IsIter(h, f, T)
    BY <1>1, <1>2, IterExists
  <1> DEFINE Good == {s \in SUBSET T : h[s] = g[s]}
  <1>4. ASSUME NEW s \in SUBSET T, \A x \in s : s \ {x} \in Good PROVE s \in Good
    <2>1. CASE s = {}
      BY <2>1, <1>3 DEF IsIter
    <2>2. CASE s # {}
      <3>1. h[s \ {Pick(s)}] = g[s \ {Pick(s)}]
        BY <2>2, <1>4, Picked
      <3> QED
        BY <3>1, <2>2, <1>3 DEF IsIter
    <2> QED
      BY <2>1, <2>2
  <1>5. T \in Good
    BY <1>1, <1>4, BySubset
  <1> QED
    BY <1>2, <1>5, SumIs

(* Numbers at the members of S.                                              *)
Ints(f, S) == \A x \in S : f[x] \in Int

(* The sum over nothing.                                                     *)
LEMMA SumEmpty == \A f : SumFunctionOnSet(f, {}) = 0
  <1> SUFFICES ASSUME NEW f PROVE SumFunctionOnSet(f, {}) = 0
    OBVIOUS
  <1>0. IsFiniteSet({})
    BY FS_EmptySet
  <1>1. PICK g : IsIter(g, f, {})
    BY <1>0, IterExists
  <1>2. SumFunctionOnSet(f, {}) = g[{}]
    BY <1>0, <1>1, IterIs
  <1>3. g[{}] = 0
    BY <1>1 DEF IsIter
  <1> QED
    BY <1>2, <1>3

(* A sum can be taken in any order.                                          *)
LEMMA SumTake ==
  ASSUME NEW f, NEW S, IsFiniteSet(S), Ints(f, S)
  PROVE  /\ SumFunctionOnSet(f, S) \in Int
         /\ \A x \in S : SumFunctionOnSet(f, S) = f[x] + SumFunctionOnSet(f, S \ {x})
  <1>1. PICK g : IsIter(g, f, S)
    BY IterExists
  <1>2. \A T \in SUBSET S : SumFunctionOnSet(f, T) = g[T]
    BY <1>1, IterIs
  <1> DEFINE Good == {s \in SUBSET S : /\ g[s] \in Int
                                       /\ \A x \in s : g[s \ {x}] \in Int /\ g[s] = f[x] + g[s \ {x}]}
  <1>3. ASSUME NEW s \in SUBSET S, \A x \in s : s \ {x} \in Good PROVE s \in Good
    <2>0. \A x \in s : f[x] \in Int /\ g[s \ {x}] \in Int
      BY <1>3 DEF Ints
    <2>1. CASE s = {}
      BY <2>1, <1>1 DEF IsIter
    <2>2. CASE s # {}
      <3>1. PICK c : c = Pick(s)
        OBVIOUS
      <3>2. c \in s /\ g[s] = f[c] + g[s \ {c}]
        BY <3>1, <2>2, <1>1, Picked DEF IsIter
      <3>3. g[s] \in Int
        BY <3>2, <2>0
      <3>4. ASSUME NEW x \in s, x # c PROVE g[s] = f[x] + g[s \ {x}]
        <4>1. g[s \ {c}] = f[x] + g[(s \ {c}) \ {x}]
          BY <3>2, <3>4, <1>3
        <4>2. g[s \ {x}] = f[c] + g[(s \ {x}) \ {c}] /\ g[(s \ {x}) \ {c}] \in Int
          BY <3>2, <3>4, <1>3
        <4>3. (s \ {c}) \ {x} = (s \ {x}) \ {c}
          OBVIOUS
        <4>4. PICK a \in Int, b \in Int, r \in Int : a = f[c] /\ b = f[x] /\ r = g[(s \ {x}) \ {c}]
          BY <3>2, <4>2, <2>0
        <4>5. g[s \ {c}] = b + r /\ g[s \ {x}] = a + r
          BY <4>1, <4>2, <4>3, <4>4, Zenon
        <4>6. g[s] = a + (b + r) /\ f[x] + g[s \ {x}] = b + (a + r)
          BY <3>2, <4>4, <4>5, Zenon
        <4>7. a + (b + r) = b + (a + r)
          OBVIOUS
        <4> QED
          BY <4>6, <4>7, Zenon
      <3>5. \A x \in s : g[s \ {x}] \in Int /\ g[s] = f[x] + g[s \ {x}]
        BY <3>2, <3>4, <2>0
      <3> QED
        BY <3>3, <3>5
    <2> QED
      BY <2>1, <2>2
  <1>4. S \in Good
    BY <1>3, BySubset
  <1>5. \A x \in S : S \ {x} \in SUBSET S
    OBVIOUS
  <1> QED
    BY <1>2, <1>4, <1>5

(* A sum grows with its terms.                                               *)
LEMMA SumGrows ==
  ASSUME NEW f, NEW h, NEW S, IsFiniteSet(S), Ints(f, S), Ints(h, S), \A x \in S : f[x] <= h[x]
  PROVE  SumFunctionOnSet(f, S) <= SumFunctionOnSet(h, S)
  <1> DEFINE Good == {s \in SUBSET S : SumFunctionOnSet(f, s) <= SumFunctionOnSet(h, s)}
  <1>1. ASSUME NEW s \in SUBSET S, \A x \in s : s \ {x} \in Good PROVE s \in Good
    <2>0. IsFiniteSet(s) /\ Ints(f, s) /\ Ints(h, s)
      BY FS_Subset DEF Ints
    <2>1. CASE s = {}
      BY <2>1, SumEmpty
    <2>2. CASE s # {}
      <3>1. PICK x \in s : TRUE
        BY <2>2
      <3>2. PICK t : t = s \ {x}
        OBVIOUS
      <3>3. IsFiniteSet(t) /\ Ints(f, t) /\ Ints(h, t) /\ t \in Good
        BY <2>0, <3>1, <3>2, <1>1, FS_RemoveElement DEF Ints
      <3>4. SumFunctionOnSet(f, t) \in Int /\ SumFunctionOnSet(h, t) \in Int
        BY <3>3, SumTake
      <3>5. /\ SumFunctionOnSet(f, s) = f[x] + SumFunctionOnSet(f, t)
            /\ SumFunctionOnSet(h, s) = h[x] + SumFunctionOnSet(h, t)
        BY <2>0, <3>1, <3>2, SumTake
      <3>6. f[x] \in Int /\ h[x] \in Int /\ f[x] <= h[x]
        BY <2>0, <3>1 DEF Ints
      <3> QED
        BY <3>3, <3>4, <3>5, <3>6
    <2> QED
      BY <2>1, <2>2
  <1>2. S \in Good
    BY <1>1, BySubset
  <1> QED
    BY <1>2

(* Equal terms give equal sums.                                              *)
LEMMA SumSame ==
  ASSUME NEW f, NEW h, NEW S, IsFiniteSet(S), Ints(f, S), \A x \in S : f[x] = h[x]
  PROVE  SumFunctionOnSet(f, S) = SumFunctionOnSet(h, S)
  <1>1. Ints(h, S) /\ (\A x \in S : f[x] <= h[x]) /\ (\A x \in S : h[x] <= f[x])
    BY DEF Ints
  <1>2. SumFunctionOnSet(f, S) \in Int /\ SumFunctionOnSet(h, S) \in Int
    BY <1>1, SumTake
  <1>3. SumFunctionOnSet(f, S) <= SumFunctionOnSet(h, S) /\ SumFunctionOnSet(h, S) <= SumFunctionOnSet(f, S)
    BY <1>1, SumGrows
  <1> QED
    BY <1>2, <1>3

(* The difference of two sums is the sum of the differences.                 *)
LEMMA SumMinus ==
  ASSUME NEW f, NEW h, NEW d, NEW S, IsFiniteSet(S), Ints(f, S), Ints(h, S),
         \A x \in S : d[x] = f[x] - h[x]
  PROVE  SumFunctionOnSet(d, S) = SumFunctionOnSet(f, S) - SumFunctionOnSet(h, S)
  <1> DEFINE Good == {s \in SUBSET S :
                       SumFunctionOnSet(d, s) = SumFunctionOnSet(f, s) - SumFunctionOnSet(h, s)}
  <1>0. Ints(d, S)
    BY DEF Ints
  <1>1. ASSUME NEW s \in SUBSET S, \A x \in s : s \ {x} \in Good PROVE s \in Good
    <2>0. IsFiniteSet(s) /\ Ints(f, s) /\ Ints(h, s) /\ Ints(d, s)
      BY <1>0, FS_Subset DEF Ints
    <2>1. CASE s = {}
      <3>1. SumFunctionOnSet(d, s) = 0 /\ SumFunctionOnSet(f, s) = 0 /\ SumFunctionOnSet(h, s) = 0
        BY <2>1, SumEmpty
      <3> QED
        BY <3>1
    <2>2. CASE s # {}
      <3>1. PICK x \in s : TRUE
        BY <2>2
      <3>2. PICK t : t = s \ {x}
        OBVIOUS
      <3>3. IsFiniteSet(t) /\ Ints(f, t) /\ Ints(h, t) /\ Ints(d, t) /\ t \in Good
        BY <2>0, <3>1, <3>2, <1>1, FS_RemoveElement DEF Ints
      <3>4. /\ SumFunctionOnSet(f, t) \in Int /\ SumFunctionOnSet(h, t) \in Int
            /\ SumFunctionOnSet(d, t) = SumFunctionOnSet(f, t) - SumFunctionOnSet(h, t)
        BY <3>3, SumTake
      <3>5. /\ SumFunctionOnSet(f, s) = f[x] + SumFunctionOnSet(f, t)
            /\ SumFunctionOnSet(h, s) = h[x] + SumFunctionOnSet(h, t)
            /\ SumFunctionOnSet(d, s) = d[x] + SumFunctionOnSet(d, t)
        BY <2>0, <3>1, <3>2, SumTake
      <3>6. f[x] \in Int /\ h[x] \in Int /\ d[x] = f[x] - h[x]
        BY <2>0, <3>1 DEF Ints
      <3>7. SumFunctionOnSet(d, s) = SumFunctionOnSet(f, s) - SumFunctionOnSet(h, s)
        BY <3>4, <3>5, <3>6
      <3> QED
        BY <3>7
    <2> QED
      BY <2>1, <2>2
  <1>2. S \in Good
    BY <1>1, BySubset
  <1> QED
    BY <1>2

(* Terms that are zero may be left out.                                      *)
LEMMA SumOnly ==
  ASSUME NEW f, NEW S, IsFiniteSet(S), Ints(f, S), NEW T \in SUBSET S, \A x \in S \ T : f[x] = 0
  PROVE  SumFunctionOnSet(f, S) = SumFunctionOnSet(f, T)
  <1> DEFINE Good == {s \in SUBSET S : SumFunctionOnSet(f, s) = SumFunctionOnSet(f, s \cap T)}
  <1>1. ASSUME NEW s \in SUBSET S, \A x \in s : s \ {x} \in Good PROVE s \in Good
    <2>0. IsFiniteSet(s) /\ Ints(f, s) /\ IsFiniteSet(s \cap T) /\ Ints(f, s \cap T)
      <3>1. s \cap T \in SUBSET S
        OBVIOUS
      <3> QED
        BY <3>1, FS_Subset DEF Ints
    <2>1. CASE s = {}
      <3>1. s \cap T = {}
        BY <2>1
      <3> QED
        BY <2>1, <3>1
    <2>2. CASE s # {}
      <3>1. PICK x \in s : TRUE
        BY <2>2
      <3>2. PICK t, u : t = s \ {x} /\ u = t \cap T
        OBVIOUS
      <3>3. IsFiniteSet(t) /\ Ints(f, t) /\ SumFunctionOnSet(f, t) = SumFunctionOnSet(f, u)
        BY <2>0, <3>1, <3>2, <1>1, FS_RemoveElement DEF Ints
      <3>4. /\ SumFunctionOnSet(f, s) = f[x] + SumFunctionOnSet(f, t) /\ SumFunctionOnSet(f, t) \in Int
        BY <2>0, <3>1, <3>2, <3>3, SumTake
      <3>5. CASE x \in T
        <4>1. x \in s \cap T /\ u = (s \cap T) \ {x}
          BY <3>1, <3>2, <3>5
        <4>2. SumFunctionOnSet(f, s \cap T) = f[x] + SumFunctionOnSet(f, u)
          BY <4>1, <2>0, SumTake
        <4> QED
          BY <4>2, <3>3, <3>4
      <3>6. CASE x \notin T
        <4>1. f[x] = 0 /\ u = s \cap T
          BY <3>1, <3>2, <3>6
        <4> QED
          BY <4>1, <3>3, <3>4
      <3> QED
        BY <3>5, <3>6
    <2> QED
      BY <2>1, <2>2
  <1>2. S \in Good
    BY <1>1, BySubset
  <1>3. S \cap T = T
    OBVIOUS
  <1> QED
    BY <1>2, <1>3

(* The same term everywhere.                                                 *)
LEMMA SumConstant ==
  ASSUME NEW f, NEW S, IsFiniteSet(S), NEW c \in Int, \A x \in S : f[x] = c
  PROVE  SumFunctionOnSet(f, S) = c * Cardinality(S)
  <1> DEFINE Good == {s \in SUBSET S : SumFunctionOnSet(f, s) = c * Cardinality(s)}
  <1>1. ASSUME NEW s \in SUBSET S, \A x \in s : s \ {x} \in Good PROVE s \in Good
    <2>0. IsFiniteSet(s) /\ Ints(f, s)
      BY FS_Subset DEF Ints
    <2>1. CASE s = {}
      <3>1. SumFunctionOnSet(f, s) = 0 /\ Cardinality(s) = 0
        BY <2>1, SumEmpty, FS_EmptySet
      <3> QED
        BY <3>1
    <2>2. CASE s # {}
      <3>1. PICK x \in s : TRUE
        BY <2>2
      <3>2. PICK t : t = s \ {x}
        OBVIOUS
      <3>3. SumFunctionOnSet(f, t) = c * Cardinality(t)
        BY <3>1, <3>2, <1>1
      <3>4. Cardinality(t) = Cardinality(s) - 1 /\ Cardinality(s) \in Nat
        BY <2>0, <3>1, <3>2, FS_RemoveElement, FS_CardinalityType
      <3>5. SumFunctionOnSet(f, s) = c + SumFunctionOnSet(f, t)
        BY <2>0, <3>1, <3>2, SumTake
      <3>6. PICK n \in Nat : n = Cardinality(s)
        BY <3>4
      <3>7. c + c * (n - 1) = c * n
        OBVIOUS
      <3>8. SumFunctionOnSet(f, s) = c * Cardinality(s)
        BY <3>3, <3>4, <3>5, <3>6, <3>7
      <3> QED
        BY <3>8
    <2> QED
      BY <2>1, <2>2
  <1>2. S \in Good
    BY <1>1, BySubset
  <1> QED
    BY <1>2

(* A sum may be taken over other names for its terms.                        *)
LEMMA SumRenamed ==
  ASSUME NEW f, NEW m, NEW S, NEW h, NEW T, IsFiniteSet(S),
         T = {m[x] : x \in S}, \A x, y \in S : m[x] = m[y] => x = y,
         Ints(h, S), \A x \in S : f[m[x]] = h[x]
  PROVE  /\ IsFiniteSet(T) /\ Cardinality(T) = Cardinality(S)
         /\ SumFunctionOnSet(f, T) = SumFunctionOnSet(h, S)
  <1> DEFINE To(s) == {m[x] : x \in s}
             Good == {s \in SUBSET S : /\ IsFiniteSet(To(s)) /\ Cardinality(To(s)) = Cardinality(s)
                                        /\ SumFunctionOnSet(f, To(s)) = SumFunctionOnSet(h, s)}
  <1>1. ASSUME NEW s \in SUBSET S, \A x \in s : s \ {x} \in Good PROVE s \in Good
    <2>0. IsFiniteSet(s) /\ Ints(h, s)
      BY FS_Subset DEF Ints
    <2>1. CASE s = {}
      <3>1. To(s) = {}
        BY <2>1
      <3>2. SumFunctionOnSet(f, To(s)) = 0 /\ SumFunctionOnSet(h, s) = 0
        BY <2>1, <3>1, SumEmpty
      <3> QED
        BY <2>1, <3>1, <3>2, FS_EmptySet
    <2>2. CASE s # {}
      <3>1. PICK x \in s : TRUE
        BY <2>2
      <3>2. PICK t : t = s \ {x}
        OBVIOUS
      <3>3. t \in Good
        BY <3>1, <3>2, <1>1
      <3>4. To(t) = To(s) \ {m[x]} /\ m[x] \in To(s) /\ To(s) = To(t) \cup {m[x]} /\ m[x] \notin To(t)
        BY <3>1, <3>2
      <3>5. PICK v, w : v = To(s) /\ w = To(t)
        OBVIOUS
      <3>6. /\ IsFiniteSet(w) /\ Cardinality(w) = Cardinality(t)
            /\ SumFunctionOnSet(f, w) = SumFunctionOnSet(h, t)
        BY <3>3, <3>5
      <3>i. Ints(f, v)
        BY <3>5 DEF Ints
      <3>7. /\ v = w \cup {m[x]} /\ m[x] \notin w /\ w = v \ {m[x]} /\ m[x] \in v
            /\ f[m[x]] = h[x]
        BY <3>4, <3>5
      <3> HIDE DEF To
      <3>8. IsFiniteSet(v) /\ Cardinality(v) = Cardinality(w) + 1
        BY <3>6, <3>7, FS_AddElement
      <3>9. Cardinality(t) = Cardinality(s) - 1 /\ Cardinality(s) \in Nat
        BY <2>0, <3>1, <3>2, FS_RemoveElement, FS_CardinalityType
      <3>10. SumFunctionOnSet(f, v) = h[x] + SumFunctionOnSet(f, w)
        BY <3>7, <3>8, <3>i, SumTake
      <3>11. SumFunctionOnSet(h, s) = h[x] + SumFunctionOnSet(h, t)
        BY <2>0, <3>1, <3>2, SumTake
      <3>12. IsFiniteSet(v) /\ Cardinality(v) = Cardinality(s) /\ SumFunctionOnSet(f, v) = SumFunctionOnSet(h, s)
        BY <3>6, <3>8, <3>9, <3>10, <3>11
      <3> QED
        BY <3>5, <3>12
    <2> QED
      BY <2>1, <2>2
  <1> HIDE DEF Good
  <1>2. S \in Good
    BY <1>1, BySubset
  <1> QED
    BY <1>2, T = To(S) DEF Good

(* Nor does renaming change how many there are.                              *)
LEMMA SizeRenamed ==
  ASSUME NEW m, NEW S, NEW T, IsFiniteSet(S), T = {m[x] : x \in S},
         \A x, y \in S : m[x] = m[y] => x = y
  PROVE  IsFiniteSet(T) /\ Cardinality(T) = Cardinality(S)
  <1>1. PICK f, h : f = [y \in T |-> 0] /\ h = [x \in S |-> 0]
    OBVIOUS
  <1>2. Ints(h, S)
    BY <1>1 DEF Ints
  <1>3. \A x \in S : f[m[x]] = h[x]
    BY <1>1
  <1>4. SumFunctionOnSet(f, T) = SumFunctionOnSet(h, S)
    BY <1>2, <1>3, SumRenamed
  <1>5. IsFiniteSet(T)
    BY <1>2, <1>3, <1>4, SumRenamed
  <1>6. Cardinality(T) = Cardinality(S)
    BY <1>2, <1>3, <1>4, SumRenamed
  <1> QED
    BY <1>5, <1>6

(* A sum over two disjoint sets.                                             *)
LEMMA SumBoth ==
  ASSUME NEW f, NEW A, NEW B, IsFiniteSet(A), IsFiniteSet(B), Ints(f, A), Ints(f, B), A \cap B = {}
  PROVE  SumFunctionOnSet(f, A \cup B) = SumFunctionOnSet(f, A) + SumFunctionOnSet(f, B)
  <1> DEFINE Good == {s \in SUBSET A :
                       SumFunctionOnSet(f, s \cup B) = SumFunctionOnSet(f, s) + SumFunctionOnSet(f, B)}
  <1>0. SumFunctionOnSet(f, B) \in Int
    BY SumTake
  <1>1. ASSUME NEW s \in SUBSET A, \A x \in s : s \ {x} \in Good PROVE s \in Good
    <2>0. IsFiniteSet(s) /\ Ints(f, s) /\ IsFiniteSet(s \cup B) /\ Ints(f, s \cup B)
      BY FS_Subset, FS_Union DEF Ints
    <2>1. CASE s = {}
      <3>1. s \cup B = B /\ SumFunctionOnSet(f, s) = 0
        BY <2>1, SumEmpty
      <3>2. PICK b \in Int : b = SumFunctionOnSet(f, B)
        BY <1>0
      <3>3. b = 0 + b
        OBVIOUS
      <3>4. SumFunctionOnSet(f, s \cup B) = SumFunctionOnSet(f, s) + SumFunctionOnSet(f, B)
        BY <3>1, <3>2, <3>3, Zenon
      <3> QED
        BY <3>4
    <2>2. CASE s # {}
      <3>1. PICK x \in s : TRUE
        BY <2>2
      <3>2. PICK t, u : t = s \ {x} /\ u = (s \cup B) \ {x}
        OBVIOUS
      <3>3. u = t \cup B /\ t \in Good /\ IsFiniteSet(t) /\ Ints(f, t)
        <4>1. x \in A /\ x \notin B
          BY <3>1
        <4>2. u = t \cup B
          BY <4>1, <3>2
        <4>3. IsFiniteSet(t)
          BY <2>0, <3>1, <3>2, FS_RemoveElement
        <4>4. t \in Good /\ Ints(f, t)
          BY <2>0, <3>1, <3>2, <1>1 DEF Ints
        <4> QED
          BY <4>2, <4>3, <4>4
      <3>4. SumFunctionOnSet(f, t) \in Int /\ f[x] \in Int
        BY <2>0, <3>1, <3>3, SumTake DEF Ints
      <3>5. /\ SumFunctionOnSet(f, s) = f[x] + SumFunctionOnSet(f, t)
            /\ SumFunctionOnSet(f, s \cup B) = f[x] + SumFunctionOnSet(f, u)
        BY <2>0, <3>1, <3>2, SumTake
      <3>6. SumFunctionOnSet(f, u) = SumFunctionOnSet(f, t) + SumFunctionOnSet(f, B)
        BY <3>3
      <3>7. SumFunctionOnSet(f, s \cup B) = SumFunctionOnSet(f, s) + SumFunctionOnSet(f, B)
        BY <1>0, <3>4, <3>5, <3>6
      <3> QED
        BY <3>7
    <2> QED
      BY <2>1, <2>2
  <1>2. A \in Good
    BY <1>1, BySubset
  <1> QED
    BY <1>2

(* The members of K that o puts into group w.                                *)
Group(K, o, w) == {p \in K : o[p] = w}

(* The members of K fall into the groups D, and r has the sum of each.       *)
Grouped(r, f, o, K, D) ==
  /\ \A p \in K : o[p] \in D
  /\ \A w \in D : r[w] = SumFunctionOnSet(f, Group(K, o, w))

(* A sum may be taken group by group.                                        *)
LEMMA SumGrouped ==
  ASSUME NEW f, NEW o, NEW r, NEW K, NEW D, IsFiniteSet(K), IsFiniteSet(D), Ints(f, K),
         Grouped(r, f, o, K, D)
  PROVE  Ints(r, D) /\ SumFunctionOnSet(r, D) = SumFunctionOnSet(f, K)
  <1> USE DEF Grouped
  <1> DEFINE Of(s) == {p \in K : o[p] \in s}
             Good == {s \in SUBSET D : SumFunctionOnSet(r, s) = SumFunctionOnSet(f, Of(s))}
  <1>0. \A k \in SUBSET K : IsFiniteSet(k) /\ Ints(f, k) /\ SumFunctionOnSet(f, k) \in Int
    <2> SUFFICES ASSUME NEW k \in SUBSET K PROVE IsFiniteSet(k) /\ Ints(f, k) /\ SumFunctionOnSet(f, k) \in Int
      OBVIOUS
    <2>1. IsFiniteSet(k) /\ Ints(f, k)
      BY FS_Subset DEF Ints
    <2> QED
      BY <2>1, SumTake
  <1>1. Ints(r, D)
    <2> SUFFICES ASSUME NEW w \in D PROVE r[w] \in Int
      BY DEF Ints
    <2>1. Group(K, o, w) \in SUBSET K
      BY DEF Group
    <2> QED
      BY <2>1, <1>0
  <1>2. ASSUME NEW s \in SUBSET D, \A x \in s : s \ {x} \in Good PROVE s \in Good
    <2>0. IsFiniteSet(s) /\ Ints(r, s)
      BY <1>1, FS_Subset DEF Ints
    <2>1. CASE s = {}
      <3>1. Of(s) = {}
        BY <2>1
      <3> QED
        BY <2>1, <3>1, SumEmpty
    <2>2. CASE s # {}
      <3>1. PICK x \in s : TRUE
        BY <2>2
      <3>2. PICK t, A, B : t = s \ {x} /\ A = Group(K, o, x) /\ B = Of(t)
        OBVIOUS
      <3>3. /\ A \in SUBSET K /\ B \in SUBSET K /\ A \cap B = {} /\ Of(s) = A \cup B
            /\ t \in Good /\ x \in D
        BY <3>1, <3>2, <1>2 DEF Group
      <3>4. SumFunctionOnSet(r, s) = r[x] + SumFunctionOnSet(r, t)
        BY <2>0, <3>1, <3>2, SumTake
      <3>5. r[x] = SumFunctionOnSet(f, A) /\ SumFunctionOnSet(r, t) = SumFunctionOnSet(f, B)
        BY <3>2, <3>3
      <3>6. IsFiniteSet(A) /\ IsFiniteSet(B) /\ Ints(f, A) /\ Ints(f, B)
        BY <3>3, <1>0
      <3>7. SumFunctionOnSet(f, A \cup B) = SumFunctionOnSet(f, A) + SumFunctionOnSet(f, B)
        BY <3>3, <3>6, SumBoth
      <3>8. SumFunctionOnSet(r, s) = SumFunctionOnSet(f, Of(s))
        BY <3>3, <3>4, <3>5, <3>7, Zenon
      <3> QED
        BY <3>8
    <2> QED
      BY <2>1, <2>2
  <1>3. D \in Good
    BY <1>2, BySubset
  <1>4. Of(D) = K
    OBVIOUS
  <1> QED
    BY <1>1, <1>3, <1>4

(* Halves rounded down one by one lose at most a half each.                  *)
LEMMA SumHalved ==
  ASSUME NEW f, NEW h, NEW S, IsFiniteSet(S), Ints(f, S), \A x \in S : h[x] = f[x] \div 2
  PROVE  /\ Ints(h, S)
         /\ 2 * SumFunctionOnSet(h, S) <= SumFunctionOnSet(f, S)
         /\ SumFunctionOnSet(f, S) <= 2 * SumFunctionOnSet(h, S) + Cardinality(S)
  <1> DEFINE Good == {s \in SUBSET S :
                       /\ 2 * SumFunctionOnSet(h, s) <= SumFunctionOnSet(f, s)
                       /\ SumFunctionOnSet(f, s) <= 2 * SumFunctionOnSet(h, s) + Cardinality(s)}
  <1>0. \A x \in S : f[x] \in Int /\ h[x] \in Int /\ 2 * h[x] <= f[x] /\ f[x] <= 2 * h[x] + 1
    <2> SUFFICES ASSUME NEW x \in S PROVE f[x] \in Int /\ h[x] \in Int /\ 2 * h[x] <= f[x] /\ f[x] <= 2 * h[x] + 1
      OBVIOUS
    <2>1. PICK y \in Int : y = f[x]
      BY DEF Ints
    <2>2. h[x] = y \div 2
      BY <2>1
    <2>3. y \div 2 \in Int /\ 2 * (y \div 2) <= y /\ y <= 2 * (y \div 2) + 1
      OBVIOUS
    <2> QED
      BY <2>1, <2>2, <2>3
  <1>1. ASSUME NEW s \in SUBSET S, \A x \in s : s \ {x} \in Good PROVE s \in Good
    <2>0. IsFiniteSet(s) /\ Ints(f, s) /\ Ints(h, s)
      BY <1>0, FS_Subset DEF Ints
    <2>1. CASE s = {}
      <3>1. SumFunctionOnSet(f, s) = 0 /\ SumFunctionOnSet(h, s) = 0 /\ Cardinality(s) = 0
        BY <2>1, SumEmpty, FS_EmptySet
      <3> QED
        BY <3>1
    <2>2. CASE s # {}
      <3>1. PICK x \in s : TRUE
        BY <2>2
      <3>2. PICK t : t = s \ {x}
        OBVIOUS
      <3>3. /\ IsFiniteSet(t) /\ Ints(f, t) /\ Ints(h, t) /\ t \in Good
            /\ Cardinality(t) \in Nat /\ Cardinality(s) = Cardinality(t) + 1
        <4>1. IsFiniteSet(t) /\ Cardinality(t) = Cardinality(s) - 1
          BY <2>0, <3>1, <3>2, FS_RemoveElement
        <4>2. Cardinality(t) \in Nat /\ Cardinality(s) \in Nat
          BY <2>0, <4>1, FS_CardinalityType
        <4> QED
          BY <4>1, <4>2, <2>0, <3>1, <3>2, <1>1 DEF Ints
      <3>4. SumFunctionOnSet(f, t) \in Int /\ SumFunctionOnSet(h, t) \in Int
        BY <3>3, SumTake
      <3>5. /\ SumFunctionOnSet(f, s) = f[x] + SumFunctionOnSet(f, t)
            /\ SumFunctionOnSet(h, s) = h[x] + SumFunctionOnSet(h, t)
        BY <2>0, <3>1, <3>2, SumTake
      <3>6. f[x] \in Int /\ h[x] \in Int /\ 2 * h[x] <= f[x] /\ f[x] <= 2 * h[x] + 1
        BY <3>1, <1>0
      <3>7. PICK a \in Int, b \in Int, k \in Int, l \in Int, n \in Nat :
              /\ a = f[x] /\ b = h[x] /\ n = Cardinality(t)
              /\ k = SumFunctionOnSet(f, t) /\ l = SumFunctionOnSet(h, t)
        BY <3>3, <3>4, <3>6
      <3>8. 2 * b <= a /\ a <= 2 * b + 1 /\ 2 * l <= k /\ k <= 2 * l + n
        BY <3>3, <3>6, <3>7
      <3>9. 2 * (b + l) <= a + k /\ a + k <= 2 * (b + l) + (n + 1)
        BY <3>8
      <3> QED
        BY <3>3, <3>5, <3>7, <3>9
    <2> QED
      BY <2>1, <2>2
  <1>2. S \in Good
    BY <1>1, BySubset
  <1> QED
    BY <1>0, <1>2 DEF Ints

-----------------------------------------------------------------------------
(* A workload, or what an absent one reads as, with quantities that parsed.  *)
Measured(w) ==
  /\ w.reqCPU \in Nat \cup {Nil} /\ w.limCPU \in Nat \cup {Nil}
  /\ w.reqMem \in Nat \cup {Nil} /\ w.limMem \in Nat \cup {Nil}

(* What a values file parses to: finitely many places, measured workloads.   *)
Listed(workloads) ==
  /\ DOMAIN workloads \subseteq Nat /\ IsFiniteSet(DOMAIN workloads)
  /\ \E n \in Nat : \A i \in DOMAIN workloads : i <= n
  /\ \A i \in DOMAIN workloads : Measured(workloads[i])

(* The parser delivers it.                                                   *)
LEMMA ParsedListed ==
  ASSUME NEW doc, Len(doc.blocks) \in Nat, DOMAIN doc.blocks = 1..Len(doc.blocks)
  PROVE  Listed(ParseValues(doc))
  <1> DEFINE workloads == ParseValues(doc)
  <1>1. DOMAIN workloads \subseteq 1..Len(doc.blocks)
    BY DEF ParseValues, walk
  <1>2. IsFiniteSet(DOMAIN workloads)
    <2>1. IsFiniteSet(1..Len(doc.blocks))
      BY FS_Interval
    <2> QED
      BY <1>1, <2>1, FS_Subset
  <1>3. ASSUME NEW i \in DOMAIN workloads PROVE Measured(workloads[i])
    <2>1. PICK b : workloads[i] = Workload(b)
      BY DEF ParseValues
    <2>2. /\ workloads[i].reqCPU = ParseCPU(b.requests.cpu)
          /\ workloads[i].limCPU = ParseCPU(b.limits.cpu)
          /\ workloads[i].reqMem = ParseMemory(b.requests.memory)
          /\ workloads[i].limMem = ParseMemory(b.limits.memory)
      BY <2>1 DEF Workload
    <2> QED
      BY <2>2, ParsedQuantity DEF Measured
  <1> HIDE DEF workloads
  <1>4. DOMAIN workloads \subseteq Nat /\ \A i \in DOMAIN workloads : i <= Len(doc.blocks)
    BY <1>1
  <1> QED
    BY <1>2, <1>3, <1>4 DEF Listed, workloads

(* Max takes a member of a set of numbers with a bound.                      *)
LEMMA MaxIn ==
  ASSUME NEW S \in SUBSET Nat, S # {}, NEW n \in Nat, \A i \in S : i <= n
  PROVE  Max(S) \in S
  <1> DEFINE T == {n - i : i \in S}
  <1>1. T \in SUBSET Nat /\ T # {}
    <2>1. \A i \in S : n - i \in Nat
      OBVIOUS
    <2>2. PICK i \in S : TRUE
      OBVIOUS
    <2>3. n - i \in T
      OBVIOUS
    <2> QED
      BY <2>1, <2>3, Zenon
  <1>2. PICK m \in T : \A k \in T : m <= k
    BY <1>1, LeastNat
  <1>3. PICK x \in S : m = n - x
    BY <1>2
  <1>4. \A y \in S : x >= y
    <2> SUFFICES ASSUME NEW y \in S PROVE x >= y
      OBVIOUS
    <2>1. n - y \in T
      OBVIOUS
    <2> QED
      BY <1>2, <1>3, <2>1
  <1> QED
    BY <1>4, Zenon DEF Max

(* What a name stands for in a file is measured too.                         *)
LEMMA NamedMeasured ==
  ASSUME NEW workloads, Listed(workloads), NEW name
  PROVE  /\ Measured(Named(workloads, name))
         /\ name \notin Names(workloads) => Named(workloads, name) = Absent
  <1> DEFINE found == {i \in DOMAIN workloads : workloads[i].name = name}
  <1>1. Measured(Absent)
    BY DEF Measured, Absent
  <1>2. ASSUME found # {} PROVE Max(found) \in DOMAIN workloads
    <2>1. found \in SUBSET Nat
      BY DEF Listed
    <2>2. PICK n \in Nat : \A i \in found : i <= n
      BY DEF Listed
    <2> QED
      BY <1>2, <2>1, <2>2, MaxIn
  <1>3. Named(workloads, name) = IF found = {} THEN Absent ELSE workloads[Max(found)]
    BY DEF Named
  <1>4. name \notin Names(workloads) => found = {}
    BY DEF Names
  <1> HIDE DEF found
  <1> QED
    BY <1>1, <1>2, <1>3, <1>4 DEF Listed

(* Rounding toward zero does not care for the sign.                          *)
LEMMA TruncatedOdd ==
  /\ \A x \in Int : Truncated(x, 1000) \in Int /\ Truncated(-x, 1000) = -Truncated(x, 1000)
  /\ \A x \in Int : Truncated(x, 1024) \in Int /\ Truncated(-x, 1024) = -Truncated(x, 1024)
  BY DEF Truncated

(* Nor does the price of a change.                                           *)
LEMMA DeltaOdd ==
  ASSUME NEW cpu \in Int, NEW mem \in Int
  PROVE  monthlyDelta(cpu, mem) \in Int /\ monthlyDelta(-cpu, -mem) = -monthlyDelta(cpu, mem)
  <1> DEFINE x == cpu * MonthlyHours * CorePriceCents
             y == mem * GiBPriceCents
  <1>1. x \in Int /\ y \in Int
        /\ (-cpu) * MonthlyHours * CorePriceCents = -x /\ (-mem) * GiBPriceCents = -y
    BY DEF MonthlyHours, CorePriceCents, GiBPriceCents
  <1>2. /\ monthlyDelta(cpu, mem) = Truncated(x, 1000) + Truncated(y, 1024)
        /\ monthlyDelta(-cpu, -mem) = Truncated(-x, 1000) + Truncated(-y, 1024)
    BY <1>1 DEF monthlyDelta
  <1> HIDE DEF x, y
  <1> QED
    BY <1>1, <1>2, TruncatedOdd

(* Neither does the difference of two quantities.                            *)
LEMMA QDeltaOdd ==
  ASSUME NEW a \in Nat \cup {Nil}, NEW b \in Nat \cup {Nil}
  PROVE  qDelta(a, b) \in Int /\ qDelta(b, a) = -qDelta(a, b) /\ qDelta(a, b) = Units(b) - Units(a)
         /\ Units(a) \in Nat /\ Units(b) \in Nat
  BY DEF qDelta, Units

(* The record of a name, field by field.                                     *)
LEMMA EntryFields ==
  ASSUME NEW a, NEW b, NEW n, Listed(a), Listed(b)
  PROVE  LET e == Entry(a, b, n)
             x == Named(a, n)
             y == Named(b, n)
         IN  /\ e = [name |-> e.name, new |-> e.new, removed |-> e.removed, cpu |-> e.cpu,
                     cpuLimit |-> e.cpuLimit, mem |-> e.mem, memLimit |-> e.memLimit, cents |-> e.cents]
             /\ e.name = n
             /\ e.new = (n \notin Names(a)) /\ e.removed = (n \notin Names(b))
             /\ e.cpu = qDelta(x.reqCPU, y.reqCPU) /\ e.cpuLimit = qDelta(x.limCPU, y.limCPU)
             /\ e.mem = qDelta(x.reqMem, y.reqMem) /\ e.memLimit = qDelta(x.limMem, y.limMem)
             /\ e.cpu \in Int /\ e.cpuLimit \in Int /\ e.mem \in Int /\ e.memLimit \in Int
             /\ e.cents = monthlyDelta(e.cpu, e.mem)
             /\ e.cents \in Int
  <1> DEFINE x == Named(a, n)
             y == Named(b, n)
             e == Entry(a, b, n)
  <1>1. Measured(x) /\ Measured(y)
    BY NamedMeasured
  <1>2. /\ qDelta(x.reqCPU, y.reqCPU) \in Int /\ qDelta(x.limCPU, y.limCPU) \in Int
        /\ qDelta(x.reqMem, y.reqMem) \in Int /\ qDelta(x.limMem, y.limMem) \in Int
    BY <1>1, QDeltaOdd DEF Measured
  <1>3. e = [name |-> n, new |-> n \notin Names(a), removed |-> n \notin Names(b),
             cpu |-> qDelta(x.reqCPU, y.reqCPU), cpuLimit |-> qDelta(x.limCPU, y.limCPU),
             mem |-> qDelta(x.reqMem, y.reqMem), memLimit |-> qDelta(x.limMem, y.limMem),
             cents |-> monthlyDelta(qDelta(x.reqCPU, y.reqCPU), qDelta(x.reqMem, y.reqMem))]
    BY DEF Entry
  <1>4. monthlyDelta(qDelta(x.reqCPU, y.reqCPU), qDelta(x.reqMem, y.reqMem)) \in Int
    BY <1>2, DeltaOdd
  <1> HIDE DEF x, y, e
  <1>5. /\ e.name = n
        /\ e.new = (n \notin Names(a)) /\ e.removed = (n \notin Names(b))
        /\ e.cpu = qDelta(x.reqCPU, y.reqCPU) /\ e.cpuLimit = qDelta(x.limCPU, y.limCPU)
        /\ e.mem = qDelta(x.reqMem, y.reqMem) /\ e.memLimit = qDelta(x.limMem, y.limMem)
        /\ e.cents = monthlyDelta(e.cpu, e.mem)
    BY <1>3
  <1>6. e = [name |-> e.name, new |-> e.new, removed |-> e.removed, cpu |-> e.cpu,
             cpuLimit |-> e.cpuLimit, mem |-> e.mem, memLimit |-> e.memLimit, cents |-> e.cents]
    BY <1>3
  <1>7. e.cpu \in Int /\ e.cpuLimit \in Int /\ e.mem \in Int /\ e.memLimit \in Int /\ e.cents \in Int
    BY <1>2, <1>3, <1>4
  <1> QED
    BY <1>5, <1>6, <1>7 DEF x, y, e

(* Seen from the other side, the entry of a name is its mirror image.        *)
LEMMA EntryMirrored ==
  ASSUME NEW a, NEW b, NEW n, Listed(a), Listed(b)
  PROVE  Mirrored(Entry(a, b, n)) = Entry(b, a, n)
  <1> DEFINE x == Named(a, n)
             y == Named(b, n)
  <1>1. Measured(x) /\ Measured(y)
    BY NamedMeasured
  <1>2. PICK e : e = Entry(a, b, n)
    OBVIOUS
  <1>3. PICK f : f = Entry(b, a, n)
    OBVIOUS
  <1>4. /\ e = [name |-> e.name, new |-> e.new, removed |-> e.removed, cpu |-> e.cpu,
                cpuLimit |-> e.cpuLimit, mem |-> e.mem, memLimit |-> e.memLimit, cents |-> e.cents]
        /\ e.name = n
        /\ e.new = (n \notin Names(a)) /\ e.removed = (n \notin Names(b))
        /\ e.cpu = qDelta(x.reqCPU, y.reqCPU) /\ e.cpuLimit = qDelta(x.limCPU, y.limCPU)
        /\ e.mem = qDelta(x.reqMem, y.reqMem) /\ e.memLimit = qDelta(x.limMem, y.limMem)
        /\ e.cents = monthlyDelta(e.cpu, e.mem)
        /\ e.cpu \in Int /\ e.mem \in Int
    BY <1>2, EntryFields
  <1>5. /\ f = [name |-> f.name, new |-> f.new, removed |-> f.removed, cpu |-> f.cpu,
                cpuLimit |-> f.cpuLimit, mem |-> f.mem, memLimit |-> f.memLimit, cents |-> f.cents]
        /\ f.name = n
        /\ f.new = (n \notin Names(b)) /\ f.removed = (n \notin Names(a))
        /\ f.cpu = qDelta(y.reqCPU, x.reqCPU) /\ f.cpuLimit = qDelta(y.limCPU, x.limCPU)
        /\ f.mem = qDelta(y.reqMem, x.reqMem) /\ f.memLimit = qDelta(y.limMem, x.limMem)
        /\ f.cents = monthlyDelta(f.cpu, f.mem)
    BY <1>3, EntryFields
  <1>6. /\ f.cpu = -e.cpu /\ f.cpuLimit = -e.cpuLimit /\ f.mem = -e.mem /\ f.memLimit = -e.memLimit
    <2>1. \A p, q \in Nat \cup {Nil} : qDelta(q, p) = -qDelta(p, q)
      BY QDeltaOdd
    <2>2. /\ {x.reqCPU, x.limCPU, x.reqMem, x.limMem} \subseteq Nat \cup {Nil}
          /\ {y.reqCPU, y.limCPU, y.reqMem, y.limMem} \subseteq Nat \cup {Nil}
      BY <1>1 DEF Measured
    <2> HIDE DEF x, y
    <2>3. f.cpu = -e.cpu
      BY <2>1, <2>2, <1>4, <1>5
    <2>4. f.cpuLimit = -e.cpuLimit
      BY <2>1, <2>2, <1>4, <1>5
    <2>5. f.mem = -e.mem
      BY <2>1, <2>2, <1>4, <1>5
    <2>6. f.memLimit = -e.memLimit
      BY <2>1, <2>2, <1>4, <1>5
    <2> QED
      BY <2>3, <2>4, <2>5, <2>6
  <1>7. f.cents = -e.cents
    BY <1>4, <1>5, <1>6, DeltaOdd
  <1>8. f.new = e.removed /\ f.removed = e.new /\ f.name = e.name
    BY <1>4, <1>5
  <1> HIDE DEF x, y
  <1>9. Mirrored(e) = [name |-> e.name, new |-> e.removed, removed |-> e.new, cpu |-> -e.cpu,
                       cpuLimit |-> -e.cpuLimit, mem |-> -e.mem, memLimit |-> -e.memLimit,
                       cents |-> -e.cents]
    BY DEF Mirrored
  <1>10. Mirrored(e) = f
    BY <1>5, <1>6, <1>7, <1>8, <1>9
  <1> QED
    BY <1>2, <1>3, <1>10

(* The entries that Diff keeps.                                              *)
Differs(e) == e.new \/ e.removed \/ e.cpu # 0 \/ e.cpuLimit # 0 \/ e.mem # 0 \/ e.memLimit # 0
KeptNames(a, b) == {n \in Names(a) \cup Names(b) : Differs(Entry(a, b, n))}

(* A difference has one entry for each of its names.                         *)
LEMMA DiffIsKept == ASSUME NEW a, NEW b
                    PROVE  Diff(a, b) = {Entry(a, b, n) : n \in KeptNames(a, b)}
  BY Zenon DEF Diff, KeptNames, Differs

(* Both sides keep the same names.                                           *)
LEMMA KeptMirrored ==
  ASSUME NEW a, NEW b, Listed(a), Listed(b)
  PROVE  KeptNames(b, a) = KeptNames(a, b)
  <1> SUFFICES ASSUME NEW n PROVE Differs(Entry(b, a, n)) <=> Differs(Entry(a, b, n))
    BY Zenon DEF KeptNames
  <1>1. PICK e : e = Entry(a, b, n)
    OBVIOUS
  <1>2. PICK f : f = Entry(b, a, n)
    OBVIOUS
  <1>3. f = Mirrored(e)
    BY <1>1, <1>2, EntryMirrored
  <1>4. /\ e = [name |-> e.name, new |-> e.new, removed |-> e.removed, cpu |-> e.cpu,
                cpuLimit |-> e.cpuLimit, mem |-> e.mem, memLimit |-> e.memLimit, cents |-> e.cents]
        /\ e.cpu \in Int /\ e.cpuLimit \in Int /\ e.mem \in Int /\ e.memLimit \in Int
    BY <1>1, EntryFields
  <1>5. /\ f.new = e.removed /\ f.removed = e.new
        /\ f.cpu = -e.cpu /\ f.cpuLimit = -e.cpuLimit /\ f.mem = -e.mem /\ f.memLimit = -e.memLimit
    BY <1>3, <1>4 DEF Mirrored
  <1>6. Differs(f) <=> Differs(e)
    <2>1. \A x \in Int : -x # 0 <=> x # 0
      OBVIOUS
    <2>2. /\ f.cpu # 0 <=> e.cpu # 0
          /\ f.cpuLimit # 0 <=> e.cpuLimit # 0
          /\ f.mem # 0 <=> e.mem # 0
          /\ f.memLimit # 0 <=> e.memLimit # 0
      BY <1>4, <1>5, <2>1
    <2> QED
      BY <1>5, <2>2, Zenon DEF Differs
  <1> QED
    BY <1>1, <1>2, <1>6

(* Swapping the files mirrors the whole difference.                          *)
LEMMA DiffMirrored ==
  ASSUME NEW a, NEW b, Listed(a), Listed(b)
  PROVE  {Mirrored(e) : e \in Diff(a, b)} = Diff(b, a)
  <1>1. \A n : Mirrored(Entry(a, b, n)) = Entry(b, a, n)
    BY EntryMirrored
  <1>2. Diff(a, b) = {Entry(a, b, n) : n \in KeptNames(a, b)}
        /\ Diff(b, a) = {Entry(b, a, n) : n \in KeptNames(a, b)}
    BY DiffIsKept, KeptMirrored
  <1> QED
    BY <1>1, <1>2, Zenon

(* What a workload costs in a month, by what it requests.                    *)
Spend(w) == cpuCents(Units(w.reqCPU)) + memCents(Units(w.reqMem))

(* An absent workload costs nothing.                                         *)
LEMMA CostFacts == /\ \A w : Measured(w) => Spend(w) \in Int
                   /\ Spend(Absent) = 0
  <1>1. \A q \in Nat : cpuCents(q) \in Int /\ memCents(q) \in Int
    BY DEF cpuCents, memCents, MonthlyHours, CorePriceCents, GiBPriceCents
  <1>2. \A w : Measured(w) => Units(w.reqCPU) \in Nat /\ Units(w.reqMem) \in Nat
    BY DEF Measured, Units
  <1>3. \A w : Measured(w) => Spend(w) \in Int
    BY <1>1, <1>2 DEF Spend
  <1>4. Units(Absent.reqCPU) = 0 /\ Units(Absent.reqMem) = 0
    BY DEF Absent, Units
  <1>5. cpuCents(0) = 0 /\ memCents(0) = 0
    BY DEF cpuCents, memCents, MonthlyHours, CorePriceCents, GiBPriceCents
  <1> QED
    BY <1>3, <1>4, <1>5 DEF Spend

(* The cents of an entry are the difference of the two costs, up to a cent   *)
(* for either resource, because a rounded difference and the difference of   *)
(* rounded values are at most one apart; an entry without change costs the   *)
(* same.                                                                     *)
LEMMA EntryCost ==
  ASSUME NEW a, NEW b, NEW n, Listed(a), Listed(b)
  PROVE  LET e == Entry(a, b, n)
             d == Spend(Named(b, n)) - Spend(Named(a, n))
         IN  /\ e.cents \in Int /\ d \in Int
             /\ e.cents - d \in -2..2
             /\ ~Differs(e) => d = 0
  <1>1. PICK p, q, r, s : /\ p = Units(Named(a, n).reqCPU) /\ q = Units(Named(b, n).reqCPU)
                          /\ r = Units(Named(a, n).reqMem) /\ s = Units(Named(b, n).reqMem)
    OBVIOUS
  <1>2. Measured(Named(a, n)) /\ Measured(Named(b, n))
    BY NamedMeasured
  <1>3. p \in Nat /\ q \in Nat /\ r \in Nat /\ s \in Nat
    BY <1>1, <1>2 DEF Measured, Units
  <1>4. PICK e : e = Entry(a, b, n)
    OBVIOUS
  <1>5. e.cpu = q - p /\ e.mem = s - r /\ e.cents = monthlyDelta(e.cpu, e.mem) /\ e.cents \in Int
    <2>1. /\ e.cpu = qDelta(Named(a, n).reqCPU, Named(b, n).reqCPU)
          /\ e.mem = qDelta(Named(a, n).reqMem, Named(b, n).reqMem)
          /\ e.cents = monthlyDelta(e.cpu, e.mem) /\ e.cents \in Int
      BY <1>4, EntryFields
    <2>2. /\ qDelta(Named(a, n).reqCPU, Named(b, n).reqCPU) = q - p
          /\ qDelta(Named(a, n).reqMem, Named(b, n).reqMem) = s - r
      BY <1>1, <1>2, QDeltaOdd DEF Measured
    <2> QED
      BY <2>1, <2>2
  <1>6. PICK d : d = Spend(Named(b, n)) - Spend(Named(a, n))
    OBVIOUS
  <1>7. d = (cpuCents(q) + memCents(s)) - (cpuCents(p) + memCents(r))
    BY <1>1, <1>6 DEF Spend
  <1>8. e.cents = Truncated((q * 2920) - (p * 2920), 1000) + Truncated((s * 350) - (r * 350), 1024)
    <2>1. /\ (q - p) * MonthlyHours * CorePriceCents = (q * 2920) - (p * 2920)
          /\ (s - r) * GiBPriceCents = (s * 350) - (r * 350)
      BY <1>3 DEF MonthlyHours, CorePriceCents, GiBPriceCents
    <2> QED
      BY <1>5, <2>1 DEF monthlyDelta
  <1>9. /\ cpuCents(p) = (p * 2920) \div 1000 /\ cpuCents(q) = (q * 2920) \div 1000
        /\ memCents(r) = (r * 350) \div 1024 /\ memCents(s) = (s * 350) \div 1024
    BY <1>3 DEF cpuCents, memCents, MonthlyHours, CorePriceCents, GiBPriceCents
  <1>10. PICK t, u, v, w : /\ t = Truncated((q * 2920) - (p * 2920), 1000)
                           /\ u = Truncated((s * 350) - (r * 350), 1024)
                           /\ v = ((q * 2920) \div 1000) - ((p * 2920) \div 1000)
                           /\ w = ((s * 350) \div 1024) - ((r * 350) \div 1024)
    OBVIOUS
  <1>11. /\ t \in Int /\ u \in Int /\ v \in Int /\ w \in Int
         /\ t - v \in -1..1 /\ u - w \in -1..1
    <2>1. p * 2920 \in Nat /\ q * 2920 \in Nat /\ r * 350 \in Nat /\ s * 350 \in Nat
      BY <1>3
    <2>2. t \in Int /\ u \in Int
      <3>1. (q * 2920) - (p * 2920) \in Int /\ (s * 350) - (r * 350) \in Int
        BY <2>1
      <3> QED
        BY <3>1, <1>10, TruncatedOdd
    <2>3. v \in Int /\ w \in Int
      BY <2>1, <1>10
    <2>4. t - v \in -1..1
      <3>1. PICK x, y \in Nat : x = p * 2920 /\ y = q * 2920
        BY <2>1
      <3>2. t = Truncated(y - x, 1000) /\ v = (y \div 1000) - (x \div 1000)
        BY <3>1, <1>10
      <3>3. Truncated(y - x, 1000) - ((y \div 1000) - (x \div 1000)) \in -1..1
        BY <3>1 DEF Truncated
      <3> QED
        BY <3>2, <3>3
    <2>5. u - w \in -1..1
      <3>1. PICK x, y \in Nat : x = r * 350 /\ y = s * 350
        BY <2>1
      <3>2. u = Truncated(y - x, 1024) /\ w = (y \div 1024) - (x \div 1024)
        BY <3>1, <1>10
      <3>3. Truncated(y - x, 1024) - ((y \div 1024) - (x \div 1024)) \in -1..1
        BY <3>1 DEF Truncated
      <3> QED
        BY <3>2, <3>3
    <2> QED
      BY <2>2, <2>3, <2>4, <2>5
  <1>12. e.cents = t + u /\ d = v + w /\ d \in Int
    <2>1. e.cents = t + u
      BY <1>8, <1>10
    <2>2. d = v + w
      BY <1>3, <1>7, <1>9, <1>10
    <2> QED
      BY <2>1, <2>2, <1>11
  <1>13. ASSUME ~Differs(e) PROVE d = 0
    <2>1. e.cpu = 0 /\ e.mem = 0
      BY <1>13 DEF Differs
    <2>2. q = p /\ s = r
      BY <2>1, <1>3, <1>5
    <2> QED
      BY <2>2, <1>3, <1>10, <1>12
  <1>14. e.cents - d \in -2..2
    BY <1>11, <1>12
  <1> QED
    BY <1>4, <1>5, <1>6, <1>12, <1>13, <1>14

(* Without repeated names a name stands for its own workload.                *)
LEMMA NamedOnly ==
  ASSUME NEW workloads, Listed(workloads), DistinctNames(workloads), NEW i \in DOMAIN workloads
  PROVE  Named(workloads, workloads[i].name) = workloads[i]
  <1> DEFINE found == {j \in DOMAIN workloads : workloads[j].name = workloads[i].name}
  <1>1. found = {i}
    BY DEF DistinctNames
  <1>2. Max({i}) = i
    <2>1. i \in Nat
      BY DEF Listed
    <2>2. {i} \in SUBSET Nat /\ {i} # {} /\ \A k \in {i} : k <= i
      BY <2>1
    <2> QED
      BY <2>1, <2>2, MaxIn
  <1> QED
    BY <1>1, <1>2 DEF Named

(* The bill of a file without repeated names, by name.                       *)
LEMMA BillByName ==
  ASSUME NEW workloads, Listed(workloads), DistinctNames(workloads),
         NEW N, IsFiniteSet(N), Names(workloads) \subseteq N
  PROVE  /\ Bill(workloads) = SumFunctionOnSet([n \in N |-> Spend(Named(workloads, n))], N)
         /\ Ints([n \in N |-> Spend(Named(workloads, n))], N)
  <1> DEFINE D == DOMAIN workloads
             m == [i \in D |-> workloads[i].name]
             f == [n \in N |-> Spend(Named(workloads, n))]
             h == [i \in D |-> Spend(workloads[i])]
  <1>1. IsFiniteSet(D) /\ (\A i \in D : Measured(workloads[i])) /\ D \subseteq Nat
    BY DEF Listed
  <1>2. Names(workloads) = {m[i] : i \in D}
    BY DEF Names
  <1>3. \A i, j \in D : m[i] = m[j] => i = j
    BY DEF DistinctNames
  <1>4. Ints(h, D)
    BY <1>1, CostFacts DEF Ints
  <1>5. \A i \in D : Named(workloads, workloads[i].name) = workloads[i]
    BY NamedOnly
  <1>6. \A i \in D : f[m[i]] = h[i]
    <2> SUFFICES ASSUME NEW i \in D PROVE f[m[i]] = h[i]
      OBVIOUS
    <2>1. m[i] \in N /\ m[i] = workloads[i].name
      BY <1>2
    <2> QED
      BY <2>1, <1>5
  <1>7. Ints(f, N)
    BY NamedMeasured, CostFacts DEF Ints
  <1>8. \A n \in N \ Names(workloads) : f[n] = 0
    <2> SUFFICES ASSUME NEW n \in N \ Names(workloads) PROVE f[n] = 0
      OBVIOUS
    <2>1. Named(workloads, n) = Absent
      BY NamedMeasured
    <2> QED
      BY <2>1, CostFacts
  <1>9. Bill(workloads) = SumFunctionOnSet(h, D)
    <2>1. h = [i \in D |-> cpuCents(Units(workloads[i].reqCPU)) + memCents(Units(workloads[i].reqMem))]
      BY DEF Spend
    <2>2. DOMAIN h = D
      OBVIOUS
    <2>3. Bill(workloads) = SumFunction(h)
      BY <2>1 DEF Bill
    <2> HIDE DEF h
    <2> QED
      BY <2>2, <2>3, Zenon DEF SumFunction, FoldFunction, SumFunctionOnSet
  <1> HIDE DEF m, f, h, D
  <1>10. SumFunctionOnSet(f, Names(workloads)) = SumFunctionOnSet(h, D)
    <2>1. PICK F, M, H, S, T : F = f /\ M = m /\ H = h /\ S = D /\ T = Names(workloads)
      OBVIOUS
    <2>2. IsFiniteSet(S) /\ Ints(H, S) /\ T = {M[x] : x \in S}
      BY <1>1, <1>2, <1>4, <2>1
    <2>3. \A x, y \in S : M[x] = M[y] => x = y
      BY <1>3, <2>1
    <2>4. \A x \in S : F[M[x]] = H[x]
      BY <1>6, <2>1
    <2>5. SumFunctionOnSet(F, T) = SumFunctionOnSet(H, S)
      BY <2>2, <2>3, <2>4, SumRenamed
    <2> QED
      BY <2>1, <2>5, Zenon
  <1>11. SumFunctionOnSet(f, N) = SumFunctionOnSet(f, Names(workloads))
    BY <1>7, <1>8, SumOnly
  <1>12. Bill(workloads) = SumFunctionOnSet(f, N)
    BY <1>9, <1>10, <1>11
  <1> QED
    BY <1>7, <1>12 DEF f

(* The names of a file are finitely many.                                    *)
LEMMA NamesFinite ==
  ASSUME NEW workloads, Listed(workloads)
  PROVE  IsFiniteSet(Names(workloads))
  <1>1. IsFiniteSet(DOMAIN workloads)
    BY DEF Listed
  <1> DEFINE D == DOMAIN workloads
             m == [i \in D |-> workloads[i].name]
  <1>2. Names(workloads) = {m[i] : i \in D}
    BY DEF Names
  <1>3. m \in Surjection(D, Names(workloads))
    <2>1. m \in [D -> Names(workloads)]
      BY DEF Names
    <2>2. \A t \in Names(workloads) : \E i \in D : m[i] = t
      BY DEF Names
    <2> QED
      BY <2>1, <2>2 DEF Surjection
  <1> HIDE DEF m, D
  <1> QED
    BY <1>1, <1>3, FS_Surjection DEF D

(* The lines of a difference account for the change in the bill.             *)
LEMMA LedgerAdds ==
  ASSUME NEW a, NEW b, Listed(a), Listed(b), DistinctNames(a), DistinctNames(b)
  PROVE  LET slack == 2 * Cardinality(Diff(a, b))
         IN  MonthlyUSDCentsDelta(Diff(a, b)) - (Bill(b) - Bill(a)) \in -slack..slack
  <1>1. PICK N, K, E : N = Names(a) \cup Names(b) /\ K = KeptNames(a, b) /\ E = Diff(a, b)
    OBVIOUS
  <1>2. IsFiniteSet(N) /\ Names(a) \subseteq N /\ Names(b) \subseteq N
    BY <1>1, NamesFinite, FS_Union
  <1>3. K \in SUBSET N /\ IsFiniteSet(K) /\ E = {Entry(a, b, n) : n \in K}
        /\ \A n \in N \ K : ~Differs(Entry(a, b, n))
    <2>1. K \in SUBSET N /\ \A n \in N \ K : ~Differs(Entry(a, b, n))
      BY <1>1 DEF KeptNames
    <2>2. E = {Entry(a, b, n) : n \in K}
      BY <1>1, DiffIsKept
    <2> QED
      BY <2>1, <2>2, <1>2, FS_Subset
  <1>4. PICK fa, fb, d, c, g, m, t, lo, hi :
          /\ fa = [n \in N |-> Spend(Named(a, n))] /\ fb = [n \in N |-> Spend(Named(b, n))]
          /\ d = [n \in N |-> Spend(Named(b, n)) - Spend(Named(a, n))]
          /\ c = [n \in K |-> Entry(a, b, n).cents]
          /\ g = [n \in K |-> c[n] - d[n]]
          /\ m = [n \in K |-> Entry(a, b, n)]
          /\ t = [e \in E |-> e.cents]
          /\ lo = [n \in K |-> -2] /\ hi = [n \in K |-> 2]
    OBVIOUS
  <1>5. \A n \in N : /\ Entry(a, b, n).cents \in Int
                     /\ Spend(Named(b, n)) - Spend(Named(a, n)) \in Int
                     /\ Entry(a, b, n).cents - (Spend(Named(b, n)) - Spend(Named(a, n))) \in -2..2
                     /\ ~Differs(Entry(a, b, n)) => Spend(Named(b, n)) - Spend(Named(a, n)) = 0
                     /\ Entry(a, b, n).name = n
    BY EntryCost, EntryFields
  <1>6. Bill(a) = SumFunctionOnSet(fa, N) /\ Ints(fa, N) /\ Bill(b) = SumFunctionOnSet(fb, N) /\ Ints(fb, N)
    BY <1>2, <1>4, BillByName
  <1>7. SumFunctionOnSet(d, N) = SumFunctionOnSet(fb, N) - SumFunctionOnSet(fa, N)
    <2>1. \A n \in N : d[n] = fb[n] - fa[n]
      BY <1>4
    <2> QED
      BY <1>2, <1>6, <2>1, SumMinus
  <1>8. SumFunctionOnSet(d, N) = SumFunctionOnSet(d, K)
    <2>1. Ints(d, N)
      BY <1>4, <1>5 DEF Ints
    <2>2. \A n \in N \ K : d[n] = 0
      BY <1>3, <1>4, <1>5
    <2> QED
      BY <1>2, <1>3, <2>1, <2>2, SumOnly
  <1>9. Ints(c, K) /\ Ints(d, K) /\ \A n \in K : g[n] = c[n] - d[n] /\ g[n] \in -2..2
    BY <1>3, <1>4, <1>5 DEF Ints
  <1>10. SumFunctionOnSet(g, K) = SumFunctionOnSet(c, K) - SumFunctionOnSet(d, K)
    BY <1>3, <1>9, SumMinus
  <1>11. Cardinality(E) = Cardinality(K) /\ SumFunctionOnSet(t, E) = SumFunctionOnSet(c, K)
    <2>1. E = {m[n] : n \in K}
      BY <1>3, <1>4
    <2>2. \A x, y \in K : m[x] = m[y] => x = y
      BY <1>3, <1>4, <1>5
    <2>3. \A x \in K : t[m[x]] = c[x]
      BY <1>3, <1>4
    <2>4. IsFiniteSet(K) /\ Ints(c, K)
      BY <1>3, <1>9
    <2>5. SumFunctionOnSet(t, E) = SumFunctionOnSet(c, K)
      BY <2>1, <2>2, <2>3, <2>4, SumRenamed
    <2>6. Cardinality(E) = Cardinality(K)
      BY <2>1, <2>2, <2>4, SizeRenamed
    <2> QED
      BY <2>5, <2>6
  <1>12. MonthlyUSDCentsDelta(E) = SumFunctionOnSet(t, E)
    <2>1. DOMAIN t = E
      BY <1>4
    <2> QED
      BY <1>4, <2>1, Zenon DEF MonthlyUSDCentsDelta, SumFunction
  <1>13. Ints(g, K) /\ Ints(lo, K) /\ Ints(hi, K) /\ \A n \in K : lo[n] <= g[n] /\ g[n] <= hi[n]
    <2>1. \A n \in K : lo[n] = -2 /\ hi[n] = 2
      BY <1>4
    <2>2. \A n \in K : g[n] \in Int /\ -2 <= g[n] /\ g[n] <= 2
      BY <1>9
    <2>3. \A n \in K : lo[n] <= g[n] /\ g[n] <= hi[n]
      BY <2>1, <2>2
    <2> QED
      BY <2>1, <2>2, <2>3 DEF Ints
  <1>14. SumFunctionOnSet(lo, K) <= SumFunctionOnSet(g, K) /\ SumFunctionOnSet(g, K) <= SumFunctionOnSet(hi, K)
    BY <1>3, <1>13, SumGrows
  <1>15. SumFunctionOnSet(lo, K) = (-2) * Cardinality(K) /\ SumFunctionOnSet(hi, K) = 2 * Cardinality(K)
    BY <1>3, <1>4, SumConstant
  <1>16. Cardinality(K) \in Nat
    BY <1>3, FS_CardinalityType
  <1>17. PICK k, v, x, y, z : /\ k = Cardinality(K) /\ v = SumFunctionOnSet(g, K)
                              /\ x = SumFunctionOnSet(c, K)
                              /\ y = SumFunctionOnSet(fa, N) /\ z = SumFunctionOnSet(fb, N)
    OBVIOUS
  <1>18. k \in Nat /\ v \in Int /\ x \in Int /\ y \in Int /\ z \in Int
    BY <1>2, <1>3, <1>6, <1>9, <1>13, <1>16, <1>17, SumTake
  <1>19. v = x - (z - y) /\ (-2) * k <= v /\ v <= 2 * k
    BY <1>7, <1>8, <1>10, <1>14, <1>15, <1>17
  <1>20. x - (z - y) \in -(2 * k)..(2 * k)
    BY <1>18, <1>19
  <1> QED
    BY <1>1, <1>6, <1>11, <1>12, <1>17, <1>20

(* What a comparison reports is the difference of its own two files.         *)
EntriesDiffed ==
  /\ inv \in Invocations
  /\ Compared => rep.entries = Diff(ParseValues(inv.chart), ParseValues(inv.other))

(* Only DiffPaths writes entries.                                            *)
LEMMA DiffedStep == EntriesDiffed /\ [Next]_vars => EntriesDiffed'
  <1> SUFFICES ASSUME EntriesDiffed, [Next]_vars PROVE EntriesDiffed'
    OBVIOUS
  <1>1. CASE UNCHANGED <<inv, rep>>
    BY <1>1 DEF EntriesDiffed, Compared
  <1>2. CASE DiffPaths
    <2>1. inv' = inv
          /\ (rep' = rep \/ rep' = [entries |-> Diff(ParseValues(inv.chart), ParseValues(inv.other))])
      BY <1>2 DEF DiffPaths
    <2> QED
      BY <2>1 DEF EntriesDiffed, Compared
  <1>3. CASE Analysis
    <2> DEFINE r == [source |-> inv.source, findings |-> Filtered, roast |-> FALSE]
    <2>1. inv' = inv /\ (rep' = rep \/ rep' = r \/ rep' = Apply(r))
      BY <1>3 DEF Analysis
    <2>2. "entries" \notin DOMAIN r /\ "entries" \notin DOMAIN Apply(r)
      BY DEF Apply
    <2> HIDE DEF r
    <2> QED
      BY <2>1, <2>2 DEF EntriesDiffed, Compared
  <1>4. ASSUME PreRun \/ writeHTMLReport \/ emitReport \/ emitShareURL \/ Exit
        PROVE  UNCHANGED <<inv, rep>>
    BY <1>4 DEF PreRun, writeHTMLReport, emitReport, emitShareURL, Exit
  <1> QED
    BY <1>1, <1>2, <1>3, <1>4 DEF Next, vars

(* Whatever two charts are compared, the difference reads the same from      *)
(* either side, with its rounding, and adds up to the change in the bill, to *)
(* a cent per resource and entry.                                            *)
THEOREM DiffBalances == Spec => []DiffIsLedger
  <1>1. Init => EntriesDiffed
    BY DEF Init, EntriesDiffed, Compared
  <1>2. EntriesDiffed => DiffIsLedger
    <2> SUFFICES ASSUME EntriesDiffed, Compared
                 PROVE  DiffIsLedger
      BY DEF DiffIsLedger, DiffAntisymmetric, DiffAddsUp
    <2>1. PICK a, b : a = ParseValues(inv.chart) /\ b = ParseValues(inv.other)
      OBVIOUS
    <2>2. Listed(a) /\ Listed(b)
      <3>1. \A doc \in {inv.chart, inv.other} :
              Len(doc.blocks) \in Nat /\ DOMAIN doc.blocks = 1..Len(doc.blocks)
        BY CliAssumption DEF EntriesDiffed
      <3> QED
        BY <2>1, <3>1, ParsedListed
    <2>3. rep.entries = Diff(a, b)
      BY <2>1 DEF EntriesDiffed
    <2>4. DiffAntisymmetric
      BY <2>1, <2>2, <2>3, DiffMirrored DEF DiffAntisymmetric
    <2>5. DiffAddsUp
      BY <2>1, <2>2, <2>3, LedgerAdds DEF DiffAddsUp
    <2> QED
      BY <2>4, <2>5 DEF DiffIsLedger
  <1> QED
    BY <1>1, <1>2, DiffedStep, PTL DEF Spec

-----------------------------------------------------------------------------
(* The smaller of two numbers.                                               *)
LEMMA MinOfTwo ==
  ASSUME NEW a \in Int, NEW b \in Int
  PROVE  Min({a, b}) = IF a <= b THEN a ELSE b
  <1> DEFINE m == IF a <= b THEN a ELSE b
  <1>1. m \in {a, b} /\ \A y \in {a, b} : m <= y
    OBVIOUS
  <1>2. \A x \in {a, b} : (\A y \in {a, b} : x <= y) => x = m
    OBVIOUS
  <1> HIDE DEF m
  <1>3. Min({a, b}) = m
    BY <1>1, <1>2, Zenon DEF Min
  <1> QED
    BY <1>3 DEF m

(* A set with at most one member, the findings of most detectors.            *)
AtMostOne(s) == \A x, y \in s : x = y

(* Such a set is finite.                                                     *)
LEMMA OneIsFinite == \A s : AtMostOne(s) => IsFiniteSet(s)
  <1> SUFFICES ASSUME NEW s, AtMostOne(s) PROVE IsFiniteSet(s)
    OBVIOUS
  <1>1. CASE s = {}
    BY <1>1, FS_EmptySet
  <1>2. CASE s # {}
    <2>1. PICK x \in s : TRUE
      BY <1>2
    <2>2. s = {x}
      BY <2>1 DEF AtMostOne
    <2> QED
      BY <2>2, FS_Singleton
  <1> QED
    BY <1>1, <1>2

(* A few finite sets together are finite.                                    *)
LEMMA FewAreFinite ==
  ASSUME NEW a, NEW b, NEW c, NEW d,
         IsFiniteSet(a), IsFiniteSet(b), IsFiniteSet(c), IsFiniteSet(d)
  PROVE  IsFiniteSet(a \cup b \cup c \cup d)
  <1>1. IsFiniteSet(a \cup b)
    BY FS_Union
  <1>2. IsFiniteSet((a \cup b) \cup c)
    BY <1>1, FS_Union
  <1> QED
    BY <1>2, FS_Union

(* No detector finds infinitely much.                                        *)
LEMMA AllIsFinite == ASSUME NEW w PROVE IsFiniteSet(All(w))
  <1>1. \A fires, id, category, severity, cents :
          AtMostOne(Finding(fires, id, category, severity, cents))
    BY DEF Finding, AtMostOne
  <1>2. /\ AtMostOne(cpuOverprovisioned(w)) /\ AtMostOne(memoryOverprovisioned(w))
    BY DEF cpuOverprovisioned, memoryOverprovisioned, Finding, AtMostOne
  <1>3. /\ AtMostOne(cpuLimitFarAboveRequest(w)) /\ AtMostOne(memoryLimitFarAboveRequest(w))
        /\ AtMostOne(oversizedCPULimit(w)) /\ AtMostOne(oversizedMemoryLimit(w))
        /\ AtMostOne(replicasTooHigh(w)) /\ AtMostOne(excessiveReplicaCount(w))
        /\ AtMostOne(unboundedImageTag(w)) /\ AtMostOne(cpuWithoutMemoryRequest(w))
        /\ AtMostOne(memoryWithoutCPURequest(w)) /\ AtMostOne(cpuRequestEqualsLimit(w))
        /\ AtMostOne(memoryRequestEqualsLimit(w)) /\ AtMostOne(tinyCPURequest(w))
        /\ AtMostOne(tinyMemoryRequest(w)) /\ AtMostOne(idleWorkload(w))
    BY DEF cpuLimitFarAboveRequest, memoryLimitFarAboveRequest, oversizedCPULimit,
         oversizedMemoryLimit, replicasTooHigh, excessiveReplicaCount, unboundedImageTag,
         cpuWithoutMemoryRequest, memoryWithoutCPURequest, cpuRequestEqualsLimit,
         memoryRequestEqualsLimit, tinyCPURequest, tinyMemoryRequest, idleWorkload, Cost,
         Finding, AtMostOne
  <1>4. /\ AtMostOne(missingCPULimit(w)) /\ AtMostOne(missingMemoryLimit(w))
        /\ AtMostOne(imagePinnedLatest(w)) /\ AtMostOne(runsAsUIDZero(w))
        /\ AtMostOne(privilegedContainer(w)) /\ AtMostOne(hostNetwork(w))
        /\ AtMostOne(hostPID(w)) /\ AtMostOne(hostIPC(w)) /\ AtMostOne(hostPathVolume(w))
        /\ AtMostOne(dangerousCapabilityAdded(w)) /\ AtMostOne(capabilitiesNotDroppedAll(w))
    BY <1>1, Zenon DEF missingCPULimit, missingMemoryLimit, imagePinnedLatest, runsAsUIDZero,
         privilegedContainer, hostNetwork, hostPID, hostIPC, hostPathVolume,
         dangerousCapabilityAdded, capabilitiesNotDroppedAll, Security
  <1>5. \A value, unsafe, id, severity, undeclared :
          IsFiniteSet(Posture(value, unsafe, id, severity, undeclared))
    <2> SUFFICES ASSUME NEW value, NEW unsafe, NEW id, NEW severity, NEW undeclared
                 PROVE  IsFiniteSet(Posture(value, unsafe, id, severity, undeclared))
      OBVIOUS
    <2>1. AtMostOne(Security(value = unsafe, id, severity)) /\ AtMostOne(Security(value = Nil, id, undeclared))
      BY <1>1, Zenon DEF Security
    <2> QED
      BY <2>1, OneIsFinite, FS_Union DEF Posture
  <1>6. /\ IsFiniteSet(runAsRoot(w)) /\ IsFiniteSet(readOnlyRootFSMissing(w))
        /\ IsFiniteSet(allowPrivilegeEscalation(w)) /\ IsFiniteSet(serviceAccountTokenAutomount(w))
    BY <1>5, Zenon DEF runAsRoot, readOnlyRootFSMissing, allowPrivilegeEscalation,
         serviceAccountTokenAutomount
  <1>7. PICK a, b, c, d, e, f, g, h :
          /\ a = cpuOverprovisioned(w) \cup memoryOverprovisioned(w) \cup cpuLimitFarAboveRequest(w)
                 \cup memoryLimitFarAboveRequest(w)
          /\ b = oversizedCPULimit(w) \cup oversizedMemoryLimit(w) \cup replicasTooHigh(w)
                 \cup excessiveReplicaCount(w)
          /\ c = unboundedImageTag(w) \cup cpuWithoutMemoryRequest(w) \cup memoryWithoutCPURequest(w)
                 \cup cpuRequestEqualsLimit(w)
          /\ d = memoryRequestEqualsLimit(w) \cup tinyCPURequest(w) \cup tinyMemoryRequest(w)
                 \cup idleWorkload(w)
          /\ e = missingCPULimit(w) \cup missingMemoryLimit(w) \cup imagePinnedLatest(w) \cup runAsRoot(w)
          /\ f = runsAsUIDZero(w) \cup privilegedContainer(w) \cup hostNetwork(w) \cup hostPID(w)
          /\ g = hostIPC(w) \cup readOnlyRootFSMissing(w) \cup allowPrivilegeEscalation(w)
                 \cup hostPathVolume(w)
          /\ h = dangerousCapabilityAdded(w) \cup capabilitiesNotDroppedAll(w)
                 \cup serviceAccountTokenAutomount(w) \cup {}
    OBVIOUS
  <1>8. IsFiniteSet(a) /\ IsFiniteSet(b) /\ IsFiniteSet(c) /\ IsFiniteSet(d)
    BY <1>2, <1>3, <1>7, OneIsFinite, FewAreFinite
  <1>9. IsFiniteSet(e) /\ IsFiniteSet(f) /\ IsFiniteSet(g) /\ IsFiniteSet(h)
    BY <1>4, <1>6, <1>7, OneIsFinite, FewAreFinite, FS_EmptySet
  <1>10. All(w) = (a \cup b \cup c \cup d) \cup (e \cup f \cup g \cup h)
    BY <1>7 DEF All
  <1>11. IsFiniteSet(a \cup b \cup c \cup d) /\ IsFiniteSet(e \cup f \cup g \cup h)
    BY <1>8, <1>9, FewAreFinite
  <1> QED
    BY <1>10, <1>11, FS_Union

(* Nor does a run over a file.                                               *)
LEMMA RunIsFinite ==
  ASSUME NEW workloads, IsFiniteSet(DOMAIN workloads)
  PROVE  IsFiniteSet(Run(workloads))
  <1> DEFINE At(i) == {[at |-> i, finding |-> f] : f \in All(workloads[i])}
             D == DOMAIN workloads
             m == [i \in D |-> At(i)]
             R == {At(i) : i \in D}
  <1>1. ASSUME NEW i PROVE IsFiniteSet(At(i))
    <2>1. PICK S, T, n : S = All(workloads[i]) /\ T = At(i) /\ n = [f \in S |-> [at |-> i, finding |-> f]]
      OBVIOUS
    <2>2. T = {n[f] : f \in S}
      BY <2>1
    <2>3. \A x, y \in S : n[x] = n[y] => x = y
      BY <2>1
    <2>4. IsFiniteSet(S)
      BY <2>1, AllIsFinite
    <2> QED
      BY <2>1, <2>2, <2>3, <2>4, SizeRenamed
  <1> HIDE DEF At
  <1>2. m \in Surjection(D, R)
    BY DEF Surjection
  <1> HIDE DEF m
  <1>3. IsFiniteSet(R)
    BY <1>2, FS_Surjection
  <1>4. \A s \in R : IsFiniteSet(s)
    BY <1>1
  <1> HIDE DEF R, D
  <1>5. IsFiniteSet(UNION R)
    BY <1>3, <1>4, FS_UNION
  <1>6. Run(workloads) = UNION R
    BY DEF Run, R, At, D
  <1> QED
    BY <1>5, <1>6

(* No negative terms.                                                        *)
Nats(f, S) == \A x \in S : f[x] \in Nat

(* A part of a sum without negative terms.                                   *)
LEMMA SumPart ==
  ASSUME NEW f, NEW S, IsFiniteSet(S), Nats(f, S), NEW T \in SUBSET S
  PROVE  SumFunctionOnSet(f, T) <= SumFunctionOnSet(f, S) /\ SumFunctionOnSet(f, T) \in Nat
  <1>1. PICK R, z : R = S \ T /\ z = [x \in S |-> 0]
    OBVIOUS
  <1>2. S = T \cup R /\ T \cap R = {} /\ R \in SUBSET S
    BY <1>1
  <1>3. IsFiniteSet(T) /\ IsFiniteSet(R)
    BY <1>2, FS_Subset
  <1>4. Ints(f, T) /\ Ints(f, R) /\ Ints(z, R) /\ Ints(z, T)
    BY <1>1 DEF Ints, Nats
  <1>5. SumFunctionOnSet(f, S) = SumFunctionOnSet(f, T) + SumFunctionOnSet(f, R)
    BY <1>2, <1>3, <1>4, SumBoth
  <1>6. SumFunctionOnSet(z, R) = 0 /\ SumFunctionOnSet(z, T) = 0
    <2>1. \A x \in R : z[x] = 0
      BY <1>1
    <2>2. \A x \in T : z[x] = 0
      BY <1>1
    <2>3. SumFunctionOnSet(z, R) = 0 * Cardinality(R)
      BY <2>1, <1>3, SumConstant
    <2>4. SumFunctionOnSet(z, T) = 0 * Cardinality(T)
      BY <2>2, <1>3, SumConstant
    <2> QED
      BY <2>3, <2>4, <1>3, FS_CardinalityType
  <1>7. SumFunctionOnSet(z, R) <= SumFunctionOnSet(f, R)
    <2>1. \A x \in R : z[x] <= f[x]
      BY <1>1, <1>2 DEF Nats
    <2> QED
      BY <2>1, <1>3, <1>4, SumGrows
  <1>8. SumFunctionOnSet(z, T) <= SumFunctionOnSet(f, T)
    <2>1. \A x \in T : z[x] <= f[x]
      BY <1>1, <1>2 DEF Nats
    <2> QED
      BY <2>1, <1>3, <1>4, SumGrows
  <1>9. SumFunctionOnSet(f, T) \in Int /\ SumFunctionOnSet(f, R) \in Int
    BY <1>3, <1>4, SumTake
  <1> QED
    BY <1>5, <1>6, <1>7, <1>8, <1>9

(* One more term adds at most itself.                                        *)
LEMMA SumWith ==
  ASSUME NEW f, NEW S, IsFiniteSet(S), Nats(f, S), NEW e, NEW k \in Nat, f[e] = k,
         NEW T, T = S \cup {e}
  PROVE  /\ IsFiniteSet(T) /\ Nats(f, T)
         /\ SumFunctionOnSet(f, T) <= SumFunctionOnSet(f, S) + k
  <1>1. IsFiniteSet(T)
    BY FS_AddElement
  <1>2. Nats(f, T)
    BY DEF Nats
  <1>3. SumFunctionOnSet(f, S) \in Nat
    BY SumPart
  <1>4. CASE e \in S
    <2>1. T = S
      BY <1>4
    <2>2. PICK n \in Nat : n = SumFunctionOnSet(f, S) /\ n <= n + k
      BY <1>3
    <2> QED
      BY <2>1, <2>2, <1>1, <1>2
  <1>5. CASE e \notin S
    <2>1. T \ {e} = S /\ e \in T /\ Ints(f, T)
      BY <1>2, <1>5 DEF Ints, Nats
    <2>2. SumFunctionOnSet(f, T) = f[e] + SumFunctionOnSet(f, T \ {e})
      BY <1>1, <2>1, SumTake
    <2>3. SumFunctionOnSet(f, T) = k + SumFunctionOnSet(f, S)
      BY <2>1, <2>2
    <2> QED
      BY <1>1, <1>2, <1>3, <2>3
  <1> QED
    BY <1>4, <1>5

(* What the findings S take from the score.                                  *)
Penalties(S) == [f \in S |-> penaltyFor(f.finding.severity)]

(* The score falls with the penalty.                                         *)
LEMMA ScoreFalls ==
  ASSUME NEW S, NEW T,
         SumFunctionOnSet(Penalties(S), S) \in Nat, SumFunctionOnSet(Penalties(T), T) \in Nat,
         SumFunctionOnSet(Penalties(S), S) <= SumFunctionOnSet(Penalties(T), T)
  PROVE  Compute(S).value >= Compute(T).value
  <1>1. \A U : SumFunction(Penalties(U)) = SumFunctionOnSet(Penalties(U), U)
    <2> SUFFICES ASSUME NEW U PROVE SumFunction(Penalties(U)) = SumFunctionOnSet(Penalties(U), U)
      OBVIOUS
    <2>1. PICK h : h = Penalties(U)
      OBVIOUS
    <2>2. DOMAIN h = U
      BY <2>1 DEF Penalties
    <2>3. SumFunction(h) = SumFunctionOnSet(h, U)
      BY <2>2, Zenon DEF SumFunction
    <2> QED
      BY <2>1, <2>3
  <1>2. \A U : Compute(U).value = 100 - Min({SumFunction(Penalties(U)), 100})
    BY DEF Compute, Penalties, penaltyCap
  <1>3. PICK s \in Nat, t \in Nat : /\ s = SumFunctionOnSet(Penalties(S), S)
                                    /\ t = SumFunctionOnSet(Penalties(T), T) /\ s <= t
    OBVIOUS
  <1>4. Compute(S).value = 100 - Min({s, 100}) /\ Compute(T).value = 100 - Min({t, 100})
    BY <1>1, <1>2, <1>3
  <1>5. Min({s, 100}) = (IF s <= 100 THEN s ELSE 100) /\ Min({t, 100}) = (IF t <= 100 THEN t ELSE 100)
    BY MinOfTwo
  <1> QED
    BY <1>3, <1>4, <1>5

(* v is w with a memory limit.                                               *)
Limited(w, v) ==
  /\ v.reqCPU = w.reqCPU /\ v.limCPU = w.limCPU /\ v.reqMem = w.reqMem
  /\ v.image = w.image /\ v.replicas = w.replicas /\ v.hasHPA = w.hasHPA /\ v.sec = w.sec
  /\ w.reqMem \in Nat /\ w.limMem = Nil /\ v.limMem \in Nat

(* The detectors that read no memory limit.                                  *)
Others(w) ==
  UNION {cpuOverprovisioned(w), cpuLimitFarAboveRequest(w), oversizedCPULimit(w),
         replicasTooHigh(w), excessiveReplicaCount(w), unboundedImageTag(w),
         cpuWithoutMemoryRequest(w), memoryWithoutCPURequest(w), cpuRequestEqualsLimit(w),
         tinyCPURequest(w), tinyMemoryRequest(w), idleWorkload(w), missingCPULimit(w),
         imagePinnedLatest(w), runAsRoot(w), runsAsUIDZero(w), privilegedContainer(w),
         hostNetwork(w), hostPID(w), hostIPC(w), readOnlyRootFSMissing(w),
         allowPrivilegeEscalation(w), hostPathVolume(w), dangerousCapabilityAdded(w),
         capabilitiesNotDroppedAll(w), serviceAccountTokenAutomount(w)}

(* The detectors that do.                                                    *)
Memory(w) ==
  UNION {memoryOverprovisioned(w), memoryLimitFarAboveRequest(w), oversizedMemoryLimit(w),
         memoryRequestEqualsLimit(w), missingMemoryLimit(w)}

(* A memory limit does not concern the other detectors.                      *)
LEMMA OthersStay == ASSUME NEW w, NEW v, Limited(w, v) PROVE Others(v) = Others(w)
  <1>1. /\ cpuOverprovisioned(v) = cpuOverprovisioned(w)
        /\ cpuLimitFarAboveRequest(v) = cpuLimitFarAboveRequest(w)
        /\ oversizedCPULimit(v) = oversizedCPULimit(w)
        /\ replicasTooHigh(v) = replicasTooHigh(w)
        /\ excessiveReplicaCount(v) = excessiveReplicaCount(w)
        /\ unboundedImageTag(v) = unboundedImageTag(w)
    BY DEF Limited, cpuOverprovisioned, cpuLimitFarAboveRequest, oversizedCPULimit,
         replicasTooHigh, excessiveReplicaCount, unboundedImageTag
  <1>2. /\ cpuWithoutMemoryRequest(v) = cpuWithoutMemoryRequest(w)
        /\ memoryWithoutCPURequest(v) = memoryWithoutCPURequest(w)
        /\ cpuRequestEqualsLimit(v) = cpuRequestEqualsLimit(w)
        /\ tinyCPURequest(v) = tinyCPURequest(w) /\ tinyMemoryRequest(v) = tinyMemoryRequest(w)
        /\ idleWorkload(v) = idleWorkload(w) /\ missingCPULimit(v) = missingCPULimit(w)
    BY DEF Limited, cpuWithoutMemoryRequest, memoryWithoutCPURequest, cpuRequestEqualsLimit,
         tinyCPURequest, tinyMemoryRequest, idleWorkload, missingCPULimit
  <1>3. /\ imagePinnedLatest(v) = imagePinnedLatest(w) /\ runAsRoot(v) = runAsRoot(w)
        /\ runsAsUIDZero(v) = runsAsUIDZero(w) /\ privilegedContainer(v) = privilegedContainer(w)
        /\ hostNetwork(v) = hostNetwork(w) /\ hostPID(v) = hostPID(w) /\ hostIPC(v) = hostIPC(w)
    BY DEF Limited, imagePinnedLatest, runAsRoot, runsAsUIDZero, privilegedContainer,
         hostNetwork, hostPID, hostIPC
  <1>4. /\ readOnlyRootFSMissing(v) = readOnlyRootFSMissing(w)
        /\ allowPrivilegeEscalation(v) = allowPrivilegeEscalation(w)
        /\ hostPathVolume(v) = hostPathVolume(w)
        /\ dangerousCapabilityAdded(v) = dangerousCapabilityAdded(w)
        /\ capabilitiesNotDroppedAll(v) = capabilitiesNotDroppedAll(w)
        /\ serviceAccountTokenAutomount(v) = serviceAccountTokenAutomount(w)
    BY DEF Limited, readOnlyRootFSMissing, allowPrivilegeEscalation, hostPathVolume,
         dangerousCapabilityAdded, capabilitiesNotDroppedAll, serviceAccountTokenAutomount
  <1> QED
    BY <1>1, <1>2, <1>3, <1>4, Zenon DEF Others

(* Either kind of detector, and no third.                                    *)
LEMMA BothKinds == ASSUME NEW w PROVE All(w) = Others(w) \cup Memory(w)
  BY DEF All, Others, Memory

(* The memory limit takes the HIGH finding away and brings in at most two of *)
(* MED and one of LOW: no limit is both too close to the request and too far *)
(* above it.                                                                 *)
LEMMA LimitTrades ==
  ASSUME NEW w, NEW v, Limited(w, v)
  PROVE  /\ \E g \in All(w) : g.id = "missing-memory-limit" /\ g.severity = "HIGH"
         /\ \E x, y, z : /\ x.severity = "MED" /\ y.severity = "MED" /\ z.severity = "LOW"
                         /\ All(v) \subseteq
                              {f \in All(w) : f.id # "missing-memory-limit"} \cup {x, y, z}
  <1>1. \E g \in All(w) : g.id = "missing-memory-limit" /\ g.severity = "HIGH"
    <2>1. PICK g : g = [id |-> "missing-memory-limit", category |-> "security", severity |-> "HIGH", cents |-> 0]
      OBVIOUS
    <2>2. w.reqMem # Nil /\ w.limMem = Nil
      BY NilAssumption DEF Limited
    <2>3. g \in missingMemoryLimit(w)
      BY <2>1, <2>2 DEF missingMemoryLimit, Security, Finding
    <2>4. g \in All(w)
      BY <2>3, BothKinds DEF Memory
    <2> QED
      BY <2>1, <2>4
  <1>2. PICK m, x, y, z :
          /\ m = [id |-> "memory-overprovisioned", category |-> "cost", severity |-> "MED",
                  cents |-> halfMemCents(v.reqMem)]
          /\ x = [id |-> "memory-limit-far-above-request", category |-> "cost", severity |-> "MED", cents |-> 0]
          /\ y = [id |-> "oversized-memory-limit", category |-> "cost", severity |-> "MED", cents |-> 0]
          /\ z = [id |-> "memory-request-equals-limit", category |-> "cost", severity |-> "LOW", cents |-> 0]
    OBVIOUS
  <1>3. memoryOverprovisioned(v) \subseteq {m} /\ memoryLimitFarAboveRequest(v) \subseteq {x}
        /\ oversizedMemoryLimit(v) \subseteq {y} /\ memoryRequestEqualsLimit(v) \subseteq {z}
    BY <1>2 DEF memoryOverprovisioned, memoryLimitFarAboveRequest, oversizedMemoryLimit,
                memoryRequestEqualsLimit, Cost, Finding
  <1>4. memoryOverprovisioned(v) = {} \/ memoryLimitFarAboveRequest(v) = {}
    <2>1. ~(Overprovisioned(v.reqMem, v.limMem) /\ FarAbove(v.reqMem, v.limMem))
      BY BetweenThresholds DEF Limited
    <2> QED
      BY <2>1 DEF memoryOverprovisioned, memoryLimitFarAboveRequest, Cost, Finding
  <1>5. missingMemoryLimit(v) = {}
    BY NilAssumption DEF Limited, missingMemoryLimit, Security, Finding
  <1>6. Memory(v) \subseteq {m, y, z} \/ Memory(v) \subseteq {x, y, z}
    BY <1>3, <1>4, <1>5 DEF Memory
  <1>7. \A f \in Others(v) : f \in All(w) /\ f.id # "missing-memory-limit"
    <2> SUFFICES ASSUME NEW f \in Others(v) PROVE f \in All(w) /\ f.id # "missing-memory-limit"
      OBVIOUS
    <2>1. f \in All(w) /\ f \in All(v)
      BY OthersStay, BothKinds
    <2>2. f.id = "missing-memory-limit" => v.limMem = Nil
      BY <2>1, FindingMeans DEF Means
    <2> QED
      BY <2>1, <2>2, NilAssumption DEF Limited
  <1>8. \/ All(v) \subseteq {f \in All(w) : f.id # "missing-memory-limit"} \cup {m, y, z}
        \/ All(v) \subseteq {f \in All(w) : f.id # "missing-memory-limit"} \cup {x, y, z}
    BY <1>6, <1>7, BothKinds
  <1>9. m.severity = "MED" /\ x.severity = "MED" /\ y.severity = "MED" /\ z.severity = "LOW"
    BY <1>2
  <1>10. \E a, b, c : /\ a.severity = "MED" /\ b.severity = "MED" /\ c.severity = "LOW"
                     /\ All(v) \subseteq {f \in All(w) : f.id # "missing-memory-limit"} \cup {a, b, c}
    BY <1>8, <1>9, Zenon
  <1> QED
    BY <1>1, <1>10

(* The members of a run.                                                     *)
LEMMA RunMembers ==
  ASSUME NEW workloads
  PROVE  \A h : h \in Run(workloads) <=>
           \E j \in DOMAIN workloads : \E f \in All(workloads[j]) : h = [at |-> j, finding |-> f]
  BY DEF Run

(* With a memory limit declared at place i the whole file scores no lower.   *)
LEMMA LimitPays ==
  ASSUME NEW a, NEW b, IsFiniteSet(DOMAIN a), DOMAIN b = DOMAIN a, NEW i \in DOMAIN a,
         \A j \in DOMAIN a : j # i => b[j] = a[j], Limited(a[i], b[i])
  PROVE  Compute(Run(b)).value >= Compute(Run(a)).value
  <1>1. PICK A, B : A = Run(a) /\ B = Run(b)
    OBVIOUS
  <1>2. IsFiniteSet(A) /\ IsFiniteSet(B)
    BY <1>1, RunIsFinite
  <1>3. /\ \A h : h \in A <=> \E j \in DOMAIN a : \E f \in All(a[j]) : h = [at |-> j, finding |-> f]
        /\ \A h : h \in B <=> \E j \in DOMAIN a : \E f \in All(b[j]) : h = [at |-> j, finding |-> f]
    BY <1>1, RunMembers
  <1>4. PICK g \in All(a[i]) : g.id = "missing-memory-limit" /\ g.severity = "HIGH"
    BY LimitTrades
  <1>5. PICK x, y, z : /\ x.severity = "MED" /\ y.severity = "MED" /\ z.severity = "LOW"
                       /\ All(b[i]) \subseteq
                            {f \in All(a[i]) : f.id # "missing-memory-limit"} \cup {x, y, z}
    BY LimitTrades
  <1>6. PICK G, X, Y, Z : /\ G = [at |-> i, finding |-> g] /\ X = [at |-> i, finding |-> x]
                          /\ Y = [at |-> i, finding |-> y] /\ Z = [at |-> i, finding |-> z]
    OBVIOUS
  <1>7. PICK R, S, T, V, U : /\ R = A \ {G} /\ S = R \cup {X} /\ T = S \cup {Y} /\ V = T \cup {Z}
                             /\ U = A \cup V
    OBVIOUS
  <1>8. G \in A
    BY <1>3, <1>4, <1>6
  <1>9. B \subseteq V
    <2> SUFFICES ASSUME NEW h \in B PROVE h \in V
      OBVIOUS
    <2>1. PICK j \in DOMAIN a : \E f \in All(b[j]) : h = [at |-> j, finding |-> f]
      BY <1>3
    <2>2. PICK f \in All(b[j]) : h = [at |-> j, finding |-> f]
      BY <2>1
    <2>3. CASE j # i
      <3>1. f \in All(a[j]) /\ h # G
        BY <1>6, <2>2, <2>3
      <3>2. h \in A
        BY <3>1, <2>2, <1>3
      <3> QED
        BY <3>1, <3>2, <1>7
    <2>4. CASE j = i /\ f \in {x, y, z}
      BY <2>2, <2>4, <1>6, <1>7
    <2>5. CASE j = i /\ f \notin {x, y, z}
      <3>1. f \in All(a[i]) /\ f.id # "missing-memory-limit"
        BY <1>5, <2>2, <2>5
      <3>2. h # G
        BY <3>1, <1>4, <1>6, <2>2
      <3>3. h \in A
        BY <3>1, <2>2, <2>5, <1>3
      <3> QED
        BY <3>2, <3>3, <1>7
    <2> QED
      BY <2>3, <2>4, <2>5
  <1>10. PICK p : p = Penalties(U)
    OBVIOUS
  <1>11. /\ Nats(p, U)
         /\ p[G] = 25 /\ p[X] = 10 /\ p[Y] = 10 /\ p[Z] = 3
    <2>1. G \in U /\ X \in U /\ Y \in U /\ Z \in U
      BY <1>7, <1>8
    <2>2. \A f \in U : p[f] = penaltyFor(f.finding.severity)
      BY <1>10 DEF Penalties
    <2>3. /\ \A s : penaltyFor(s) \in Nat
          /\ penaltyFor("HIGH") = 25 /\ penaltyFor("MED") = 10 /\ penaltyFor("LOW") = 3
      BY DEF penaltyFor
    <2>4. /\ G.finding.severity = "HIGH" /\ X.finding.severity = "MED"
          /\ Y.finding.severity = "MED" /\ Z.finding.severity = "LOW"
      BY <1>4, <1>5, <1>6
    <2> QED
      BY <2>1, <2>2, <2>3, <2>4 DEF Nats
  <1>12. ASSUME NEW Q \in SUBSET U, IsFiniteSet(Q)
         PROVE  /\ SumFunctionOnSet(Penalties(Q), Q) = SumFunctionOnSet(p, Q)
                /\ SumFunctionOnSet(p, Q) \in Nat
    <2>1. \A f \in Q : p[f] = Penalties(Q)[f]
      BY <1>10 DEF Penalties
    <2>2. Ints(p, Q) /\ Nats(p, Q)
      BY <1>11 DEF Ints, Nats
    <2>3. SumFunctionOnSet(p, Q) \in Nat
      BY <1>12, <2>2, SumPart
    <2>4. SumFunctionOnSet(p, Q) = SumFunctionOnSet(Penalties(Q), Q)
      BY <1>12, <2>1, <2>2, SumSame
    <2> QED
      BY <2>3, <2>4
  <1>13. R \in SUBSET U /\ A \in SUBSET U /\ B \in SUBSET U /\ IsFiniteSet(R) /\ Nats(p, R)
    BY <1>2, <1>7, <1>9, <1>11, FS_RemoveElement DEF Nats
  <1>14. SumFunctionOnSet(p, A) = 25 + SumFunctionOnSet(p, R) /\ SumFunctionOnSet(p, R) \in Nat
    <2>1. Ints(p, A)
      BY <1>11, <1>13 DEF Ints, Nats
    <2>2. SumFunctionOnSet(p, A) = p[G] + SumFunctionOnSet(p, A \ {G})
      BY <1>2, <1>8, <2>1, SumTake
    <2> QED
      BY <2>2, <1>7, <1>11, <1>12, <1>13
  <1>15. /\ IsFiniteSet(S) /\ Nats(p, S)
         /\ SumFunctionOnSet(p, S) <= SumFunctionOnSet(p, R) + 10
    BY <1>7, <1>11, <1>13, SumWith
  <1>16. /\ IsFiniteSet(T) /\ Nats(p, T)
         /\ SumFunctionOnSet(p, T) <= SumFunctionOnSet(p, S) + 10
    BY <1>7, <1>11, <1>15, SumWith
  <1>17. /\ IsFiniteSet(V) /\ Nats(p, V)
         /\ SumFunctionOnSet(p, V) <= SumFunctionOnSet(p, T) + 3
    BY <1>7, <1>11, <1>16, SumWith
  <1>18. SumFunctionOnSet(p, B) <= SumFunctionOnSet(p, V)
    BY <1>9, <1>17, SumPart
  <1>19. /\ SumFunctionOnSet(p, B) \in Nat /\ SumFunctionOnSet(p, S) \in Nat
         /\ SumFunctionOnSet(p, T) \in Nat /\ SumFunctionOnSet(p, V) \in Nat
    BY <1>2, <1>7, <1>12, <1>13, <1>15, <1>16, <1>17
  <1>20. SumFunctionOnSet(p, B) <= SumFunctionOnSet(p, A)
    BY <1>14, <1>15, <1>16, <1>17, <1>18, <1>19
  <1>21. /\ SumFunctionOnSet(Penalties(A), A) = SumFunctionOnSet(p, A)
         /\ SumFunctionOnSet(Penalties(B), B) = SumFunctionOnSet(p, B)
         /\ SumFunctionOnSet(p, A) \in Nat
    BY <1>2, <1>12, <1>13
  <1> QED
    BY <1>1, <1>19, <1>20, <1>21, ScoreFalls

(* The sum of one term.                                                      *)
LEMMA SumOne == ASSUME NEW f, NEW e, f[e] \in Int PROVE SumFunctionOnSet(f, {e}) = f[e]
  <1>1. PICK S : S = {e}
    OBVIOUS
  <1>2. IsFiniteSet(S) /\ Ints(f, S) /\ e \in S /\ S \ {e} = {}
    BY <1>1, FS_Singleton DEF Ints
  <1>3. SumFunctionOnSet(f, S) = f[e] + SumFunctionOnSet(f, S \ {e})
    BY <1>2, SumTake
  <1>4. SumFunctionOnSet(f, S) = f[e] + 0
    BY <1>2, <1>3, SumEmpty
  <1> QED
    BY <1>1, <1>4

(* A record with the fields of a workload.                                   *)
Whole(w) ==
  w = [name |-> w.name, reqCPU |-> w.reqCPU, reqMem |-> w.reqMem, limCPU |-> w.limCPU,
       limMem |-> w.limMem, image |-> w.image, replicas |-> w.replicas, hasHPA |-> w.hasHPA,
       sec |-> w.sec]

(* The request that the advice leaves, of CPU and of memory.                 *)
LeftCPU(w) == IF Overprovisioned(w.reqCPU, w.limCPU) THEN w.reqCPU - (w.reqCPU \div 2) ELSE w.reqCPU
LeftMem(w) == IF Overprovisioned(w.reqMem, w.limMem) THEN w.reqMem \div 2 ELSE w.reqMem

(* What the two findings promise for a workload.                             *)
PaidCPU(w) == IF Overprovisioned(w.reqCPU, w.limCPU) THEN cpuCents(w.reqCPU \div 2) ELSE 0
PaidMem(w) == IF Overprovisioned(w.reqMem, w.limMem) THEN halfMemCents(w.reqMem) ELSE 0

(* Following the advice changes the two requests and nothing else.           *)
LEMMA HalveFields ==
  ASSUME NEW w, Whole(w), Measured(w)
  PROVE  LET h == Halve(w)
         IN  /\ h.name = w.name /\ h.limCPU = w.limCPU /\ h.limMem = w.limMem
             /\ h.reqCPU = LeftCPU(w) /\ h.reqMem = LeftMem(w)
             /\ Measured(h)
  <1>1. PICK h : h = Halve(w)
    OBVIOUS
  <1>2. h = [name |-> w.name, reqCPU |-> LeftCPU(w), reqMem |-> LeftMem(w), limCPU |-> w.limCPU,
             limMem |-> w.limMem, image |-> w.image, replicas |-> w.replicas, hasHPA |-> w.hasHPA,
             sec |-> w.sec]
    BY <1>1 DEF Halve, LeftCPU, LeftMem, Whole
  <1>3. LeftCPU(w) \in Nat \cup {Nil} /\ LeftMem(w) \in Nat \cup {Nil}
    BY DEF Measured, LeftCPU, LeftMem, Overprovisioned
  <1> QED
    BY <1>1, <1>2, <1>3 DEF Measured

(* What diff makes of it is what the findings promise: the rounding of the   *)
(* two files agrees.                                                         *)
LEMMA HalvePays ==
  ASSUME NEW w, Measured(w), EvenMemory(w)
  PROVE  /\ PaidCPU(w) \in Int /\ PaidMem(w) \in Int
         /\ monthlyDelta(qDelta(w.reqCPU, LeftCPU(w)), qDelta(w.reqMem, LeftMem(w)))
              = -(PaidCPU(w) + PaidMem(w))
  <1>1. /\ PaidCPU(w) \in Int
        /\ Truncated(qDelta(w.reqCPU, LeftCPU(w)) * MonthlyHours * CorePriceCents, 1000) = -PaidCPU(w)
    <2>1. CASE Overprovisioned(w.reqCPU, w.limCPU)
      <3>1. PICK q \in Nat : q = w.reqCPU
        BY <2>1 DEF Measured, Overprovisioned
      <3>2. PICK k \in Nat : k = q \div 2
        OBVIOUS
      <3>3. q - k \in Nat /\ LeftCPU(w) = q - k /\ q # Nil /\ q - k # Nil
        BY <2>1, <3>1, <3>2, NilAssumption DEF LeftCPU
      <3>4. qDelta(w.reqCPU, LeftCPU(w)) = -k
        BY <3>1, <3>3 DEF qDelta
      <3>5. PaidCPU(w) = cpuCents(k)
        BY <2>1, <3>1, <3>2 DEF PaidCPU
      <3>6. PICK n \in Nat : n = k * 2920
        OBVIOUS
      <3>7. cpuCents(k) = n \div 1000 /\ (-k) * MonthlyHours * CorePriceCents = -n
        BY <3>6 DEF cpuCents, MonthlyHours, CorePriceCents
      <3>8. Truncated(-n, 1000) = -(n \div 1000) /\ n \div 1000 \in Int
        BY DEF Truncated
      <3> QED
        BY <3>4, <3>5, <3>7, <3>8
    <2>2. CASE ~Overprovisioned(w.reqCPU, w.limCPU)
      <3>1. qDelta(w.reqCPU, LeftCPU(w)) = 0 /\ PaidCPU(w) = 0
        BY <2>2 DEF LeftCPU, PaidCPU, qDelta, Measured
      <3>2. 0 * MonthlyHours * CorePriceCents = 0 /\ Truncated(0, 1000) = 0
        BY DEF MonthlyHours, CorePriceCents, Truncated
      <3> QED
        BY <3>1, <3>2
    <2> QED
      BY <2>1, <2>2
  <1>2. /\ PaidMem(w) \in Int
        /\ Truncated(qDelta(w.reqMem, LeftMem(w)) * GiBPriceCents, 1024) = -PaidMem(w)
    <2>1. CASE Overprovisioned(w.reqMem, w.limMem)
      <3>1. PICK q \in Nat : q = w.reqMem
        BY <2>1 DEF Measured, Overprovisioned
      <3>2. PICK k \in Nat : k = q \div 2
        OBVIOUS
      <3>3. q = 2 * k
        BY <2>1, <3>1, <3>2 DEF EvenMemory, Overprovisioned
      <3>4. LeftMem(w) = k /\ q # Nil /\ k # Nil
        BY <2>1, <3>1, <3>2, NilAssumption DEF LeftMem
      <3>5. qDelta(w.reqMem, LeftMem(w)) = -k
        BY <3>1, <3>3, <3>4 DEF qDelta
      <3>6. PICK n \in Nat : n = k * 350
        OBVIOUS
      <3>7. PaidMem(w) = (2 * n) \div 2048 /\ (-k) * GiBPriceCents = -n
        <4>1. PaidMem(w) = (q * 350) \div 2048
          BY <2>1, <3>1 DEF PaidMem, halfMemCents, GiBPriceCents
        <4>2. q * 350 = 2 * n
          BY <3>3, <3>6
        <4> QED
          BY <4>1, <4>2, <3>6 DEF GiBPriceCents
      <3>8. (2 * n) \div 2048 = n \div 1024 /\ Truncated(-n, 1024) = -(n \div 1024) /\ n \div 1024 \in Int
        BY DEF Truncated
      <3> QED
        BY <3>5, <3>7, <3>8
    <2>2. CASE ~Overprovisioned(w.reqMem, w.limMem)
      <3>1. qDelta(w.reqMem, LeftMem(w)) = 0 /\ PaidMem(w) = 0
        BY <2>2 DEF LeftMem, PaidMem, qDelta, Measured
      <3>2. 0 * GiBPriceCents = 0 /\ Truncated(0, 1024) = 0
        BY DEF GiBPriceCents, Truncated
      <3> QED
        BY <3>1, <3>2
    <2> QED
      BY <2>1, <2>2
  <1>3. PICK x \in Int, y \in Int : x = PaidCPU(w) /\ y = PaidMem(w)
    BY <1>1, <1>2
  <1>4. (-x) + (-y) = -(x + y)
    OBVIOUS
  <1>5. monthlyDelta(qDelta(w.reqCPU, LeftCPU(w)), qDelta(w.reqMem, LeftMem(w))) = (-x) + (-y)
    <2>1. PICK r, s : /\ r = Truncated(qDelta(w.reqCPU, LeftCPU(w)) * MonthlyHours * CorePriceCents, 1000)
                      /\ s = Truncated(qDelta(w.reqMem, LeftMem(w)) * GiBPriceCents, 1024)
      OBVIOUS
    <2>2. monthlyDelta(qDelta(w.reqCPU, LeftCPU(w)), qDelta(w.reqMem, LeftMem(w))) = r + s
      BY <2>1 DEF monthlyDelta
    <2>3. r = -x /\ s = -y
      BY <2>1, <1>1, <1>2, <1>3, Zenon
    <2> QED
      BY <2>2, <2>3, Zenon
  <1> QED
    BY <1>3, <1>4, <1>5

(* c has the cents of all names of the two files.                            *)
Priced(c, N, a, b) == N = Names(a) \cup Names(b) /\ \A n \in N : c[n] = Entry(a, b, n).cents

(* The total of a difference, taken over all names of the two files.         *)
LEMMA DiffTotal ==
  ASSUME NEW a, NEW b, Listed(a), Listed(b), NEW N, NEW c, Priced(c, N, a, b)
  PROVE  /\ IsFiniteSet(N) /\ Ints(c, N)
         /\ MonthlyUSDCentsDelta(Diff(a, b)) = SumFunctionOnSet(c, N)
  <1> USE DEF Priced
  <1>1. IsFiniteSet(N)
    BY NamesFinite, FS_Union
  <1>2. \A n \in N : LET e == Entry(a, b, n)
                     IN  /\ e.name = n /\ e.cents \in Int
                         /\ e.cents = monthlyDelta(e.cpu, e.mem)
    BY EntryFields
  <1>3. Ints(c, N)
    BY <1>2 DEF Ints
  <1>4. PICK K, E : K = KeptNames(a, b) /\ E = Diff(a, b)
    OBVIOUS
  <1>5. K \in SUBSET N /\ \A n \in N \ K : ~Differs(Entry(a, b, n))
    BY <1>4 DEF KeptNames
  <1>6. \A n \in N \ K : c[n] = 0
    <2> SUFFICES ASSUME NEW n \in N \ K PROVE c[n] = 0
      OBVIOUS
    <2>1. PICK e : e = Entry(a, b, n)
      OBVIOUS
    <2>2. e.cpu = 0 /\ e.mem = 0
      BY <1>5, <2>1 DEF Differs
    <2>3. monthlyDelta(0, 0) = 0
      BY DEF monthlyDelta, Truncated, MonthlyHours, CorePriceCents, GiBPriceCents
    <2> QED
      BY <1>2, <2>1, <2>2, <2>3
  <1>7. SumFunctionOnSet(c, N) = SumFunctionOnSet(c, K)
    BY <1>1, <1>3, <1>5, <1>6, SumOnly
  <1>8. PICK m, t : m = [n \in K |-> Entry(a, b, n)] /\ t = [e \in E |-> e.cents]
    OBVIOUS
  <1>9. SumFunctionOnSet(t, E) = SumFunctionOnSet(c, K)
    <2>1. E = {m[n] : n \in K}
      <3>1. E = {Entry(a, b, n) : n \in K}
        BY <1>4, DiffIsKept
      <3> QED
        BY <3>1, <1>8
    <2>2. \A x, y \in K : m[x] = m[y] => x = y
      BY <1>2, <1>5, <1>8
    <2>3. \A x \in K : t[m[x]] = c[x]
      BY <1>5, <1>8, <2>1
    <2>4. IsFiniteSet(K) /\ Ints(c, K)
      BY <1>1, <1>3, <1>5, FS_Subset DEF Ints
    <2> QED
      BY <2>1, <2>2, <2>3, <2>4, SumRenamed
  <1>10. MonthlyUSDCentsDelta(E) = SumFunctionOnSet(t, E)
    <2>1. DOMAIN t = E
      BY <1>8
    <2> QED
      BY <1>8, <2>1, Zenon DEF MonthlyUSDCentsDelta, SumFunction
  <1> QED
    BY <1>1, <1>3, <1>4, <1>7, <1>9, <1>10

(* The advice to halve a request, of all the findings of a file.             *)
Promised(workloads) == {f \in Run(workloads) : f.finding.id \in Advised}

(* What a file is promised, workload by workload.                            *)
LEMMA PromisesAdd ==
  ASSUME NEW workloads, Listed(workloads), NEW r,
         \A i \in DOMAIN workloads : /\ r[i] = PaidCPU(workloads[i]) + PaidMem(workloads[i])
                                     /\ PaidCPU(workloads[i]) \in Int /\ PaidMem(workloads[i]) \in Int
  PROVE  SumFunction([f \in Promised(workloads) |-> f.finding.cents])
           = SumFunctionOnSet(r, DOMAIN workloads)
  <1>1. PICK D, K, c, o : /\ D = DOMAIN workloads /\ K = Promised(workloads)
                          /\ c = [f \in K |-> f.finding.cents] /\ o = [f \in K |-> f.at]
    OBVIOUS
  <1>2. IsFiniteSet(D) /\ IsFiniteSet(K)
    <2>1. IsFiniteSet(D)
      BY <1>1 DEF Listed
    <2>2. IsFiniteSet(Run(workloads)) /\ K \in SUBSET Run(workloads)
      BY <1>1, <2>1, RunIsFinite DEF Promised
    <2> QED
      BY <2>1, <2>2, FS_Subset
  <1>3. \A h : h \in K <=> \E j \in D : \E f \in All(workloads[j]) :
                             h = [at |-> j, finding |-> f] /\ f.id \in Advised
    <2>1. \A h : h \in K <=> h \in Run(workloads) /\ h.finding.id \in Advised
      BY <1>1 DEF Promised
    <2> QED
      BY <2>1, <1>1, RunMembers
  <1>4. ASSUME NEW i \in D
        PROVE  /\ Ints(c, Group(K, o, i))
               /\ r[i] = SumFunctionOnSet(c, Group(K, o, i))
    <2>1. PICK w, G, P, Q : /\ w = workloads[i] /\ G = Group(K, o, i)
                            /\ P = {[at |-> i, finding |-> f] : f \in cpuOverprovisioned(w)}
                            /\ Q = {[at |-> i, finding |-> f] : f \in memoryOverprovisioned(w)}
      OBVIOUS
    <2>2. /\ \A f \in cpuOverprovisioned(w) : f \in All(w) /\ f.id = "cpu-overprovisioned"
          /\ \A f \in memoryOverprovisioned(w) : f \in All(w) /\ f.id = "memory-overprovisioned"
      <3>1. cpuOverprovisioned(w) \subseteq All(w) /\ memoryOverprovisioned(w) \subseteq All(w)
        BY DEF All
      <3>2. \A f \in cpuOverprovisioned(w) : f.id = "cpu-overprovisioned"
        BY DEF cpuOverprovisioned, Finding
      <3>3. \A f \in memoryOverprovisioned(w) : f.id = "memory-overprovisioned"
        BY DEF memoryOverprovisioned, Finding
      <3> QED
        BY <3>1, <3>2, <3>3
    <2>3. G = P \cup Q
      <3>1. \A h : h \in G <=> h \in K /\ h.at = i
        BY <1>1, <2>1 DEF Group
      <3>2. ASSUME NEW h \in G PROVE h \in P \cup Q
        <4>1. PICK j \in D : \E f \in All(workloads[j]) : h = [at |-> j, finding |-> f] /\ f.id \in Advised
          BY <1>3, <3>1, <3>2
        <4>2. PICK f \in All(workloads[j]) : h = [at |-> j, finding |-> f] /\ f.id \in Advised
          BY <4>1
        <4>3. j = i
          BY <3>1, <3>2, <4>2
        <4>4. f \in cpuOverprovisioned(w) \/ f \in memoryOverprovisioned(w)
          BY <2>1, <4>2, <4>3, FindingMeans DEF Means, Advised
        <4> QED
          BY <2>1, <4>2, <4>3, <4>4
      <3>3. ASSUME NEW h \in P \cup Q PROVE h \in G
        <4>1. PICK f \in cpuOverprovisioned(w) \cup memoryOverprovisioned(w) : h = [at |-> i, finding |-> f]
          BY <2>1, <3>3
        <4>2. f \in All(workloads[i]) /\ f.id \in Advised
          BY <2>1, <2>2, <4>1 DEF Advised
        <4>3. h \in K
          BY <1>3, <4>1, <4>2
        <4> QED
          BY <3>1, <4>1, <4>3
      <3> QED
        BY <3>2, <3>3
    <2>4. P \cap Q = {}
      BY <2>1, <2>2
    <2>5. IsFiniteSet(P) /\ Ints(c, P) /\ SumFunctionOnSet(c, P) = PaidCPU(w)
      <3>1. CASE Overprovisioned(w.reqCPU, w.limCPU)
        <4>1. PICK e, h : /\ e = [id |-> "cpu-overprovisioned", category |-> "cost", severity |-> "MED",
                                  cents |-> cpuCents(w.reqCPU \div 2)]
                          /\ h = [at |-> i, finding |-> e]
          OBVIOUS
        <4>2. cpuOverprovisioned(w) = {e}
          BY <3>1, <4>1 DEF cpuOverprovisioned, Finding
        <4>3. P = {h} /\ h \in K
          <5>1. P = {h}
            BY <4>1, <4>2, <2>1
          <5> QED
            BY <5>1, <2>1, <2>3 DEF Group
        <4>4. c[h] = PaidCPU(w) /\ c[h] \in Int
          <5>1. c[h] = h.finding.cents
            BY <4>3, <1>1
          <5> QED
            BY <5>1, <4>1, <3>1, <2>1, <1>1 DEF PaidCPU
        <4> QED
          BY <4>3, <4>4, SumOne, FS_Singleton DEF Ints
      <3>2. CASE ~Overprovisioned(w.reqCPU, w.limCPU)
        <4>1. P = {} /\ PaidCPU(w) = 0
          BY <3>2, <2>1 DEF cpuOverprovisioned, PaidCPU
        <4> QED
          BY <4>1, SumEmpty, FS_EmptySet DEF Ints
      <3> QED
        BY <3>1, <3>2
    <2>6. IsFiniteSet(Q) /\ Ints(c, Q) /\ SumFunctionOnSet(c, Q) = PaidMem(w)
      <3>1. CASE Overprovisioned(w.reqMem, w.limMem)
        <4>1. PICK e, h : /\ e = [id |-> "memory-overprovisioned", category |-> "cost", severity |-> "MED",
                                  cents |-> halfMemCents(w.reqMem)]
                          /\ h = [at |-> i, finding |-> e]
          OBVIOUS
        <4>2. memoryOverprovisioned(w) = {e}
          BY <3>1, <4>1 DEF memoryOverprovisioned, Finding
        <4>3. Q = {h} /\ h \in K
          <5>1. Q = {h}
            BY <4>1, <4>2, <2>1
          <5> QED
            BY <5>1, <2>1, <2>3 DEF Group
        <4>4. c[h] = PaidMem(w) /\ c[h] \in Int
          <5>1. c[h] = h.finding.cents
            BY <4>3, <1>1
          <5> QED
            BY <5>1, <4>1, <3>1, <2>1, <1>1 DEF PaidMem
        <4> QED
          BY <4>3, <4>4, SumOne, FS_Singleton DEF Ints
      <3>2. CASE ~Overprovisioned(w.reqMem, w.limMem)
        <4>1. Q = {} /\ PaidMem(w) = 0
          BY <3>2, <2>1 DEF memoryOverprovisioned, PaidMem
        <4> QED
          BY <4>1, SumEmpty, FS_EmptySet DEF Ints
      <3> QED
        BY <3>1, <3>2
    <2>7. SumFunctionOnSet(c, P \cup Q) = PaidCPU(w) + PaidMem(w)
      BY <2>4, <2>5, <2>6, SumBoth
    <2>8. Ints(c, P \cup Q)
      BY <2>5, <2>6 DEF Ints
    <2> QED
      BY <1>1, <2>1, <2>3, <2>7, <2>8
  <1>5. \A f \in K : o[f] \in D /\ f \in Group(K, o, o[f])
    <2> SUFFICES ASSUME NEW f \in K PROVE o[f] \in D /\ f \in Group(K, o, o[f])
      OBVIOUS
    <2>1. PICK j \in D : \E g \in All(workloads[j]) : f = [at |-> j, finding |-> g] /\ g.id \in Advised
      BY <1>3
    <2>2. o[f] = j
      BY <1>1, <2>1
    <2> QED
      BY <2>2 DEF Group
  <1>6. Ints(c, K)
    BY <1>4, <1>5 DEF Ints
  <1>7. Grouped(r, c, o, K, D)
    BY <1>4, <1>5 DEF Grouped
  <1>8. SumFunctionOnSet(r, D) = SumFunctionOnSet(c, K)
    BY <1>2, <1>6, <1>7, SumGrouped
  <1>9. SumFunction(c) = SumFunctionOnSet(c, K)
    <2>1. DOMAIN c = K
      BY <1>1
    <2> QED
      BY <2>1, Zenon DEF SumFunction
  <1> QED
    BY <1>1, <1>8, <1>9

(* A file whose advice was followed, against the file as it was.             *)
LEMMA SavingsAdd ==
  ASSUME NEW a, NEW b, Listed(a), DistinctNames(a),
         \A i \in DOMAIN a : Whole(a[i]) /\ EvenMemory(a[i]),
         b = [i \in DOMAIN a |-> Halve(a[i])]
  PROVE  MonthlyUSDCentsDelta(Diff(a, b))
           = -SumFunction([f \in Promised(a) |-> f.finding.cents])
  <1>1. PICK D, r, h, z : /\ D = DOMAIN a /\ z = [i \in D |-> 0]
                          /\ r = [i \in D |-> PaidCPU(a[i]) + PaidMem(a[i])]
                          /\ h = [i \in D |-> -(PaidCPU(a[i]) + PaidMem(a[i]))]
    OBVIOUS
  <1>2. \A i \in D : Measured(a[i]) /\ EvenMemory(a[i]) /\ Whole(a[i])
    BY <1>1 DEF Listed
  <1>3. \A i \in D : /\ b[i].name = a[i].name
                     /\ b[i].reqCPU = LeftCPU(a[i]) /\ b[i].reqMem = LeftMem(a[i])
                     /\ Measured(b[i])
    <2> SUFFICES ASSUME NEW i \in D
                 PROVE  /\ b[i].name = a[i].name
                        /\ b[i].reqCPU = LeftCPU(a[i]) /\ b[i].reqMem = LeftMem(a[i])
                        /\ Measured(b[i])
      OBVIOUS
    <2>1. b[i] = Halve(a[i])
      BY <1>1
    <2> QED
      BY <2>1, <1>2, HalveFields
  <1>4. Listed(b) /\ DistinctNames(b) /\ DOMAIN b = D
    <2>1. DOMAIN b = D
      BY <1>1
    <2>2. DistinctNames(b)
      BY <1>1, <1>3, <2>1 DEF DistinctNames
    <2> QED
      BY <1>1, <1>3, <2>1, <2>2 DEF Listed
  <1>5. PICK N, m, c : /\ N = Names(a) \cup Names(b) /\ m = [i \in D |-> a[i].name]
                       /\ c = [n \in N |-> Entry(a, b, n).cents]
    OBVIOUS
  <1>6. N = {m[i] : i \in D}
    <2>1. Names(a) = {a[i].name : i \in D} /\ Names(b) = {b[i].name : i \in D}
      BY <1>1, <1>4 DEF Names
    <2>2. Names(b) = Names(a)
      BY <2>1, <1>3
    <2> QED
      BY <2>1, <2>2, <1>5
  <1>7. IsFiniteSet(D) /\ Ints(r, D) /\ Ints(h, D) /\ Ints(z, D)
        /\ \A i \in D : PaidCPU(a[i]) \in Int /\ PaidMem(a[i]) \in Int
    <2>1. \A i \in D : PaidCPU(a[i]) \in Int /\ PaidMem(a[i]) \in Int
      BY <1>2, HalvePays
    <2>2. IsFiniteSet(D)
      BY <1>1 DEF Listed
    <2> QED
      BY <2>1, <2>2, <1>1 DEF Ints
  <1>8. \A i \in D : c[m[i]] = h[i]
    <2> SUFFICES ASSUME NEW i \in D PROVE c[m[i]] = h[i]
      OBVIOUS
    <2>1. PICK n : n = a[i].name
      OBVIOUS
    <2>2. m[i] = n /\ n \in N /\ n = b[i].name
      BY <2>1, <1>3, <1>5, <1>6
    <2>3. Named(a, n) = a[i]
      BY <2>1, <1>1, NamedOnly
    <2>4. Named(b, n) = b[i]
      BY <2>2, <1>4, NamedOnly
    <2>5. PICK e : e = Entry(a, b, n)
      OBVIOUS
    <2>6. /\ e.cpu = qDelta(a[i].reqCPU, LeftCPU(a[i])) /\ e.mem = qDelta(a[i].reqMem, LeftMem(a[i]))
          /\ e.cents = monthlyDelta(e.cpu, e.mem)
      <3>1. /\ e.cpu = qDelta(Named(a, n).reqCPU, Named(b, n).reqCPU)
            /\ e.mem = qDelta(Named(a, n).reqMem, Named(b, n).reqMem)
            /\ e.cents = monthlyDelta(e.cpu, e.mem)
        BY <2>5, <1>4, EntryFields
      <3> QED
        BY <3>1, <2>3, <2>4, <1>3
    <2>7. e.cents = -(PaidCPU(a[i]) + PaidMem(a[i]))
      BY <2>6, <1>2, HalvePays
    <2> QED
      BY <2>2, <2>5, <2>7, <1>1, <1>5
  <1>9. MonthlyUSDCentsDelta(Diff(a, b)) = SumFunctionOnSet(c, N)
    <2>1. Priced(c, N, a, b)
      BY <1>5 DEF Priced
    <2> QED
      BY <2>1, <1>4, DiffTotal
  <1>10. SumFunctionOnSet(c, N) = SumFunctionOnSet(h, D)
    <2>1. \A i, j \in D : m[i] = m[j] => i = j
      BY <1>1, <1>5 DEF DistinctNames
    <2> QED
      BY <2>1, <1>6, <1>7, <1>8, SumRenamed
  <1>11. SumFunctionOnSet(z, D) = 0
    <2>1. \A i \in D : z[i] = 0
      BY <1>1
    <2>2. SumFunctionOnSet(z, D) = 0 * Cardinality(D)
      BY <2>1, <1>7, SumConstant
    <2> QED
      BY <2>2, <1>7, FS_CardinalityType
  <1>12. SumFunctionOnSet(h, D) = SumFunctionOnSet(z, D) - SumFunctionOnSet(r, D)
    <2>1. \A i \in D : h[i] = z[i] - r[i]
      BY <1>1, <1>7
    <2> QED
      BY <2>1, <1>7, SumMinus
  <1>13. SumFunction([f \in Promised(a) |-> f.finding.cents]) = SumFunctionOnSet(r, D)
    <2>1. \A i \in DOMAIN a : r[i] = PaidCPU(a[i]) + PaidMem(a[i])
                              /\ PaidCPU(a[i]) \in Int /\ PaidMem(a[i]) \in Int
      BY <1>1, <1>7
    <2> QED
      BY <2>1, <1>1, PromisesAdd
  <1>14. PICK x \in Int : x = SumFunctionOnSet(r, D)
    BY <1>7, SumTake
  <1>15. 0 - x = -x
    OBVIOUS
  <1> QED
    BY <1>9, <1>10, <1>11, <1>12, <1>13, <1>14, <1>15, Zenon

-----------------------------------------------------------------------------
(* A report is the analysis of its own invocation, and so is a score.        *)
ScoreKept ==
  /\ inv \in Invocations
  /\ pc \in {"start", "read"} => rep = Nil
  /\ pc = "html" => inv.cmd = "analyze"
  /\ pc = "emit" /\ inv.cmd = "score" => rep.findings = Filtered
  /\ Reported => rep.findings = Filtered
  /\ inv.cmd = "score" /\ out # Nil => out = Compute(Run(ParseValues(inv.chart)))

(* Only Analysis makes findings, and only emitReport writes a score.         *)
LEMMA ScoreStep == ScoreKept /\ [Next]_vars => ScoreKept'
  <1> SUFFICES ASSUME ScoreKept, [Next]_vars PROVE ScoreKept'
    OBVIOUS
  <1>1. CASE UNCHANGED vars
    BY <1>1 DEF ScoreKept, vars, Reported, Filtered, effSev, effDetectors
  <1>2. CASE PreRun
    <2>1. rep' = Nil /\ pc' \in {"read", "done"} /\ UNCHANGED <<inv, out>>
      BY <1>2 DEF PreRun, Fail, ScoreKept
    <2> QED
      BY <2>1 DEF ScoreKept, Reported
  <1>3. CASE Analysis
    <2>1. UNCHANGED <<inv, cfg, out>> /\ Filtered' = Filtered
      BY <1>3 DEF Analysis, Filtered, effSev, effDetectors
    <2>2. CASE pc' = "done" /\ UNCHANGED rep
      BY <2>1, <2>2 DEF ScoreKept, Reported
    <2>3. CASE ~(pc' = "done" /\ UNCHANGED rep)
      <3> DEFINE r == [source |-> inv.source, findings |-> Filtered, roast |-> FALSE]
      <3>1. (rep' = r \/ rep' = Apply(r)) /\ pc' = IF inv.html /\ inv.cmd = "analyze" THEN "html" ELSE "emit"
        BY <1>3, <2>3 DEF Analysis, Fail
      <3>2. r.findings = Filtered /\ Apply(r).findings = Filtered
        BY DEF Apply
      <3>3. rep'.findings = Filtered
        BY <3>1, <3>2
      <3> QED
        BY <2>1, <3>1, <3>3 DEF ScoreKept, Reported
    <2> QED
      BY <2>2, <2>3
  <1>4. CASE DiffPaths
    <2>1. UNCHANGED <<inv, cfg, out>> /\ inv.cmd # "score" /\ pc' \in {"emit", "done"}
          /\ (rep' = rep \/ rep' = [entries |-> Diff(ParseValues(inv.chart), ParseValues(inv.other))])
          /\ Filtered' = Filtered
      BY <1>4 DEF DiffPaths, Fail, Filtered, effSev, effDetectors
    <2>2. \A e : "findings" \notin DOMAIN [entries |-> e]
      OBVIOUS
    <2> QED
      BY <2>1, <2>2 DEF ScoreKept, Reported
  <1>5. CASE writeHTMLReport
    <2>1. UNCHANGED <<inv, cfg, rep, out>> /\ pc = "html" /\ pc' \in {"emit", "done"} /\ Filtered' = Filtered
      BY <1>5 DEF writeHTMLReport, Fail, Filtered, effSev, effDetectors
    <2> QED
      BY <2>1 DEF ScoreKept, Reported
  <1>6. CASE emitReport
    <2>1. /\ UNCHANGED <<inv, cfg, rep>> /\ pc = "emit" /\ pc' \in {"share", "check", "done"}
          /\ (out' = out \/ out' = Output) /\ Filtered' = Filtered
      BY <1>6 DEF emitReport, AfterEmit, Fail, Filtered, effSev, effDetectors
    <2>2. inv.cmd = "score" => Output = Compute(Run(ParseValues(inv.chart)))
      BY <2>1 DEF ScoreKept, Output, Filtered
    <2> QED
      BY <2>1, <2>2 DEF ScoreKept, Reported
  <1>7. ASSUME emitShareURL \/ Exit
        PROVE  ScoreKept'
    <2>1. UNCHANGED <<inv, cfg, rep, out>> /\ pc' \in {"check", "done"} /\ Filtered' = Filtered
      BY <1>7 DEF emitShareURL, Exit, Filtered, effSev, effDetectors
    <2> QED
      BY <2>1 DEF ScoreKept, Reported
  <1> QED
    BY <1>1, <1>2, <1>3, <1>4, <1>5, <1>6, <1>7 DEF Next

(* What the parser makes of a chart.                                         *)
LEMMA ParsedWorkloads ==
  ASSUME ScoreKept
  PROVE  LET a == ParseValues(inv.chart) IN Listed(a) /\ \A i \in DOMAIN a : Whole(a[i])
  <1>1. PICK a : a = ParseValues(inv.chart)
    OBVIOUS
  <1>2. Listed(a)
    <2>1. Len(inv.chart.blocks) \in Nat /\ DOMAIN inv.chart.blocks = 1..Len(inv.chart.blocks)
      BY CliAssumption DEF ScoreKept
    <2> QED
      BY <1>1, <2>1, ParsedListed
  <1>3. \A i \in DOMAIN a : Whole(a[i])
    <2> SUFFICES ASSUME NEW i \in DOMAIN a PROVE Whole(a[i])
      OBVIOUS
    <2>1. a[i] = Workload(inv.chart.blocks[i])
      BY <1>1 DEF ParseValues
    <2>2. \A x : Whole(Workload(x))
      BY DEF Whole, Workload
    <2> QED
      BY <2>1, <2>2
  <1> QED
    BY <1>1, <1>2, <1>3

(* What an unfiltered analysis promises for halving requests is what diff    *)
(* shows once they are halved.                                               *)
LEMMA HalvingPays ==
  ASSUME ScoreKept
  PROVE  SavingsMatchDiff
  <1>1. PICK a : a = ParseValues(inv.chart)
    OBVIOUS
  <1>2. Listed(a)
    BY <1>1, ParsedWorkloads
  <1>3. \A i \in DOMAIN a : Whole(a[i])
    BY <1>1, ParsedWorkloads
  <1>4. SavingsMatchDiff
    <2> SUFFICES ASSUME Reported, inv.cmd = "analyze", Unfiltered, DistinctNames(a),
                        \A i \in DOMAIN a : EvenMemory(a[i])
                 PROVE  MonthlyUSDCentsDelta(Diff(a, [i \in DOMAIN a |-> Halve(a[i])]))
                          = -SumFunction([f \in {g \in rep.findings : g.finding.id \in Advised}
                                            |-> f.finding.cents])
      BY <1>1 DEF SavingsMatchDiff
    <2>1. rep.findings = Run(a)
      <3>1. rep.findings = Filter(Run(a), "", {}, FALSE)
        BY <1>1 DEF ScoreKept, Filtered, Unfiltered
      <3>2. \A s : Filter(s, "", {}, FALSE) = s
        BY DEF Filter
      <3> QED
        BY <3>1, <3>2
    <2>2. {g \in rep.findings : g.finding.id \in Advised} = Promised(a)
      BY <2>1 DEF Promised
    <2>3. PICK b : b = [i \in DOMAIN a |-> Halve(a[i])]
      OBVIOUS
    <2>4. MonthlyUSDCentsDelta(Diff(a, b)) = -SumFunction([f \in Promised(a) |-> f.finding.cents])
      BY <1>2, <1>3, <2>3, SavingsAdd
    <2> QED
      BY <2>2, <2>3, <2>4
  <1> QED
    BY <1>4

(* The score that is shown is no higher than that of the same chart with one *)
(* missing memory limit declared, whatever that limit is.                    *)
AnyLimitPays ==
  (inv.cmd = "score" /\ out # Nil) =>
    LET workloads == ParseValues(inv.chart)
    IN  \A i \in DOMAIN workloads :
          workloads[i].reqMem # Nil /\ workloads[i].limMem = Nil =>
            \A limit \in Nat :
              Compute(Run([workloads EXCEPT ![i].limMem = limit])).value >= out.value

(* Every limit pays, in a state where the score kept to the chart.           *)
LEMMA EveryLimitPays ==
  ASSUME ScoreKept
  PROVE  AnyLimitPays
  <1>1. PICK a : a = ParseValues(inv.chart)
    OBVIOUS
  <1>2. Listed(a)
    BY <1>1, ParsedWorkloads
  <1>3. \A i \in DOMAIN a : Whole(a[i])
    BY <1>1, ParsedWorkloads
  <1>4. AnyLimitPays
    <2> SUFFICES ASSUME inv.cmd = "score", out # Nil, NEW i \in DOMAIN a,
                        a[i].reqMem # Nil, a[i].limMem = Nil,
                        NEW limit \in Nat
                 PROVE  Compute(Run([a EXCEPT ![i].limMem = limit])).value >= out.value
      BY <1>1, Zenon DEF AnyLimitPays
    <2>1. PICK b : b = [a EXCEPT ![i].limMem = limit]
      OBVIOUS
    <2>2. /\ DOMAIN b = DOMAIN a /\ \A j \in DOMAIN a : j # i => b[j] = a[j]
          /\ b[i] = [a[i] EXCEPT !.limMem = limit]
      BY <1>1, <2>1 DEF ParseValues
    <2>3. Limited(a[i], b[i])
      <3>1. PICK w, v : w = a[i] /\ v = b[i]
        OBVIOUS
      <3>2. v = [w EXCEPT !.limMem = limit] /\ Whole(w) /\ Measured(w)
        BY <3>1, <2>2, <1>2, <1>3 DEF Listed
      <3>3. v = [name |-> w.name, reqCPU |-> w.reqCPU, reqMem |-> w.reqMem, limCPU |-> w.limCPU,
                 limMem |-> limit, image |-> w.image, replicas |-> w.replicas, hasHPA |-> w.hasHPA,
                 sec |-> w.sec]
        BY <3>2 DEF Whole
      <3> QED
        BY <3>1, <3>2, <3>3 DEF Limited, Measured
    <2>4. IsFiniteSet(DOMAIN a)
      BY <1>2 DEF Listed
    <2>5. Compute(Run(b)).value >= Compute(Run(a)).value
      BY <2>2, <2>3, <2>4, LimitPays
    <2>6. out = Compute(Run(a))
      BY <1>1 DEF ScoreKept
    <2> QED
      BY <2>1, <2>5, <2>6
  <1> QED
    BY <1>4

(* The limits that the runs try are among them.                              *)
LEMMA TriedLimitsPay ==
  ASSUME ScoreKept
  PROVE  MemoryLimitPays
  <1>1. PICK a : a = ParseValues(inv.chart)
    OBVIOUS
  <1>2. Listed(a)
    BY <1>1, ParsedWorkloads
  <1> SUFFICES ASSUME inv.cmd = "score", out # Nil, NEW i \in DOMAIN a,
                      a[i].reqMem # Nil, a[i].limMem = Nil,
                      NEW limit \in Limits(a[i].reqMem)
               PROVE  Compute(Run([a EXCEPT ![i].limMem = limit])).value >= out.value
    BY <1>1, Zenon DEF MemoryLimitPays
  <1>3. limit \in Nat
    <2>1. Measured(a[i])
      BY <1>2 DEF Listed
    <2>2. a[i].reqMem \in Nat
      BY <2>1 DEF Measured
    <2>3. \A req \in Nat : Limits(req) \subseteq Nat
      BY DEF Limits
    <2> QED
      BY <2>2, <2>3
  <1>4. AnyLimitPays
    BY EveryLimitPays
  <1> QED
    BY <1>1, <1>3, <1>4, Zenon DEF AnyLimitPays

(* The score on show is that of the chart, in every state.                   *)
LEMMA ScoreIsKept == Spec => []ScoreKept
  <1>1. Init => ScoreKept
    BY DEF Init, ScoreKept, Reported
  <1> QED
    BY <1>1, ScoreStep, PTL DEF Spec

(* For any chart, declaring a missing memory limit, whatever it is set to,   *)
(* never lowers the score (Compute): the finding it removes outweighs those  *)
(* it can bring in.                                                          *)
THEOREM LimitNeverHurts == Spec => []AnyLimitPays
  <1>1. ScoreKept => AnyLimitPays
    BY EveryLimitPays
  <1> QED
    BY <1>1, ScoreIsKept, PTL

(* For any chart: what an unfiltered analysis promises for halving requests  *)
(* is what diff shows once they are halved, and a memory limit on either     *)
(* side of what the detectors compare it with does not lower the score.      *)
THEOREM AdviceIsWorth == Spec => []AdvicePays
  <1>1. ScoreKept => AdvicePays
    BY HalvingPays, TriedLimitsPay DEF AdvicePays
  <1> QED
    BY <1>1, ScoreIsKept, PTL

-----------------------------------------------------------------------------
(* Observe: the token and the queries of the agent.                          *)
Files == Tokens \cup {Gone, Blank}
AuthType == [cached : Files \cup {Static}, age : Nat, err : BOOLEAN]
Answers == {a \in [ok : BOOLEAN, samples : SUBSET Pods] : ~a.ok => a.samples = {}}

(* A token without an error since was read no longer ago than it was cached. *)
TokenInv ==
  /\ file \in Files /\ auth \in AuthType /\ read \in Nat
  /\ ~auth.err => read <= auth.age
  /\ WornOnlyAfterError

(* Of the queries of a tick and of those remembered, the ones that failed    *)
(* stand in the error counter.                                               *)
TraceInv ==
  /\ asked \in Seq(Answers) /\ memo \in [1..3 -> Answers \cup {None}]
  /\ phase \notin {"query", "post"} => asked = <<>>
  /\ phase = "query" => Len(asked) < 3
  /\ \A q \in 1..Len(asked) : asked[q].ok \/ q \in known
  /\ \A q \in 1..3 : memo[q] # None => memo[q].ok \/ q \in known

(* token leaves an error behind, or a token as young as its reading; asked   *)
(* again at once it gives the same.                                          *)
LEMMA TokenOnce ==
  ASSUME Configured, NEW a \in AuthType, NEW f \in Files
  PROVE  LET t == token(a, f)
         IN  /\ t.auth \in AuthType
             /\ t.fresh => ~t.auth.err
             /\ ~t.fresh /\ t.ok => t.auth = a /\ a.age < Refresh
             /\ ~t.fresh /\ ~t.ok => t.auth.err
             /\ t.ok => token(t.auth, f).auth = t.auth
             /\ t.ok \in BOOLEAN
  BY DEF token, Kept, Configured, ClientConfigured, AuthType, Files

(* An attempt yields samples of pods, none if it failed, and is retried only *)
(* if it was signed.                                                         *)
LEMMA AttemptFacts ==
  ASSUME Configured, NEW signed \in BOOLEAN, NEW r \in ReplySet
  PROVE  /\ doOnce(signed, r).samples \subseteq Pods
         /\ doOnce(signed, r).status # "ok" => doOnce(signed, r).samples = {}
         /\ doOnce(signed, r).retry => signed
  <1>1. r \in Replies(Pods)
    BY DEF Configured
  <1>2. CASE r.form \in {"down", "http", "cut", "junk", "error"} \/ ~signed
    BY <1>2 DEF doOnce, Failed, parseInstant
  <1>3. CASE r.form \notin {"down", "http", "cut", "junk", "error"} /\ signed
    <2>1. r \in [form : {"vector"}, result : SUBSET Pods, bad : SUBSET Pods]
      BY <1>1, <1>3 DEF Replies
    <2>2. r.form = "vector" /\ r.result \subseteq Pods
      BY <2>1
    <2>3. doOnce(signed, r) = [status |-> "ok", samples |-> r.result \ r.bad, retry |-> FALSE]
      BY <1>3, <2>2 DEF doOnce, parseInstant
    <2> QED
      BY <2>2, <2>3
  <1> QED
    BY <1>2, <1>3

(* do, with its single retry, keeps the token of its first attempt.          *)
LEMMA DoFacts ==
  ASSUME Configured, NEW a \in AuthType, NEW f \in Files, NEW r1 \in ReplySet, NEW r2 \in ReplySet
  PROVE  LET d == do(a, f, r1, r2)
         IN  /\ d.tries[1] = token(a, f) /\ d.auth = token(a, f).auth
             /\ d.samples \subseteq Pods /\ (d.status # "ok" => d.samples = {})
  <1> DEFINE t1 == token(a, f)
             d1 == doOnce(t1.ok, r1)
             t2 == token(t1.auth, f)
             d2 == doOnce(t2.ok, r2)
  <1>1. t1.auth \in AuthType /\ t1.ok \in BOOLEAN
    BY TokenOnce
  <1>2. t1.ok => t2.auth = t1.auth
    BY TokenOnce
  <1>3. t2.ok \in BOOLEAN
    BY <1>1, TokenOnce
  <1>4. /\ d1.samples \subseteq Pods /\ (d1.status # "ok" => d1.samples = {})
        /\ d2.samples \subseteq Pods /\ (d2.status # "ok" => d2.samples = {})
        /\ d1.retry => t1.ok
    BY <1>1, <1>3, AttemptFacts
  <1>5. do(a, f, r1, r2) =
          IF d1.retry
          THEN [status |-> d2.status, samples |-> d2.samples, auth |-> t2.auth, tries |-> <<t1, t2>>]
          ELSE [status |-> d1.status, samples |-> d1.samples, auth |-> t1.auth, tries |-> <<t1>>]
    BY Zenon DEF do
  <1> HIDE DEF t1, t2, d1, d2
  <1> QED
    BY <1>2, <1>4, <1>5 DEF t1

(* The token: every step.                                                    *)
LEMMA TokenNext ==
  ASSUME Configured, TokenInv, [ObserveNext]_observeVars PROVE TokenInv'
  <1> USE DEF TokenInv
  <1>1. ASSUME UNCHANGED <<file, auth, read, worn>> PROVE TokenInv'
    BY <1>1 DEF WornOnlyAfterError
  <1>2. ASSUME NEW t \in Files, Rotate(t) PROVE TokenInv'
    BY <1>2 DEF Rotate, WornOnlyAfterError
  <1>3. CASE Elapse
    <2>1. /\ auth' = [auth EXCEPT !.age = Later(@)] /\ read' = Later(read)
          /\ UNCHANGED <<file, worn>>
      BY <1>3 DEF Elapse
    <2>2. Refresh \in Nat /\ auth.age \in Nat /\ read \in Nat
      BY DEF Configured, ClientConfigured, AuthType
    <2>3. /\ Later(auth.age) \in Nat /\ Later(read) \in Nat
          /\ read <= auth.age => Later(read) <= Later(auth.age)
      BY <2>2 DEF Later
    <2>4. auth' \in AuthType /\ auth'.age = Later(auth.age) /\ auth'.err = auth.err
      BY <2>1, <2>3 DEF AuthType
    <2> QED
      BY <2>1, <2>3, <2>4 DEF WornOnlyAfterError
  <1>4. ASSUME NEW r1 \in ReplySet, NEW r2 \in ReplySet, Query(r1, r2) PROVE TokenInv'
    <2>1. CASE signs # "file"
      BY <1>1, <1>4, <2>1 DEF Query
    <2>2. CASE signs = "file"
      <3> DEFINE t == token(auth, file)
      <3>1. do(auth, file, r1, r2).tries[1] = t /\ do(auth, file, r1, r2).auth = t.auth
        BY DoFacts
      <3>2. /\ auth' = t.auth /\ read' = (IF t.fresh THEN 0 ELSE read)
            /\ worn' = (t.ok /\ read' >= Refresh) /\ file' = file
        BY <1>4, <2>2, <3>1 DEF Query
      <3>3. /\ t.auth \in AuthType
            /\ t.fresh => ~t.auth.err
            /\ ~t.fresh /\ t.ok => t.auth = auth /\ auth.age < Refresh
            /\ ~t.fresh /\ ~t.ok => t.auth.err
        BY TokenOnce
      <3> HIDE DEF t
      <3>4. Refresh \in Nat \ {0} /\ auth.age \in Nat /\ t.auth.age \in Nat
        BY <3>3 DEF Configured, ClientConfigured, AuthType
      <3>5. read' \in Nat /\ (~t.auth.err => read' <= t.auth.age)
        BY <3>2, <3>3, <3>4
      <3>6. worn' => t.auth.err
        <4> SUFFICES ASSUME t.ok, read' >= Refresh, ~t.auth.err PROVE FALSE
          BY <3>2, Zenon
        <4>1. ~t.fresh
          BY <3>2, <3>4
        <4>2. t.auth = auth /\ auth.age < Refresh /\ read' = read
          BY <4>1, <3>2, <3>3
        <4>3. read <= auth.age
          BY <4>2
        <4> QED
          BY <4>2, <4>3, <3>4
      <3> QED
        BY <3>2, <3>3, <3>5, <3>6 DEF WornOnlyAfterError
    <2> QED
      BY <2>1, <2>2
  <1>5. ASSUME \/ \E c \in Configs : Boot(c)
               \/ \E o \in Objects \cup Mutable : Create(o) \/ Delete(o) \/ Collect(o) \/ Deliver(o)
               \/ NextBucket \/ Tick \/ SetPodOwners \/ Build \/ QueryHit \/ Post
        PROVE  UNCHANGED <<file, auth, read, worn>>
    BY <1>5 DEF Boot, Create, Delete, Collect, Deliver, NextBucket, Tick,
                SetPodOwners, Build, QueryHit, Post, authVars
  <1> QED
    BY <1>1, <1>2, <1>3, <1>4, <1>5 DEF ObserveNext, Agent, observeVars, Files

(* A failed query in the answers, and so the metric missing from the         *)
(* snapshot, is counted.                                                     *)
LEMMA MergeTrace ==
  ASSUME Configured, TraceInv, phase = "query", NEW a \in Answers, Merge(a),
         NEW q \in 1..3, q = Len(asked) + 1,
         memo' \in [1..3 -> Answers \cup {None}], \A p \in 1..3 : p # q => memo'[p] = memo[p],
         memo'[q] \in {a, memo[q]}, memo'[q] # None => memo'[q].ok \/ q \in known',
         \A p \in 1..3 : p # q => (p \in known' <=> p \in known), a.ok \/ q \in known'
  PROVE  TraceInv'
  <1>1. asked \in Seq(Answers) /\ asked' = Append(asked, a)
    BY DEF TraceInv, Merge
  <1>2. /\ asked' \in Seq(Answers) /\ Len(asked') = q /\ asked'[q] = a
        /\ \A p \in 1..Len(asked) : asked'[p] = asked[p]
    BY <1>1
  <1>3. phase' = IF q = 3 THEN "post" ELSE "query"
    BY DEF Merge, Fields
  <1>4. \A p \in 1..Len(asked') : asked'[p].ok \/ p \in known'
    <2> SUFFICES ASSUME NEW p \in 1..q PROVE asked'[p].ok \/ p \in known'
      BY <1>2
    <2>1. CASE p = q
      BY <2>1, <1>2
    <2>2. CASE p # q
      <3>1. p \in 1..Len(asked) /\ p \in 1..3
        BY <2>2, <1>1
      <3> QED
        BY <3>1, <2>2, <1>2 DEF TraceInv
    <2> QED
      BY <2>1, <2>2
  <1>5. \A p \in 1..3 : memo'[p] # None => memo'[p].ok \/ p \in known'
    BY DEF TraceInv
  <1> QED
    BY <1>2, <1>3, <1>4, <1>5 DEF TraceInv

(* The trace: every step.                                                    *)
LEMMA TraceNext ==
  ASSUME Configured, TokenInv, TraceInv, [ObserveNext]_observeVars PROVE TraceInv'
  <1>f. Len(Fields) = 3
    BY DEF Fields
  <1>1. ASSUME UNCHANGED <<asked, memo, known, phase>> PROVE TraceInv'
    BY <1>1 DEF TraceInv
  <1>2. ASSUME NEW c \in Configs, Boot(c) PROVE TraceInv'
    BY <1>2 DEF Boot, TraceInv, tickVars
  <1>3. CASE NextBucket
    <2>1. memo' = [q \in 1..3 |-> None] /\ UNCHANGED <<asked, known, phase>>
      BY <1>3, <1>f DEF NextBucket, NoMemo, tickVars
    <2> QED
      BY <2>1 DEF TraceInv
  <1>4. CASE Tick \/ SetPodOwners \/ Build
    <2>1. UNCHANGED <<asked, memo, known>> /\ asked = <<>>
      BY <1>4 DEF Tick, SetPodOwners, Build, TraceInv
    <2> QED
      BY <2>1 DEF TraceInv
  <1>5. CASE Post
    <2>1. asked' = <<>> /\ phase' = "idle" /\ UNCHANGED <<memo, known>>
      BY <1>5 DEF Post
    <2> QED
      BY <2>1 DEF TraceInv
  <1>6. CASE QueryHit
    <2> DEFINE q == Len(asked) + 1
    <2>1. phase = "query" /\ memo[q] # None /\ Merge(memo[q]) /\ UNCHANGED <<memo, known>>
      BY <1>6 DEF QueryHit
    <2>2. q \in 1..3
      BY <2>1 DEF TraceInv
    <2> HIDE DEF q
    <2>3. memo[q] \in Answers /\ (memo[q].ok \/ q \in known)
      BY <2>1, <2>2 DEF TraceInv
    <2>4. memo \in [1..3 -> Answers \cup {None}]
      BY DEF TraceInv
    <2> QED
      BY <2>1, <2>2, <2>3, <2>4, MergeTrace DEF q
  <1>7. ASSUME NEW r1 \in ReplySet, NEW r2 \in ReplySet, Query(r1, r2) PROVE TraceInv'
    <2> DEFINE q == Len(asked) + 1
               d == do(IF signs = "file" THEN auth ELSE StaticAuth, file, r1, r2)
               a == [ok |-> d.status = "ok", samples |-> d.samples]
    <2>1. /\ phase = "query" /\ memo[q] = None /\ Merge(a)
          /\ memo' = [memo EXCEPT ![q] = a] /\ known' = ObserveQuery(q, d.status)
      BY <1>7 DEF Query
    <2>2. q \in 1..3 /\ q = Len(asked) + 1
      BY <2>1 DEF TraceInv
    <2>3. d.samples \subseteq Pods /\ (d.status # "ok" => d.samples = {})
      <3>1. (IF signs = "file" THEN auth ELSE StaticAuth) \in AuthType /\ file \in Files
        BY DEF TokenInv, StaticAuth, AuthType
      <3> QED
        BY <3>1, DoFacts
    <2>4. a \in Answers /\ (a.ok <=> d.status = "ok")
      BY <2>3 DEF Answers
    <2>5. \A p : p # q => (p \in known' <=> p \in known)
      BY <2>1 DEF ObserveQuery
    <2>6. a.ok \/ q \in known'
      BY <2>1, <2>4 DEF ObserveQuery
    <2> HIDE DEF q, d, a
    <2>7. /\ memo' \in [1..3 -> Answers \cup {None}] /\ memo'[q] = a
          /\ \A p \in 1..3 : p # q => memo'[p] = memo[p]
      BY <2>1, <2>2, <2>4 DEF TraceInv
    <2> QED
      BY <2>1, <2>2, <2>4, <2>5, <2>6, <2>7, MergeTrace
  <1>8. ASSUME \/ \E o \in Objects \cup Mutable : Create(o) \/ Delete(o) \/ Collect(o) \/ Deliver(o)
               \/ Elapse \/ \E t \in Files : Rotate(t)
        PROVE  UNCHANGED <<asked, memo, known, phase>>
    BY <1>8 DEF Create, Delete, Collect, Deliver, Elapse, Rotate, tickVars
  <1> QED
    BY <1>1, <1>2, <1>3, <1>4, <1>5, <1>6, <1>7, <1>8
       DEF ObserveNext, Agent, observeVars, Files

(* Both hold of an agent that has not started.                               *)
LEMMA ObserveStarts == ASSUME Configured, ObserveInit PROVE TokenInv /\ TraceInv
  <1>1. Blank \in Files /\ file \in Files /\ Refresh \in Nat
    BY DEF Files, ObserveInit, Configured, ClientConfigured
  <1>2. NoToken \in AuthType /\ NoToken.age = Refresh
    BY <1>1 DEF AuthType, NoToken
  <1>3. TokenInv
    BY <1>1, <1>2 DEF TokenInv, ObserveInit, WornOnlyAfterError
  <1>4. memo = [q \in 1..3 |-> None] /\ asked = <<>> /\ phase = "off"
    BY DEF ObserveInit, NoMemo, Fields
  <1>5. TraceInv
    BY <1>4 DEF TraceInv
  <1> QED
    BY <1>3, <1>5

(* fileTokenAuth: a query goes out with a token read less than TokenRefresh  *)
(* ago, unless the last reading of the file failed, whatever the kubelet     *)
(* does to the file and however often a query is retried.                    *)
THEOREM TokenIsFresh == ObserveSpec => []WornOnlyAfterError
  <1> USE ObserveAssumption
  <1>1. TokenInv => WornOnlyAfterError
    BY DEF TokenInv
  <1>2. ObserveInit => TokenInv
    BY ObserveStarts
  <1>3. TokenInv /\ [ObserveNext]_observeVars => TokenInv'
    BY TokenNext
  <1> QED
    BY <1>1, <1>2, <1>3, PTL DEF ObserveSpec

(* Scrape drops the errors of a tick that gave some row, but a metric that   *)
(* is missing from a snapshot always stands in the error counter, also when  *)
(* the query cache only repeats an earlier failure.                          *)
THEOREM MissingIsCounted == ObserveSpec => []MissingLeavesTrace
  <1> USE ObserveAssumption
  <1>1. TraceInv => MissingLeavesTrace
    <2>1. TraceInv => DOMAIN asked = 1..Len(asked)
      BY DEF TraceInv
    <2> QED
      BY <2>1 DEF TraceInv, MissingLeavesTrace
  <1>2. ObserveInit => TokenInv /\ TraceInv
    BY ObserveStarts
  <1>3. TokenInv /\ TraceInv /\ [ObserveNext]_observeVars => TokenInv' /\ TraceInv'
    BY TokenNext, TraceNext
  <1> QED
    BY <1>1, <1>2, <1>3, PTL DEF ObserveSpec

-----------------------------------------------------------------------------
(* The observations: what the samples S of query q give workload w under the *)
(* index o.                                                                  *)
Row == [cpu : Nat, mem : Nat, oom : Nat]
Adds(f) == [p \in Pods |-> Increment(f, p)]
Share(S, q, w, o) == SumFunctionOnSet(Adds(Fields[q]), Group(S \cap DOMAIN o, o, w))

(* The rows after the answers ans: a row for every workload with a sample,   *)
(* and in it the sums of its pods, zero for the queries still to come.       *)
Filled(rows, ans, o) ==
  /\ DOMAIN rows \subseteq {o[p] : p \in DOMAIN o}
  /\ \A w \in DOMAIN rows : rows[w] \in Row
  /\ \A q \in 1..Len(ans) : \A p \in ans[q].samples \cap DOMAIN o : o[p] \in DOMAIN rows
  /\ \A w \in DOMAIN rows, q \in 1..3 :
       rows[w][Fields[q]] = IF q <= Len(ans) THEN Share(ans[q].samples, q, w, o) ELSE 0

(* The index is of pods, and the rows of a tick hold the answers so far.     *)
RowsInv ==
  /\ live \subseteq Objects /\ cache \subseteq Objects /\ DOMAIN owners \subseteq Pods
  /\ "rows" \in DOMAIN snap
  /\ phase \in {"query", "post"} /\ signs # "none" => Filled(snap.rows, asked, owners)
  /\ phase = "post" /\ signs # "none" => Len(asked) = 3

(* The fields by number.                                                     *)
LEMMA FieldNames == /\ Len(Fields) = 3
                    /\ Fields[1] = "cpu" /\ Fields[2] = "mem" /\ Fields[3] = "oom"
  BY DEF Fields

Plus(r, q, n) == [r EXCEPT ![Fields[q]] = @ + n]

(* Adding to one field of a row leaves the others.                           *)
LEMMA RowAdds ==
  ASSUME NEW r \in Row, NEW q \in 1..3, NEW n \in Nat
  PROVE  /\ Plus(r, q, n) \in Row /\ Plus(r, q, n)[Fields[q]] = r[Fields[q]] + n
         /\ \A k \in 1..3 : k # q => Plus(r, q, n)[Fields[k]] = r[Fields[k]]
  <1>1. CASE q = 1
    BY <1>1, FieldNames DEF Row, Plus
  <1>2. CASE q = 2
    BY <1>2, FieldNames DEF Row, Plus
  <1>3. CASE q = 3
    BY <1>3, FieldNames DEF Row, Plus
  <1> QED
    BY <1>1, <1>2, <1>3

(* What the pods of a workload add is a number.                              *)
LEMMA ShareIsNat ==
  ASSUME Configured, NEW K \in SUBSET Pods, NEW f
  PROVE  /\ IsFiniteSet(K) /\ Ints(Adds(f), K) /\ SumFunctionOnSet(Adds(f), K) \in Nat
         /\ SumFunction([p \in K |-> Increment(f, p)]) = SumFunctionOnSet(Adds(f), K)
  <1>1. IsFiniteSet(K)
    <2>1. K \in SUBSET Objects
      BY DEF Pods, OfKind
    <2> QED
      BY <2>1, ReadersAssumption, FS_Subset
  <1>2. \A p \in K : Increment(f, p) \in Nat
    <2> SUFFICES ASSUME NEW p \in K PROVE Increment(f, p) \in Nat
      OBVIOUS
    <2>1. PICK v \in Nat : v = Val[p]
      BY DEF Configured
    <2>2. v \div 2 \in Nat
      OBVIOUS
    <2> QED
      BY <2>1, <2>2 DEF Increment
  <1>3. PICK a, b, z : a = Adds(f) /\ b = [p \in K |-> Increment(f, p)] /\ z = [p \in K |-> 0]
    OBVIOUS
  <1>4. /\ \A p \in K : a[p] \in Nat /\ b[p] = a[p] /\ z[p] = 0 /\ z[p] <= a[p]
        /\ Ints(a, K) /\ Ints(b, K) /\ Ints(z, K) /\ DOMAIN b = K
    BY <1>2, <1>3 DEF Adds, Ints
  <1>5. SumFunctionOnSet(b, K) = SumFunctionOnSet(a, K)
    BY <1>1, <1>4, SumSame
  <1>6. SumFunctionOnSet(z, K) <= SumFunctionOnSet(a, K)
    BY <1>1, <1>4, SumGrows
  <1>7. SumFunctionOnSet(z, K) = SumFunctionOnSet(z, {})
    BY <1>1, <1>4, SumOnly
  <1>8. SumFunctionOnSet(a, K) \in Int
    BY <1>1, <1>4, SumTake
  <1>9. SumFunctionOnSet(a, K) \in Nat
    BY <1>6, <1>7, <1>8, SumEmpty
  <1>10. SumFunction(b) = SumFunctionOnSet(b, K)
    BY <1>4, Zenon DEF SumFunction
  <1> QED
    BY <1>1, <1>3, <1>4, <1>5, <1>9, <1>10

(* Merge keeps the rows in step with the answers.                            *)
LEMMA AnswerFills ==
  ASSUME Configured, DOMAIN owners \subseteq Pods, NEW rows, NEW ans \in Seq(Answers),
         Filled(rows, ans, owners), NEW a \in Answers, NEW q \in 1..3, q = Len(ans) + 1
  PROVE  Filled(IF a.ok THEN apply(rows, Fields[q], a.samples) ELSE rows, Append(ans, a), owners)
  <1>1. PICK o, more : o = owners /\ more = Append(ans, a)
    OBVIOUS
  <1>2. /\ Len(more) = q /\ more[q] = a /\ \A k \in 1..3 : k < q => more[k] = ans[k]
        /\ \A k \in 1..3 : k <= Len(ans) <=> k < q
    BY <1>1
  <1>3. DOMAIN o \subseteq Pods /\ Filled(rows, ans, o) /\ a.samples \subseteq Pods
    BY <1>1 DEF Answers
  <1>4. \A k \in 1..Len(more) : k = q \/ (k \in 1..Len(ans) /\ k \in 1..3 /\ k < q)
    BY <1>2
  <1>5. CASE ~a.ok
    <2>1. a.samples = {}
      BY <1>5 DEF Answers
    <2>2. \A w : Share(a.samples, q, w, o) = 0
      <3> SUFFICES ASSUME NEW w PROVE Share(a.samples, q, w, o) = 0
        OBVIOUS
      <3>1. Group(a.samples \cap DOMAIN o, o, w) = {}
        BY <2>1 DEF Group
      <3> QED
        BY <3>1, SumEmpty DEF Share
    <2>3. \A k \in 1..Len(more) : \A p \in more[k].samples \cap DOMAIN o : o[p] \in DOMAIN rows
      BY <1>2, <1>3, <1>4, <2>1 DEF Filled
    <2>4. ASSUME NEW w \in DOMAIN rows, NEW k \in 1..3
          PROVE  rows[w][Fields[k]] = IF k <= Len(more) THEN Share(more[k].samples, k, w, o) ELSE 0
      <3>1. rows[w][Fields[k]] = IF k < q THEN Share(ans[k].samples, k, w, o) ELSE 0
        BY <1>2, <1>3 DEF Filled
      <3>2. k < q \/ k = q \/ k > q
        OBVIOUS
      <3> QED
        BY <3>1, <3>2, <2>2, <1>2
    <2>5. Filled(rows, more, o)
      BY <2>3, <2>4, <1>3 DEF Filled
    <2> QED
      BY <2>5, <1>1, <1>5
  <1>6. CASE a.ok
    <2> DEFINE hit == {o[p] : p \in a.samples \cap DOMAIN o}
               old(w) == IF w \in DOMAIN rows THEN rows[w] ELSE Zero
               mine(w) == Group(a.samples \cap DOMAIN o, o, w)
               f == Fields[q]
    <2>1. PICK new : new = apply(rows, f, a.samples)
      OBVIOUS
    <2>2. new = [w \in DOMAIN rows \cup hit |->
                   [old(w) EXCEPT ![f] = @ + SumFunction([p \in mine(w) |-> Increment(f, p)])]]
      BY <2>1, <1>1, Zenon DEF apply, Group
    <2>3. DOMAIN new = DOMAIN rows \cup hit
      BY <2>2
    <2>4. ASSUME NEW w \in DOMAIN new
          PROVE  /\ old(w) \in Row
                 /\ \A k \in 1..3 : old(w)[Fields[k]] = IF k < q THEN Share(ans[k].samples, k, w, o) ELSE 0
      <3>1. CASE w \in DOMAIN rows
        BY <3>1, <1>2, <1>3 DEF Filled
      <3>2. CASE w \notin DOMAIN rows
        <4>1. \A k \in 1..3 : Zero[Fields[k]] = 0
          BY FieldNames DEF Zero
        <4>2. ASSUME NEW k \in 1..3, k < q PROVE Share(ans[k].samples, k, w, o) = 0
          <5>1. k \in 1..Len(ans)
            BY <4>2, <1>2
          <5>2. Group(ans[k].samples \cap DOMAIN o, o, w) = {}
            BY <5>1, <3>2, <1>3 DEF Filled, Group
          <5> QED
            BY <5>2, SumEmpty DEF Share
        <4>3. Zero \in Row
          BY DEF Zero, Row
        <4> QED
          BY <3>2, <4>1, <4>2, <4>3
      <3> QED
        BY <3>1, <3>2
    <2>5. ASSUME NEW w \in DOMAIN new
          PROVE  /\ new[w] \in Row
                 /\ \A k \in 1..3 : new[w][Fields[k]] = IF k < q THEN Share(ans[k].samples, k, w, o)
                                                        ELSE IF k = q THEN Share(a.samples, q, w, o) ELSE 0
      <3>1. PICK r, n : r = old(w) /\ n = SumFunction([p \in mine(w) |-> Increment(f, p)])
        OBVIOUS
      <3>2. mine(w) \in SUBSET Pods
        BY <1>3 DEF Group
      <3>3. n \in Nat /\ n = Share(a.samples, q, w, o)
        BY <3>1, <3>2, ShareIsNat DEF Share
      <3>4. r \in Row /\ \A k \in 1..3 : r[Fields[k]] = IF k < q THEN Share(ans[k].samples, k, w, o) ELSE 0
        BY <3>1, <2>4
      <3>5. new[w] = [r EXCEPT ![f] = @ + n]
        BY <2>2, <2>3, <3>1
      <3> HIDE DEF mine, old, hit
      <3>6. /\ new[w] \in Row /\ new[w][Fields[q]] = r[Fields[q]] + n
            /\ \A k \in 1..3 : k # q => new[w][Fields[k]] = r[Fields[k]]
        <4>1. new[w] = Plus(r, q, n)
          BY <3>5 DEF Plus
        <4>2. r \in Row /\ n \in Nat
          BY <3>3, <3>4
        <4>3. /\ Plus(r, q, n) \in Row /\ Plus(r, q, n)[Fields[q]] = r[Fields[q]] + n
              /\ \A k \in 1..3 : k # q => Plus(r, q, n)[Fields[k]] = r[Fields[k]]
          BY <4>2, RowAdds, Zenon
        <4> QED
          BY <4>1, <4>3
      <3>7. new[w][Fields[q]] = Share(a.samples, q, w, o)
        BY <3>3, <3>4, <3>6
      <3> QED
        BY <3>4, <3>6, <3>7
    <2>6. \A k \in 1..Len(more) : \A p \in more[k].samples \cap DOMAIN o : o[p] \in DOMAIN new
      BY <1>2, <1>3, <1>4, <2>3 DEF Filled
    <2>7. DOMAIN new \subseteq {o[p] : p \in DOMAIN o}
      BY <2>3, <1>3 DEF Filled
    <2>8. ASSUME NEW w \in DOMAIN new, NEW k \in 1..3
          PROVE  new[w][Fields[k]] = IF k <= Len(more) THEN Share(more[k].samples, k, w, o) ELSE 0
      <3>1. k < q \/ k = q \/ k > q
        OBVIOUS
      <3> QED
        BY <3>1, <2>5, <1>2
    <2>9. Filled(new, more, o)
      BY <2>5, <2>6, <2>7, <2>8 DEF Filled
    <2> QED
      BY <2>1, <2>9, <1>1, <1>6
  <1> QED
    BY <1>5, <1>6

(* The rows: an answer, remembered or new.                                   *)
LEMMA RowsMerge ==
  ASSUME Configured, TraceInv, RowsInv, phase = "query", NEW a \in Answers, Merge(a),
         UNCHANGED <<live, cache, owners, signs>>
  PROVE  RowsInv'
  <1>1. PICK q : q = Len(asked) + 1
    OBVIOUS
  <1>2. q \in 1..3 /\ asked \in Seq(Answers) /\ DOMAIN owners \subseteq Pods
    BY <1>1 DEF TraceInv, RowsInv
  <1>3. /\ asked' = Append(asked, a) /\ phase' = IF q = 3 THEN "post" ELSE "query"
        /\ snap' = [snap EXCEPT !.rows = IF a.ok THEN apply(snap.rows, Fields[q], a.samples) ELSE snap.rows]
    BY <1>1, FieldNames DEF Merge
  <1>4. Len(asked') = q
    BY <1>1, <1>2, <1>3
  <1>d. "rows" \in DOMAIN snap'
    BY <1>3 DEF RowsInv
  <1>5. CASE signs = "none"
    BY <1>5, <1>d DEF RowsInv
  <1>6. CASE signs # "none"
    <2>1. "rows" \in DOMAIN snap
      BY DEF RowsInv
    <2>2. snap'.rows = IF a.ok THEN apply(snap.rows, Fields[q], a.samples) ELSE snap.rows
      BY <2>1, <1>3
    <2>3. Filled(snap.rows, asked, owners)
      BY <1>6 DEF RowsInv
    <2>4. PICK old, new : /\ old = snap.rows
                          /\ new = IF a.ok THEN apply(snap.rows, Fields[q], a.samples) ELSE snap.rows
      OBVIOUS
    <2>5. Filled(new, Append(asked, a), owners)
      BY <1>1, <1>2, <2>3, <2>4, AnswerFills
    <2>6. Filled(snap.rows, asked, owners)'
      BY <1>3, <2>2, <2>4, <2>5, Zenon
    <2> QED
      BY <1>3, <1>4, <1>d, <2>6 DEF RowsInv
  <1> QED
    BY <1>5, <1>6

(* The rows: every step.                                                     *)
LEMMA RowsNext ==
  ASSUME Configured, TokenInv, TraceInv, RowsInv, [ObserveNext]_observeVars PROVE RowsInv'
  <1>1. ASSUME UNCHANGED <<owners, phase, signs, snap, asked>>,
               live' \subseteq Objects, cache' \subseteq Objects
        PROVE  RowsInv'
    BY <1>1 DEF RowsInv
  <1>2. ASSUME UNCHANGED observeVars \/ Elapse \/ NextBucket \/ \E t \in Files : Rotate(t)
        PROVE  RowsInv'
    <2>1. UNCHANGED <<live, cache, owners, phase, signs, snap, asked>>
      BY <1>2 DEF Elapse, NextBucket, Rotate, observeVars, clusterVars, tickVars
    <2> QED
      BY <1>1, <2>1 DEF RowsInv
  <1>3. ASSUME NEW o \in Objects, Create(o) \/ Delete(o) \/ Collect(o) \/ Deliver(o) PROVE RowsInv'
    <2>1. UNCHANGED <<owners, phase, signs, snap, asked>>
      BY <1>3 DEF Create, Delete, Collect, Deliver, tickVars
    <2>2. live' \subseteq Objects /\ cache' \subseteq Objects
      BY <1>3 DEF Create, Delete, Collect, Deliver, RowsInv
    <2> QED
      BY <1>1, <2>1, <2>2
  <1>4. ASSUME NEW c \in Configs, Boot(c) PROVE RowsInv'
    <2>1. /\ phase' \in {"exit", "watch", "panic", "idle"} /\ UNCHANGED <<live, owners, snap>>
          /\ cache' \in {live, {}}
      BY <1>4 DEF Boot, tickVars
    <2> QED
      BY <2>1 DEF RowsInv
  <1>5. CASE Tick
    <2>1. phase' \in {"inventory", "pods"} /\ UNCHANGED <<live, cache, owners, snap>>
      BY <1>5 DEF Tick, clusterVars
    <2> QED
      BY <2>1 DEF RowsInv
  <1>6. CASE SetPodOwners
    <2>1. phase' = "inventory" /\ owners' = PodOwners(rs, cache) /\ UNCHANGED <<live, cache, snap>>
      BY <1>6 DEF SetPodOwners, clusterVars
    <2>2. DOMAIN PodOwners(rs, cache) \subseteq Pods
      BY DEF PodOwners, Pods, OfKind, RowsInv
    <2> QED
      BY <2>1, <2>2 DEF RowsInv
  <1>7. CASE Build
    <2>1. /\ phase = "inventory" /\ phase' = IF signs = "none" THEN "post" ELSE "query"
          /\ UNCHANGED <<live, cache, owners, signs, asked>>
      BY <1>7 DEF Build, clusterVars
    <2>2. snap'.rows = <<>> /\ "rows" \in DOMAIN snap'
      BY <1>7 DEF Build
    <2>3. asked = <<>>
      BY <2>1 DEF TraceInv
    <2>4. Filled(<<>>, <<>>, owners)
      BY DEF Filled
    <2>5. Filled(snap.rows, asked, owners)'
      BY <2>1, <2>2, <2>3, <2>4
    <2> QED
      BY <2>1, <2>2, <2>5 DEF RowsInv
  <1>8. CASE Post
    <2>1. phase' = "idle" /\ owners' = <<>> /\ UNCHANGED <<live, cache>> /\ "rows" \in DOMAIN snap'
      BY <1>8 DEF Post, clusterVars, NoSnap
    <2> QED
      BY <2>1 DEF RowsInv
  <1>9. CASE QueryHit
    <2> DEFINE q == Len(asked) + 1
    <2>1. /\ phase = "query" /\ memo[q] # None /\ Merge(memo[q])
          /\ UNCHANGED <<live, cache, owners, signs>>
      BY <1>9 DEF QueryHit, clusterVars
    <2>2. memo[q] \in Answers
      BY <2>1 DEF TraceInv
    <2> QED
      BY <2>1, <2>2, RowsMerge
  <1>10. ASSUME NEW r1 \in ReplySet, NEW r2 \in ReplySet, Query(r1, r2) PROVE RowsInv'
    <2> DEFINE d == do(IF signs = "file" THEN auth ELSE StaticAuth, file, r1, r2)
               a == [ok |-> d.status = "ok", samples |-> d.samples]
    <2>1. phase = "query" /\ Merge(a) /\ UNCHANGED <<live, cache, owners, signs>>
      BY <1>10 DEF Query, clusterVars
    <2>2. (IF signs = "file" THEN auth ELSE StaticAuth) \in AuthType /\ file \in Files
      BY DEF TokenInv, StaticAuth, AuthType
    <2>3. d.samples \subseteq Pods /\ (d.status # "ok" => d.samples = {})
      BY <2>2, DoFacts
    <2>4. a \in Answers
      BY <2>3 DEF Answers
    <2> HIDE DEF d, a
    <2> QED
      BY <2>1, <2>4, RowsMerge
  <1>11. Mutable \subseteq Objects
    BY DEF Configured
  <1> QED
    BY <1>2, <1>3, <1>4, <1>5, <1>6, <1>7, <1>8, <1>9, <1>10, <1>11
       DEF ObserveNext, Agent, Files

Column(t, q, rows) == \A w \in DOMAIN rows : t[w] = rows[w][Fields[q]]

(* A query's field, summed over the rows, is what its samples add.           *)
LEMMA RowsAddUp ==
  ASSUME Configured, DOMAIN owners \subseteq Pods, NEW rows, NEW ans \in Seq(Answers),
         Filled(rows, ans, owners), Len(ans) = 3, NEW q \in 1..3, NEW t, Column(t, q, rows)
  PROVE  /\ IsFiniteSet(DOMAIN rows) /\ Ints(t, DOMAIN rows)
         /\ SumFunctionOnSet(t, DOMAIN rows)
              = SumFunctionOnSet(Adds(Fields[q]), ans[q].samples \cap DOMAIN owners)
  <1>0. PICK D, K : D = DOMAIN rows /\ K = ans[q].samples \cap DOMAIN owners
    OBVIOUS
  <1>1. PICK o, f, P : o = owners /\ f = Adds(Fields[q]) /\ P = DOMAIN o
    OBVIOUS
  <1>2. IsFiniteSet(K) /\ Ints(f, K)
    BY <1>0, <1>1, ShareIsNat
  <1>3. IsFiniteSet(D)
    <2>1. P \in SUBSET Pods
      BY <1>1
    <2>2. IsFiniteSet(P)
      BY <2>1, ShareIsNat
    <2>3. PICK W, g : W = {o[p] : p \in P} /\ g = [p \in P |-> o[p]]
      OBVIOUS
    <2>4. g \in Surjection(P, W)
      BY <2>3 DEF Surjection
    <2>5. IsFiniteSet(W)
      BY <2>2, <2>4, FS_Surjection
    <2>6. D \in SUBSET W
      BY <1>0, <1>1, <2>3 DEF Filled
    <2> QED
      BY <2>5, <2>6, FS_Subset
  <1>4. \A p \in K : o[p] \in D
    <2>1. q \in 1..Len(ans)
      OBVIOUS
    <2> QED
      BY <1>0, <1>1, <2>1 DEF Filled
  <1>5. \A w \in D : t[w] = SumFunctionOnSet(f, Group(K, o, w))
    <2> SUFFICES ASSUME NEW w \in D PROVE t[w] = SumFunctionOnSet(f, Group(K, o, w))
      OBVIOUS
    <2>1. t[w] = Share(ans[q].samples, q, w, o)
      BY <1>0, <1>1 DEF Filled, Column
    <2> QED
      BY <1>0, <1>1, <2>1, Zenon DEF Share
  <1>6. Ints(t, D) /\ SumFunctionOnSet(t, D) = SumFunctionOnSet(f, K)
    <2>1. Grouped(t, f, o, K, D)
      BY <1>4, <1>5 DEF Grouped
    <2> QED
      BY <1>2, <1>3, <2>1, SumGrouped
  <1> QED
    BY <1>0, <1>1, <1>3, <1>6

(* The rows that hold the answers carry the samples, each once.              *)
LEMMA RowsConserve == ASSUME Configured, TraceInv, RowsInv PROVE Conserved
  <1> SUFFICES ASSUME phase = "post", signs # "none"
               PROVE  /\ Total("cpu") = SumFunctionOnSet(Val, Known(1))
                      /\ 2 * Total("mem") <= SumFunctionOnSet(Val, Known(2))
                      /\ SumFunctionOnSet(Val, Known(2)) <= 2 * Total("mem") + Cardinality(DOMAIN Shipped)
                      /\ 2 * Total("oom") <= SumFunctionOnSet(Val, Known(3))
                      /\ SumFunctionOnSet(Val, Known(3)) <= 2 * Total("oom") + Cardinality(Known(3))
                      /\ \A q \in DOMAIN asked : ~asked[q].ok => Total(Fields[q]) = 0
    BY Zenon DEF Conserved
  <1>1. /\ Len(asked) = 3 /\ asked \in Seq(Answers) /\ DOMAIN owners \subseteq Pods
        /\ Filled(snap.rows, asked, owners)
    BY DEF RowsInv, TraceInv
  <1>2. PICK rows, D : rows = snap.rows /\ D = DOMAIN rows
    OBVIOUS
  <1>3. \A w \in D : rows[w] \in Row
    BY <1>1, <1>2 DEF Filled
  <1>4. /\ DOMAIN Shipped = D
        /\ \A w \in D : /\ Shipped[w]["cpu"] = rows[w]["cpu"] /\ Shipped[w]["oom"] = rows[w]["oom"]
                        /\ Shipped[w]["mem"] = rows[w]["mem"] \div 2
    BY <1>2, <1>3 DEF Shipped, Row
  <1>5. PICK c, m, o, u : /\ c = [w \in D |-> Shipped[w]["cpu"]] /\ m = [w \in D |-> Shipped[w]["mem"]]
                          /\ o = [w \in D |-> Shipped[w]["oom"]] /\ u = [w \in D |-> rows[w]["mem"]]
    OBVIOUS
  <1>6. /\ Total("cpu") = SumFunctionOnSet(c, D) /\ Total("mem") = SumFunctionOnSet(m, D)
        /\ Total("oom") = SumFunctionOnSet(o, D)
    <2>1. DOMAIN c = D /\ DOMAIN m = D /\ DOMAIN o = D
      BY <1>5
    <2> QED
      BY <1>4, <1>5, <2>1, Zenon DEF Total, SumFunction
  <1>7. PICK x, y, z : /\ x = asked[1].samples \cap DOMAIN owners
                       /\ y = asked[2].samples \cap DOMAIN owners
                       /\ z = asked[3].samples \cap DOMAIN owners
    OBVIOUS
  <1>8. /\ x = Known(1) /\ y = Known(2) /\ z = Known(3)
        /\ x \in SUBSET Pods /\ y \in SUBSET Pods /\ z \in SUBSET Pods
    BY <1>1, <1>7 DEF Known
  <1>9. Filled(rows, asked, owners)
    BY <1>1, <1>2
  <1>a. ASSUME NEW q \in 1..3, NEW t, NEW K, K = asked[q].samples \cap DOMAIN owners,
               \A w \in D : t[w] = rows[w][Fields[q]]
        PROVE  /\ IsFiniteSet(D) /\ Ints(t, D)
               /\ SumFunctionOnSet(t, D) = SumFunctionOnSet(Adds(Fields[q]), K)
    <2>1. PICK ans : ans = asked
      OBVIOUS
    <2>2. Column(t, q, rows)
      BY <1>2, <1>a DEF Column
    <2>3. Filled(rows, ans, owners) /\ ans \in Seq(Answers) /\ Len(ans) = 3
      BY <1>1, <1>9, <2>1
    <2>4. /\ IsFiniteSet(DOMAIN rows) /\ Ints(t, DOMAIN rows)
          /\ SumFunctionOnSet(t, DOMAIN rows)
               = SumFunctionOnSet(Adds(Fields[q]), ans[q].samples \cap DOMAIN owners)
      BY <1>1, <2>2, <2>3, RowsAddUp
    <2> QED
      BY <2>1, <2>4, <1>2, <1>a, Zenon
  <1>10. /\ IsFiniteSet(D) /\ Ints(c, D)
         /\ SumFunctionOnSet(c, D) = SumFunctionOnSet(Adds("cpu"), x)
    <2>1. \A w \in D : c[w] = rows[w][Fields[1]]
      BY <1>4, <1>5, FieldNames
    <2>2. 1 \in 1..3
      OBVIOUS
    <2>3. /\ IsFiniteSet(D) /\ Ints(c, D)
          /\ SumFunctionOnSet(c, D) = SumFunctionOnSet(Adds(Fields[1]), x)
      BY <2>1, <2>2, <1>7, <1>a, Zenon
    <2> QED
      BY <2>3, FieldNames
  <1>11. Ints(u, D) /\ SumFunctionOnSet(u, D) = SumFunctionOnSet(Adds("mem"), y)
    <2>1. \A w \in D : u[w] = rows[w][Fields[2]]
      BY <1>4, <1>5, FieldNames
    <2>2. 2 \in 1..3
      OBVIOUS
    <2>3. /\ IsFiniteSet(D) /\ Ints(u, D)
          /\ SumFunctionOnSet(u, D) = SumFunctionOnSet(Adds(Fields[2]), y)
      BY <2>1, <2>2, <1>7, <1>a, Zenon
    <2> QED
      BY <2>3, FieldNames
  <1>12. Ints(o, D) /\ SumFunctionOnSet(o, D) = SumFunctionOnSet(Adds("oom"), z)
    <2>1. \A w \in D : o[w] = rows[w][Fields[3]]
      BY <1>4, <1>5, FieldNames
    <2>2. 3 \in 1..3
      OBVIOUS
    <2>3. /\ IsFiniteSet(D) /\ Ints(o, D)
          /\ SumFunctionOnSet(o, D) = SumFunctionOnSet(Adds(Fields[3]), z)
      BY <2>1, <2>2, <1>7, <1>a, Zenon
    <2> QED
      BY <2>3, FieldNames
  <1>13. PICK ac, am, ao : ac = Adds("cpu") /\ am = Adds("mem") /\ ao = Adds("oom")
    OBVIOUS
  <1>14. \A p \in Pods : Val[p] \in Int /\ ac[p] = Val[p] /\ am[p] = Val[p] /\ ao[p] = Val[p] \div 2
    BY <1>13 DEF Adds, Increment, Configured
  <1>15. /\ IsFiniteSet(x) /\ IsFiniteSet(y) /\ IsFiniteSet(z)
         /\ Ints(Val, x) /\ Ints(Val, y) /\ Ints(Val, z) /\ Ints(ac, x) /\ Ints(am, y)
    BY <1>8, <1>13, <1>14, ShareIsNat DEF Ints
  <1>16. SumFunctionOnSet(ac, x) = SumFunctionOnSet(Val, x)
    BY <1>8, <1>14, <1>15, SumSame
  <1>17. SumFunctionOnSet(am, y) = SumFunctionOnSet(Val, y)
    BY <1>8, <1>14, <1>15, SumSame
  <1>18. Total("cpu") = SumFunctionOnSet(Val, Known(1))
    BY <1>6, <1>8, <1>10, <1>13, <1>16
  <1>19. /\ 2 * SumFunctionOnSet(m, D) <= SumFunctionOnSet(u, D)
         /\ SumFunctionOnSet(u, D) <= 2 * SumFunctionOnSet(m, D) + Cardinality(D)
    <2>1. \A w \in D : m[w] = u[w] \div 2
      BY <1>4, <1>5
    <2> QED
      BY <1>10, <1>11, <2>1, SumHalved
  <1>20. /\ 2 * SumFunctionOnSet(ao, z) <= SumFunctionOnSet(Val, z)
         /\ SumFunctionOnSet(Val, z) <= 2 * SumFunctionOnSet(ao, z) + Cardinality(z)
    <2>1. \A p \in z : ao[p] = Val[p] \div 2
      BY <1>8, <1>14
    <2> QED
      BY <1>15, <2>1, SumHalved, Zenon
  <1>21. ASSUME NEW q \in DOMAIN asked, ~asked[q].ok PROVE Total(Fields[q]) = 0
    <2>1. q \in 1..3 /\ asked[q].samples = {}
      <3>1. q \in 1..3 /\ asked[q] \in Answers
        BY <1>1, <1>21
      <3> QED
        BY <3>1, <1>21 DEF Answers
    <2>2. CASE q = 1
      <3>1. x = {}
        BY <2>1, <2>2, <1>7
      <3> QED
        BY <2>2, <3>1, <1>6, <1>10, FieldNames, SumEmpty
    <2>3. CASE q = 2
      <3>1. \A w \in D : u[w] = 0
        <4> SUFFICES ASSUME NEW w \in D PROVE u[w] = 0
          OBVIOUS
        <4>1. u[w] = Share(asked[2].samples, 2, w, owners)
          BY <1>1, <1>2, <1>5, <1>9, FieldNames DEF Filled
        <4>2. Group(asked[2].samples \cap DOMAIN owners, owners, w) = {}
          BY <2>1, <2>3 DEF Group
        <4> QED
          BY <4>1, <4>2, SumEmpty DEF Share
      <3>2. \A w \in D : m[w] = 0
        BY <3>1, <1>4, <1>5
      <3>3. Ints(m, D)
        BY <3>2 DEF Ints
      <3>4. SumFunctionOnSet(m, D) = SumFunctionOnSet(m, {})
        BY <3>2, <3>3, <1>10, SumOnly
      <3> QED
        BY <2>3, <3>4, <1>6, FieldNames, SumEmpty
    <2>4. CASE q = 3
      <3>1. z = {}
        BY <2>1, <2>4, <1>7
      <3> QED
        BY <2>4, <3>1, <1>6, <1>12, FieldNames, SumEmpty
    <2> QED
      BY <2>1, <2>2, <2>3, <2>4
  <1>22. /\ 2 * Total("mem") <= SumFunctionOnSet(Val, Known(2))
         /\ SumFunctionOnSet(Val, Known(2)) <= 2 * Total("mem") + Cardinality(DOMAIN Shipped)
    BY <1>4, <1>6, <1>8, <1>11, <1>13, <1>17, <1>19
  <1>23. /\ 2 * Total("oom") <= SumFunctionOnSet(Val, Known(3))
         /\ SumFunctionOnSet(Val, Known(3)) <= 2 * Total("oom") + Cardinality(Known(3))
    BY <1>6, <1>8, <1>12, <1>13, <1>20
  <1> QED
    BY <1>18, <1>21, <1>22, <1>23

(* Scraper.apply: whatever the index, the answers and the failures of a      *)
(* tick, its snapshot carries the samples of the pods of the index, each     *)
(* once and under its own workload, with what the truncations cost.          *)
THEOREM SamplesConserved == ObserveSpec => []Conserved
  <1> USE ObserveAssumption
  <1>1. ObserveInit => TokenInv /\ TraceInv /\ RowsInv
    <2> SUFFICES ASSUME ObserveInit PROVE RowsInv
      BY ObserveStarts
    <2> QED
      BY DEF ObserveInit, RowsInv, NoSnap, Configured
  <1>2. TokenInv /\ TraceInv /\ RowsInv /\ [ObserveNext]_observeVars
        => TokenInv' /\ TraceInv' /\ RowsInv'
    BY TokenNext, TraceNext, RowsNext
  <1>3. TraceInv /\ RowsInv => Conserved
    BY RowsConserve
  <1> QED
    BY <1>1, <1>2, <1>3, PTL DEF ObserveSpec
===============================================================================
