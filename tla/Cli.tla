--------------------------------- MODULE Cli ---------------------------------
(***************************************************************************)
(* One invocation of the optiqor command (cmd/optiqor/main.go): load the   *)
(* configuration, read and analyze the chart, write the HTML side channel, *)
(* write the output, upload on --share, and turn the report into an exit   *)
(* code.                                                                   *)
(*                                                                         *)
(* An invocation is a record: the command cmd, the values documents chart  *)
(* and other, the severity, detectors and failOn flags ("" and {} when not *)
(* given), the booleans html, roast and share, and the configurations that *)
(* --config, OPTIQOR_CONFIG and the working directory name (Nil: not       *)
(* there), and the source path. A configuration is [kind |-> "missing"], [kind |-> "malformed"] *)
(* or [kind |-> "yaml", severity, detectors, failOn]. Colours, widths,     *)
(* JSON and wording are left out.                                          *)
(***************************************************************************)
EXTENDS Analyze

CONSTANTS Invocations

(* No chart lies at the path that stands for a stripped one, and a document  *)
(* is a finite sequence of mappings.                                         *)
ASSUME CliAssumption ==
  \A i \in Invocations :
    /\ i.source # "(redacted)"
    /\ \A doc \in {i.chart, i.other} :
         Len(doc.blocks) \in Nat /\ DOMAIN doc.blocks = 1..Len(doc.blocks)

VARIABLES
  inv,     \* the invocation under way
  pc,      \* the next step of its command
  cfg,     \* the loaded configuration
  rep,     \* the report: findings left by the filter, and whether roasted
  html,    \* the report in the HTML file, Nil before it is written
  out,     \* what was written to stdout or --output, Nil before
  sent,    \* the payload of the upload, Nil when nothing was sent
  exit     \* the exit code, Nil while running

vars == <<inv, pc, cfg, rep, html, out, sent, exit>>

exitSuccess == 0
exitFindings == 1
exitInvocation == 2

Commands == {"analyze", "demo", "diff", "compare", "score", "audit", "watch"}
Severities == {"LOW", "MED", "HIGH"}

(* toUpper on the words a flag or a configuration may hold.                  *)
Words == {"", "low", "med", "high", "medium", "critical"}
toUpper(word) ==
  CASE word = "low" -> "LOW" [] word = "med" -> "MED" [] word = "high" -> "HIGH"
    [] word = "medium" -> "MEDIUM" [] word = "critical" -> "CRITICAL" [] word = "" -> ""

NoConfig == [kind |-> "yaml", severity |-> "", detectors |-> {}, failOn |-> ""]

(* Mutant: only the minimum severity is validated.                           *)
ValidateSeverityOnly(c) == c.severity \in {"", "low", "med", "medium", "high"}

(* Config.Validate.                                                          *)
Validate(c) == {c.severity, c.failOn} \subseteq {"", "low", "med", "medium", "high"}

(* config.Load: --config, then OPTIQOR_CONFIG, then the working directory.   *)
Load(i) ==
  LET named == Declared(<<i.flagConfig, i.envConfig, i.cwdConfig>>)
  IN  IF named = <<>> THEN NoConfig ELSE Head(named)

Loads(c) == c.kind = "yaml" /\ Validate(c)

(* Any error a handler returns, printed by main.                             *)
Fail ==
  /\ exit' = exitInvocation
  /\ pc' = "done"

(* The persistent pre-run. watch gets no further.                            *)
PreRun ==
  /\ pc = "start"
  /\ LET c == Load(inv) IN
       \/ /\ Loads(c) /\ inv.cmd # "watch"
          /\ cfg' = c
          /\ pc' = "read"
          /\ UNCHANGED exit
       \/ /\ ~Loads(c) \/ inv.cmd = "watch"
          /\ Fail
          /\ UNCHANGED cfg
  /\ UNCHANGED <<inv, rep, html, out, sent>>

(* A flag wins over the configuration when it is given; only analyze looks   *)
(* at the configuration's severity, detectors and threshold.                 *)
effSev == IF inv.severity # "" THEN inv.severity ELSE cfg.severity
effDetectors == IF inv.detectors # {} THEN inv.detectors ELSE cfg.detectors
effFailOn == IF inv.failOn # "" THEN inv.failOn ELSE cfg.failOn

FailOn == CASE inv.cmd = "analyze" -> effFailOn [] inv.cmd = "audit" -> inv.failOn [] OTHER -> ""

Filtered ==
  LET found == Run(ParseValues(inv.chart))
  IN  CASE inv.cmd = "analyze" -> Filter(found, toUpper(effSev), effDetectors, FALSE)
        [] inv.cmd = "audit" -> Filter(found, "", {}, TRUE)
        [] OTHER -> found

(* roast.Apply rewrites titles only.                                         *)
Apply(r) == [r EXCEPT !.roast = TRUE]

(* RunPath, Run, Filter and the tone pass. A path that cannot be opened or   *)
(* whose document has no top-level mapping fails.                            *)
Analysis ==
  /\ pc = "read"
  /\ inv.cmd \in {"analyze", "audit", "score", "demo"}
  /\ \/ /\ Parses(inv.chart)
        /\ LET r == [source |-> inv.source, findings |-> Filtered, roast |-> FALSE]
           IN  rep' = IF inv.roast /\ inv.cmd \in {"analyze", "demo"} THEN Apply(r) ELSE r
        /\ pc' = IF inv.html /\ inv.cmd = "analyze" THEN "html" ELSE "emit"
        /\ UNCHANGED exit
     \/ /\ ~Parses(inv.chart)
        /\ Fail
        /\ UNCHANGED rep
  /\ UNCHANGED <<inv, cfg, html, out, sent>>

(* DiffPaths, for diff and its alias compare.                                *)
DiffPaths ==
  /\ pc = "read"
  /\ inv.cmd \in {"diff", "compare"}
  /\ \/ /\ Parses(inv.chart) /\ Parses(inv.other)
        /\ rep' = [entries |-> Diff(ParseValues(inv.chart), ParseValues(inv.other))]
        /\ pc' = "emit"
        /\ UNCHANGED exit
     \/ /\ ~(Parses(inv.chart) /\ Parses(inv.other))
        /\ Fail
        /\ UNCHANGED rep
  /\ UNCHANGED <<inv, cfg, html, out, sent>>

(* The file may not be writable.                                             *)
writeHTMLReport ==
  /\ pc = "html"
  /\ \/ html' = rep /\ pc' = "emit" /\ UNCHANGED exit
     \/ Fail /\ UNCHANGED html
  /\ UNCHANGED <<inv, cfg, rep, out, sent>>

(* What a command prints: a score, a difference or the report.               *)
Output == IF inv.cmd = "score" THEN Compute(rep.findings) ELSE rep

AfterEmit == IF inv.share /\ inv.cmd = "analyze" THEN "share" ELSE "check"

(* emitReport and the writers of the other commands; the output file may not *)
(* open and the pipe may be closed.                                          *)
emitReport ==
  /\ pc = "emit"
  /\ \/ out' = Output /\ pc' = AfterEmit /\ UNCHANGED exit
     \/ Fail /\ UNCHANGED out
  /\ UNCHANGED <<inv, cfg, rep, html, sent>>

(* The path of the chart is stripped before hashing and upload.              *)
Sanitise(r) == [r EXCEPT !.source = "(redacted)"]

(* share.Upload posts once, whatever comes back: an endpoint that refuses,   *)
(* answers late or is not there changes only the line on stderr.             *)
emitShareURL ==
  /\ pc = "share"
  /\ sent' = Sanitise(rep)
  /\ pc' = "check"
  /\ UNCHANGED <<inv, cfg, rep, html, out, exit>>

(* checkFailOn looks at the report the filter left, after it was written.    *)
checkFailOn ==
  CASE FailOn = "" -> exitSuccess
    [] FailOn # "" /\ toUpper(FailOn) \notin Severities -> exitInvocation
    [] FailOn # "" /\ toUpper(FailOn) \in Severities ->
         IF \E f \in rep.findings :
              severityRank(f.finding.severity) >= severityRank(toUpper(FailOn))
         THEN exitFindings ELSE exitSuccess

Exit ==
  /\ pc = "check"
  /\ exit' = checkFailOn
  /\ pc' = "done"
  /\ UNCHANGED <<inv, cfg, rep, html, out, sent>>

-----------------------------------------------------------------------------
Init ==
  /\ inv \in Invocations
  /\ pc = "start"
  /\ cfg = NoConfig
  /\ rep = Nil /\ html = Nil /\ out = Nil /\ sent = Nil /\ exit = Nil

Next == PreRun \/ Analysis \/ DiffPaths \/ writeHTMLReport \/ emitReport \/ emitShareURL \/ Exit

Spec == Init /\ [][Next]_vars

-----------------------------------------------------------------------------
(* The CI gate of checkFailOn: as long as the severity filter hides nothing  *)
(* at or above the threshold, wherever flags and configuration come from,    *)
(* analyze exits with 1 exactly when some detector finds some workload of    *)
(* the chart at or above the threshold.                                      *)
GateSound ==
  (/\ pc = "done" /\ out # Nil /\ inv.cmd = "analyze"
   /\ toUpper(FailOn) \in Severities
   /\ effDetectors = {}
   /\ severityRank(toUpper(effSev)) =< severityRank(toUpper(FailOn)))
  => LET workloads == ParseValues(inv.chart)
     IN  exit = exitFindings <=>
           \E i \in DOMAIN workloads : \E f \in All(workloads[i]) :
             severityRank(f.severity) >= severityRank(toUpper(FailOn))

(* A refusal that comes after the report was written is about the threshold  *)
(* word alone; a configuration that passed Validate gets there only with     *)
(* "medium", which Validate accepts and checkFailOn does not.                *)
LateRefusal ==
  (pc = "done" /\ exit = exitInvocation /\ out # Nil)
  => /\ toUpper(FailOn) \notin Severities
     /\ inv.failOn = "" => FailOn = "medium"

(* share.go: the CLI never calls out unless --share is given; what it sends  *)
(* was shown to the user first and does not name the chart's path.           *)
NoUploadUnasked ==
  sent # Nil => /\ inv.share
                /\ out = rep
                /\ sent.findings = out.findings /\ sent.source # inv.source

-----------------------------------------------------------------------------
Reported == rep # Nil /\ "findings" \in DOMAIN rep

Advised == {"cpu-overprovisioned", "memory-overprovisioned"}
Ids(findings) == {f.id : f \in findings}
ShownAt(i) == Ids({f.finding : f \in {g \in rep.findings : g.at = i}})

(* The workload after the advice shown for it: half of a request given back. *)
Follow(w, shown) ==
  [w EXCEPT !.reqCPU = IF "cpu-overprovisioned" \in shown THEN @ - (@ \div 2) ELSE @,
            !.reqMem = IF "memory-overprovisioned" \in shown THEN @ \div 2 ELSE @]

(* A request within its limit that has an exact half.                        *)
Halvable(req, lim) == req # Nil /\ lim # Nil => req <= lim /\ req % 2 = 0

Followable(w, shown) ==
  /\ "cpu-overprovisioned" \in shown => Halvable(w.reqCPU, w.limCPU)
  /\ "memory-overprovisioned" \in shown => Halvable(w.reqMem, w.limMem)

(* Half of these requests is below the sizes taken for placeholders.         *)
NearTiny(w) ==
  {id \in {"tiny-cpu-request", "tiny-memory-request"} :
     \/ id = "tiny-cpu-request" /\ w.reqCPU # Nil /\ w.reqCPU \in 1..19
     \/ id = "tiny-memory-request" /\ w.reqMem # Nil /\ w.reqMem \in 1..63}

(* Advice settles.  Whatever the filter showed, a workload whose requests    *)
(* are halved as the report says has lost those findings and gained no       *)
(* other: the half is above a quarter of the limit, so no detector of limits *)
(* asks for it back.  One contradiction is left: next to a placeholder size  *)
(* (tiny_request.go) the halved request, and often the one before, is too    *)
(* small as well.                                                            *)
AdviceSettles ==
  Reported =>
    LET workloads == ParseValues(inv.chart)
    IN  \A i \in DOMAIN workloads :
          Followable(workloads[i], ShownAt(i)) =>
            Ids(All(Follow(workloads[i], ShownAt(i))))
              \subseteq (Ids(All(workloads[i])) \ (ShownAt(i) \cap Advised)) \cup NearTiny(workloads[i])

Unfiltered == toUpper(effSev) = "" /\ effDetectors = {}
DistinctNames(workloads) ==
  \A i, j \in DOMAIN workloads : workloads[i].name = workloads[j].name => i = j

(* What cpu- and memory-overprovisioned suggest: half of the request given   *)
(* back.                                                                     *)
Halve(w) ==
  [w EXCEPT !.reqCPU = IF Overprovisioned(@, w.limCPU) THEN @ - (@ \div 2) ELSE @,
            !.reqMem = IF Overprovisioned(@, w.limMem) THEN @ \div 2 ELSE @]

EvenMemory(w) == w.reqMem # Nil => w.reqMem % 2 = 0

(* diff.go: "Pricing constants must stay in lockstep with internal/rules so  *)
(* the diff's monthly delta matches the analyze report's savings". Follow    *)
(* the advice of an unfiltered analysis and diff shows the savings promised, *)
(* to the cent.                                                              *)
SavingsMatchDiff ==
  (Reported /\ inv.cmd = "analyze" /\ Unfiltered) =>
    LET before == ParseValues(inv.chart)
        after == [i \in DOMAIN before |-> Halve(before[i])]
        promised == {f \in rep.findings : f.finding.id \in Advised}
    IN  DistinctNames(before) /\ (\A i \in DOMAIN before : EvenMemory(before[i])) =>
          MonthlyUSDCentsDelta(Diff(before, after))
            = -SumFunction([f \in promised |-> f.finding.cents])

(* Limits on either side of what the detectors compare a limit with.         *)
Limits(req) == {0, req, (3 * req) \div 2, 2 * req, 4 * req + 2, 16 * 1024, 64 * 1024}

(* Declaring a memory limit for a workload that requests memory never lowers *)
(* the score, whatever the limit: the HIGH finding it removes outweighs all  *)
(* those the limit can bring in together.                                    *)
MemoryLimitPays ==
  (inv.cmd = "score" /\ out # Nil) =>
    LET workloads == ParseValues(inv.chart)
    IN  \A i \in DOMAIN workloads :
          workloads[i].reqMem # Nil /\ workloads[i].limMem = Nil =>
            \A limit \in Limits(workloads[i].reqMem) :
              Compute(Run([workloads EXCEPT ![i].limMem = limit])).value >= out.value

(* Halving the requests that are reported overprovisioned saves the cents    *)
(* the report names, and a missing memory limit declared never costs score;  *)
(* nothing is said of what other advice pays.                                *)
AdvicePays == SavingsMatchDiff /\ MemoryLimitPays

-----------------------------------------------------------------------------
Mirrored(e) ==
  [name |-> e.name, new |-> e.removed, removed |-> e.new, cpu |-> -e.cpu,
   cpuLimit |-> -e.cpuLimit, mem |-> -e.mem, memLimit |-> -e.memLimit, cents |-> -e.cents]

Compared == rep # Nil /\ "entries" \in DOMAIN rep

(* Swapping the two files turns every saving into the same regression and    *)
(* every new workload into a removed one, rounding included.                 *)
DiffAntisymmetric ==
  Compared =>
    {Mirrored(e) : e \in rep.entries} = Diff(ParseValues(inv.other), ParseValues(inv.chart))

Units(q) == IF q = Nil THEN 0 ELSE q
Bill(workloads) ==
  SumFunction([i \in DOMAIN workloads |-> cpuCents(Units(workloads[i].reqCPU))
                                          + memCents(Units(workloads[i].reqMem))])

(* The total of a difference is the difference of the two bills, up to the   *)
(* rounding of one cent per resource of every entry, when no two workloads   *)
(* of a file share a name.                                                   *)
DiffAddsUp ==
  Compared =>
    LET a == ParseValues(inv.chart)
        b == ParseValues(inv.other)
        slack == 2 * Cardinality(rep.entries)
    IN  DistinctNames(a) /\ DistinctNames(b) =>
          MonthlyUSDCentsDelta(rep.entries) - (Bill(b) - Bill(a)) \in -slack..slack

(* A difference is a ledger between the two charts: it reads the same from   *)
(* either side, and its lines account for the change in the bill.            *)
DiffIsLedger == DiffAntisymmetric /\ DiffAddsUp
===============================================================================
