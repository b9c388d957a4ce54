------------------------------- MODULE ApplyFix -------------------------------
(***************************************************************************)
(* The apply-fix workflow, worker/workflows/apply_fix.go: from a payload   *)
(* to a published pull request or a refusal.  It composes the operator     *)
(* detector (Operators), the sizing gate (Strategy), the LLM composer, the *)
(* gate pipeline (Gate) and the cluster validators (Validators).           *)
(*                                                                         *)
(* A run reads the tenant's skeptic flag once; the tenant may change it    *)
(* while the run is under way, and the read may fail.  The model follows   *)
(* one run; runs share nothing else that they write.                       *)
(***************************************************************************)
EXTENDS Gate, FiniteSets

CONSTANTS Nil,
          Payloads,        \* the payloads a dispatcher may submit
          Resolve,         \* the owner index OwnerResolve reads
          Refs, BuiltInRefs, NoRef, MaxDepth,
          Wirings,         \* how a worker may be wired (register.go)
          Answers          \* Answers[c]: what the model may write for chart c

INSTANCE Strategy
INSTANCE Operators
V == INSTANCE Validators

(* skeptic: ApplyFix.SkepticMode; settings, validator, resolver: the optional *)
(* collaborators that are wired; client: the dry run has a cluster to ask;    *)
(* strict: the gate runs under StrictPolicy; required: the keys that the      *)
(* conform stage must find.                                                   *)
ASSUME WiringAssumption ==
  \A w \in Wirings :
    /\ w \in [skeptic : BOOLEAN, settings : BOOLEAN, validator : BOOLEAN, resolver : BOOLEAN,
              client : BOOLEAN, strict : BOOLEAN, required : SUBSET {"image"}]

(* Where a hunk belongs in the chart, counting from 0: above the text that    *)
(* the model was shown there may be a marker line.                            *)
Place(c, h) == h.start - 1 - (IF c.suspicious THEN 1 ELSE 0)

(* d is a diff of the text shown for c: its hunks follow one another, each    *)
(* with its old lines at the line that it names.                              *)
IsDiffOf(c, d) ==
  \A i \in DOMAIN d :
    /\ d[i].header /\ d[i].start \in Int
    /\ OldBlock(d[i]) \in Seq(Lines) /\ NewBlock(d[i]) \in Seq(Lines)
    /\ i > 1 => d[i].start >= d[i - 1].start + Len(OldBlock(d[i - 1]))
    /\ tryAt(Sanitize(c), OldBlock(d[i]), d[i].start - 1)

(* The chart with each hunk at its own place, moved by what the hunks before  *)
(* it added and removed.                                                      *)
Edited(c, d) ==
  LET text[n \in 0..Len(d)] ==
        IF n = 0 THEN c.lines
        ELSE Splice(text[n - 1], Place(c, d[n]) + Len(text[n - 1]) - Len(c.lines), d[n])
  IN  text[Len(d)]

(* An answer is a diff and, where it is a correct diff of the text the model  *)
(* was shown, the chart it means: the original with those edits.  Where the   *)
(* original has a comment among the old lines it is not said here how that    *)
(* chart comes by it.                                                         *)
ASSUME AnswersAssumption ==
  \A q \in Payloads : \A a \in Answers[q.chart] :
    a.meant # Nil =>
      /\ a.diff \in Seq(Range(a.diff)) /\ a.diff # <<>> /\ IsDiffOf(q.chart, a.diff)
      /\ (\A i \in DOMAIN a.diff :
            tryAt(q.chart.lines, OldBlock(a.diff[i]), Place(q.chart, a.diff[i])))
           => a.meant = Edited(q.chart, a.diff)

(* What a payload proposes (0: unchanged) and the signals attached to it.     *)
ASSUME PayloadAssumption ==
  \A q \in Payloads :
    /\ q.chart \in [lines : Seq(Lines), suspicious : BOOLEAN]
    /\ q.owners \in Seq([ref : Refs, controller : BOOLEAN])
    /\ q.replicas \in Int /\ q.cpu \in Int /\ q.mem \in Int /\ q.dependents \in Nat
    /\ q.pdb \in Int \cup {Nil} /\ q.oomRecent \in BOOLEAN
    /\ q.quota \in [cpu : Nat, mem : Nat, usedCPU : Nat, usedMem : Nat] \cup {Nil}
    /\ q.limits \in [minCPU : Nat, maxCPU : Nat, minMem : Nat, maxMem : Nat] \cup {Nil}
    /\ q.hpa \in [min : Int, max : Int, current : Int] \cup {Nil}

ASSUME DetectorAssumption ==
  IsFiniteSet(Refs) /\ BuiltInRefs \subseteq Refs /\ MaxDepth \in Nat

VARIABLES
  wired,        \* the worker's wiring
  flag,         \* tenants.skeptic_mode_default of the tenant
  pc,           \* the next thing Execute does
  p,            \* the payload
  skeptic,      \* effectiveSkeptic
  stages,       \* gate.Result.Stages: the status of each stage run
  verdicts,     \* validator.Result.Verdicts
  llmCalls,     \* calls that reached the model
  answer,       \* FixResponse: the diff, and what it means
  outcome,      \* what Execute returned
  steadyFlag    \* history: the flag was TRUE and untouched since the run began

vars == <<wired, flag, pc, p, skeptic, stages, verdicts, llmCalls, answer, outcome, steadyFlag>>

StageNames == <<"template", "conform", "dryrun", "post">>

Init ==
  /\ wired \in Wirings
  /\ flag \in BOOLEAN
  /\ pc = "wiring"
  /\ p \in Payloads
  /\ skeptic = FALSE
  /\ stages = <<>>
  /\ verdicts = {}
  /\ llmCalls = 0
  /\ answer = [diff |-> <<>>, meant |-> Nil]
  /\ outcome = "running"
  /\ steadyFlag = flag

Refuse == pc' = "done" /\ outcome' = "refused"
Go(s) == pc' = s /\ outcome' = outcome

(* The tenant toggles its setting at any time.                               *)
Toggle ==
  /\ flag' = ~flag
  /\ steadyFlag' = FALSE
  /\ UNCHANGED <<wired, pc, p, skeptic, stages, verdicts, llmCalls, answer, outcome>>

(* Decoding; composer, gate and publisher are always wired (register.go).    *)
Decode ==
  /\ pc = "wiring"
  /\ Go("skeptic") \/ Refuse
  /\ UNCHANGED <<wired, flag, p, skeptic, stages, verdicts, llmCalls, answer, steadyFlag>>

(* Mutant: a failed read of the tenant's setting switches the mode off.       *)
EffectiveSkepticErrorIsOff ==
  \/ wired.settings /\ skeptic' = flag
  \/ wired.settings /\ skeptic' = FALSE
  \/ ~wired.settings /\ skeptic' = wired.skeptic

(* The tenant's value when the source is wired and answers, else the         *)
(* worker's own.                                                             *)
EffectiveSkeptic ==
  \/ wired.settings /\ skeptic' = flag
  \/ skeptic' = wired.skeptic

ReadSkeptic ==
  /\ pc = "skeptic"
  /\ EffectiveSkeptic
  /\ IF skeptic' /\ ~wired.validator THEN Refuse ELSE Go("parse")
  /\ UNCHANGED <<wired, flag, p, stages, verdicts, llmCalls, answer, steadyFlag>>

(* Mutant: a parsed chart goes straight to the composer.                      *)
ParseChartSkipsGates ==
  /\ pc = "parse"
  /\ IF decodeYAML(p.chart.lines) THEN Go("compose") ELSE Refuse
  /\ UNCHANGED <<wired, flag, p, skeptic, stages, verdicts, llmCalls, answer, steadyFlag>>

ParseChart ==
  /\ pc = "parse"
  /\ IF decodeYAML(p.chart.lines) THEN Go("owners") ELSE Refuse
  /\ UNCHANGED <<wired, flag, p, skeptic, stages, verdicts, llmCalls, answer, steadyFlag>>

OwnersDirect ==
  ~wired.resolver \/ p.owners = <<>> \/ Classify(p.owners, Resolve) = "direct"

OperatorGate ==
  /\ pc = "owners"
  /\ IF OwnersDirect THEN Go("strategy") ELSE Refuse
  /\ UNCHANGED <<wired, flag, p, skeptic, stages, verdicts, llmCalls, answer, steadyFlag>>

classOrKarpenter(c) == IF c = "" THEN "karpenter" ELSE c

(* The replica reduction the HPA signal reveals; nothing is known without.   *)
Reduction ==
  IF p.replicas > 0 /\ p.hpa # Nil THEN p.hpa.current - p.replicas ELSE 0

(* The gate runs only when the dispatcher supplied an environment.           *)
StrategyAllows ==
  p.env # "" =>
    LET sizing == ForClass(p.env, classOrKarpenter(p.class))
    IN  /\ p.confidence # "" => ConfidenceMeets(sizing, p.confidence)
        /\ ReplicaCutAllowed(sizing, Reduction)

StrategyGate ==
  /\ pc = "strategy"
  /\ IF StrategyAllows THEN Go("compose") ELSE Refuse
  /\ UNCHANGED <<wired, flag, p, skeptic, stages, verdicts, llmCalls, answer, steadyFlag>>

(* Composer.GenerateFix: refused before egress (tenant, sanitizer, budget),  *)
(* or one model call that fails or yields a diff.                            *)
Compose ==
  /\ pc = "compose"
  /\ \/ Refuse /\ UNCHANGED <<llmCalls, answer>>
     \/ Refuse /\ llmCalls' = llmCalls + 1 /\ UNCHANGED answer
     \/ Go("gate") /\ llmCalls' = llmCalls + 1 /\ answer' \in Answers[p.chart]
  /\ UNCHANGED <<wired, flag, p, skeptic, stages, verdicts, steadyFlag>>

(* What the dry run can answer: it is not implemented without a client.      *)
DryrunStatuses == IF wired.client THEN {"passed", "failed"} ELSE {"not_implemented"}

StageStatuses(name) ==
  LET c      == p.chart.lines
      d      == answer.diff
      is(ok) == {IF ok THEN "passed" ELSE "failed"}
  IN  CASE name = "template" -> is(RenderValidator(c, d))
        [] name = "conform"  -> is(ConformValidator(c, d, wired.required))
        [] name = "dryrun"   -> DryrunStatuses
        [] name = "post"     -> is(PostValidator(c, d))

(* SkeletonPolicy and StrictPolicy.                                          *)
Allow(status) == IF wired.strict THEN status = "passed" ELSE status # "failed"

SkepticAllows(status) == status = "passed"

(* One stage of Pipeline.Run; a status the policy does not allow ends the    *)
(* run.  After the last stage skeptic mode looks at all of them again.       *)
GateStage ==
  /\ pc = "gate"
  /\ \E status \in StageStatuses(StageNames[Len(stages) + 1]) :
       /\ stages' = Append(stages, status)
       /\ CASE ~Allow(status) -> Refuse
            [] Allow(status) /\ Len(stages') < Len(StageNames) -> Go("gate")
            [] Allow(status) /\ Len(stages') = Len(StageNames) ->
                 IF skeptic /\ \E i \in DOMAIN stages' : ~SkepticAllows(stages'[i])
                 THEN Refuse
                 ELSE Go(IF wired.validator THEN "validate" ELSE "publish")
  /\ UNCHANGED <<wired, flag, p, skeptic, verdicts, llmCalls, answer, steadyFlag>>

(* The validators run to the end, then the first hard verdict refuses; in    *)
(* skeptic mode a warning does too.                                          *)
Validate ==
  /\ pc = "validate"
  /\ verdicts' = V!Verdicts(p)
  /\ IF V!Rejected(verdicts') \/ (skeptic /\ V!Has(verdicts', "warn"))
     THEN Refuse ELSE Go("publish")
  /\ UNCHANGED <<wired, flag, p, skeptic, stages, llmCalls, answer, steadyFlag>>

(* Rendering the comment, then Publisher.Publish.                            *)
Publish ==
  /\ pc = "publish"
  /\ \/ Refuse
     \/ pc' = "done" /\ outcome' \in {"published", "publish failed"}
  /\ UNCHANGED <<wired, flag, p, skeptic, stages, verdicts, llmCalls, answer, steadyFlag>>

Work == \/ Decode \/ ReadSkeptic \/ ParseChart \/ OperatorGate \/ StrategyGate
        \/ Compose \/ GateStage \/ Validate \/ Publish

Next == Toggle \/ Work

Spec == Init /\ [][Next]_vars

-----------------------------------------------------------------------------
(* The pull request reached the publisher, whatever it answered.             *)
Sent == outcome \in {"published", "publish failed"}

(* No fix is sent for a workload whose owner chain reaches a custom resource *)
(* at any depth, known to the detector or not (operator gate).               *)
NoOperatorOwned ==
  Sent /\ wired.resolver => Reached(p.owners, Resolve) \subseteq BuiltInRefs

(* A fix for a classified environment keeps to that environment: nothing     *)
(* cuts replicas in production, in an unknown environment or on static       *)
(* nodes, staging loses at most two, and the stated confidence is enough.    *)
EnvironmentRespected ==
  Sent /\ p.env # "" =>
    /\ p.env \in {"prod", "unknown"} \/ p.class = "static" => Reduction <= 0
    /\ p.env = "staging" => Reduction <= 2
    /\ p.confidence # "" =>
         /\ p.env \in {"prod", "unknown"} => p.confidence = "high"
         /\ p.env = "staging" \/ p.class = "static" => p.confidence \in {"medium", "high"}

(* With the validators wired, no fix is sent that the cluster would refuse   *)
(* or that repeats an OOM kill: it keeps to the PDB, the HPA, the quota and  *)
(* the limit range, every signal the agent attached.                         *)
ClusterLimitsRespected ==
  Sent /\ wired.validator =>
    /\ p.replicas > 0 /\ p.pdb # Nil => p.replicas >= p.pdb
    /\ p.replicas > 0 /\ p.hpa # Nil => p.replicas \in p.hpa.min..p.hpa.max
    /\ p.mem > 0 /\ p.quota # Nil => p.quota.mem = 0 \/ p.quota.usedMem + p.mem <= p.quota.mem
    /\ p.mem > 0 /\ p.limits # Nil => p.mem >= p.limits.minMem
    /\ p.mem > 0 => ~p.oomRecent

(* A pull request went through all four stages and none of them failed; the  *)
(* skipped dry run is the only stage that may not have passed.               *)
GateCompleted ==
  Sent =>
    /\ Len(stages) = Len(StageNames)
    /\ \A i \in DOMAIN stages : stages[i] = "passed" \/ StageNames[i] = "dryrun"
    /\ stages[3] # "failed"

(* The hunks of the answer have one place to go.  Either the old lines of    *)
(* each are once in the text that the model was shown, and the line it names *)
(* is not among those that earlier hunks wrote; or that text is the original *)
(* and no hunk shifts the lines of the next.                                 *)
OnePlace ==
  LET d    == answer.diff
      text == Sanitize(p.chart)
  IN  /\ \A i \in DOMAIN d : OldBlock(d[i]) # <<>>
      /\ \/ \A i \in DOMAIN d :
              /\ Cardinality({k \in 0..Len(text) : tryAt(text, OldBlock(d[i]), k)}) = 1
              /\ Applied(p.chart.lines, d)[i - 1].cursor < d[i].start
         \/ /\ text = p.chart.lines
            /\ \A i \in 1..(Len(d) - 1) : Len(OldBlock(d[i])) = Len(NewBlock(d[i]))

(* A correct diff of the text that the model was shown, which has lost its   *)
(* comments and may have gained a line at the top, is either refused or      *)
(* judged by the gate as the edit it means of the original, provided that    *)
(* each hunk has one place to go.                                            *)
JudgedAsMeant ==
  answer.meant # Nil /\ stages # <<>> /\ stages[1] = "passed" /\ OnePlace =>
    applyUnifiedDiff(p.chart.lines, answer.diff).lines = answer.meant

(* What is merged keeps the names of the labels and at least half of every   *)
(* quantity, in every section.                                               *)
MergedIsSafe ==
  Sent /\ answer.meant # Nil /\ OnePlace =>
    /\ walkLabels(p.chart.lines) \subseteq walkLabels(answer.meant)
    /\ \A i \in DOMAIN p.chart.lines :
         LET l == p.chart.lines[i] IN
         l.kind = "res" /\ l.val > 0 =>
           \E j \in DOMAIN answer.meant :
             /\ answer.meant[j].kind = "res" /\ answer.meant[j].name = l.name
             /\ Section(answer.meant, j) = Section(p.chart.lines, i)
             /\ 2 * answer.meant[j].val >= l.val

(* What apply-fix promises of every pull request it sends, with whatever     *)
(* gates the worker is wired: no operator owns the workload, the cut keeps   *)
(* to the environment and to the cluster's limits, the gate was passed to    *)
(* its end and what is merged is no deeper a cut than it allows, though each *)
(* is looked at in a different step of the run.                              *)
OnlyVetted ==
  /\ NoOperatorOwned /\ EnvironmentRespected /\ ClusterLimitsRespected
  /\ GateCompleted /\ MergedIsSafe

(* What the walk up the owners must get right, for an owner index.  It says  *)
(* direct only if no owner that the controlling chain reaches, however far   *)
(* up, is a custom resource: Apply Fix must not fight an operator            *)
(* (detector.go, "we can't stop at the first built-in").  And the cut-off    *)
(* and the cycle guard cost nothing else: a chain that ends within the       *)
(* cut-off is decided, and rightly.                                          *)
DirectWithoutOperator(index) ==
  Classify(p.owners, index) = "direct" => Reached(p.owners, index) \subseteq BuiltInRefs
ShortChainDecided(index) ==
  LET chain == Reached(p.owners, index)
  IN  Cardinality(chain) <= MaxDepth /\ (\E r \in chain : index[r] = NoRef \/ r \notin BuiltInRefs)
        => Classify(p.owners, index) = IF chain \subseteq BuiltInRefs THEN "direct" ELSE "operator"

(* When a run comes to the operator gate, the walk decides so whatever the   *)
(* index answers.                                                            *)
WalkDecides ==
  pc = "owners" /\ wired.resolver /\ p.owners # <<>> =>
    \A index \in [Refs -> Refs \cup {NoRef}] :
      DirectWithoutOperator(index) /\ ShortChainDecided(index)

(* A tenant whose flag was up for the whole run gets the strict floor even   *)
(* when the flag could not be read: every stage passed and no validator      *)
(* warned.                                                                   *)
SkepticTenantStrict ==
  Sent /\ steadyFlag /\ wired.skeptic =>
    /\ \A i \in DOMAIN stages : stages[i] = "passed"
    /\ verdicts = {}

(* As the worker is wired today, without a dry-run client, the strict floor  *)
(* refuses every fix: a skeptic tenant gets no pull request whatever the     *)
(* payload, the model and the other stages say.                              *)
SkepticTenantBlocked ==
  steadyFlag /\ wired.skeptic /\ ~wired.client => ~Sent

(* Skeptic mode (apply_fix.go, "the strictest possible safety floor"): a     *)
(* tenant whose flag was up throughout gets the strict floor, and nothing at *)
(* all without a dry run, though the flag may be unreadable at dispatch and  *)
(* the gate and the validators apply it in different steps.                  *)
SkepticRespected == SkepticTenantStrict /\ SkepticTenantBlocked

(* No money is spent on a fix the cheap gates would refuse: the model is     *)
(* called only for directly owned workloads within their environment's cap.  *)
NoSpendOnRefused ==
  llmCalls > 0 =>
    /\ wired.resolver => Reached(p.owners, Resolve) \subseteq BuiltInRefs
    /\ p.env \in {"prod", "unknown"} => Reduction <= 0
===============================================================================
