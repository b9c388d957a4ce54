------------------------------ MODULE MCApplyFix ------------------------------
(* Payloads that vary one group of fields at a time around a plain one: the  *)
(* owner chain, the environment and its limits, the cluster's signals.       *)
EXTENDS ApplyFix

CONSTANTS dep, cron, job, kafka

MCRefs == {dep, cron, job, kafka}
MCBuiltIn == {dep, cron, job}

(* dep is nobody's; cron belongs to job and job to a custom resource, which  *)
(* is one step too far when the walk ends at two.                            *)
MCResolve == [r \in MCRefs |-> CASE r = cron -> job [] r = job -> kafka [] OTHER -> NoRef]

(* Charts: one workload; two workloads with the same lines; a long value.    *)
Line(kind, name, val) == [kind |-> kind, name |-> name, val |-> val, note |-> FALSE]
Chart(lines, suspicious) == [lines |-> lines, suspicious |-> suspicious]
Junk == Line("junk", "", 0)
Half == Line("res", "cpu", 2)
Cpu == Line("res", "cpu", 4)
App == Line("label", "app", 0)
Tag == Line("other", "tag", 0)
Small == <<Line("head", "web", 0), App, Cpu, Line("other", "image", 0)>>
Twin == <<Line("head", "web", 0), Cpu, App, Line("head", "api", 0), Cpu, App>>
Long == <<Line("shape", "kind", 1), Line("blank", "", 0), Cpu, Line("other", "image", 1)>>

(* As they are, with a comment on one line, or with an injection marker.     *)
Noted(lines) == {[lines EXCEPT ![i].note = TRUE] : i \in DOMAIN lines}
BareCharts == {Chart(l, m) : l \in {Small, Twin, Long}, m \in BOOLEAN}
Charts == BareCharts \cup {Chart(l, FALSE) : l \in Noted(Small) \cup Noted(Twin)}

(* An edit of line at of a text: set it to a line, cut it, or add a line     *)
(* after it.                                                                 *)
Edits(text, lines) ==
  [at : DOMAIN text, do : {"set", "add"}, line : lines]
    \cup [at : DOMAIN text, do : {"cut"}, line : {Junk}]
Swap(l, e) ==
  CASE e.do = "set" -> <<e.line>> [] e.do = "cut" -> <<>> [] e.do = "add" -> <<l, e.line>>

(* The hunk of an edit, with k lines of context on either side.              *)
Op(o, l) == [op |-> o, line |-> l]
HunkOf(text, e, k) ==
  LET from == IF e.at > k THEN e.at - k ELSE 1
      to   == IF e.at + k <= Len(text) THEN e.at + k ELSE Len(text)
      ops(j) == IF j # e.at THEN <<Op("k", text[j])>>
                ELSE CASE e.do = "set" -> <<Op("r", text[j]), Op("a", e.line)>>
                       [] e.do = "cut" -> <<Op("r", text[j])>>
                       [] e.do = "add" -> <<Op("k", text[j]), Op("a", e.line)>>
  IN  [header |-> TRUE, start |-> from, ops |-> FlattenSeq([n \in 1..(to - from + 1) |-> ops(from + n - 1)])]

(* The original with the edits es, numbered as in the sanitised text.        *)
Meant(c, es) ==
  LET off == IF c.suspicious THEN 1 ELSE 0
      new(i) == IF \E e \in es : e.at - off = i
                THEN Swap(c.lines[i], CHOOSE e \in es : e.at - off = i) ELSE <<c.lines[i]>>
  IN  FlattenSeq([i \in DOMAIN c.lines |-> new(i)])

Inside(c, e) == e.at - (IF c.suspicious THEN 1 ELSE 0) \in DOMAIN c.lines
NewLines == {Half, Line("res", "cpu", 1), App, Line("shape", "kind", 0)}

(* One edit with or without context; in charts without comments two edits    *)
(* far enough apart, the first of any kind; and answers that are no diff of  *)
(* that text.                                                                *)
OneEdit(c) ==
  LET text == Sanitize(c) IN
  {[diff |-> <<HunkOf(text, e, k)>>, meant |-> Meant(c, {e})] :
     e \in {x \in Edits(text, NewLines) : Inside(c, x)}, k \in {0, 1}}
TwoEdits(c) ==
  LET text == Sanitize(c)
      es   == {x \in Edits(text, {Half, Tag}) : Inside(c, x)}
      last == {x \in es : x.do = "set" /\ x.line = Half}
  IN  UNION {{[diff |-> <<HunkOf(text, e, k), HunkOf(text, f, k)>>, meant |-> Meant(c, {e, f})] :
                e \in {x \in es : x.at + 2 * k < f.at}} : f \in last, k \in {0, 1}}
NoDiff ==
  {[diff |-> d, meant |-> Nil] :
     d \in {<<>>, <<[header |-> FALSE, start |-> 1, ops |-> <<>>]>>,
           <<[header |-> TRUE, start |-> 9, ops |-> <<Op("a", App)>>]>>}}

Usual == {[diff |-> <<HunkOf(Small, [at |-> 3, do |-> "set", line |-> Half], 1)>>,
           meant |-> [Small EXCEPT ![3] = Half]]} \cup NoDiff

Plain ==
  [chart |-> Chart(Small, FALSE), owners |-> <<>>, env |-> "", class |-> "", confidence |-> "high",
   cpu |-> 0, mem |-> 0, replicas |-> 0, pdb |-> Nil, quota |-> Nil, limits |-> Nil,
   hpa |-> Nil, oomRecent |-> FALSE, dependents |-> 0]

HPA(cur) == [min |-> 2, max |-> 5, current |-> cur]
Quota == [cpu |-> 4, mem |-> 4, usedCPU |-> 1, usedMem |-> 3]
Limits == [minCPU |-> 1, maxCPU |-> 2, minMem |-> 2, maxMem |-> 3]

(* Every owner list of at most two entries.                                  *)
Owners == UNION {[1..n -> [ref : MCRefs, controller : BOOLEAN]] : n \in 0..2}

OwnerPayloads ==
  {[Plain EXCEPT !.owners = o] : o \in Owners}
  \cup {[Plain EXCEPT !.chart = Chart(Append(Small, Junk), FALSE)]}

EnvPayloads ==
  {[Plain EXCEPT !.env = e, !.class = c, !.confidence = f, !.replicas = n, !.hpa = h] :
     e \in Environments \cup {""}, c \in {"", "autoscaler", "static"},
     f \in {"", "low", "medium", "high"}, n \in 0..4, h \in {Nil, HPA(5)}}

SignalPayloads ==
  {[Plain EXCEPT !.replicas = n, !.pdb = b, !.hpa = h, !.mem = m, !.quota = q,
                 !.limits = l, !.oomRecent = o, !.dependents = d] :
     n \in 0..3, b \in {Nil, 0, 2}, h \in {Nil, HPA(3)}, m \in 0..4, q \in {Nil, Quota},
     l \in {Nil, Limits}, o \in BOOLEAN, d \in {0, 4}}

ChartPayloads == {[Plain EXCEPT !.chart = c] : c \in Charts}

MCPayloads == OwnerPayloads \cup EnvPayloads \cup SignalPayloads \cup ChartPayloads

(* The payloads that vary something else all have the small chart.           *)
MCAnswers ==
  [c \in {q.chart : q \in MCPayloads} |->
     IF c = Plain.chart THEN Usual
     ELSE IF c \notin Charts THEN NoDiff
     ELSE OneEdit(c) \cup NoDiff \cup (IF c \in BareCharts THEN TwoEdits(c) ELSE {})]

(* The worker as register.go wires it today, and one with everything wired.  *)
Today == [skeptic |-> TRUE, settings |-> TRUE, validator |-> TRUE, resolver |-> FALSE,
          client |-> FALSE, strict |-> FALSE, required |-> {}]
MCWirings == {Today, [Today EXCEPT !.resolver = TRUE, !.client = TRUE, !.required = {"image"}]}

===============================================================================
