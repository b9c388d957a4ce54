-------------------------------- MODULE MCCli --------------------------------
(* Values documents that vary one group of tokens at a time around a plain   *)
(* workload, and the invocations of every command on them.                   *)
EXTENDS Cli

NoFields ==
  [runAsNonRoot |-> Nil, runAsUser |-> Nil, privileged |-> Nil, readOnlyRootFilesystem |-> Nil,
   allowPrivilegeEscalation |-> Nil, capabilities |-> Nil]

Cap(prefix, name) == [prefix |-> prefix, name |-> name]

Milli(n) == [form |-> "milli", n |-> n]
Cores(n) == [form |-> "cores", n |-> n]
Mi(n) == [form |-> "Mi", n |-> n]
Gi(n) == [form |-> "Gi", n |-> n]
Ti(n) == [form |-> "Ti", n |-> n]
Junk == [form |-> "junk", n |-> 0]

Plain ==
  [path |-> <<<<"api">>>>, resources |-> TRUE,
   requests |-> [cpu |-> Milli(500), memory |-> Mi(256)],
   limits |-> [cpu |-> Cores(15), memory |-> Gi(1)],
   image |-> [form |-> "map", port |-> FALSE, tag |-> "1.4.2"],
   replicas |-> 2, replicaCount |-> Nil, autoscalers |-> <<Nil, Nil, Nil>>,
   host |-> [network |-> Nil, pid |-> Nil, ipc |-> Nil, path |-> FALSE, token |-> "false"],
   contexts |-> <<[NoFields EXCEPT !.runAsNonRoot = "true", !.readOnlyRootFilesystem = "true",
                                   !.allowPrivilegeEscalation = "false",
                                   !.capabilities = [add |-> {}, drop |-> {Cap(FALSE, "ALL")}]],
                  NoFields, NoFields>>]

(* Quantities at and around the thresholds, undeclared ones, and ones that   *)
(* do not parse.                                                             *)
CPUs == {Nil, Junk, Cores(10), Cores(40)} \cup {Milli(n) : n \in {-5, 0, 1, 9, 10, 18, 501}}
Memories == {Nil, Junk, Mi(0), Mi(30), Mi(32), Mi(256), Mi(480), Gi(2), Gi(16), Ti(1)}

CPUBlocks ==
  {[Plain EXCEPT !.requests.cpu = r, !.limits.cpu = l] : r \in CPUs, l \in CPUs}

MemoryBlocks ==
  {[Plain EXCEPT !.requests.memory = r, !.limits.memory = l, !.requests.cpu = c] :
     r \in Memories, l \in Memories, c \in {Nil, Milli(700)}}

ReplicaBlocks ==
  {[Plain EXCEPT !.replicas = r, !.replicaCount = c, !.autoscalers = a] :
     r \in {Nil, -1, 0, 5, 6, 21}, c \in {Nil, 6},
     a \in {<<Nil, Nil, Nil>>, <<"yes", "no", Nil>>, <<Nil, "no", "yes">>, <<Nil, Nil, "odd">>}}

ImageBlocks ==
  {[Plain EXCEPT !.image = t] :
     t \in {Nil} \cup [form : {"string", "map"}, port : BOOLEAN,
                        tag : {"", "latest", "main", "1.4.2"}]}

Bools == {Nil, "true", "false", "odd"}

HostBlocks ==
  {[Plain EXCEPT !.host = [network |-> n, pid |-> p, ipc |-> i, path |-> v, token |-> t]] :
     n \in {Nil, "true"}, p \in {Nil, "true"}, i \in {"true", "false"}, v \in BOOLEAN, t \in Bools}

Contexts ==
  {[NoFields EXCEPT !.runAsNonRoot = r, !.runAsUser = u, !.privileged = r, !.capabilities = c] :
     r \in {Nil, "true", "false"}, u \in {Nil, 0, 1000},
     c \in {Nil, [add |-> {Cap(TRUE, "NET_ADMIN")}, drop |-> {}],
            [add |-> {Cap(FALSE, "CHOWN")}, drop |-> {Cap(FALSE, "ALL")}]}}

ContextBlocks ==
  {[Plain EXCEPT !.contexts = <<c, NoFields, d>>] :
     c \in Contexts, d \in {x \in Contexts : x.runAsUser # 1000 /\ x.runAsNonRoot # "true"}}
  \cup {[Plain EXCEPT !.contexts = <<[NoFields EXCEPT !.readOnlyRootFilesystem = r,
                                                      !.allowPrivilegeEscalation = e],
                                     NoFields, NoFields>>] : r \in Bools, e \in Bools}

Values(blocks) == [kind |-> "map", blocks |-> blocks]

(* A top-level resources mapping, a mapping without one, two workloads of    *)
(* which the second varies, and one name reached along two paths.            *)
Top == [Plain EXCEPT !.path = <<>>]
Bare == [Plain EXCEPT !.path = <<<<"web">>>>, !.resources = FALSE]
Second(c) == [Plain EXCEPT !.path = <<<<"web">>, <<"worker">>>>, !.requests.cpu = c,
                           !.limits.memory = Nil]
Dotted(c) == [Plain EXCEPT !.path = <<<<"web", "worker">>>>, !.requests.cpu = c]

PairDocs ==
  {Values(<<Top>>), Values(<<Bare>>), Values(<<>>)}
  \cup {Values(<<Plain, Bare, Second(c)>>) : c \in {Nil, Milli(333), Milli(1200)}}
  \cup {Values(<<Second(Milli(333)), Dotted(c)>>) : c \in {Milli(333), Milli(1200)}}
  \cup {Values(<<[Plain EXCEPT !.requests = [cpu |-> c, memory |-> m]]>>) :
          c \in {Nil, Milli(1), Milli(999)}, m \in {Nil, Mi(2), Gi(3)}}

Docs ==
  PairDocs \cup {Values(<<b>>) : b \in CPUBlocks \cup MemoryBlocks \cup ReplicaBlocks
                                      \cup ImageBlocks \cup HostBlocks \cup ContextBlocks}

BadDocs == {[kind |-> k, blocks |-> <<>>] : k \in {"missing", "malformed", "empty", "list"}}

Yaml(severity, detectors, failOn) ==
  [kind |-> "yaml", severity |-> severity, detectors |-> detectors, failOn |-> failOn]

Configs ==
  {Nil, [kind |-> "missing"], [kind |-> "malformed"], Yaml("med", {}, "high"),
   Yaml("medium", {}, "medium"), Yaml("", {"cpu-overprovisioned"}, "low"),
   Yaml("high", {}, ""), Yaml("", {}, "critical")}

(* No two of these findings have the same severity.                          *)
MixedDoc == Values(<<[Plain EXCEPT !.limits.memory = Nil, !.requests.cpu = Milli(900),
                                   !.replicas = 0]>>)
LowDoc == Values(<<[Plain EXCEPT !.replicas = 0]>>)
MedDoc == Values(<<[Plain EXCEPT !.replicas = 6]>>)
CleanDoc == Values(<<Plain>>)

Base ==
  [cmd |-> "analyze", chart |-> CleanDoc, other |-> CleanDoc, source |-> "charts/api",
   severity |-> "", detectors |-> {}, failOn |-> "high", html |-> FALSE, roast |-> FALSE,
   share |-> FALSE, flagConfig |-> Nil, envConfig |-> Nil, cwdConfig |-> Nil]

MCInvocations ==
  {[Base EXCEPT !.cmd = c, !.chart = d] :
     c \in {"analyze", "score", "audit"}, d \in Docs \cup BadDocs}
  \cup {[Base EXCEPT !.cmd = c, !.chart = d, !.other = e] :
          c \in {"diff", "compare"}, d \in PairDocs \cup BadDocs, e \in PairDocs \cup BadDocs}
  \cup {[Base EXCEPT !.chart = d, !.severity = s, !.failOn = f, !.detectors = t] :
          d \in {MixedDoc, LowDoc, MedDoc, CleanDoc}, s \in Words, f \in Words,
          t \in {{}, {"idle-workload", "missing-memory-limit"}}}
  \cup {[Base EXCEPT !.chart = d, !.failOn = f,
                      !.flagConfig = x, !.envConfig = y, !.cwdConfig = z] :
          d \in {MixedDoc, MedDoc}, f \in {"", "low"}, x \in Configs, y \in Configs,
          z \in Configs \ {[kind |-> "missing"]}}
  \cup {[Base EXCEPT !.cmd = c, !.chart = MixedDoc, !.html = h, !.roast = r, !.share = s] :
          c \in {"analyze", "demo", "watch"}, h \in BOOLEAN, r \in BOOLEAN, s \in BOOLEAN}
===============================================================================
