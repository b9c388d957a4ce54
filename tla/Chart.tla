-------------------------------- MODULE Chart --------------------------------
(***************************************************************************)
(* pkg/parser: from a Helm values document to the workloads the detectors  *)
(* look at, as pure operators.                                             *)
(*                                                                         *)
(* A document has a kind ("map" when its top level is a mapping) and its   *)
(* mappings in the order walk visits them. Each is a block: the path of    *)
(* keys that leads to it and the tokens found in it, Nil where a key is    *)
(* not there. A key is a sequence of name segments, since a YAML key may   *)
(* itself contain the dot that joinPath puts between keys.                 *)
(*                                                                         *)
(* CPU is counted in millicores and memory in MiB: a document's memory     *)
(* quantities are whole numbers of MiB. Smaller and decimal suffixes, bare *)
(* bytes and fractions, which quantity.go also reads, do not occur.        *)
(***************************************************************************)
EXTENDS Integers, SequencesExt

CONSTANT Nil

(* What is not there is not a quantity.                                      *)
ASSUME NilAssumption == Nil \notin Nat

(* A token is an integer of millicores ("500m"), a decimal number of cores   *)
(* counted in tenths ("2.5"), or something else; what does not parse, or is  *)
(* negative, is dropped by readResourceList and leaves the field unset.      *)
ParseCPU(t) ==
  IF t = Nil \/ t.form \notin {"milli", "cores"} \/ t.n \notin Nat
  THEN Nil ELSE IF t.form = "milli" THEN t.n ELSE 100 * t.n

splitMemorySuffix == [Mi |-> 1, Gi |-> 1024, Ti |-> 1024 * 1024]

ParseMemory(t) ==
  IF t = Nil \/ t.form \notin DOMAIN splitMemorySuffix \/ t.n \notin Nat
  THEN Nil ELSE t.n * splitMemorySuffix[t.form]

Declared(tokens) == SelectSeq(tokens, LAMBDA t : t # Nil)

(* The tag of an image: "" when there is none, Nil without an image. In a    *)
(* single string the rightmost colon decides, be it a registry's port.       *)
readImage(t) ==
  IF t # Nil /\ t.form = "string" /\ t.port /\ t.tag = "" THEN "5000/app"
  ELSE IF t = Nil THEN Nil ELSE t.tag

(* The first of the two keys that is there decides; a token that is not all  *)
(* digits (here: negative) reads as zero, and so does a missing one.         *)
readReplicas(b) ==
  LET counts == Declared(<<b.replicas, b.replicaCount>>)
  IN  IF counts = <<>> \/ Head(counts) < 0 THEN 0 ELSE Head(counts)

(* The first mapping among autoscaling, hpa and horizontalPodAutoscaler      *)
(* decides, and counts as on unless its enabled key says no.                 *)
readHasHPA(b) ==
  LET blocks == Declared(b.autoscalers)
  IN  blocks # <<>> /\ Head(blocks) # "no"

(* Spellings outside the list (token "odd") are read as false.               *)
boolValue(t) == IF t = Nil THEN Nil ELSE t = "true"

(* securityContext, podSecurityContext and containerSecurityContext are      *)
(* applied in this order, so the last one that declares a field wins.        *)
applySecFields(b, field) ==
  LET values == Declared([i \in DOMAIN b.contexts |-> b.contexts[i][field]])
  IN  IF values = <<>> THEN Nil ELSE Last(values)

(* A capabilities mapping replaces both lists of an earlier one.             *)
Capabilities(b, list) ==
  LET caps == applySecFields(b, "capabilities")
  IN  IF caps = Nil THEN {} ELSE caps[list]

(* Host flags sit beside the security contexts; a hostPath volume is there   *)
(* or not.                                                                   *)
readSecurity(b) ==
  [nonRoot    |-> boolValue(applySecFields(b, "runAsNonRoot")),
   user       |-> applySecFields(b, "runAsUser"),
   privileged |-> boolValue(applySecFields(b, "privileged")),
   readOnly   |-> boolValue(applySecFields(b, "readOnlyRootFilesystem")),
   escalation |-> boolValue(applySecFields(b, "allowPrivilegeEscalation")),
   network    |-> boolValue(b.host.network),
   pid        |-> boolValue(b.host.pid),
   ipc        |-> boolValue(b.host.ipc),
   hostPath   |-> b.host.path,
   token      |-> boolValue(b.host.token),
   add        |-> Capabilities(b, "add"),
   drop       |-> Capabilities(b, "drop")]

(* joinPath over the keys that lead to a block.                              *)
joinPath(path) == FlattenSeq(path)

Workload(b) ==
  [name |-> joinPath(b.path),
   reqCPU |-> ParseCPU(b.requests.cpu), reqMem |-> ParseMemory(b.requests.memory),
   limCPU |-> ParseCPU(b.limits.cpu), limMem |-> ParseMemory(b.limits.memory),
   image |-> readImage(b.image), replicas |-> readReplicas(b), hasHPA |-> readHasHPA(b),
   sec |-> readSecurity(b)]

(* The places of the mappings below the top level with a resources mapping,  *)
(* with or without requests and limits in it.                                *)
walk(doc) == {i \in DOMAIN doc.blocks : doc.blocks[i].path # <<>> /\ doc.blocks[i].resources}

(* The workloads, by place. The sort by name keeps the order of equal names  *)
(* (sort.Slice is an insertion sort below a dozen elements), and no operator *)
(* here depends on the order of different names.                             *)
ParseValues(doc) == [i \in walk(doc) |-> Workload(doc.blocks[i])]

Parses(doc) == doc.kind = "map"
===============================================================================
