-------------------------------- MODULE Rules --------------------------------
(***************************************************************************)
(* pkg/rules: the detectors, each an operator from a workload to the set   *)
(* of its findings (empty or one). A finding keeps the detector's id, its  *)
(* category, its severity and the monthly savings in cents; wording is     *)
(* left out. Ratios of integers are compared by cross multiplication,      *)
(* which agrees with the code's float64 division for integers below 2^52.  *)
(***************************************************************************)
EXTENDS Chart

severityRank(s) ==
  CASE s = "HIGH" -> 3 [] s = "MED" -> 2 [] s = "LOW" -> 1 [] OTHER -> 0

Finding(fires, id, category, severity, cents) ==
  IF fires
  THEN {[id |-> id, category |-> category, severity |-> severity, cents |-> cents]}
  ELSE {}

Cost(fires, id, severity) == Finding(fires, id, "cost", severity, 0)
Security(fires, id, severity) == Finding(fires, id, "security", severity, 0)

MonthlyHours == 730
CorePriceCents == 4
GiBPriceCents == 350

cpuCents(millicores) == (millicores * MonthlyHours * CorePriceCents) \div 1000
memCents(mib) == (mib * GiBPriceCents) \div 1024
halfMemCents(mib) == (mib * GiBPriceCents) \div 2048

-----------------------------------------------------------------------------
(* Cost detectors.                                                           *)

Overprovisioned(req, lim) == req # Nil /\ lim # Nil /\ lim # 0 /\ 2 * req > lim

(* Mutant: the whole request counts as savings.                              *)
cpuOverprovisionedAll(w) ==
  IF Overprovisioned(w.reqCPU, w.limCPU)
  THEN Finding(TRUE, "cpu-overprovisioned", "cost", "MED", cpuCents(w.reqCPU))
  ELSE {}

cpuOverprovisioned(w) ==
  IF Overprovisioned(w.reqCPU, w.limCPU)
  THEN Finding(TRUE, "cpu-overprovisioned", "cost", "MED", cpuCents(w.reqCPU \div 2))
  ELSE {}

memoryOverprovisioned(w) ==
  IF Overprovisioned(w.reqMem, w.limMem)
  THEN Finding(TRUE, "memory-overprovisioned", "cost", "MED", halfMemCents(w.reqMem))
  ELSE {}

(* Mutant: a limit three times the request counts as far above it.           *)
limitBurstThree == 3

limitBurstRatio == 4

FarAbove(req, lim) == req # Nil /\ lim # Nil /\ req # 0 /\ lim > limitBurstRatio * req

cpuLimitFarAboveRequest(w) ==
  Cost(FarAbove(w.reqCPU, w.limCPU), "cpu-limit-far-above-request", "MED")

memoryLimitFarAboveRequest(w) ==
  Cost(FarAbove(w.reqMem, w.limMem), "memory-limit-far-above-request", "MED")

oversizedCPULimit(w) ==
  Cost(w.limCPU # Nil /\ w.limCPU >= 4000, "oversized-cpu-limit", "MED")

oversizedMemoryLimit(w) ==
  Cost(w.limMem # Nil /\ w.limMem >= 16 * 1024, "oversized-memory-limit", "MED")

replicasTooHigh(w) == Cost(w.replicas > 5 /\ ~w.hasHPA, "replicas-too-high", "MED")

excessiveReplicaCount(w) == Cost(w.replicas > 20, "excessive-replica-count", "MED")

floatingTags == {"main", "master", "stable", "production", "prod", "staging", "dev",
                 "edge", "current", "head", "trunk"}

unboundedImageTag(w) ==
  Cost(w.image # Nil /\ w.image \in floatingTags, "unbounded-image-tag", "MED")

cpuWithoutMemoryRequest(w) ==
  Cost(w.reqCPU # Nil /\ w.reqMem = Nil, "cpu-without-memory-request", "LOW")

memoryWithoutCPURequest(w) ==
  Cost(w.reqMem # Nil /\ w.reqCPU = Nil, "memory-without-cpu-request", "LOW")

cpuRequestEqualsLimit(w) ==
  Cost(w.reqCPU # Nil /\ w.reqCPU = w.limCPU, "cpu-request-equals-limit", "LOW")

memoryRequestEqualsLimit(w) ==
  Cost(w.reqMem # Nil /\ w.reqMem = w.limMem, "memory-request-equals-limit", "LOW")

tinyCPURequest(w) ==
  Cost(w.reqCPU # Nil /\ w.reqCPU \in 1..9, "tiny-cpu-request", "LOW")

tinyMemoryRequest(w) ==
  Cost(w.reqMem # Nil /\ w.reqMem \in 1..31, "tiny-memory-request", "LOW")

(* A workload that does not say how many replicas it wants reads as zero,    *)
(* so it is idle here too. The savings are those of two replicas of 250m.    *)
idleWorkload(w) ==
  Finding(w.replicas = 0 /\ ~w.hasHPA, "idle-workload", "cost", "LOW", cpuCents(2 * 250))

-----------------------------------------------------------------------------
(* Security detectors. Nil: the field is not declared.                       *)

missingCPULimit(w) ==
  Security(w.reqCPU # Nil /\ w.limCPU = Nil, "missing-cpu-limit", "LOW")

missingMemoryLimit(w) ==
  Security(w.reqMem # Nil /\ w.limMem = Nil, "missing-memory-limit", "HIGH")

(* Mutant: every image is taken for unpinned, floating tags included.        *)
imagePinnedAny(w) == Security(w.image # Nil, "image-pinned-latest", "MED")

imagePinnedLatest(w) ==
  Security(w.image # Nil /\ w.image \in {"", "latest"}, "image-pinned-latest", "MED")

(* One severity when the field is set to the unsafe value, another when it   *)
(* is not set at all.                                                        *)
Posture(value, unsafe, id, severity, undeclared) ==
  Security(value = unsafe, id, severity) \cup Security(value = Nil, id, undeclared)

runAsRoot(w) == Posture(w.sec.nonRoot, FALSE, "run-as-root", "HIGH", "MED")

runsAsUIDZero(w) == Security(w.sec.user = 0, "runs-as-uid-zero", "HIGH")

privilegedContainer(w) == Security(w.sec.privileged = TRUE, "privileged-container", "HIGH")

hostNetwork(w) == Security(w.sec.network = TRUE, "host-network", "HIGH")

hostPID(w) == Security(w.sec.pid = TRUE, "host-pid", "HIGH")

hostIPC(w) == Security(w.sec.ipc = TRUE, "host-ipc", "HIGH")

readOnlyRootFSMissing(w) ==
  Posture(w.sec.readOnly, FALSE, "read-only-root-fs-missing", "MED", "LOW")

allowPrivilegeEscalation(w) ==
  Posture(w.sec.escalation, TRUE, "allow-privilege-escalation", "HIGH", "MED")

hostPathVolume(w) == Security(w.sec.hostPath, "host-path-volume", "HIGH")

dangerousCaps == {"SYS_ADMIN", "NET_ADMIN", "NET_RAW", "SYS_PTRACE", "SYS_MODULE",
                  "DAC_READ_SEARCH", "DAC_OVERRIDE", "SYS_BOOT", "SYS_TIME", "BPF", "PERFMON"}

(* A capability is written with or without the prefix CAP_.                  *)
normaliseCap(c) == c.name

dangerousCapabilityAdded(w) ==
  Security(\E c \in w.sec.add : normaliseCap(c) \in dangerousCaps,
           "dangerous-capability-added", "HIGH")

capabilitiesNotDroppedAll(w) ==
  Security(\A c \in w.sec.drop : normaliseCap(c) # "ALL",
           "capabilities-not-dropped-all", "MED")

serviceAccountTokenAutomount(w) ==
  Posture(w.sec.token, TRUE, "service-account-token-automount", "HIGH", "MED")

-----------------------------------------------------------------------------
All(w) ==
  UNION {cpuOverprovisioned(w), memoryOverprovisioned(w), cpuLimitFarAboveRequest(w),
         memoryLimitFarAboveRequest(w), oversizedCPULimit(w), oversizedMemoryLimit(w),
         replicasTooHigh(w), excessiveReplicaCount(w), unboundedImageTag(w),
         cpuWithoutMemoryRequest(w), memoryWithoutCPURequest(w), cpuRequestEqualsLimit(w),
         memoryRequestEqualsLimit(w), tinyCPURequest(w), tinyMemoryRequest(w),
         idleWorkload(w), missingCPULimit(w), missingMemoryLimit(w), imagePinnedLatest(w),
         runAsRoot(w), runsAsUIDZero(w), privilegedContainer(w), hostNetwork(w), hostPID(w),
         hostIPC(w), readOnlyRootFSMissing(w), allowPrivilegeEscalation(w),
         hostPathVolume(w), dangerousCapabilityAdded(w), capabilitiesNotDroppedAll(w),
         serviceAccountTokenAutomount(w)}

(* Every detector on every workload. A finding carries the position of its   *)
(* workload, so two workloads of one name keep their own; the order of the   *)
(* list is presentation and left out.                                        *)
Run(workloads) ==
  UNION {{[at |-> i, finding |-> f] : f \in All(workloads[i])} : i \in DOMAIN workloads}
===============================================================================
