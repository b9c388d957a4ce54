------------------------------- MODULE Preflight -------------------------------
(***************************************************************************)
(* The checks an operator sees before installing the agent.  The probes    *)
(* run one after the other under one deadline: from the probe at which it  *)
(* passes on, every probe returns an error.  A world is what the cluster   *)
(* is like and which probe comes first too late.                           *)
(***************************************************************************)
EXTENDS Integers

Checks == <<"k8s", "prom", "rbac", "karpenter", "autoscaler", "unsupported", "namespaces">>

(* The probe of check i fails in world w, of itself or for lack of time.     *)
ProbeErr(w, i) == Checks[i] \in w.broken \/ i >= w.late

(* A version as the apiserver writes it: the number before the first dot,    *)
(* the one the second part starts with, and the digits in whatever else that *)
(* part holds, as their value and ten to their number.  1.27+abc123 has the  *)
(* minor 27, the value 123 and the shift 1000.                               *)
Missing == -1
IsVersion(v) ==
  /\ v.major \in Nat \cup {Missing} /\ v.minor \in Nat \cup {Missing}
  /\ v.shift \in Nat \ {0} /\ v.value \in Nat /\ v.value < v.shift

(* All the digits of the second part, read as one number; without a tag that *)
(* is the minor, which a lone plus sign does not change.                     *)
stripNonDigits(v) ==
  IF v.minor # Missing THEN v.minor * v.shift + v.value
  ELSE IF v.shift > 1 THEN v.value ELSE Missing

(* versionAtLeast(v, 1, 28); a version it cannot parse is too old.           *)
versionAtLeast(v) ==
  /\ v.major # Missing /\ stripNonDigits(v) # Missing
  /\ v.major > 1 \/ (v.major = 1 /\ stripNonDigits(v) >= 28)

k8sVersionCheck(w) == IF ~ProbeErr(w, 1) /\ versionAtLeast(w.version) THEN "pass" ELSE "fail"

(* Without a URL there is nothing to probe.                                  *)
prometheusCheck(w, url) ==
  IF ~url THEN "warn" ELSE IF ~ProbeErr(w, 2) /\ w.prom THEN "pass" ELSE "fail"

(* Mutant: only an answer of no is a failure.                                *)
rbacUnlessNo(w) == IF ~ProbeErr(w, 3) /\ ~w.rbac THEN "fail" ELSE "pass"

rbacCheck(w) == IF ~ProbeErr(w, 3) /\ w.rbac THEN "pass" ELSE "fail"

(* An error is taken for absence.                                            *)
karpenterCheck(w) == IF ~ProbeErr(w, 4) /\ w.karpenter THEN "pass" ELSE "warn"

autoscalerCheck(w) == IF ~ProbeErr(w, 5) /\ w.autoscaler THEN "pass" ELSE "warn"

(* An error is a warning, and does not block.                                *)
unsupportedProvisionerCheck(w) ==
  IF ProbeErr(w, 6) THEN "warn" ELSE IF w.unsupported THEN "fail" ELSE "pass"

namespaceCountCheck(w) == IF ProbeErr(w, 7) THEN "warn" ELSE "pass"

(* Runner.Run.                                                               *)
Run(w, url) ==
  << k8sVersionCheck(w), prometheusCheck(w, url), rbacCheck(w), karpenterCheck(w),
     autoscalerCheck(w), unsupportedProvisionerCheck(w), namespaceCountCheck(w) >>
=============================================================================
