------------------------------- MODULE MCObserve -------------------------------
(***************************************************************************)
(* A cluster with one Deployment of one ReplicaSet and two pods, and a     *)
(* StatefulSet of the same name with a pod; the Deployment's autoscaler    *)
(* and an event.                                                           *)
(***************************************************************************)
EXTENDS Observe, TLC

CONSTANTS dep, rst, p1, p2, sts, p3, hpa, e1

MCObjects == {dep, rst, p1, p2, sts, p3, hpa, e1}
MCKind == dep :> "Deployment" @@ rst :> "ReplicaSet" @@ p1 :> "Pod" @@ p2 :> "Pod" @@
          sts :> "StatefulSet" @@ p3 :> "Pod" @@ hpa :> "HPA" @@ e1 :> "Event"
MCName == [o \in MCObjects |-> IF o \in {dep, sts} THEN "api" ELSE "other"]
MCController == [o \in MCObjects |-> CASE o = rst -> dep [] o \in {p1, p2} -> rst [] o = p3 -> sts
                                       [] OTHER -> None]
MCTarget == [o \in MCObjects |-> IF o = hpa THEN dep ELSE None]
MCMutable == {rst, p1}
MCVal == p1 :> 3 @@ p2 :> 2 @@ p3 :> 1
MCInits == {{dep, rst, p2, sts, p3, hpa, e1}}

Good == [cluster |-> TRUE, resync |-> TRUE, kube |-> TRUE, synced |-> TRUE, interval |-> "ok",
         ingest |-> TRUE, secret |-> TRUE, tenant |-> TRUE, egress |-> TRUE, cutoff |-> TRUE,
         prom |-> TRUE, mode |-> "sa_token", file |-> TRUE, material |-> TRUE, url |-> TRUE,
         ttl |-> TRUE]

(* One thing is wrong, or left out, at a time.                               *)
MCConfigs ==
  {Good} \cup {[Good EXCEPT ![f] = FALSE] : f \in DOMAIN Good \ {"interval", "mode", "material"}}
  \cup {[Good EXCEPT !.mode = m, !.material = b] : m \in {"bearer", "basic", "mtls", "other"}, b \in BOOLEAN}
  \cup {[Good EXCEPT !.interval = i] : i \in {"bad", "zero"}}

(* One reply for each way an attempt may end that the client tells apart.    *)
MCReplySet ==
  {[form |-> "down"], [form |-> "junk"]} \cup [form : {"http"}, code : Codes]
  \cup {[form |-> "vector", result |-> {p1, p2, p3}, bad |-> b] : b \in {{}, {p2}}}
=============================================================================
