---------------------------- MODULE ClusterReaders ----------------------------
(***************************************************************************)
(* What the agent reads of its cluster (agent/cluster).  The informers     *)
(* keep one cache per kind; a reader lists a cache and never asks the      *)
(* apiserver.  An object is a model value with a kind, a controlling owner *)
(* and, for an autoscaler, the object it scales; the objects that a cache  *)
(* holds are a set, because Indexer.List has no order.                     *)
(***************************************************************************)
EXTENDS FiniteSets, FiniteSetsExt

CONSTANTS Objects,     \* the API objects that may exist
          Kind,        \* Kind[o], the kind of o
          Name,        \* Name[o], its name, which objects of two kinds may share
          Controller,  \* Controller[o], its controlling owner reference, or None
          Target,      \* Target[o], the scaleTargetRef of an autoscaler, or None
          EventLimit,  \* how many events a snapshot carries, 100
          None

WorkloadKinds == {"Deployment", "StatefulSet", "DaemonSet"}

ASSUME ReadersAssumption ==
  /\ IsFiniteSet(Objects)
  /\ Controller \in [Objects -> Objects \cup {None}]
  /\ Target \in [Objects -> Objects \cup {None}]
  /\ None \notin Objects
  /\ EventLimit \in Nat \ {0}

OfKind(c, k) == {o \in c : Kind[o] = k}

(* Three listings, one per kind.  The result is not sorted.                  *)
ListWorkloads(c) == {o \in c : Kind[o] \in WorkloadKinds}

(* Mutant: every ReplicaSet is filed under itself.                           *)
BareReplicaSets(c) == [r \in OfKind(c, "ReplicaSet") |-> r]

(* The first half of PodOwners: the Deployment that controls each cached     *)
(* ReplicaSet.                                                               *)
rsByName(c) ==
  [r \in {r \in OfKind(c, "ReplicaSet") :
            Controller[r] # None /\ Kind[Controller[r]] = "Deployment"} |-> Controller[r]]

(* The second half, for the pods cached by then.  A pod whose ReplicaSet is  *)
(* not in rs is filed under the ReplicaSet, as if that had no Deployment.    *)
PodOwners(rs, c) ==
  LET owned == {p \in OfKind(c, "Pod") :
                  /\ Controller[p] # None
                  /\ Kind[Controller[p]] \in {"StatefulSet", "DaemonSet", "ReplicaSet"}}
  IN  [p \in owned |-> IF Controller[p] \in DOMAIN rs THEN rs[Controller[p]] ELSE Controller[p]]

(* The events that DrainEvents may return: aged are those seen last before   *)
(* the cutoff.  It stops at the limit, in the order the cache lists them.    *)
DrainEvents(c, aged) ==
  LET recent == OfKind(c, "Event") \ aged
      n      == IF Cardinality(recent) < EventLimit THEN Cardinality(recent) ELSE EventLimit
  IN  kSubset(n, recent)

(* ListHPAs ships the name of the target and not its kind.                   *)
ListHPAs(c) == {Name[Target[h]] : h \in OfKind(c, "HPA")}

(* ListPolicySummary for the one namespace of the model.                     *)
ListPolicySummary(c) ==
  [HasPDB      |-> OfKind(c, "PDB") # {},
   HasQuota    |-> OfKind(c, "ResourceQuota") # {},
   HasLimitRng |-> OfKind(c, "LimitRange") # {}]

(* ListKarpenter lists the apiserver itself, and drops the error: answered   *)
(* is FALSE when that call failed, or when the CRD was absent at boot.       *)
ListKarpenter(answered, live) == IF answered THEN OfKind(live, "NodePool") ELSE {}
=============================================================================
