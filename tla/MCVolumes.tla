----------------------------- MODULE MCVolumes ------------------------------
(* StatefulSets db and db-1: data-db-1 is slot 1 of the first, data-db-1-0  *)
(* would be slot 0 of the second, which lives in another namespace.         *)
EXTENDS Volumes

Data == {<<"data">>}
STS(ns, name, start) == [ns |-> ns, name |-> name, templates |-> Data, start |-> start]
PVC(ns, name) == [ns |-> ns, name |-> name]

MCSets == <<STS("a", <<"db">>, 0), STS("b", <<"db", "1">>, 0)>>
MCClaims == {PVC("a", <<"data", "db", "1">>), PVC("a", <<"data", "db", "1", "0">>)}
MCVols == {"v1", "v2"}
MCPolicy == [v \in MCVols |-> IF v = "v1" THEN "Retain" ELSE "Delete"]
MCNumber == [w \in {"0", "1"} |-> IF w = "0" THEN 0 ELSE 1]

InUse(v) == [phase |-> "Bound", volume |-> v]
Slot == PVC("a", <<"data", "db", "1">>)

(* The first claim is bound and mounted or not; the other does not exist    *)
(* yet, waits, or is bound; a volume no claim has is in any state.          *)
MCStarts ==
  {x \in Start :
     /\ x.replicas[MCSets[1]] \in {2, Gone} /\ x.replicas[MCSets[2]] = 1
     /\ x.claim[Slot] = InUse("v1")
     /\ \A c \in Claims : c # Slot => x.pods[c] = "none" /\ x.claim[c] \in ClaimStates \ {InUse("v1")}}

(* A set whose pods are numbered from 1. *)
MCSetsFrom1 == <<STS("a", <<"db">>, 1)>>
MCStartsFrom1 == {x \in Start : \A c \in Claims : x.pods[c] = "none"}
=============================================================================
