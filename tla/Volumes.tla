------------------------------ MODULE Volumes -------------------------------
(***************************************************************************)
(* pvc-unused, then pv-orphan (view/pvcunused.go, view/pvorphan.go): the   *)
(* claims no pod mounts and the volumes no claim depends on, read while    *)
(* pods come and go, StatefulSets scale, and claims and volumes are bound, *)
(* released and reclaimed.                                                 *)
(*                                                                         *)
(* A name is the sequence of the words between its dashes.  Each list is   *)
(* one instant's read: what ListAtomic promises and ListFetch keeps.       *)
(***************************************************************************)
EXTENDS Integers, Sequences, FiniteSets, SequencesExt

CONSTANTS
  StatefulSets,  \* those that may exist, in listing order, see StatefulSet
  Claims,        \* the claims that may exist, see Claim
  Vols,          \* the volumes that may exist
  Policy,        \* volume -> its reclaim policy
  Number,        \* word -> what strconv.Atoi makes of it, if it does
  Gone,          \* a StatefulSet that does not exist
  None,          \* nil
  Starts,        \* clusters to start from, see Start
  MaxReplicas,   \* bound: spec.replicas
  MaxChanges     \* bound: changes to the cluster meanwhile

Sets == Range(StatefulSets)

(* start is spec.ordinals.start: the pods are start .. start + replicas - 1. *)
StatefulSet == [ns : STRING, name : Seq(STRING), templates : SUBSET Seq(STRING), start : Nat]
Claim == [ns : STRING, name : Seq(STRING)]

Kinds == {"claims", "pods", "sets"}

Counts == 0..MaxReplicas \cup {Gone}
PodStates == {"none", "running", "terminating"}
VolStates == {"none", "Available", "Bound", "Released", "Failed"}

Absent == [phase |-> "Absent", volume |-> None]
ClaimStates ==
  {Absent, [phase |-> "Pending", volume |-> None]} \cup
    [phase : {"Bound", "Lost"}, volume : Vols]

Start ==
  [replicas : [Sets -> Counts], claim : [Claims -> ClaimStates], pods : [Claims -> PodStates],
   vol : [Vols -> VolStates]]

ASSUME VolumesAssumption ==
  /\ \A s \in Sets : s.start \in Nat /\ s.name # <<>>
  /\ \A c \in Claims : c.name # <<>>
  /\ Policy \in [Vols -> {"Retain", "Delete"}]
  /\ \A w \in DOMAIN Number : Number[w] \in Nat
  /\ \A x \in Starts : x \in Start
  /\ Gone \notin Nat /\ None \notin Vols
  /\ MaxReplicas \in Nat /\ MaxChanges \in Nat

ASSUME NamesAssumption ==
  /\ StatefulSets \in Seq(Sets)
  /\ \A s \in Sets : s \in StatefulSet
  /\ \A c \in Claims : c \in Claim
  /\ DOMAIN Number \subseteq STRING

VARIABLES
  replicas,    \* StatefulSet -> spec.replicas, or Gone
  claim,       \* claim -> [phase, volume], phase "Absent" when there is none
  pods,        \* claim -> what the pods that mount it do
  vol,         \* volume -> status.phase, "none" when there is none
  changes,     \* how often the cluster changed (bound)
  stage,       \* the command running: "unused", then "orphan", then "done"
  read,        \* the kinds pvc-unused has listed
  claimsRead,  \* what it read of each kind
  podsRead,
  setsRead,
  rows,        \* what pvc-unused printed, None before and on failure
  disks,       \* what pv-orphan printed, None before and on failure
  held,        \* claims mounted all along pvc-unused (history)
  free,        \* claims that existed unmounted all along it (history)
  seen,        \* StatefulSet -> the replica counts it had during it (history)
  idle,        \* disks unmounted and not claimed anew all along (history)
  limbo        \* volumes whose claim was gone unnoticed when read (history)

cluster == <<replicas, claim, pods, vol>>
command == <<stage, read, claimsRead, podsRead, setsRead, rows, disks, limbo>>
history == <<held, free, seen, idle>>
vars == <<cluster, changes, command, history>>

Claimed(v) == \E c \in Claims : claim[c].volume = v
Held(c) == pods[c] # "none"
Free(c) == claim[c].phase # "Absent" /\ pods[c] = "none"
Idle(v) == vol[v] # "none" /\ \A c \in Claims : claim[c].volume = v => ~Held(c)

(* One claim per volume; a bound claim has its volume, a lost one had it.   *)
Consistent ==
  /\ \A c, d \in Claims : claim[c].volume = claim[d].volume => c = d \/ claim[c].volume = None
  /\ \A c \in Claims : claim[c].phase = "Bound" => vol[claim[c].volume] = "Bound"
  /\ \A c \in Claims : claim[c].phase = "Lost" => vol[claim[c].volume] = "none"

Init ==
  /\ \E x \in Starts :
       replicas = x.replicas /\ claim = x.claim /\ pods = x.pods /\ vol = x.vol
  /\ Consistent
  /\ changes = 0
  /\ stage = "unused"
  /\ read = {}
  /\ claimsRead = claim /\ podsRead = pods /\ setsRead = replicas
  /\ rows = None /\ disks = None
  /\ held = {c \in Claims : Held(c)}
  /\ free = {c \in Claims : Free(c)}
  /\ seen = [s \in Sets |-> {replicas[s]}]
  /\ idle = {v \in Vols : Idle(v)}
  /\ limbo = {}

-----------------------------------------------------------------------------
(* External: users, the StatefulSet and volume controllers, the kubelet.    *)

(* What each step of the cluster leaves in the histories. *)
ClusterStep ==
  /\ stage # "done"
  /\ changes < MaxChanges
  /\ changes' = changes + 1
  /\ IF stage = "unused"
       THEN /\ held' = {c \in held : Held(c)'}
            /\ free' = {c \in free : Free(c)'}
            /\ seen' = [s \in Sets |-> seen[s] \cup {replicas'[s]}]
       ELSE UNCHANGED <<held, free, seen>>
  /\ idle' = {v \in idle : Idle(v)' /\ (Claimed(v)' => Claimed(v))}
  /\ UNCHANGED command

CreateClaim(c) ==
  /\ claim[c] = Absent
  /\ claim' = [claim EXCEPT ![c].phase = "Pending"]
  /\ UNCHANGED <<replicas, pods, vol>>
  /\ ClusterStep

(* A volume provisioned for the claim, or one that was waiting for it. *)
Bind(c, v) ==
  /\ claim[c].phase = "Pending"
  /\ vol[v] \in {"none", "Available"} /\ ~Claimed(v)
  /\ claim' = [claim EXCEPT ![c] = [phase |-> "Bound", volume |-> v]]
  /\ vol' = [vol EXCEPT ![v] = "Bound"]
  /\ UNCHANGED <<replicas, pods>>
  /\ ClusterStep

(* A claim in use is kept by its finalizer. *)
DeleteClaim(c) ==
  /\ Free(c)
  /\ claim' = [claim EXCEPT ![c] = Absent]
  /\ UNCHANGED <<replicas, pods, vol>>
  /\ ClusterStep

CreateVolume(v) ==
  /\ vol[v] = "none" /\ ~Claimed(v)
  /\ vol' = [vol EXCEPT ![v] = "Available"]
  /\ UNCHANGED <<replicas, claim, pods>>
  /\ ClusterStep

(* The volume goes; a claim bound to it is lost. *)
DeleteVolume(v) ==
  /\ vol[v] # "none"
  /\ vol' = [vol EXCEPT ![v] = "none"]
  /\ claim' = [c \in Claims |-> IF claim[c].volume = v THEN [claim[c] EXCEPT !.phase = "Lost"]
                                                       ELSE claim[c]]
  /\ UNCHANGED <<replicas, pods>>
  /\ ClusterStep

(* The controller finds the claim of a bound volume gone. *)
Release(v) ==
  /\ vol[v] = "Bound" /\ ~Claimed(v)
  /\ vol' = [vol EXCEPT ![v] = "Released"]
  /\ UNCHANGED <<replicas, claim, pods>>
  /\ ClusterStep

(* It frees a volume to be deleted, or fails to. *)
Reclaim(v) ==
  /\ vol[v] = "Released" /\ Policy[v] = "Delete"
  /\ \E p \in {"none", "Failed"} : vol' = [vol EXCEPT ![v] = p]
  /\ UNCHANGED <<replicas, claim, pods>>
  /\ ClusterStep

(* A pod names its claim whether the claim exists or not. *)
PodStep(c) ==
  /\ \E p \in PodStates \ {pods[c]} : pods' = [pods EXCEPT ![c] = p]
  /\ UNCHANGED <<replicas, claim, vol>>
  /\ ClusterStep

Scale(s) ==
  /\ \E r \in Counts \ {replicas[s]} : replicas' = [replicas EXCEPT ![s] = r]
  /\ UNCHANGED <<claim, pods, vol>>
  /\ ClusterStep

-----------------------------------------------------------------------------
(* pvc-unused: three lists in any order, then the verdicts. *)

Read(k) ==
  /\ stage = "unused"
  /\ k \notin read
  /\ read' = read \cup {k}
  /\ claimsRead' = IF k = "claims" THEN claim ELSE claimsRead
  /\ podsRead' = IF k = "pods" THEN pods ELSE podsRead
  /\ setsRead' = IF k = "sets" THEN replicas ELSE setsRead
  /\ UNCHANGED <<cluster, changes, stage, rows, disks, limbo, history>>

(* The first failure of Concurrent ends the command without a table. *)
ReadFails(k) ==
  /\ stage = "unused"
  /\ k \notin read
  /\ stage' = "done"
  /\ UNCHANGED <<cluster, changes, read, claimsRead, podsRead, setsRead, rows, disks, limbo, history>>

(* A slip for the mutants: a pod being deleted does not count. *)
MountedRunning(c) == podsRead[c] = "running"

(* mountedClaims: a terminating pod still holds its volumes. *)
Mounted(c) == podsRead[c] # "none"

(* A slip for the mutants: the key without its namespace. *)
OwnersAnywhere(c) ==
  {i \in DOMAIN StatefulSets :
     LET s == StatefulSets[i] IN
       /\ setsRead[s] # Gone
       /\ \E t \in s.templates : t \o s.name = Front(c.name)}

(* statefulSetClaims looked up with everything before the last dash. *)
Owners(c) ==
  {i \in DOMAIN StatefulSets :
     LET s == StatefulSets[i] IN
       /\ setsRead[s] # Gone
       /\ s.ns = c.ns
       /\ \E t \in s.templates : t \o s.name = Front(c.name)}

(* Two sets with one prefix: the later of the list overwrites the earlier.  *)
Owner(c) == StatefulSets[CHOOSE i \in Owners(c) : \A j \in Owners(c) : j <= i]

Owned(c) == Owners(c) # {} /\ Last(c.name) \in DOMAIN Number

BeyondScale(c) == Number[Last(c.name)] >= setsRead[Owner(c)]

(* pvcVerdict. *)
Verdict(c) ==
  CASE claimsRead[c].phase = "Lost"    -> "LOST"
    [] claimsRead[c].phase = "Pending" -> "UNBOUND"
    [] OTHER -> IF ~Owned(c) THEN "ORPHAN"
                ELSE IF BeyondScale(c) THEN "SCALED-DOWN" ELSE "STS-RESERVED"

Row(c) == [claim |-> c, volume |-> claimsRead[c].volume, verdict |-> Verdict(c)]

PvcUnused ==
  /\ stage = "unused"
  /\ read = Kinds
  /\ rows' = {Row(c) : c \in {c \in Claims : claimsRead[c].phase # "Absent" /\ ~Mounted(c)}}
  /\ stage' = "orphan"
  /\ UNCHANGED <<cluster, changes, read, claimsRead, podsRead, setsRead, disks, limbo, history>>

-----------------------------------------------------------------------------
(* pv-orphan: one cluster-wide list. *)

(* A slip for the mutants: only what the policy keeps for good. *)
ReportedKept(v) == vol[v] = "Failed" \/ (vol[v] = "Released" /\ Policy[v] = "Retain")

(* pvVerdict: any other phase means a claim still depends on the volume. *)
Reported(v) == vol[v] \in {"Failed", "Released", "Available"}

PvVerdict(v) ==
  CASE vol[v] = "Failed"    -> "FAILED"
    [] vol[v] = "Released"  -> IF Policy[v] = "Retain" THEN "RETAINED" ELSE "RECLAIMING"
    [] vol[v] = "Available" -> "UNCLAIMED"

PvOrphan ==
  /\ stage = "orphan"
  /\ \/ UNCHANGED <<disks, limbo>>   \* the list failed
     \/ /\ disks' = {[volume |-> v, verdict |-> PvVerdict(v)] : v \in {v \in Vols : Reported(v)}}
        /\ limbo' = {v \in Vols : vol[v] = "Bound" /\ ~Claimed(v)}
  /\ stage' = "done"
  /\ UNCHANGED <<cluster, changes, read, claimsRead, podsRead, setsRead, rows, history>>

Done == stage = "done" /\ UNCHANGED vars

-----------------------------------------------------------------------------
ClusterNext ==
  \/ \E c \in Claims : CreateClaim(c) \/ DeleteClaim(c) \/ PodStep(c)
  \/ \E c \in Claims, v \in Vols : Bind(c, v)
  \/ \E v \in Vols : CreateVolume(v) \/ DeleteVolume(v) \/ Release(v) \/ Reclaim(v)
  \/ \E s \in Sets : Scale(s)

Next ==
  \/ ClusterNext
  \/ \E k \in Kinds : Read(k) \/ ReadFails(k)
  \/ PvcUnused \/ PvOrphan \/ Done

Spec == Init /\ [][Next]_vars

-----------------------------------------------------------------------------
(* Properties. *)

TypeOK ==
  /\ {replicas, setsRead} \subseteq [Sets -> Counts]
  /\ {claim, claimsRead} \subseteq [Claims -> ClaimStates]
  /\ {pods, podsRead} \subseteq [Claims -> PodStates]
  /\ vol \in [Vols -> VolStates]
  /\ stage \in {"unused", "orphan", "done"} /\ read \subseteq Kinds
  /\ rows # None => rows \subseteq
       [claim : Claims, volume : Vols \cup {None},
        verdict : {"LOST", "UNBOUND", "ORPHAN", "SCALED-DOWN", "STS-RESERVED"}]
  /\ disks # None => disks \subseteq
       [volume : Vols, verdict : {"FAILED", "RETAINED", "RECLAIMING", "UNCLAIMED"}]

(* pvc-unused tells use from disuse although it reads claims and pods at    *)
(* different instants: a claim some pod held all along, a terminating one    *)
(* included, is never listed, and one that lay unmounted all along always is.*)
UseTold ==
  rows # None =>
    /\ \A r \in rows : r.claim \notin held
    /\ \A c \in free : \E r \in rows : r.claim = c

(* The claims the StatefulSet controller makes for pods of these ordinals.  *)
Slots(s, ordinals) ==
  {c \in Claims :
     c.ns = s.ns /\ \E t \in s.templates, w \in DOMAIN Number :
                     Number[w] \in ordinals /\ c.name = t \o s.name \o <<w>>}

Reserved(s, r) == Slots(s, s.start..s.start + r - 1)
AllSlots(s) == Slots(s, Nat)

(* Stripping the last word of a claim's name finds the StatefulSet that      *)
(* would make the claim, whatever dashes the names hold and whatever was     *)
(* scaled or deleted between the reads: no claim is called an orphan whose   *)
(* set existed all along, and a slot is called reserved or left behind only  *)
(* if it was at some moment of the command.                                 *)
SlotTold ==
  rows # None => \A r \in rows :
    /\ r.verdict = "ORPHAN" =>
         \A s \in Sets : Gone \in seen[s] \/ r.claim \notin AllSlots(s)
    /\ r.verdict = "STS-RESERVED" =>
         \E s \in Sets : \E n \in seen[s] \ {Gone} : r.claim \in Reserved(s, n)
    /\ r.verdict = "SCALED-DOWN" =>
         \E s \in Sets : \E n \in seen[s] \ {Gone} : r.claim \in AllSlots(s) \ Reserved(s, n)

(* What pvcVerdict's comments say of the two verdicts: a claim left behind   *)
(* by a scale-down is reused only if the set grows back, a reserved one      *)
(* belongs to a pod expected back.  Judged with the cluster at rest.         *)
SlotVerdictsMean ==
  rows # None /\ changes = 0 => \A r \in rows :
    LET expected == \E s \in Sets : replicas[s] # Gone /\ r.claim \in Reserved(s, replicas[s]) IN
      /\ r.verdict = "SCALED-DOWN" => ~expected
      /\ r.verdict = "STS-RESERVED" => expected

(* Reading both closes the picture (PvOrphan's comment): a disk no pod used, *)
(* and no new claim took, while pvc-unused and then pv-orphan ran is in one  *)
(* of the two tables, even if its claim was deleted in between.  Only one    *)
(* whose claim's end the volume controller has not noticed yet is in none.   *)
PictureCloses ==
  disks # None => \A v \in idle \ limbo :
    (\E d \in disks : d.volume = v) \/ (\E r \in rows : r.volume = v)
=============================================================================
