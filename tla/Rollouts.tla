------------------------------ MODULE Rollouts ------------------------------
(***************************************************************************)
(* The rollouts command (view/rollouts.go): a verdict per workload, read   *)
(* from one object whose spec a user edits and whose status a controller   *)
(* writes back later, from pods that come and go on their own.             *)
(*                                                                         *)
(* The controllers and the kubelet are external.  They are modelled as far *)
(* as the verdict can tell: Deployments and Argo Rollouts create a new pod *)
(* before they remove an old one, StatefulSets and DaemonSets replace in   *)
(* place, and all of them report counts as of their last sync.             *)
(***************************************************************************)
EXTENDS Integers

CONSTANTS
  Kinds,        \* kinds of workload looked at
  MaxDesired,   \* bound: replicas, or nodes of a DaemonSet
  MaxEdits      \* bound: edits of the workload

AllKinds == {"Deployment", "StatefulSet", "DaemonSet", "Rollout"}

Surging == {"Deployment", "Rollout"}

(* A pod is of the spec's template or of an older one. *)
Templates == {"new", "old"}

VARIABLES
  kind,        \* the workload's kind
  desired,     \* spec.replicas; for a DaemonSet, the nodes it reaches
  paused,      \* spec.paused
  generation,  \* metadata.generation
  ready,       \* pods that are ready and available, by template
  unready,     \* pods that are not
  status,      \* what the controller last wrote, see Status
  edits,       \* edits so far (bound)
  shrunk,      \* the workload was ever scaled down (history)
  truth        \* at the last sync: [generation, finished] (history)

podVars == <<ready, unready>>
specVars == <<desired, paused, generation, edits, shrunk>>
vars == <<kind, specVars, podVars, status, truth>>

Ready == ready.new + ready.old
Unready == unready.new + unready.old
Pods == Ready + Unready

NoPods == [new |-> 0, old |-> 0]

(* The rollout of the current spec is over: its pods all run and are ready, *)
(* and no pod of another template is left.                                  *)
Finished == ready.new = desired /\ Pods = desired

Unobserved ==
  [observed |-> 0, desired |-> 0, ready |-> 0, updated |-> 0, available |-> 0,
   failed |-> FALSE, paused |-> FALSE]

(* A workload just created, or one that finished rolling out long ago. *)
Init ==
  /\ kind \in Kinds
  /\ desired \in 1..MaxDesired
  /\ paused = FALSE /\ generation = 1
  /\ unready = NoPods
  /\ edits = 0 /\ shrunk = FALSE
  /\ \/ /\ ready = NoPods
        /\ status = Unobserved
        /\ truth = [generation |-> 0, finished |-> FALSE]
     \/ /\ ready = [NoPods EXCEPT !.new = desired]
        /\ status = [Unobserved EXCEPT !.observed = 1, !.desired = desired,
                       !.ready = desired, !.updated = desired, !.available = desired]
        /\ truth = [generation |-> 1, finished |-> TRUE]

-----------------------------------------------------------------------------
(* External: the user. *)

Edited ==
  /\ edits < MaxEdits
  /\ edits' = edits + 1
  /\ UNCHANGED <<kind, status, truth>>

(* A template nobody runs, or an older one again: r and u pods are of it.   *)
EditTemplate ==
  /\ Edited
  /\ \E r \in 0..ready.old, u \in 0..unready.old :
       /\ ready' = [new |-> r, old |-> Ready - r]
       /\ unready' = [new |-> u, old |-> Unready - u]
  /\ generation' = generation + 1
  /\ UNCHANGED <<desired, paused, shrunk>>

(* A DaemonSet is scaled by its nodes, which leaves its spec alone. *)
Scale ==
  /\ Edited
  /\ \E n \in 0..MaxDesired \ {desired} :
       desired' = n /\ shrunk' = (shrunk \/ n < desired)
  /\ generation' = IF kind = "DaemonSet" THEN generation ELSE generation + 1
  /\ UNCHANGED <<podVars, paused>>

PauseResume ==
  /\ kind \in Surging
  /\ Edited
  /\ paused' = ~paused
  /\ generation' = generation + 1
  /\ UNCHANGED <<podVars, desired, shrunk>>

-----------------------------------------------------------------------------
(* External: the controller and the kubelet. *)

Controller(r, u) ==
  /\ ready' = r
  /\ unready' = u
  /\ UNCHANGED <<kind, specVars, status, truth>>

Create ==
  /\ ~paused
  /\ ready.new + unready.new < desired
  /\ Pods < desired + (IF kind \in Surging THEN 1 ELSE 0)
  /\ Controller(ready, [unready EXCEPT !.new = @ + 1])

(* A pod the controller may do without: one too many, or one of an older    *)
(* template whose successor is ready (surge) or is to take its place.       *)
Spare(t) ==
  \/ Pods > desired + (IF kind \in Surging THEN 1 ELSE 0)
  \/ kind \notin Surging /\ Pods > desired
  \/ t = "new" /\ ready.new + unready.new > desired
  \/ t = "old" /\ ~paused /\ kind \notin Surging /\ Unready = 0

RemoveReady(t) ==
  /\ ready[t] > 0
  /\ Spare(t) \/ (t = "old" /\ ~paused /\ kind \in Surging /\ Ready > desired)
  /\ Controller([ready EXCEPT ![t] = @ - 1], unready)

RemoveUnready(t) ==
  /\ unready[t] > 0
  /\ Spare(t) \/ (t = "old" /\ ~paused)
  /\ Controller(ready, [unready EXCEPT ![t] = @ - 1])

BecomeReady(t) ==
  /\ unready[t] > 0
  /\ Controller([ready EXCEPT ![t] = @ + 1], [unready EXCEPT ![t] = @ - 1])

Crash(t) ==
  /\ ready[t] > 0
  /\ Controller([ready EXCEPT ![t] = @ - 1], [unready EXCEPT ![t] = @ + 1])

(* The controller writes the status back: counts as of now, none or all of  *)
(* the ready pods past minReadySeconds, and for the kinds with a progress   *)
(* deadline whether an unfinished rollout is past it.                       *)
Sync ==
  /\ \E a \in {0, Ready}, f \in BOOLEAN :
       /\ f => kind \in Surging /\ ~Finished
       /\ status' = [observed |-> generation, desired |-> desired,
                      ready |-> Ready, updated |-> ready.new + unready.new,
                      available |-> a, failed |-> f, paused |-> paused]
  /\ truth' = [generation |-> generation, finished |-> Finished]
  /\ UNCHANGED <<kind, specVars, podVars>>

Next ==
  \/ EditTemplate \/ Scale \/ PauseResume
  \/ Create \/ Sync
  \/ \E t \in Templates : RemoveReady(t) \/ RemoveUnready(t) \/ BecomeReady(t) \/ Crash(t)

Spec == Init /\ [][Next]_vars

-----------------------------------------------------------------------------
(* What the command reads and says. *)

(* A slip for the mutants: the generation is not looked at. *)
ObservedAlways == TRUE

(* Argo's observedGeneration is not compared. *)
Observed == kind = "Rollout" \/ status.observed >= generation

(* deploymentRow, statefulSetRow, daemonSetRow, argoRolloutRow. *)
Row ==
  [desired   |-> IF kind = "DaemonSet" THEN status.desired ELSE desired,
   ready     |-> status.ready,
   updated   |-> status.updated,
   available |-> status.available,
   paused    |-> CASE kind = "Deployment" -> paused
                   [] kind = "Rollout" -> status.paused /\ ~status.failed
                   [] OTHER -> FALSE,
   degraded  |-> status.failed,
   observed  |-> Observed]

Rolling(r) == r.ready < r.desired \/ r.updated < r.desired

(* A slip for the mutants: the switch has no default. *)
VerdictPartial(r) ==
  CASE r.desired = 0 -> "SCALED-ZERO"
    [] r.desired > 0 /\ r.degraded -> "STALLED"
    [] r.desired > 0 /\ ~r.degraded /\ r.available = 0 -> "DOWN"
    [] r.desired > 0 /\ ~r.degraded /\ r.available > 0 ->
         IF ~r.observed THEN "NOT-OBSERVED"
         ELSE IF r.paused THEN "PAUSED"
         ELSE IF Rolling(r) THEN "PROGRESSING"
         ELSE ""

(* rolloutVerdict: the first rule that matches. *)
Verdict(r) ==
  IF r.desired = 0 THEN "SCALED-ZERO"
  ELSE IF r.degraded THEN "STALLED"
  ELSE IF r.available = 0 THEN "DOWN"
  ELSE IF ~r.observed THEN "NOT-OBSERVED"
  ELSE IF r.paused THEN "PAUSED"
  ELSE IF Rolling(r) THEN "PROGRESSING"
  ELSE "OK"

-----------------------------------------------------------------------------
(* Properties. *)

TypeOK ==
  /\ kind \in Kinds /\ desired \in 0..MaxDesired
  /\ generation \in 1..MaxEdits + 1
  /\ \A t \in Templates : ready[t] >= 0 /\ unready[t] >= 0
  /\ status.available <= status.ready /\ status.observed <= generation
  /\ Verdict(Row) \in {"SCALED-ZERO", "STALLED", "DOWN", "NOT-OBSERVED", "PAUSED",
                        "PROGRESSING", "OK"}

(* No false alarm: once the controller has reported a finished rollout of   *)
(* the current spec, the workload reads OK, until it is edited. And for the *)
(* kinds that replace in place, and were not scaled down, OK tells the      *)
(* truth: the controller saw the current spec rolled out to the last pod,   *)
(* no matter how edits, syncs and crashes interleave.                       *)
VerdictMeansFinished ==
  LET current == truth = [generation |-> generation, finished |-> TRUE] IN
    /\ current /\ ~paused /\ desired > 0 /\ status.desired = desired /\ status.available > 0
         => Verdict(Row) = "OK"
    /\ kind \notin Surging /\ ~shrunk /\ Verdict(Row) = "OK" => current

(* What Rollouts' comment says the command answers: whether everything is   *)
(* finished rolling out.                                                    *)
OKMeansFinished == Verdict(Row) = "OK" => truth.finished
=============================================================================
