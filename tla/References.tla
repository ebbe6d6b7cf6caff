----------------------------- MODULE References -----------------------------
(***************************************************************************)
(* unused-config (view/unusedconfig.go): ConfigMaps and Secrets that       *)
(* nothing references, found by reading eight kinds that hold references,  *)
(* each at its own instant, while workloads are edited and pods come and   *)
(* go.                                                                     *)
(*                                                                         *)
(* A reference is the field of the API that holds it and the name there:   *)
(* what a field means is the API's, which fields are gathered the code's.  *)
(* Containers are one, and so are the volumes of a pod.                    *)
(***************************************************************************)
EXTENDS Table

CONSTANTS
  NS,          \* namespaces
  SystemNS,    \* those with a provider's prefix, see isSystemNamespace
  PodSpecs,    \* kinds read for the pod spec they carry
  OtherKinds,  \* kinds read for the secrets they name: service accounts, ingresses
  Listing,     \* the objects that may exist, by namespace, kind and name
  Referrers,   \* what may reference them, see Referrer
  Starts,      \* referrers and objects to start from
  Invocations, \* command lines, see Invocation
  Size,        \* object -> bytes
  Text,        \* cell -> its place in byte order
  Errors,      \* errors a list can end in
  None,        \* nil
  MaxChanges   \* bound: changes to the cluster meanwhile

(* The code reads six kinds with a pod spec, service accounts and ingresses. *)
ObjectKinds == {"configmaps", "secrets"}
ReferrerKinds == PodSpecs \cup OtherKinds
Kinds == ReferrerKinds \cup ObjectKinds

Objects == Range(Listing)
Names == {o.name : o \in Objects}

(* platform: kube-root-ca.crt, service-account tokens, Helm releases and    *)
(* what a sidecar selects by label.                                         *)
Object == [kind : ObjectKinds, ns : NS, name : STRING, platform : BOOLEAN]

(* The fields of the API that name a ConfigMap or a Secret, the volumes     *)
(* among them that addVolume does not look at apart.                        *)
ConfigMapFields ==
  {"volume.configMap", "projected.configMap", "envFrom.configMapRef", "env.configMapKeyRef"}
SecretFields ==
  {"volume.secret", "projected.secret", "csi.nodePublishSecretRef", "envFrom.secretRef",
   "env.secretKeyRef", "imagePullSecrets"}
OtherVolumes == {"azureFile", "flexVolume", "iscsi", "rbd", "cephfs", "scaleIO", "storageos"}

FieldsOf(k) ==
  CASE k = "serviceaccounts" -> {"secrets", "imagePullSecrets"}
    [] k = "ingresses" -> {"tls"}
    [] OTHER -> ConfigMapFields \cup SecretFields \cup OtherVolumes

KindOf(field) == IF field \in ConfigMapFields THEN "configmaps" ELSE "secrets"

(* args are the ns/name pairs, or bare names, on its command lines. *)
Referrer ==
  [kind : ReferrerKinds, ns : NS, refs : SUBSET [field : STRING, name : Names],
   args : SUBSET [ns : NS \cup {None}, name : Names]]

(* No namespace in scope is all of them; a name is what it matches. *)
Invocation ==
  [scope : SUBSET NS, includeSystem : BOOLEAN, names : SUBSET SUBSET Names,
   sort : {None, "ns", "kind", "name"}]

ASSUME ReferencesAssumption ==
  /\ SystemNS \subseteq NS /\ ReferrerKinds \cap ObjectKinds = {}
  /\ OtherKinds \subseteq {"serviceaccounts", "ingresses"}
  /\ PodSpecs \cap {"serviceaccounts", "ingresses"} = {}
  /\ Listing \in Seq(Objects) /\ IsInjective(Listing)
  /\ \A o \in Objects : o \in Object
  /\ \A r \in Referrers : r \in Referrer
  /\ \A r \in Referrers : \A s \in r.refs : s.field \in FieldsOf(r.kind)
  /\ \A r \in Referrers : r.kind \in OtherKinds => r.args = {}
  /\ \A s \in Starts : s.referrers \subseteq Referrers /\ s.objects \subseteq Objects
  /\ Invocations \subseteq Invocation
  /\ Size \in [Objects -> Nat] /\ Text \in [NS \cup ObjectKinds \cup Names -> Nat]
  /\ None \notin Errors \cup NS \cup {"kind", "ns", "name", "platform"}
  /\ MaxChanges \in Nat

VARIABLES
  inv,        \* the command line
  referrers,  \* those that exist
  objects,    \* those that exist
  read,       \* the kinds whose list came back
  got,        \* the referrers read
  found,      \* the objects read
  answer,     \* [done, err, rows, hidden]: what the command printed
  changes,    \* how often the cluster changed (bound)
  pinned,     \* <<object, kind>> pairs: kind followably referenced it all along (history)
  left        \* objects there all along that nothing mentioned (history)

cluster == <<referrers, objects>>
history == <<changes, pinned, left>>
vars == <<inv, cluster, read, got, found, answer, history>>

(* External: the objects a referrer reads, through its fields and as the    *)
(* programs it runs take their command lines.                               *)
Holds(r, s, o) == s \in r.refs /\ r.ns = o.ns /\ s.name = o.name /\ KindOf(s.field) = o.kind
Cites(r, o) == \E a \in r.args : a.name = o.name /\ o.ns = IF a.ns = None THEN r.ns ELSE a.ns

PointsAt(r, o) == (\E s \in r.refs : Holds(r, s, o)) \/ Cites(r, o)

(* Those of them that the scan undertakes to follow: see ReferencesCount    *)
(* for the others.                                                          *)
Follows(r, o) ==
  \/ \E s \in r.refs : Holds(r, s, o) /\ s.field \notin OtherVolumes
  \/ Cites(r, o) /\ r.ns = o.ns

Pinning(o, k) == \E r \in referrers : r.kind = k /\ Follows(r, o)

(* The words nameRune splits its arguments into. *)
Tokens(r) == {a.name : a \in r.args} \cup {a.ns : a \in {a \in r.args : a.ns # None}}

Mentions(r, o) == PointsAt(r, o) \/ (r.ns = o.ns /\ o.name \in Tokens(r))
Mentioned(o) == \E r \in referrers : Mentions(r, o)

Init ==
  /\ inv \in Invocations
  /\ \E s \in Starts : referrers = s.referrers /\ objects = s.objects
  /\ read = {}
  /\ got = {} /\ found = {}
  /\ answer = [done |-> FALSE, err |-> None, rows |-> <<>>, hidden |-> 0]
  /\ changes = 0
  /\ pinned = {p \in Objects \X Kinds : Pinning(p[1], p[2])}
  /\ left = {o \in objects : ~Mentioned(o)}

-----------------------------------------------------------------------------
(* External: the cluster moves on. *)

ClusterStep ==
  /\ ~answer.done
  /\ changes < MaxChanges
  /\ changes' = changes + 1
  /\ pinned' = {p \in pinned : Pinning(p[1], p[2])'}
  /\ left' = {o \in left : o \in objects' /\ ~Mentioned(o)'}
  /\ UNCHANGED <<inv, read, got, found, answer>>

(* A referrer comes, goes, or is edited into another of its kind. *)
Create(r) == r \notin referrers /\ referrers' = referrers \cup {r} /\ UNCHANGED objects /\ ClusterStep
Delete(r) == r \in referrers /\ referrers' = referrers \ {r} /\ UNCHANGED objects /\ ClusterStep
Edit(r, s) ==
  /\ r \in referrers /\ s \notin referrers /\ r.kind = s.kind /\ r.ns = s.ns
  /\ referrers' = (referrers \ {r}) \cup {s}
  /\ UNCHANGED objects
  /\ ClusterStep

ObjectStep(o) ==
  /\ objects' = IF o \in objects THEN objects \ {o} ELSE objects \cup {o}
  /\ UNCHANGED referrers
  /\ ClusterStep

-----------------------------------------------------------------------------
(* The ten lists, in any order. *)

InScope(ns) == inv.scope = {} \/ ns \in inv.scope

Read(k) ==
  /\ ~answer.done
  /\ k \notin read
  /\ read' = read \cup {k}
  /\ got' = got \cup {r \in referrers : r.kind = k /\ InScope(r.ns)}
  /\ found' = found \cup {o \in objects : o.kind = k /\ InScope(o.ns)}
  /\ UNCHANGED <<inv, cluster, answer, history>>

(* A failed list: the other nine are waited for, and no table is printed.   *)
ReadFails(k) ==
  /\ ~answer.done
  /\ k \notin read
  /\ \E e \in Errors : answer' = [answer EXCEPT !.done = TRUE, !.err = e]
  /\ UNCHANGED <<inv, cluster, read, got, found, history>>

-----------------------------------------------------------------------------
(* The scan. *)

Under(r, fields) == {s.name : s \in {s \in r.refs : s.field \in fields}}

(* A slip for the mutants: the projected sources are forgotten. *)
AddVolumeDirect(r) ==
  ({"configmaps"} \X Under(r, {"volume.configMap"}))
  \cup ({"secrets"} \X Under(r, {"volume.secret", "csi.nodePublishSecretRef"}))

AddVolume(r) ==
  ({"configmaps"} \X Under(r, {"volume.configMap", "projected.configMap"}))
  \cup ({"secrets"} \X Under(r, {"volume.secret", "projected.secret", "csi.nodePublishSecretRef"}))

AddContainer(r) ==
  ({"configmaps"} \X Under(r, {"envFrom.configMapRef", "env.configMapKeyRef"}))
  \cup ({"secrets"} \X Under(r, {"envFrom.secretRef", "env.secretKeyRef"}))

AddPodSpec(r) ==
  AddVolume(r) \cup ({"secrets"} \X Under(r, {"imagePullSecrets"})) \cup AddContainer(r)

AddServiceAccount(r) == {"secrets"} \X Under(r, {"secrets", "imagePullSecrets"})

AddIngress(r) == {"secrets"} \X Under(r, {"tls"})

Added(r) ==
  CASE r.kind \in PodSpecs -> AddPodSpec(r)
    [] r.kind = "serviceaccounts" -> AddServiceAccount(r)
    [] r.kind = "ingresses" -> AddIngress(r)

(* refSet.seen and refSet.args. *)
Seen == UNION {{<<m[1], r.ns, m[2]>> : m \in Added(r)} : r \in got}
Args == UNION {{<<r.ns, t>> : t \in Tokens(r)} : r \in got}

(* A slip for the mutants: the key without its kind. *)
HasEither(o) == \E k \in {"configmaps", "secrets"} : <<k, o.ns, o.name>> \in Seen

(* refSet.has: an argument is looked up in the pod's own namespace. *)
Has(o) == <<o.kind, o.ns, o.name>> \in Seen \/ <<o.ns, o.name>> \in Args

Unused == {o \in found : ~o.platform /\ ~Has(o)}

(* Biggest first, ties by namespace, kind and name; then the names asked for. *)
Named ==
  LET rows == Kept(Listing, Unused) IN
    FilterRows(StableSort(rows, [i \in DOMAIN rows |-> -Size[rows[i]]]), {"name"}, inv.names)

(* hideSystem *)
Hidden == IF inv.scope = {} /\ ~inv.includeSystem THEN SystemNS ELSE {}

Printed ==
  [done |-> TRUE, err |-> None,
   rows |-> SortRows(HideRows(Named, "ns", Hidden), inv.sort, <<>>, <<>>, Text),
   hidden |-> HiddenCount(Named, "ns", Hidden)]

UnusedConfig ==
  /\ ~answer.done
  /\ read = Kinds
  /\ answer' = Printed
  /\ UNCHANGED <<inv, cluster, read, got, found, history>>

Done == answer.done /\ UNCHANGED vars

-----------------------------------------------------------------------------
Next ==
  \/ \E r \in Referrers : Create(r) \/ Delete(r) \/ \E s \in Referrers : Edit(r, s)
  \/ \E o \in Objects : ObjectStep(o)
  \/ \E k \in Kinds : Read(k) \/ ReadFails(k)
  \/ UnusedConfig \/ Done

Spec == Init /\ [][Next]_vars

-----------------------------------------------------------------------------
(* Properties. *)

TypeOK ==
  /\ inv \in Invocations
  /\ referrers \subseteq Referrers /\ objects \subseteq Objects
  /\ read \subseteq Kinds /\ got \subseteq Referrers /\ found \subseteq Objects
  /\ answer.done \in BOOLEAN /\ answer.err \in Errors \cup {None}
  /\ Range(answer.rows) \subseteq Objects /\ answer.hidden \in 0..Len(Listing)

Complete == answer.done /\ answer.err = None

(* No object in use is proposed for deletion: one that some kind referenced  *)
(* all along, through any field but those of OtherVolumes or on a command    *)
(* line of its own namespace, is never printed, whatever that kind's pods    *)
(* did meanwhile, wherever else it was referenced, and whichever list failed.*)
InUseNeverListed ==
  \A p \in pinned : p[1] \notin Range(answer.rows)

(* No leftover is passed over in silence: one that nothing mentioned all     *)
(* along, in scope and asked for, is printed or counted as hidden, and only  *)
(* the system namespaces of an unrestricted listing are hidden.              *)
Expected(o) == ~o.platform /\ InScope(o.ns) /\ (inv.names = {} \/ MatchesAny(inv.names, o.name))

LeftoversTold ==
  Complete =>
    /\ \A o \in left : Expected(o) =>
         o \in Range(answer.rows) \/ (inv.scope = {} /\ o.ns \in SystemNS)
    /\ answer.hidden >= Cardinality({o \in left : Expected(o)} \ Range(answer.rows))

(* What the comments on addPodSpec and nameRune say: every reference a pod   *)
(* spec can carry is collected, and the ns/name flag several ingress         *)
(* controllers take counts as a reference to the ConfigMap it points at.     *)
(* Judged with the cluster at rest and all of it in scope.                   *)
ReferencesCount ==
  Complete /\ changes = 0 /\ inv.scope = {} =>
    \A r \in referrers, o \in Range(answer.rows) : ~PointsAt(r, o)
=============================================================================
