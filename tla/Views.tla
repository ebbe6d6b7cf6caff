------------------------------- MODULE Views --------------------------------
(***************************************************************************)
(* One process runs one view over one cluster: which, is chosen at the     *)
(* start, and the state is the view's own. "arguments" is no view but any  *)
(* command line, completed and parsed.                                     *)
(***************************************************************************)
EXTENDS Integers, Sequences, FiniteSets

CONSTANTS
  Unread, Failed, Forbidden, None,   \* see the views
  Kinds, MaxDesired, MaxEdits,       \* of Rollouts
  (* A record per view: the sets its cluster is drawn from and its bounds. *)
  Netpol, Ingress, SvcBackends, Pdb, Hpa, Terminating, PvcResize, Certificate, Autoscaler,
  Pending, Placement, CommandLine

VARIABLES
  view,                    \* the command
  cluster, lists, past,    \* of every view but rollouts
  kind, desired, paused, generation, ready, unready, status, edits, shrunk, truth

viewVars == <<cluster, lists, past>>
rolloutVars ==
  <<kind, desired, paused, generation, ready, unready, status, edits, shrunk, truth>>
vars == <<view, viewVars, rolloutVars>>

-----------------------------------------------------------------------------
(* The views of the registry, each over the constants of its own. *)

NP == INSTANCE NetworkPolicies WITH
  PodSet <- Netpol.pods, PolicySet <- Netpol.policies, Scopes <- Netpol.scopes,
  Starts <- Netpol.starts, MaxChanges <- Netpol.changes

IG == INSTANCE Ingresses WITH
  IngressSet <- Ingress.ingresses, ServiceSet <- Ingress.services, SecretSet <- Ingress.secrets,
  HostNames <- Ingress.hosts, Starts <- Ingress.starts, MaxChanges <- Ingress.changes

BE == INSTANCE Backends WITH
  Service <- SvcBackends.service, Kinds <- SvcBackends.kinds, SliceOf <- SvcBackends.sliceOf,
  Endpoints <- SvcBackends.endpoints, MaxChanges <- SvcBackends.changes

PD == INSTANCE Disruptions WITH MaxReplicas <- Pdb.replicas, MaxChanges <- Pdb.changes

HP == INSTANCE Autoscaling WITH
  Metrics <- Hpa.metrics, Specs <- Hpa.specs, Values <- Hpa.values, Unknown <- None,
  MaxReplicas <- Hpa.replicas, MaxChanges <- Hpa.changes

TM == INSTANCE Terminations WITH
  Graces <- Terminating.graces, StuckAfter <- Terminating.stuckAfter,
  MaxTime <- Terminating.time, MaxChanges <- Terminating.changes

RO == INSTANCE Rollouts

RE == INSTANCE Resizes WITH
  NS <- PvcResize.namespaces, Sizes <- PvcResize.sizes, Starts <- PvcResize.starts,
  PodSet <- PvcResize.pods, Scopes <- PvcResize.scopes,
  MaxNamespaceFanout <- PvcResize.fanout, MaxChanges <- PvcResize.changes

CE == INSTANCE Certificates WITH
  Certs <- Certificate.certs, Secrets <- Certificate.secrets, Chains <- Certificate.chains,
  Args <- Certificate.args, Starts <- Certificate.starts, Expiring <- Certificate.expiring,
  RenewDue <- Certificate.renewDue, MaxTime <- Certificate.time,
  MaxChanges <- Certificate.changes

NG == INSTANCE NodeGroups WITH
  Names <- Autoscaler.names, Reports <- Autoscaler.reports, MaxChanges <- Autoscaler.changes

SC == INSTANCE Schedulings WITH
  Nodes <- Pending.nodes, Conditions <- Pending.conditions, Pins <- Pending.pins,
  MaxChanges <- Pending.changes

PL == INSTANCE Placements WITH
  PodSet <- Placement.pods, Zone <- Placement.zone, Ceiling <- Placement.ceiling,
  Starts <- Placement.starts, MaxChanges <- Placement.changes

AR == INSTANCE Arguments WITH
  line <- cluster, offered <- lists, run <- past,
  Words <- CommandLine.words, Lines <- CommandLine.lines, Commands <- CommandLine.commands,
  Toggled <- CommandLine.toggled, Flag <- CommandLine.flag, Global <- CommandLine.global,
  Optional <- CommandLine.optional, Tokens <- CommandLine.tokens,
  OptionalTokens <- CommandLine.optionalTokens, BadPatterns <- CommandLine.badPatterns,
  Durations <- CommandLine.durations, LowIntervals <- CommandLine.lowIntervals,
  ColorModes <- CommandLine.colorModes, Clusters <- CommandLine.clusters, MaxWords <- CommandLine.maxWords

-----------------------------------------------------------------------------
(* What the apiserver and the other programs see to, of the constants.      *)

(* netpol: pods and policies have the fields they are read by, policyTypes  *)
(* is never left empty, and the peers of a rule are of the kinds of Peers.  *)
ASSUME NetpolWellFormed ==
  /\ Netpol.starts \subseteq [pods : SUBSET Netpol.pods, policies : SUBSET Netpol.policies]
  /\ \A p \in Netpol.pods : DOMAIN p = NP!PodFields
  /\ \A q \in Netpol.policies :
       /\ DOMAIN q = NP!PolicyFields
       /\ q.types # {} /\ \A d \in NP!Directions : q.rules[d] \subseteq NP!Rule

(* spread and max-pods: a ReplicaSet is named after its Deployment, with a  *)
(* hash, and other controllers after themselves; a node has one zone; none  *)
(* starts above its ceiling. Left out are the workloads that trimHash takes *)
(* for one: bare ReplicaSets with a prefix in common, and an Argo Rollout   *)
(* and a Deployment of one name.                                            *)
ASSUME PlacementWellFormed ==
  /\ None \notin PL!Nodes
  /\ \A n \in PL!Nodes : Placement.zone[n] # None /\ Placement.ceiling[n] \in Nat
  /\ \A p \in Placement.pods :
       /\ p.of # None <=> p.kind \in {"ReplicaSet", "StatefulSet", "ReplicationController"}
       /\ p.of # None => PL!WorkloadKey(p) # None
       /\ p.kind = "ReplicaSet" => Len(p.owner) > 1
  /\ \A p, q \in Placement.pods :
       p.of # None /\ q.of # None =>
         (p.of = q.of <=> /\ p.kind = q.kind
                          /\ IF p.kind = "ReplicaSet" THEN PL!Front(p.owner) = PL!Front(q.owner)
                             ELSE p.owner = q.owner)
  /\ \A s \in Placement.starts :
       /\ IsFiniteSet(DOMAIN s.pods)
       /\ s.pods \in [DOMAIN s.pods -> [node : PL!Nodes \cup {None}, finished : BOOLEAN]]
       /\ DOMAIN s.pods \subseteq Placement.pods
       /\ s.nodes = [n \in DOMAIN s.nodes |-> s.nodes[n]] /\ DOMAIN s.nodes \subseteq PL!Nodes
       /\ \A n \in DOMAIN s.nodes : s.nodes[n] \in {None, Placement.zone[n]}
       /\ \A n \in PL!Nodes : Cardinality(PL!Live(s, n)) <= Placement.ceiling[n]

(* ingress: a host is a name or a wildcard, of which there are always other *)
(* names, and no name has a wildcard in it; a secret is its namespace and   *)
(* its name, and a service has one.                                         *)
ASSUME IngressWellFormed ==
  /\ Ingress.starts \subseteq
       [ingresses : SUBSET Ingress.ingresses, services : SUBSET Ingress.services,
        secrets : SUBSET Ingress.secrets]
  /\ \A s \in Ingress.secrets : s = [ns |-> s.ns, name |-> s.name]
  /\ \A s \in Ingress.services : s.name # ""
  /\ \A n \in Ingress.hosts : n \in Seq(STRING) /\ n # <<>> /\ n[1] # "*"
  /\ \A i \in Ingress.ingresses : DOMAIN i = IG!IngressFields
  /\ \A i \in Ingress.ingresses : \A r \in IG!IngressRules(i) :
       r.backend.kind = "empty" => r.backend.name = ""
  /\ \A i \in Ingress.ingresses : \A p \in IG!Patterns(i) :
       p \in Ingress.hosts
       \/ /\ p \in Seq(STRING) /\ Len(p) > 1 /\ p[1] = "*"
          /\ \E m, n \in Ingress.hosts : m # n /\ IG!CertCovers(p, m) /\ IG!CertCovers(p, n)

(* rollouts: a model has finitely many replicas and edits. *)
ASSUME RolloutsWellFormed == MaxDesired \in Nat /\ MaxEdits \in Nat

(* terminating: times are numbers. *)
ASSUME TerminatingWellFormed ==
  /\ Terminating.graces \subseteq Nat /\ None \notin Terminating.graces
  /\ Terminating.stuckAfter \in Nat /\ Terminating.time \in Nat

(* svc-backends: slices come in a list, and the service has one, empty or   *)
(* not.                                                                     *)
ASSUME SvcBackendsWellFormed ==
  /\ SvcBackends.kinds \subseteq BE!AllKinds
  /\ IsFiniteSet(SvcBackends.endpoints) /\ DOMAIN SvcBackends.sliceOf \subseteq Nat
  /\ \E i \in DOMAIN SvcBackends.sliceOf : SvcBackends.sliceOf[i] = SvcBackends.service

(* pvc-resize: sizes are numbers, there is a claim in each namespace,       *)
(* and no status and no verdict is nil.                                     *)
ASSUME PvcResizeWellFormed ==
  /\ None \notin {"ControllerResizeInProgress", "ControllerResizeInfeasible",
                  "NodeResizePending", "NodeResizeInProgress", "NodeResizeInfeasible"}
  /\ None \notin {"INFEASIBLE", "FAILED", "SC-NO-EXPAND", "FS-PENDING", "RESIZING", "PENDING"}
  /\ PvcResize.sizes \subseteq Nat
  /\ PvcResize.starts \subseteq
       [claims : [PvcResize.namespaces -> RE!Claim], class : {"allowed", "refused", "gone"}]

(* certs: times are numbers, and a Certificate names a secret that may be.  *)
ASSUME CertificateWellFormed ==
  /\ Certificate.renewDue \in Int /\ Certificate.time \in Nat /\ Certificate.chains \subseteq Seq(Int)
  /\ \A c \in Certificate.certs : c.secret # "" => CE!Owned(c) \in Certificate.secrets
  /\ \A s \in Certificate.starts :
       /\ DOMAIN s.certs \subseteq Certificate.certs
       /\ s.secrets = [x \in Certificate.secrets |-> s.secrets[x]]
       /\ \A x \in Certificate.secrets : s.secrets[x] # None => s.secrets[x].days \in Seq(Int)

(* pending: there are nodes, finite in number, and each lacks finitely many *)
(* things, none called affinity; a list of clauses is not nil.              *)
ASSUME PendingWellFormed ==
  /\ IsFiniteSet(Pending.nodes) /\ Pending.nodes # {} /\ None \notin Pending.nodes
  /\ \A c \in Pending.conditions : IsFiniteSet(c.lacks) /\ "affinity" \notin c.lacks
  /\ LET given == {<<"affinity", None>>} \cup {<<"taint", c.taint>> : c \in Pending.conditions}
                  \cup (UNION {{<<l, None>> : l \in c.lacks} : c \in Pending.conditions})
     IN  None \notin Seq([reason : given, count : Nat])
  /\ None \notin {"PodInitializing", "ImagePullBackOff", "CrashLoopBackOff", "ContainerCreating",
                  "ErrImagePull"}

(* autoscaler: groups come in a list, and neither a report nor a status nor *)
(* what is written of one is nil.                                           *)
ASSUME AutoscalerWellFormed ==
  /\ Autoscaler.names \in Seq(STRING) /\ None \notin Autoscaler.reports
  /\ Autoscaler.changes \in Nat
  /\ \A u \in Autoscaler.reports : u = [l \in NG!Sections |-> u[l]]
  /\ \A n \in 0..Len(Autoscaler.names) : \A u \in [1..n -> Autoscaler.reports] :
       LET groups == [i \in 1..n |-> [name |-> Autoscaler.names[i], has |-> u[i]]] IN
         \A w \in Autoscaler.reports \cup {None} :
           /\ None # [wide |-> w, groups |-> groups]
           /\ \A v \in {"text", "yaml"} : None # NG!Document(v, [wide |-> w, groups |-> groups])

(* hpa: spec.maxReplicas is a number, and a spec has a metric, that of the  *)
(* CPU unless it names one (the apiserver's defaulting).                    *)
ASSUME HpaWellFormed == Hpa.replicas \in Nat /\ \A s \in Hpa.specs : DOMAIN s # {}

(* command lines: "--" is no flag, and a flag is a switch or has a value.   *)
ASSUME CommandLineWellFormed ==
  /\ CommandLine.lines \subseteq Seq(STRING) /\ None \notin {0, 1}
  /\ "--" \notin DOMAIN CommandLine.flag
  /\ \A f \in DOMAIN CommandLine.global : CommandLine.global[f] \in {"bool", "string"}
  /\ \A f \in DOMAIN CommandLine.optional : CommandLine.optional[f] \in {"bool", "string"}

(* completion: words that start with a dash are flags, of which the words   *)
(* it offers for a command are registered for that command, and other words *)
(* name commands, orders, colours and namespaces.                           *)
ASSUME CompletionWellFormed ==
  LET flags == DOMAIN CommandLine.flag
      plain == STRING \ flags
  IN
  /\ None \notin STRING
  /\ flags \cup {"--dir"} \cup CommandLine.words \cup CommandLine.lowIntervals \subseteq STRING
  /\ DOMAIN CommandLine.commands \cup CommandLine.colorModes \cup {"completion", "install"} \subseteq plain
  /\ \A c \in DOMAIN CommandLine.commands : CommandLine.commands[c].sort \subseteq plain
  /\ \A x \in DOMAIN CommandLine.clusters : CommandLine.clusters[x] \subseteq plain
  /\ \A w \in flags : AR!Lookup(w) = None
  /\ {"-n", "--namespace", "--sort", "--color"} \subseteq flags
  /\ CommandLine.flag["--sort"].name = "sort" /\ CommandLine.flag["--color"].name = "color"
  /\ {CommandLine.flag["-n"].name, CommandLine.flag["--namespace"].name} \subseteq {"n", "namespace"}
  /\ \A w \in {"-n", "--namespace", "--sort", "--color"} : ~AR!Inline(w)
  /\ \A f \in {"n", "namespace", "sort", "color", "interval", "context"} : AR!Kind(f) = "string"
  /\ {"watch", "w"} \cap DOMAIN CommandLine.global = {}
  /\ \A w \in CommandLine.tokens :
       /\ w \in flags /\ ~AR!Inline(w)
       /\ w \in {"--version", "--help", "-h"} \/ CommandLine.flag[w].name \in DOMAIN CommandLine.global
  /\ \A f \in DOMAIN CommandLine.optionalTokens : \A w \in CommandLine.optionalTokens[f] :
       /\ w \in flags /\ ~AR!Inline(w)
       /\ \A c \in DOMAIN CommandLine.commands :
            AR!On(c, f) => CommandLine.flag[w].name \in AR!Registered(c)

-----------------------------------------------------------------------------
Init ==
  \/ view = "rollouts" /\ RO!Init /\ cluster = None /\ lists = None /\ past = None
  \/ /\ kind = None /\ desired = None /\ paused = None /\ generation = None
     /\ ready = None /\ unready = None /\ status = None /\ edits = None /\ shrunk = None
     /\ truth = None
     /\ \/ view = "netpol" /\ NP!Init
        \/ view = "ingress" /\ IG!Init
        \/ view = "svc-backends" /\ BE!Init
        \/ view = "pdb" /\ PD!Init
        \/ view = "hpa" /\ HP!Init
        \/ view = "terminating" /\ TM!Init
        \/ view = "pvc-resize" /\ RE!Init
        \/ view = "certs" /\ CE!Init
        \/ view = "autoscaler" /\ NG!Init
        \/ view = "pending" /\ SC!Init
        \/ view = "placements" /\ PL!Init
        \/ view = "arguments" /\ AR!Init

Next ==
  \/ view = "netpol" /\ NP!Next /\ UNCHANGED <<view, rolloutVars>>
  \/ view = "ingress" /\ IG!Next /\ UNCHANGED <<view, rolloutVars>>
  \/ view = "svc-backends" /\ BE!Next /\ UNCHANGED <<view, rolloutVars>>
  \/ view = "pdb" /\ PD!Next /\ UNCHANGED <<view, rolloutVars>>
  \/ view = "hpa" /\ HP!Next /\ UNCHANGED <<view, rolloutVars>>
  \/ view = "terminating" /\ TM!Next /\ UNCHANGED <<view, rolloutVars>>
  \/ view = "pvc-resize" /\ RE!Next /\ UNCHANGED <<view, rolloutVars>>
  \/ view = "certs" /\ CE!Next /\ UNCHANGED <<view, rolloutVars>>
  \/ view = "autoscaler" /\ NG!Next /\ UNCHANGED <<view, rolloutVars>>
  \/ view = "pending" /\ SC!Next /\ UNCHANGED <<view, rolloutVars>>
  \/ view = "placements" /\ PL!Next /\ UNCHANGED <<view, rolloutVars>>
  \/ view = "arguments" /\ AR!Next /\ UNCHANGED <<view, rolloutVars>>
  \/ view = "rollouts" /\ RO!Next /\ UNCHANGED <<view, viewVars>>

Spec == Init /\ [][Next]_vars

-----------------------------------------------------------------------------
(* Properties, stated and explained in the views' own modules. *)

(* Every view keeps its types, and its rules always give a verdict. *)
TypeOK ==
  CASE view = "netpol" -> NP!TypeOK
    [] view = "ingress" -> IG!TypeOK
    [] view = "svc-backends" -> BE!TypeOK
    [] view = "pdb" -> PD!TypeOK
    [] view = "hpa" -> HP!TypeOK
    [] view = "terminating" -> TM!TypeOK
    [] view = "pvc-resize" -> RE!TypeOK
    [] view = "certs" -> CE!TypeOK
    [] view = "autoscaler" -> NG!TypeOK
    [] view = "pending" -> SC!TypeOK
    [] view = "placements" -> PL!TypeOK
    [] view = "arguments" -> AR!TypeOK
    [] view = "rollouts" -> RO!TypeOK

(* netpol hides no pod that admitted everything all along. *)
GapTold == view = "netpol" => NP!GapTold

(* netpol's DENY and DEFAULT-DENY were true at some moment. *)
DenyTold == view = "netpol" => NP!DenyTold

(* ingress never makes up a missing service, port, secret or TLS block. *)
FaultTrue == view = "ingress" => IG!FaultTrue

(* ingress says OK only of a rule that was wired and secured. *)
OKTrue == view = "ingress" => IG!OKTrue

(* svc-backends counts pods, not slice entries, at two instants. *)
BackendsCounted == view = "svc-backends" => BE!BackendsCounted

(* pdb says of a drain what the eviction API does. *)
DrainForetold == view = "pdb" => PD!DrainForetold

(* hpa shows which metrics the autoscaler could not read. *)
BlindnessShown == view = "hpa" => HP!BlindnessShown

(* terminating never grades a deletion early, and at most one grace late.   *)
DeletionsGraded == view = "terminating" => TM!DeletionsGraded

(* rollouts raises no false alarm, and OK is true of kinds that replace in  *)
(* place.                                                                   *)
VerdictMeansFinished == view = "rollouts" => RO!VerdictMeansFinished

(* pvc-resize takes no pending expansion for one that landed, and accuses   *)
(* no storage class without cause.                                          *)
ExpansionTold == view = "pvc-resize" => RE!ExpansionTold

(* certs never says OK of what cannot renew, nor MISSING of a TLS secret    *)
(* that is there.                                                           *)
RenewalTold == view = "certs" => CE!RenewalTold

(* autoscaler reads both formats of the status alike. *)
FormatsAgree == view = "autoscaler" => NG!FormatsAgree

(* pending's one reason is true, and the one that matters. *)
CauseTrue == view = "pending" => SC!CauseTrue

(* spread and max-pods tell placement and free slots as they once were.     *)
PlacementTold == view = "placements" => PL!PlacementTold

(* Parsing in rounds reads a command line as one pass would. *)
WordsRead == view = "arguments" => AR!WordsRead

(* Dispatch accepts what completion offers. *)
OffersAccepted == view = "arguments" => AR!OffersAccepted
=============================================================================
