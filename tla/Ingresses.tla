----------------------------- MODULE Ingresses ------------------------------
(***************************************************************************)
(* The ingress command (view/ingress.go): each routing rule checked        *)
(* against the services and the TLS secrets of its namespace.  Ingresses   *)
(* are read first; services and secrets only if there are any, each at an  *)
(* instant of its own, and secrets may be refused.                         *)
(***************************************************************************)
EXTENDS Integers, Sequences, FiniteSets, FiniteSetsExt

CONSTANTS
  IngressSet,   \* the ingresses that may exist, see IngressFields
  ServiceSet,   \* the services that may exist: [ns, name, ports]
  SecretSet,    \* the secrets that may exist: [ns, name]
  HostNames,    \* the names clients ask for, as sequences of labels
  Starts,       \* what may exist at the start: [ingresses, services, secrets]
  Unread,       \* a list not read yet
  Failed,       \* a list that ended in an error
  Forbidden,    \* a list the user may not read
  MaxChanges    \* bound: changes to the cluster meanwhile

VARIABLES
  cluster,   \* [ingresses, services, secrets, granted, changes]
  lists,     \* [ingresses, services, secrets]: what the command read
  past       \* [always, ever]: the facts true throughout, and at some moment

vars == <<cluster, lists, past>>

IngressFields == {"ns", "rules", "default", "tls"}

(* A host is the sequence of its labels; a rule without one has no labels. *)
Any == <<"*">>

(* A backend is nothing, a resource, or a service and one of its ports, by  *)
(* number or by name.                                                       *)
Backend(kind, name, port) == [kind |-> kind, name |-> name, port |-> port]
NoBackend == Backend("none", "", <<>>)

-----------------------------------------------------------------------------
(* The code. *)

(* ingressRules: a rule without paths has no backend, and the default       *)
(* backend answers for any host.                                            *)
IngressRules(ing) ==
  {[host |-> IF r.host = <<>> THEN Any ELSE r.host, backend |-> r.backend] : r \in ing.rules}
  \cup (IF ing.default = NoBackend THEN {} ELSE {[host |-> Any, backend |-> ing.default]})

(* A slip for the mutants: the wildcard covers any number of labels. *)
HostMatchesDeep(p, h) ==
  \/ p = h \/ h = Any
  \/ Len(p) > 1 /\ p[1] = "*" /\ Len(h) >= Len(p)
     /\ SubSeq(h, Len(h) - Len(p) + 2, Len(h)) = Tail(p)

HostMatches(p, h) ==
  \/ p = h \/ h = Any
  \/ Len(p) > 1 /\ p[1] = "*" /\ h # <<>> /\ Tail(h) = Tail(p)

(* tlsSecretFor: the first block that covers the host. *)
TlsBlocks(ing, host) ==
  {i \in DOMAIN ing.tls : ing.tls[i].hosts = {} \/ \E h \in ing.tls[i].hosts : HostMatches(h, host)}

TlsSecretFor(ing, host) ==
  LET blocks == TlsBlocks(ing, host) IN
    [covered |-> blocks # {}, secret |-> IF blocks = {} THEN "" ELSE ing.tls[Min(blocks)].secret]

(* servicePorts and servicePortSet.has: a port is <<"number", n>> or        *)
(* <<"name", s>>, and a service has both forms of each of its ports.        *)
ServicesNamed(svcs, ns, b) == {s \in svcs : s.ns = ns /\ s.name = b.name}

SecretsKnown == lists.secrets # Forbidden

(* A slip for the mutants: a refused list reads as an empty one. *)
HaveSecretFlat(ns, name) == SecretsKnown /\ [ns |-> ns, name |-> name] \in lists.secrets

(* Only a list that was read can say a secret is not there. *)
HaveSecret(ns, name) == SecretsKnown => [ns |-> ns, name |-> name] \in lists.secrets

Verdict(ing, rule) ==
  LET b == rule.backend
      t == TlsSecretFor(ing, rule.host)
      found == ServicesNamed(lists.services, ing.ns, b) IN
    IF b.kind \in {"none", "resource"} THEN "RESOURCE"
    ELSE IF b.kind = "empty" THEN "NO-SERVICE"
    ELSE IF found = {} THEN "NO-SERVICE"
    ELSE IF \A s \in found : b.port \notin s.ports THEN "NO-PORT"
    ELSE IF t.covered /\ t.secret # "" /\ ~HaveSecret(ing.ns, t.secret) THEN "NO-SECRET"
    ELSE IF ~t.covered THEN "NO-TLS"
    ELSE "OK"

IngressesRead == lists.ingresses \notin {Unread, Failed}

(* The command is over; with no ingress nothing else is read. *)
Done ==
  \/ lists.ingresses \in {Failed, {}}
  \/ IngressesRead /\ lists.services # Unread /\ lists.secrets # Unread

Printed == Done /\ Failed \notin {lists.ingresses, lists.services, lists.secrets}

Rows ==
  IF lists.ingresses = {} THEN {}
  ELSE UNION {{[ing |-> i, rule |-> r, verdict |-> Verdict(i, r)] : r \in IngressRules(i)} :
                i \in lists.ingresses}

-----------------------------------------------------------------------------
(* The facts a rule depends on. *)
ServiceFact(ns, b) == <<"service", ns, b.name>>
PortFact(ns, b) == <<"port", ns, b.name, b.port>>
SecretFact(ns, s) == <<"secret", ns, s>>

Facts(c) ==
  {<<"service", s.ns, s.name>> : s \in c.services}
  \cup (UNION {{<<"port", s.ns, s.name, p>> : p \in s.ports} : s \in c.services})
  \cup {SecretFact(s.ns, s.name) : s \in c.secrets}

Init ==
  /\ \E s \in Starts, g \in BOOLEAN :
       cluster = [ingresses |-> s.ingresses, services |-> s.services, secrets |-> s.secrets,
                  granted |-> g, changes |-> 0]
  /\ lists = [ingresses |-> Unread, services |-> Unread, secrets |-> Unread]
  /\ past = [always |-> Facts(cluster), ever |-> Facts(cluster)]

(* External: users edit ingresses, services and secrets; a service put in   *)
(* the place of another of its name is an edit of its ports.  What happens  *)
(* once the command has read its lists does not matter.                     *)
Change(c) ==
  /\ ~Done /\ cluster.changes < MaxChanges
  /\ cluster' = [c EXCEPT !.changes = cluster.changes + 1]
  /\ past' = [always |-> past.always \cap Facts(c), ever |-> past.ever \cup Facts(c)]
  /\ UNCHANGED lists

IngressChange ==
  \E is \in {{}} \cup {{i} : i \in IngressSet} :
    is # cluster.ingresses /\ Change([cluster EXCEPT !.ingresses = is])

ServiceChange ==
  \E s \in ServiceSet : LET others == {t \in cluster.services : <<t.ns, t.name>> # <<s.ns, s.name>>} IN
    Change([cluster EXCEPT !.services = IF s \in @ THEN others ELSE others \cup {s}])

SecretChange ==
  \E s \in SecretSet :
    Change([cluster EXCEPT !.secrets = IF s \in @ THEN @ \ {s} ELSE @ \cup {s}])

ReadIngresses ==
  /\ lists.ingresses = Unread
  /\ \E l \in {cluster.ingresses, Failed} : lists' = [lists EXCEPT !.ingresses = l]
  /\ UNCHANGED <<cluster, past>>

ReadServices ==
  /\ IngressesRead /\ lists.ingresses # {} /\ lists.services = Unread
  /\ \E l \in {cluster.services, Failed} : lists' = [lists EXCEPT !.services = l]
  /\ UNCHANGED <<cluster, past>>

ReadSecrets ==
  /\ IngressesRead /\ lists.ingresses # {} /\ lists.secrets = Unread
  /\ \E l \in {IF cluster.granted THEN cluster.secrets ELSE Forbidden, Failed} :
       lists' = [lists EXCEPT !.secrets = l]
  /\ UNCHANGED <<cluster, past>>

Over == Done /\ UNCHANGED vars

Next ==
  \/ IngressChange \/ ServiceChange \/ SecretChange
  \/ ReadIngresses \/ ReadServices \/ ReadSecrets \/ Over

Spec == Init /\ [][Next]_vars

-----------------------------------------------------------------------------
(* Properties. *)

(* How TLS matches a name: label by label, a wildcard for the first one. *)
CertCovers(p, name) ==
  Len(p) = Len(name) /\ \A i \in DOMAIN p : p[i] = name[i] \/ (i = 1 /\ p[i] = "*" /\ Len(p) > 1)

(* The hosts of an ingress: of its rules, and of its TLS blocks. *)
Patterns(ing) ==
  ({r.host : r \in ing.rules} \ {<<>>}) \cup UNION {ing.tls[i].hosts : i \in DOMAIN ing.tls}

(* A host entry covers every name the rule's host stands for, or, of a rule *)
(* without a host, which answers for all names, some.                       *)
Covers(p, host) ==
  IF host = Any THEN \E name \in HostNames : CertCovers(p, name)
  ELSE \A name \in HostNames : CertCovers(host, name) => CertCovers(p, name)

Secured(ing, host) ==
  \E i \in DOMAIN ing.tls :
    ing.tls[i].hosts = {} \/ \E p \in ing.tls[i].hosts : Covers(p, host)

TypeOK ==
  /\ cluster.ingresses \subseteq IngressSet /\ cluster.services \subseteq ServiceSet
  /\ cluster.secrets \subseteq SecretSet
  /\ \A i \in IngressSet : DOMAIN i = IngressFields
  /\ past.always \subseteq past.ever

(* A fault is never made up: what a verdict says is missing was missing at  *)
(* some moment of the command, also when the secrets were refused.          *)
FaultTrue ==
  Printed => \A x \in Rows :
    /\ x.verdict = "NO-SERVICE" => ServiceFact(x.ing.ns, x.rule.backend) \notin past.always
    /\ x.verdict = "NO-PORT" => PortFact(x.ing.ns, x.rule.backend) \notin past.always
    /\ x.verdict = "NO-SECRET" =>
         SecretFact(x.ing.ns, TlsSecretFor(x.ing, x.rule.host).secret) \notin past.always
    /\ x.verdict = "NO-TLS" => ~Secured(x.ing, x.rule.host)

(* OK is earned: the port was there, TLS covers the names the rule answers  *)
(* for, and the secret was there unless the user may not know.              *)
OKTrue ==
  Printed => \A x \in Rows :
    x.verdict = "OK" =>
      LET secret == TlsSecretFor(x.ing, x.rule.host).secret IN
        /\ PortFact(x.ing.ns, x.rule.backend) \in past.ever
        /\ Secured(x.ing, x.rule.host)
        /\ secret = "" \/ lists.secrets = Forbidden \/ SecretFact(x.ing.ns, secret) \in past.ever
=============================================================================
