---------------------------- MODULE Certificates ----------------------------
(***************************************************************************)
(* The certs command (view/certs.go): every TLS secret graded by the time  *)
(* its bundle has left, and every Certificate of cert-manager with no such *)
(* secret, from two lists read side by side and a clock read after them.   *)
(* The clock is read once here, for each row in the code.                  *)
(*                                                                         *)
(* External: cert-manager, which writes a secret and, at another instant,  *)
(* the Ready condition of the Certificate that owns it; users; X.509.      *)
(***************************************************************************)
EXTENDS Integers, Sequences

CONSTANTS
  Certs,        \* Certificates that may exist: [ns, name, secret]; "" owns none
  Secrets,      \* the secrets: <<namespace, name>>
  Chains,       \* what a tls.crt may hold: the lifetimes left, the leaf's first
  Args,         \* the name argument; None is no argument
  Starts,       \* where to start from: [secrets, certs]
  Expiring,     \* certExpiring
  RenewDue,     \* certRenewDue
  MaxTime,      \* bound: the clock
  Unread,       \* a list not read yet
  Failed,       \* a list that ended in an error
  Forbidden,    \* a list refused, or of a kind that is not installed
  None,         \* nil
  MaxChanges    \* bound: changes to the cluster

VARIABLES
  cluster,   \* [now, secrets, certs, changes]
  lists,     \* [arg, secrets, certs, rows]: what the command read, and printed
  past       \* history of the command: see Moment

vars == <<cluster, lists, past>>

(* secrets maps each secret to None or to [tls, days]: whether it is of the *)
(* TLS type, and when its certificates expire, none for a bundle that does  *)
(* not parse. certs maps those that exist to the status of Ready,           *)
(* None when cert-manager has not written it.                               *)
Tls(s) == IF s = None THEN FALSE ELSE s.tls
Owned(c) == <<c.ns, c.secret>>

-----------------------------------------------------------------------------
(* The code. *)

(* A slip for the mutants: the leaf alone. *)
LeafExpiry(chain) == chain[1]

EarliestExpiry(chain) ==
  CHOOSE d \in {chain[i] : i \in DOMAIN chain} : \A i \in DOMAIN chain : d <= chain[i]

(* certVerdict, by the time left. *)
CertVerdict(left) ==
  IF left <= 0 THEN "EXPIRED" ELSE IF left < Expiring THEN "EXPIRING"
  ELSE IF left < RenewDue THEN "RENEW-DUE" ELSE "OK"

WorstFirst == <<"EXPIRED", "MISSING", "INVALID", "EXPIRING", "NOT-READY", "RENEW-DUE", "OK">>

Rank(v) == CHOOSE i \in DOMAIN WorstFirst : WorstFirst[i] = v

(* worstCertVerdict. *)
Worst(v, w) == IF Rank(v) <= Rank(w) THEN v ELSE w

(* Without cert-manager the secrets alone are graded. *)
CertsKnown == IF lists.certs = Forbidden THEN <<>> ELSE lists.certs

(* certManagerStates: of several owners of a secret, one that fails wins. *)
Stuck(s) == \E c \in DOMAIN CertsKnown : c.secret # "" /\ Owned(c) = s /\ CertsKnown[c] # "True"

Asked(s) == lists.arg \in {None, s[2]}

Shown == {s \in DOMAIN lists.secrets : Asked(s)}

(* The verdict of a TLS secret. *)
Verdict(s) ==
  LET chain == lists.secrets[s].days
      left == EarliestExpiry(chain) - cluster.now
  IN  IF chain = <<>> THEN "INVALID"
      ELSE IF Stuck(s) THEN Worst(CertVerdict(left), "NOT-READY")
      ELSE CertVerdict(left)

(* Certificates with no secret to show. *)
Missing == {c \in DOMAIN CertsKnown : c.secret # "" /\ Owned(c) \notin Shown /\ Asked(Owned(c))}

Rows ==
  {[secret |-> s, verdict |-> Verdict(s)] : s \in Shown}
  \cup {[secret |-> Owned(c), verdict |-> "MISSING"] : c \in Missing}

-----------------------------------------------------------------------------
(* What is true of a moment: the secrets absent or of another type, those   *)
(* whose bundle does not work any more, those with time enough; the         *)
(* Certificates there, and those not ready.                                 *)
Moment(c) ==
  LET bundles == {s \in Secrets : Tls(c.secrets[s]) /\ c.secrets[s].days # <<>>}
      left(s) == {c.secrets[s].days[i] - c.now : i \in DOMAIN c.secrets[s].days}
  IN  [absent |-> {s \in Secrets : ~Tls(c.secrets[s])},
       expired |-> {s \in bundles : \E d \in left(s) : d <= 0},
       sound |-> {s \in bundles : \A d \in left(s) : d >= RenewDue},
       certs |-> DOMAIN c.certs,
       failing |-> {x \in DOMAIN c.certs : c.certs[x] # "True"}]

(* always and ever: what was true at every moment and at some. *)
Observe(c) ==
  past' = [always |-> [f \in DOMAIN past.always |-> past.always[f] \cap Moment(c)[f]],
           ever |-> [f \in DOMAIN past.ever |-> past.ever[f] \cup Moment(c)[f]]]

Init ==
  /\ \E s \in Starts : cluster = [now |-> 0, secrets |-> s.secrets, certs |-> s.certs, changes |-> 0]
  /\ \E a \in Args : lists = [arg |-> a, secrets |-> Unread, certs |-> Unread, rows |-> Unread]
  /\ past = [always |-> Moment(cluster), ever |-> Moment(cluster)]

Going == lists.rows = Unread

Tick ==
  /\ Going /\ cluster.now < MaxTime
  /\ cluster' = [cluster EXCEPT !.now = @ + 1]
  /\ Observe(cluster') /\ UNCHANGED lists

(* What happens once the command has read its lists does not matter. *)
World(c) ==
  /\ Unread \in {lists.secrets, lists.certs} /\ cluster.changes < MaxChanges
  /\ cluster' = [c EXCEPT !.changes = cluster.changes + 1]
  /\ Observe(cluster') /\ UNCHANGED lists

Secret(s, v) == World([cluster EXCEPT !.secrets = [cluster.secrets EXCEPT ![s] = v]])
Owners(certs) == World([cluster EXCEPT !.certs = certs])

(* cert-manager issues and renews, and anyone may write a bad bundle; the   *)
(* type of a secret never changes.                                          *)
WriteSecret(s) ==
  \E chain \in Chains :
    /\ cluster.secrets[s] = None \/ Tls(cluster.secrets[s])
    /\ Secret(s, [tls |-> TRUE, days |-> [i \in DOMAIN chain |-> cluster.now + chain[i]]])

DeleteSecret(s) == cluster.secrets[s] # None /\ Secret(s, None)

CreateCert(c) ==
  /\ c \notin DOMAIN cluster.certs
  /\ Owners([x \in DOMAIN cluster.certs \cup {c} |-> IF x = c THEN None ELSE cluster.certs[x]])

DeleteCert(c) ==
  /\ c \in DOMAIN cluster.certs
  /\ Owners([x \in DOMAIN cluster.certs \ {c} |-> cluster.certs[x]])

(* Ready is only ever True of a secret that was there. *)
SetReady(c) ==
  /\ c \in DOMAIN cluster.certs
  /\ \E r \in {"True", "False"} \ {cluster.certs[c]} :
       /\ r = "True" => c.secret # "" /\ cluster.secrets[Owned(c)] # None
       /\ Owners([cluster.certs EXCEPT ![c] = r])

-----------------------------------------------------------------------------
(* Certs. *)

ReadSecrets ==
  /\ lists.secrets = Unread
  /\ \E l \in {[s \in {s \in Secrets : Tls(cluster.secrets[s])} |-> cluster.secrets[s]], Failed} :
       lists' = [lists EXCEPT !.secrets = l]
  /\ UNCHANGED <<cluster, past>>

ReadCerts ==
  /\ lists.certs = Unread
  /\ \E l \in {cluster.certs, Forbidden, Failed} : lists' = [lists EXCEPT !.certs = l]
  /\ UNCHANGED <<cluster, past>>

Render ==
  /\ Going /\ Unread \notin {lists.secrets, lists.certs}
  /\ lists' = [lists EXCEPT !.rows = IF Failed \in {lists.secrets, lists.certs} THEN Failed ELSE Rows]
  /\ UNCHANGED <<cluster, past>>

Over == ~Going /\ UNCHANGED vars

Next ==
  \/ Tick
  \/ \E s \in Secrets : WriteSecret(s) \/ DeleteSecret(s)
  \/ \E c \in Certs : CreateCert(c) \/ DeleteCert(c) \/ SetReady(c)
  \/ ReadSecrets \/ ReadCerts \/ Render \/ Over

Spec == Init /\ [][Next]_vars

-----------------------------------------------------------------------------
(* Properties. *)

TypeOK ==
  /\ cluster.now \in 0..MaxTime /\ DOMAIN cluster.secrets = Secrets
  /\ DOMAIN cluster.certs \subseteq Certs
  /\ lists.arg \in Args
  /\ \A f \in DOMAIN past.ever : past.always[f] \subseteq past.ever[f]

(* Nothing that cannot renew by itself reads as fine: a Certificate that    *)
(* was failing all along never has its secret read OK or RENEW-DUE, one     *)
(* whose secret was missing all along has it read MISSING, a bundle that    *)
(* did not work all along, for whichever certificate in it, reads EXPIRED.  *)
(* And no word is made up: OK was earned at some moment, and MISSING says   *)
(* that at some moment there was no TLS secret, and a Certificate at some.  *)
RenewalTold ==
  lists.rows \notin {Unread, Failed} =>
    /\ \A r \in lists.rows :
         /\ r.verdict = "OK" => r.secret \in past.ever.sound
         /\ r.verdict = "MISSING" =>
              r.secret \in past.ever.absent /\ \E c \in past.ever.certs : Owned(c) = r.secret
         /\ r.secret \in past.always.expired => r.verdict = "EXPIRED"
    /\ lists.certs # Forbidden => \A c \in past.always.certs : c.secret # "" /\ Asked(Owned(c)) =>
         /\ \E r \in lists.rows : r.secret = Owned(c)
         /\ \A r \in lists.rows : r.secret = Owned(c) =>
              /\ c \in past.always.failing => r.verdict \notin {"OK", "RENEW-DUE"}
              /\ r.secret \in past.always.absent => r.verdict = "MISSING"
=============================================================================
