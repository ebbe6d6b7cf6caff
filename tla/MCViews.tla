------------------------------ MODULE MCViews -------------------------------
(***************************************************************************)
(* Every view over a small cluster of its own.                             *)
(***************************************************************************)
EXTENDS Views, TLC

-----------------------------------------------------------------------------
(* netpol: two pods of two label sets, one of them on the host network at   *)
(* times, and policies of every openness.                                   *)
NetPod(n, l, h) == [ns |-> "a", name |-> n, labels |-> l, hostNetwork |-> h, finished |-> FALSE]
Rules(in, eg) == [d \in {"ingress", "egress"} |-> IF d = "ingress" THEN in ELSE eg]
Policy(ns, n, s, t, r) == [ns |-> ns, name |-> n, selects |-> s, types |-> t, rules |-> r]
From(peers, ports) == [peers |-> peers, ports |-> ports]

NetPods ==
  { NetPod("p", "front", FALSE), NetPod("q", "back", FALSE), NetPod("agent", "back", TRUE),
    [NetPod("job", "front", FALSE) EXCEPT !.finished = TRUE],
    [NetPod("r", "front", FALSE) EXCEPT !.ns = "b"] }
NetPolicies ==
  { Policy("a", "deny", {"front", "back"}, {"ingress", "egress"}, Rules({}, {})),
    Policy("a", "web", {"front"}, {"ingress"}, Rules({From({"any4"}, FALSE)}, {})),
    Policy("a", "narrow", {"back"}, {"ingress", "egress"},
           Rules({From({"narrow"}, FALSE)}, {From({}, TRUE)})),
    Policy("a", "open", {"back"}, {"egress"}, Rules({}, {From({}, FALSE)})) }

NetStarts == { [pods |-> NetPods, policies |-> q] : q \in SUBSET NetPolicies }
NetScopes == {{"a"}, {"a", "b"}}

MCNetpol ==
  [pods |-> NetPods, policies |-> NetPolicies, scopes |-> NetScopes, starts |-> NetStarts,
   changes |-> 2]

-----------------------------------------------------------------------------
(* ingress: a wildcard certificate, a rule one label too deep for it and a  *)
(* wildcard rule with a certificate for one name; ports by number and by    *)
(* name, a default backend.                                                 *)
X == <<"x">>
AX == <<"a", "x">>
BX == <<"b", "x">>
DeepX == <<"b", "a", "x">>
WildX == <<"*", "x">>
To(k, n, port) == [kind |-> k, name |-> n, port |-> port]
Web == To("service", "web", <<"name", "http">>)
Nobody == To("none", "", <<>>)
Site(host, backend, default, hosts, secret) ==
  [ns |-> "a", rules |-> {[host |-> host, backend |-> backend]}, default |-> default,
   tls |-> IF hosts = <<>> THEN <<>> ELSE <<[hosts |-> hosts[1], secret |-> secret]>>]
Sites ==
  { Site(AX, Web, Nobody, <<{WildX}>>, "cert"), Site(DeepX, Web, Nobody, <<{WildX}>>, "cert"),
    Site(WildX, Web, Nobody, <<{AX}>>, "cert"),
    Site(<<>>, To("service", "web", <<"number", 81>>), Web, <<{}>>, ""),
    Site(X, To("empty", "", <<>>), To("resource", "", <<>>), <<>>, "") }
Svc(ports) == [ns |-> "a", name |-> "web", ports |-> ports]
Svcs ==
  { Svc({<<"name", "http">>, <<"number", 80>>}), Svc({<<"number", 80>>, <<"number", 81>>}) }
Cert == [ns |-> "a", name |-> "cert"]

SiteStarts ==
  { [ingresses |-> i, services |-> s, secrets |-> c] :
      i \in {{}} \cup {{x} : x \in Sites}, s \in {{}} \cup {{x} : x \in Svcs},
      c \in SUBSET {Cert} }
Hosts == {X, AX, BX, DeepX}

MCIngress ==
  [ingresses |-> Sites, services |-> Svcs, secrets |-> {Cert}, hosts |-> Hosts,
   starts |-> SiteStarts, changes |-> 2]

-----------------------------------------------------------------------------
(* svc-backends: two endpoints, a dual-stack pair of slices, an orphan. *)
Slices == <<"web", "web", "">>

MCSvcBackends ==
  [service |-> "web", kinds |-> {"selector", "manual", "external"}, sliceOf |-> Slices,
   endpoints |-> {"p", "q"}, changes |-> 2]

(* pdb: up to two replicas. *)
MCPdb == [replicas |-> 2, changes |-> 4]

(* hpa: two metrics of one source type and one without a target. *)
Metric(n, s, a) == [name |-> n, source |-> s, auto |-> a]
Cpu == Metric("cpu", "resource", FALSE)
Mem == Metric("memory", "resource", FALSE)
Rps == Metric("rps", "pods", TRUE)

HpaMetrics == {Cpu, Mem, Rps}
HpaSpecs == {<<Cpu, Mem>>, <<Mem, Cpu>>, <<Rps, Cpu>>}

MCHpa ==
  [metrics |-> HpaMetrics, specs |-> HpaSpecs, values |-> {1, 2}, replicas |-> 2, changes |-> 2]

(* terminating: graces shorter and longer than stuckAfter. *)
MCTerminating == [graces |-> {0, 2}, stuckAfter |-> 1, time |-> 6, changes |-> 3]

(* pvc-resize: a claim at every stage of an expansion beside one that was   *)
(* bound to a bigger volume or is at rest, and a pod on each.               *)
Pvc(class, requested, capacity, stage, conditions) ==
  [class |-> class, requested |-> requested, capacity |-> capacity, status |-> stage,
   conditions |-> conditions]
Rest == Pvc("disk", 1, 1, None, {})
Expanding ==
  { Rest, Pvc("disk", 2, 1, None, {}), Pvc("disk", 1, 0, None, {}),
    Pvc("disk", 2, 1, "ControllerResizeInProgress", {"Resizing"}),
    Pvc("disk", 2, 1, "NodeResizeInProgress", {"FileSystemResizePending"}) }

ResizeStarts ==
  { [claims |-> [n \in {"a", "b"} |-> IF n = "a" THEN c ELSE d], class |-> k] :
      c \in Expanding, d \in {Pvc("", 1, 2, None, {}), Rest}, k \in {"allowed", "refused"} }
ResizePods == {[ns |-> "a", name |-> "p"], [ns |-> "b", name |-> "p"]}
ResizeScopes == {{}, {"a"}}

MCPvcResize ==
  [namespaces |-> {"a", "b"}, sizes |-> {1, 2}, fanout |-> 1, changes |-> 2,
   scopes |-> ResizeScopes, pods |-> ResizePods, starts |-> ResizeStarts]

(* certs: one secret name in two namespaces, a bundle whose intermediate    *)
(* expires first, and two Certificates on one secret.                       *)
Crt(ns, name, secret) == [ns |-> ns, name |-> name, secret |-> secret]
Sec(tls, days) == [tls |-> tls, days |-> days]
WebCert == Crt("a", "web", "tls")
OldCert == Crt("a", "old", "tls")
NewCert == Crt("b", "new", "tls")
NoneCert == Crt("b", "none", "")

CertStarts ==
  { [secrets |-> (<<"a", "tls">> :> s @@ <<"b", "tls">> :> Sec(FALSE, <<>>)),
     certs |-> [c \in owners |-> IF c = WebCert THEN "True" ELSE "False"]] :
      s \in {None, Sec(TRUE, <<3, 0>>), Sec(TRUE, <<2>>), Sec(TRUE, <<1>>)},
      owners \in {{WebCert, OldCert}, {OldCert, NewCert}, {NoneCert}} }
CertSet == {WebCert, OldCert, NewCert, NoneCert}
CertSecrets == {<<"a", "tls">>, <<"b", "tls">>}
Chains == {<<>>, <<3>>, <<3, 1>>}

MCCertificate ==
  [certs |-> CertSet, secrets |-> CertSecrets, chains |-> Chains, args |-> {None, "web"},
   expiring |-> 1, renewDue |-> 2, time |-> 1, changes |-> 2, starts |-> CertStarts]

(* autoscaler: two groups with all sections, one or none. *)
Report(h, u, d) ==
  [l \in {"Health", "ScaleUp", "ScaleDown"} |->
     CASE l = "Health" -> h [] l = "ScaleUp" -> u [] l = "ScaleDown" -> d]

GroupReports ==
  { Report("3 of 3", "idle", "none"), Report("2 of 3", "busy", "some"),
    Report("3 of 3", None, None), Report(None, "idle", None), Report(None, None, None) }
GroupNames == <<"pool", "spot">>

MCAutoscaler == [names |-> GroupNames, reports |-> GroupReports, changes |-> 2]

(* pending: three nodes, free, tainted or full. *)
NodeConditions ==
  { [taint |-> None, lacks |-> {}], [taint |-> "x", lacks |-> {}],
    [taint |-> "y", lacks |-> {"cpu"}], [taint |-> None, lacks |-> {"cpu"}],
    [taint |-> None, lacks |-> {"cpu", "memory"}] }
NodePins == {None, "n"}

MCPending ==
  [nodes |-> {"n", "m", "o"}, pins |-> NodePins, conditions |-> NodeConditions, changes |-> 3]

(* spread and max-pods: a Deployment with pods of two templates and a       *)
(* StatefulSet of like name, on two nodes of one zone and one of another;   *)
(* one node takes one pod.                                                  *)
Replica(n, k, o, w) == [name |-> n, kind |-> k, owner |-> o, of |-> w]
Old(n) == Replica(n, "ReplicaSet", <<"web", "1">>, "web")
New == Replica("r", "ReplicaSet", <<"web", "2">>, "web")
Db == Replica("db", "StatefulSet", <<"web", "1">>, "db")
Agent == Replica("agent", "DaemonSet", <<"web">>, None)
On(n) == [node |-> n, finished |-> FALSE]
Zones == "n" :> "z1" @@ "m" :> "z1" @@ "o" :> "z2"

Ceilings == "n" :> 3 @@ "m" :> 2 @@ "o" :> 1
PlacedPods == {Old("p"), Old("q"), New, Db, Agent}
PlacedStarts ==
  { [pods |-> (Old("p") :> On("n") @@ Old("q") :> On(q) @@ Agent :> On("n")),
     nodes |-> [n \in there |-> Zones[n]]] :
      q \in {None, "n", "m", "o"}, there \in {{"n", "m", "o"}, {"n", "m"}} }

MCPlacement ==
  [pods |-> PlacedPods, zone |-> Zones, ceiling |-> Ceilings, starts |-> PlacedStarts,
   changes |-> 2]

(* Command lines: a command that takes names, one that is watched, one with *)
(* rows by owner and one with arguments of its own; two clusters.           *)
Cmd(names, own, watch, by, sort) ==
  [names |-> names, ownArgs |-> own, watch |-> watch, byOwner |-> by, sort |-> sort]
LongFlag(name, value) == [dashes |-> 2, name |-> name, value |-> value]

Typed ==
  {"netpols", "web", "[", "0s", "5s", "--", "--context=prod", "-context=prod", "--watch=x",
   "--watch=false", "--watch"}
TypedBefore == {<<>>, <<"nodes", "--context", "prod">>}
Registry ==
  "nodes" :> Cmd(TRUE, FALSE, FALSE, FALSE, {"name"})
  @@ "rollouts" :> Cmd(TRUE, FALSE, TRUE, FALSE, {"kind"})
  @@ "netpol" :> Cmd(FALSE, FALSE, FALSE, TRUE, {"policies"})
  @@ "secret" :> Cmd(FALSE, TRUE, FALSE, FALSE, {})
Plurals == "netpols" :> "netpol"
FlagWords ==
  [w \in {"-n", "--namespace", "--context", "--sort", "--watch", "-w", "--color", "--interval",
          "--by-owner", "--version", "--dir"} |->
     LongFlag(CASE w = "-n" -> "n" [] w = "--namespace" -> "namespace"
                [] w = "--context" -> "context" [] w = "--sort" -> "sort"
                [] w = "--watch" -> "watch" [] w = "-w" -> "w" [] w = "--color" -> "color"
                [] w = "--interval" -> "interval" [] w = "--by-owner" -> "by-owner"
                [] w = "--version" -> "version" [] w = "--dir" -> "dir", None)]
  @@ "--context=prod" :> LongFlag("context", "prod")
  @@ "-context=prod" :> [LongFlag("context", "prod") EXCEPT !.dashes = 1]
  @@ "--watch=x" :> LongFlag("watch", "x")
  @@ "--watch=false" :> LongFlag("watch", "false")
GlobalFlags == "n" :> "string" @@ "namespace" :> "string" @@ "context" :> "string" @@ "color" :> "string"
OptionalFlags ==
  "sort" :> "string" @@ "interval" :> "string" @@ "watch" :> "bool" @@ "w" :> "bool"
  @@ "by-owner" :> "bool"
Offers == {"-n", "--context", "--color", "--version"}
OptionalOffers ==
  "sort" :> {"--sort"} @@ "watch" :> {"-w", "--watch", "--interval"} @@ "by-owner" :> {"--by-owner"}
Contexts == "" :> {"a"} @@ "prod" :> {"b"}

MCCommandLine ==
  [words |-> Typed, lines |-> TypedBefore, maxWords |-> 4, commands |-> Registry,
   toggled |-> Plurals, flag |-> FlagWords, global |-> GlobalFlags, optional |-> OptionalFlags,
   tokens |-> Offers, optionalTokens |-> OptionalOffers, badPatterns |-> {"["},
   durations |-> {"0s", "5s"}, lowIntervals |-> {"0s"}, colorModes |-> {"auto", "never"}, clusters |-> Contexts]
=============================================================================
