--------------------------- MODULE MCReferences -----------------------------
(* A CronJob without pods, a Deployment whose pods come and go, and a       *)
(* certificate that an Ingress, an argument and an Azure share name; "cfg"  *)
(* is a ConfigMap and a Secret, each named by several fields.               *)
EXTENDS References

Obj(k, ns, n, p) == [kind |-> k, ns |-> ns, name |-> n, platform |-> p]
Ref(k, ns, f, n, a) ==
  [kind |-> k, ns |-> ns, refs |-> {[field |-> x, name |-> n] : x \in f}, args |-> a]
Arg(ns, n) == [ns |-> ns, name |-> n]

MCListing ==
  << Obj("configmaps", "a", "cfg", FALSE), Obj("configmaps", "a", "root", TRUE),
     Obj("secrets", "a", "cfg", FALSE), Obj("secrets", "a", "tls", FALSE),
     Obj("configmaps", "kube-system", "cfg", FALSE) >>

MCReferrers ==
  { Ref("deployments", "a", {"projected.configMap"}, "cfg", {}),
    Ref("deployments", "a", {"env.configMapKeyRef", "volume.secret"}, "cfg", {}),
    Ref("pods", "a", {"envFrom.configMapRef", "projected.secret"}, "cfg", {}),
    Ref("pods", "a", {"azureFile"}, "tls", {Arg("a", "tls")}),
    Ref("cronjobs", "kube-system", {"volume.configMap"}, "cfg", {Arg("a", "cfg")}),
    Ref("serviceaccounts", "a", {"imagePullSecrets"}, "cfg", {}),
    Ref("ingresses", "a", {"tls"}, "tls", {}) }

MCStarts == { [referrers |-> MCReferrers \ {r}, objects |-> Range(MCListing)] : r \in MCReferrers }
              \cup { [referrers |-> {}, objects |-> Range(MCListing)] }

MCInvocations ==
  { [scope |-> {}, includeSystem |-> FALSE, names |-> {}, sort |-> None],
    [scope |-> {}, includeSystem |-> TRUE, names |-> {{"cfg"}}, sort |-> "kind"],
    [scope |-> {"a"}, includeSystem |-> FALSE, names |-> {}, sort |-> "name"] }

MCSize == [o \in Range(MCListing) |-> IF o.kind = "secrets" THEN 2 ELSE 1]
MCText ==
  [c \in {"a", "kube-system", "configmaps", "secrets", "cfg", "root", "tls"} |->
     CASE c = "a" -> 1 [] c = "cfg" -> 2 [] c = "configmaps" -> 3 [] c = "kube-system" -> 4
       [] c = "root" -> 5 [] c = "secrets" -> 6 [] c = "tls" -> 7]

(* An Azure share's credentials, and an argument that names another         *)
(* namespace.                                                               *)
MCReferrersMissed ==
  { Ref("pods", "a", {"azureFile"}, "tls", {}),
    Ref("pods", "kube-system", {}, "cfg", {Arg("a", "cfg")}) }
MCStartsMissed == { [referrers |-> MCReferrersMissed, objects |-> Range(MCListing)] }
=============================================================================
