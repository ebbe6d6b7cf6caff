---------------------------- MODULE MCOwnerRows -----------------------------
(* A Deployment, an Argo Rollout and Strimzi PodSets over two namespaces:   *)
(* the PodSets come whole, malformed and with no pods.                      *)
EXTENDS OwnerRows

MCClosures == <<"deployments", "rollouts", "strimzi">>
MCNamespaces == <<"a", "b">>

Obj(k, n, s) == [kind |-> k, ns |-> n, shape |-> s]

MCObjects == { Obj("deployments", "a", "template"), Obj("rollouts", "b", "empty"),
               Obj("rollouts", "a", "malformed"), Obj("strimzi", "a", "template"),
               Obj("strimzi", "b", "malformed"), Obj("strimzi", "b", "template") }
MCClusters == { MCObjects \ {Obj("strimzi", "b", "template")} }
MCDenials == { {}, {<<"strimzi", "a">>}, {<<"rollouts", "b">>}, {<<"deployments", "a">>} }
=============================================================================
