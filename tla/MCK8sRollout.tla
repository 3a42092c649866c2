--------------------------- MODULE MCK8sRollout ----------------------------
(* Instances of the Kubernetes rollout for TLC. *)
EXTENDS K8sRollout

CONSTANTS v1, v2, v3

ThreeNodes == 1..3
============================================================================
