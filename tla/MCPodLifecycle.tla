---------------------------- MODULE MCPodLifecycle ----------------------------
(* Instances of PodLifecycle for TLC.                                       *)
EXTENDS PodLifecycle, TLC

Symmetry == Permutations(Pods)
=============================================================================
