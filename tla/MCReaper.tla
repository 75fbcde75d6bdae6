------------------------------ MODULE MCReaper ------------------------------
(* Model values for TLC: a workload pod, the balloon and a DaemonSet pod.   *)
(* Instances are symmetric; pods, of different kinds, are not.              *)
EXTENDS Reaper, TLC

CONSTANTS w1, b1, d1

MCKind == [p \in Pods |-> CASE p = w1 -> "work" [] p = b1 -> "balloon" [] p = d1 -> "daemon"]

Symmetry == Permutations(Names)
=============================================================================
