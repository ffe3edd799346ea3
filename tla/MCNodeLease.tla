---------------------------- MODULE MCNodeLease ----------------------------
(* Instances of NodeLease for TLC.                                         *)
EXTENDS NodeLease, TLC

\* Incarnations differ in nothing but their identity.
Incarnations == Permutations(Node)
=============================================================================
