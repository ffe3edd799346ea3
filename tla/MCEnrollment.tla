---------------------------- MODULE MCEnrollment ----------------------------
(* Instances of Enrollment for TLC.                                        *)
EXTENDS Enrollment, TLC

\* Machines, Relays and nodes are interchangeable.
Symmetry == Permutations(Machine) \cup Permutations(Relay) \cup Permutations(Node)

=============================================================================
