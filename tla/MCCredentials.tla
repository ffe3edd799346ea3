--------------------------- MODULE MCCredentials ---------------------------
(* Instances of Credentials for TLC.                                       *)
EXTENDS Credentials, TLC

\* Credentials, Machines and attempts are interchangeable.
Symmetry == Permutations(Credential) \cup Permutations(Machine) \cup Permutations(Attempt)

=============================================================================
