-------------------------- MODULE MCRelayOwnership --------------------------
(* Instances of RelayOwnership for TLC.                                    *)
EXTENDS RelayOwnership, TLC

Interchangeable == Permutations(Node) \cup Permutations(Conn)

\* Constraint of the clustered run: once every incarnation has lost its
\* authority nothing can be dispatched, claimed or installed any more.
SomeNodeLives == \E n \in Node : authority[n] # "lost"

=============================================================================
