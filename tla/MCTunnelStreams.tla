-------------------------- MODULE MCTunnelStreams --------------------------
(* Instances of TunnelStreams for TLC.                                     *)
EXTENDS TunnelStreams

\* Constraint of the run of the streams.  While one stream has been opened,
\* everything is explored.  With two, the tunnel runs, no ping has been sent
\* and each of the two carries at most one chunk, in either direction.  A
\* third stream takes the slot of the first, meets a second one whose ends are
\* still up, and nothing is carried: it is there for the identifiers and the
\* slots.
TwoStreamsFewChunks ==
    /\ nextId > 2 => Running /\ nonce = 0 /\ \A i \in Id : wrote[i] + sent[i] <= 1
    /\ nextId > 3 => /\ \A i \in Id : wrote[i] = 0 /\ sent[i] = 0
                     /\ caller[2] = "open" /\ sshd[2] # "refused"

=============================================================================
