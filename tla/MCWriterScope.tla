---------------------------- MODULE MCWriterScope ----------------------------
(* Instances of WriterScope for TLC.                                       *)
EXTENDS WriterScope, TLC

Interchangeable == Permutations(Attachment)

\* Constraint of the run of the control: channels fill up on the first route
\* only.
FullOnFirstRoute == cur > 1 => \A a \in Attachment : Len(inbox[a]) <= 1

=============================================================================
