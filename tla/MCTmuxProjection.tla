-------------------------- MODULE MCTmuxProjection --------------------------
(* The instance of TmuxProjection for TLC: two windows of one pane each.   *)
EXTENDS TmuxProjection

TwoWindows == {"w1", "w2"}
TwoPanes == [w \in TwoWindows |-> IF w = "w1" THEN <<"p1">> ELSE <<"p2">>]

=============================================================================
