--------------------------- MODULE LeaseAuthority ---------------------------
(***************************************************************************)
(* What the node lease promises the rest of the server, without clocks:    *)
(* an incarnation gains authority once, loses it once and for good, and    *)
(* while it has it its lease row is unexpired (until it deletes the row    *)
(* itself).  Nothing is promised about the row of an incarnation without   *)
(* authority: it may expire, and a late renewal or a clock adjustment may  *)
(* make it valid again.                                                    *)
(***************************************************************************)

CONSTANT Node

VARIABLES
    authority,  \* what check() and the drain flag of the incarnation say
    row,        \* server_nodes.state
    leased      \* server_nodes.lease_until > clock_timestamp()

leaseVars == <<authority, row, leased>>

AuthorityState == {"new", "admitting", "draining", "lost"}
NodeRow == {"none", "serving", "draining", "gone"}

\* check() passes
Held(n) == authority[n] \in {"admitting", "draining"}

LeaseInit ==
    /\ authority = [n \in Node |-> "new"]
    /\ row = [n \in Node |-> "none"]
    /\ leased = [n \in Node |-> FALSE]

\* The row is inserted; its process may fail before it learns of it.
Register(n) ==
    /\ authority[n] = "new" /\ row[n] = "none"
    /\ row' = [row EXCEPT ![n] = "serving"]
    /\ leased' = [leased EXCEPT ![n] = TRUE]
    /\ \E a \in {"new", "lost"} : authority' = [authority EXCEPT ![n] = a]

\* The first deadline is installed.
Activate(n) ==
    /\ authority[n] = "new" /\ row[n] = "serving" /\ leased[n]
    /\ authority' = [authority EXCEPT ![n] = "admitting"]
    /\ UNCHANGED <<row, leased>>

\* Startup fails.
GiveUp(n) ==
    /\ authority[n] = "new"
    /\ authority' = [authority EXCEPT ![n] = "lost"]
    /\ UNCHANGED <<row, leased>>

\* The drain flag is set, then the row follows while it is unexpired.
StopAdmitting(n) ==
    /\ authority[n] = "admitting"
    /\ authority' = [authority EXCEPT ![n] = "draining"]
    /\ UNCHANGED <<row, leased>>

DrainNode(n) ==
    /\ authority[n] \in {"draining", "lost"} /\ row[n] = "serving" /\ leased[n]
    /\ row' = [row EXCEPT ![n] = "draining"]
    /\ UNCHANGED <<authority, leased>>

DeleteNode(n) ==
    /\ authority[n] \in {"draining", "lost"} /\ row[n] = "draining"
    /\ row' = [row EXCEPT ![n] = "gone"]
    /\ leased' = [leased EXCEPT ![n] = FALSE]
    /\ UNCHANGED authority

\* hard_fence
LoseAuthority(n) ==
    /\ authority' = [authority EXCEPT ![n] = "lost"]
    /\ UNCHANGED <<row, leased>>

\* Time, fences, crashes, renewals and clock adjustments, for any number of
\* incarnations at once.
Elapse ==
    \E losing \in SUBSET {n \in Node : Held(n)},
       current \in SUBSET {n \in Node : row[n] \in {"serving", "draining"}} :
        /\ \A n \in Node : Held(n) => n \in losing \cup current \/ row[n] = "gone"
        /\ authority' = [n \in Node |-> IF n \in losing THEN "lost" ELSE authority[n]]
        /\ leased' = [n \in Node |-> n \in current]
        /\ UNCHANGED row

LeaseNext ==
    \/ Elapse
    \/ \E n \in Node :
          \/ Register(n) \/ Activate(n) \/ GiveUp(n)
          \/ StopAdmitting(n) \/ DrainNode(n) \/ DeleteNode(n)

LeaseSpec == LeaseInit /\ [][LeaseNext]_leaseVars

=============================================================================
