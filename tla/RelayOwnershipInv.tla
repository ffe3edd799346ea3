-------------------------- MODULE RelayOwnershipInv --------------------------
(***************************************************************************)
(* The inductive invariant of RelayOwnership.  None of its properties is   *)
(* inductive: that an open handle is the owner rests on what every phase   *)
(* of a connection knows about the row, and that a cleanup finds no exit   *)
(* but its own rests on how the registry's maps, the row and the requests  *)
(* under way relate.                                                       *)
(***************************************************************************)
EXTENDS RelayOwnership

\* Phases with a claim that nobody has released yet, with a tunnel that was
\* installed and whose cleanup has not begun, and with no claim.
Holding == {"claimed", "unwinding", "running", "ending", "closed", "releasing"}
Installed == {"running", "ending", "closed"}
Unowning == {"hello", "reserved", "claimFailed", "unwound", "released"}
Claiming == {"reserved", "claimFailed", "claimed", "unwinding", "unwound"}

\* Authority is covered by the lease row, until the node deletes the row; only
\* a row that is there is unexpired.
Covered(n) ==
    /\ Held(n) => NodeValid(n) \/ row[n] = "gone"
    /\ leased[n] => row[n] \in {"serving", "draining"}

\* The foreign key: an owner's node still has its row.
OwnerHasRow == owner.node # None => row[owner.node] \in {"serving", "draining"}

\* What a connection's phase says about the owner row and its handle.
ConnInv(c) ==
    /\ st[c] # "new" => at[c] \in Node /\ authority[at[c]] # "new"
    /\ st[c] = "new" => owner.conn # c
    /\ st[c] \in Holding /\ Held(at[c]) => Owns(c)
    /\ st[c] \in Unowning /\ Held(at[c]) => owner.conn # c
    /\ c \in open \cup busy =>
          st[c] \in {"running", "ending"} \/ (st[c] = "done" /\ ~Held(at[c]))
    /\ c \in cleaned => st[c] = "done"

\* What it says about the exit of its Machine in the registry.
ExitInv(c) ==
    /\ st[c] \in Installed /\ Held(at[c]) =>
          exits[at[c]] \in {NoExit, Exit("transitioning", c)}
    /\ st[c] = "done" /\ Held(at[c]) /\ owner.conn = c =>
          exits[at[c]] = Exit("transitioning", c)

\* What a registry entry says about its connection.
EntryInv(n) ==
    tunnels[n] # None =>
        /\ at[tunnels[n]] = n /\ st[tunnels[n]] # "new"
        /\ Held(n) =>
              \/ st[tunnels[n]] \in Installed /\ exits[n] = NoExit
              \/ /\ st[tunnels[n]] \in {"releasing", "released"}
                 /\ exits[n] = Exit("releasing", tunnels[n])

PendingInv(n) ==
    \A c \in pending[n] : at[c] = n /\ st[c] # "new" /\ (Held(n) => st[c] \in Claiming)

\* What a request knows of its target.
OpInv(o) ==
    op[o].target # None =>
        /\ st[op[o].target] # "new"
        /\ op[o].ph \in {"ready", "settling", "aborted"} => op[o].target \in cleaned
        /\ op[o].ph = "settling" /\ Held(at[op[o].target]) => owner.conn # op[o].target

IInv ==
    /\ TypeOK
    /\ \A n \in Node : Covered(n) /\ EntryInv(n) /\ PendingInv(n)
    /\ OwnerHasRow
    /\ \A c \in Conn : ConnInv(c) /\ ExitInv(c)
    /\ \A o \in Op : OpInv(o)

=============================================================================
