--------------------------- MODULE WriterScopeInv ---------------------------
(***************************************************************************)
(* The inductive invariant of WriterScope: what each phase of an           *)
(* attachment says of its scope's pointer, what a change under way says of *)
(* the former writer, and what the directives in a channel stand for.      *)
(***************************************************************************)
EXTENDS WriterScope

\* Phases under the state mutex, and phases that have a scope.
Locked == Transition \cup {"creating", "entering", "mutating"}
Scoped == Phase \ {"off", "opening", "probed", "leaving", "gone"}

\* An attachment has a route from its start on and a scope from Lookup on.
\* Only a workspace has a tmux client and a channel.
PhaseInv(a) ==
    /\ pc[a] # "off" => rt[a] > 0
    /\ pc[a] \in Scoped => sc[a] > 0
    /\ mode[a] # "none" => InWorkspace(a) \/ pc[a] = "started"
    /\ mode[a] = "rw" => InWorkspace(a)
    /\ inbox[a] # <<>> => InWorkspace(a)

\* What a writer change has in its locals.
ChangeInv(b) ==
    /\ tr[b].victim # b
    /\ pc[b] \in Transition => tr[b].from # "none"
    /\ pc[b] \in {"promoting", "resizing"} => tr[b].from = "loop"
    /\ pc[b] \in {"demoting", "awaiting"} => tr[b].victim # None
    /\ pc[b] = "demoting" => tr[b].answer = "none"
    /\ pc[b] = "failing" => tr[b].then \in IF tr[b].from = "loop" THEN {"toChooser", "toLeave"}
                                                                 ELSE {"choosing", "leaving"}

\* The state mutex of a scope has one holder.
OneHolder ==
    \A a, b \in Attachment :
        pc[a] \in Locked /\ pc[b] \in Locked /\ sc[a] = sc[b] => a = b

\* What the holder of the state mutex knows of the pointer.
HolderInv(b) ==
    /\ pc[b] \in {"creating", "resizing"} => Writer(b) = b
    /\ pc[b] \in {"demoting", "awaiting"} => Writer(b) = tr[b].victim /\ scopes[sc[b]].ctl
    /\ pc[b] = "failing" => Writer(b) = None

\* A change that is about to set the pointer has a read-only former writer.
Demoted(b) ==
    \/ pc[b] = "promoting"
    \/ pc[b] = "awaiting" /\ tr[b].answer = "succeeded"

DemotedInv(b) ==
    Demoted(b) =>
        /\ Writer(b) # b
        /\ \A a \in Attachment : a = Writer(b) /\ sc[a] = sc[b] => mode[a] # "rw"

\* The pointer's attachment has its control there as long as it can write.
ControlInv(a) == mode[a] = "rw" /\ Writer(a) = a => scopes[sc[a]].ctl

\* The pointer of the registered scope follows its attachment.
NewestInv ==
    scopes # <<>> =>
        LET a == scopes[Len(scopes)].att IN a # None => sc[a] = Len(scopes) /\ pc[a] # "gone"

\* A change of a's pointer has failed, and a Close is still to be sent.
ClosePending(a) ==
    \/ pc[a] = "failing"
    \/ \E b \in Attachment : pc[b] = "failing" /\ tr[b].victim = a /\ sc[b] = sc[a]

FencedInv(a) ==
    mode[a] = "rw" => Writer(a) = a \/ inbox[a] # <<>> \/ ClosePending(a)

HasClose(a) == \E i \in DOMAIN inbox[a] : inbox[a][i].kind = "close"

\* The change under way will take the pointer from its attachment.
Changing(s) ==
    \E b \in Attachment :
        /\ sc[b] = s
        /\ pc[b] = "promoting" \/ (pc[b] = "awaiting" /\ tr[b].answer # "none")

WriterInv(a) ==
    /\ pc[a] \in {"entering", "viewing", "loop", "mutating", "refreshing", "resizing"}
    /\ Writer(a) = a
    => /\ scopes[sc[a]].ctl
       /\ mode[a] = "rw" \/ HasClose(a) \/ Changing(sc[a])

\* A Demote has a sender that still waits for it; after one that timed out, a
\* Close is in the channel or will be.
Explained(a, d) ==
    d.kind = "demote" =>
       \/ /\ d.from # None /\ pc[d.from] = "awaiting" /\ sc[d.from] = sc[a]
          /\ tr[d.from].victim = a /\ tr[d.from].answer = "none"
       \/ d.from = None /\ HasClose(a)
       \/ /\ d.from = None
          /\ \E c \in Attachment :
               /\ sc[c] = sc[a] /\ tr[c].victim = a
               /\ pc[c] = "failing" \/ (pc[c] = "awaiting" /\ tr[c].answer = "ambiguous")

Addressed(d) == d.kind = "demote" /\ d.from # None

\* At most one sender waits for a.
DemoteInv(a) ==
    /\ \A i \in DOMAIN inbox[a] : Explained(a, inbox[a][i])
    /\ \A i, j \in DOMAIN inbox[a] : Addressed(inbox[a][i]) /\ Addressed(inbox[a][j]) => i = j

IInv ==
    /\ TypeOK
    /\ up => cur > 0
    /\ \A a \in Attachment :
         /\ PhaseInv(a) /\ ChangeInv(a) /\ HolderInv(a) /\ DemotedInv(a)
         /\ ControlInv(a) /\ FencedInv(a) /\ WriterInv(a) /\ DemoteInv(a)
    /\ OneHolder
    /\ ControlIsLive
    /\ NewestInv

=============================================================================
