--------------------------- MODULE EnrollmentInv ----------------------------
(***************************************************************************)
(* The inductive invariant of Enrollment. LinkInv, RelayInv, KeyInv and    *)
(* LedgerInv are what the properties of Enrollment need besides themselves *)
(* to be preserved by every step.                                          *)
(***************************************************************************)
EXTENDS Enrollment

\* A token, its attempt and the connection that carries the attempt out.
LinkInvOf(t) ==
    /\ token[t] = "none" => attempt[t] = "none"
    /\ token[t] # "none" => tokenOf[t] \in Machine /\ life[tokenOf[t]] # "absent"
    /\ attempt[t] = "none" =>
           phase[t] = "none" /\ candidate[t] = None /\ attemptNode[t] = None
    /\ attempt[t] # "none" =>
           /\ token[t] = "consumed" /\ attemptRev[t] \in Revision
           /\ attemptNode[t] \in Node /\ peer[t] \in Relay
    /\ phase[t] \in {"none", "accepted"} => candidate[t] = None
    /\ phase[t] \in {"setup", "credential", "proved"} => candidate[t] # None

LinkInv == \A t \in Token : LinkInvOf(t)

\* An enrolled state names its Machine and has an identity.
Complete(s) == s.rev # None => s.machine \in Machine /\ s.key # None

\* Where a Relay process is, and what it has loaded or learnt.
RelayInvOf(r) ==
    /\ Complete(file[r]) /\ Complete(mem[r])
    /\ proc[r] # "down" => mem[r].key # None
    /\ proc[r] = "token" => using[r] \in Token /\ mem[r].rev = None
    /\ proc[r] \in {"setup", "stream"} =>
           /\ using[r] \in Token /\ attempt[using[r]] # "none" /\ peer[using[r]] = r
           /\ mem[r].machine = tokenOf[using[r]] /\ mem[r].rev = attemptRev[using[r]]
    /\ proc[r] \in {"confirm", "run"} => mem[r].rev # None

RelayInv == \A r \in Relay : RelayInvOf(r)

\* A state with the identity of attempt t names that attempt's Machine.
Matches(s, t) == s.key = candidate[t] => s.machine = tokenOf[t] /\ s.rev = attemptRev[t]

\* A process has its file's state, or one from before a reset.
OwnState(r) ==
    /\ mem[r].key <= file[r].key
    /\ mem[r].key = file[r].key => mem[r] = file[r]

\* No two Relays share an identity.
Apart(r, s) ==
    r # s => /\ file[r].key # None => file[r].key # file[s].key
             /\ mem[r].key # None => mem[r].key \notin {file[s].key, mem[s].key}

\* An identity proposed to a Server is in a state that names the attempt, or
\* in none.
Proposed(t) ==
    candidate[t] # None =>
        /\ candidate[t] <= mem[peer[t]].key
        /\ \A r \in Relay : Matches(file[r], t) /\ Matches(mem[r], t)

\* A bound identity is the candidate of an attempt for that revision.
BoundWasProposed(m) ==
    boundKey[m] # None =>
        \E t \in Token :
            candidate[t] = boundKey[m] /\ tokenOf[t] = m /\ attemptRev[t] = boundRev[m]

KeyInv ==
    /\ \A r \in Relay : OwnState(r)
    /\ \A r, s \in Relay : Apart(r, s)
    /\ \A t \in Token : Proposed(t)
    /\ \A m \in Machine : BoundWasProposed(m)

\* A Machine is `verifying' for one attempt, or for its binding.
LedgerInv ==
    /\ \A t \in Token : attempt[t] = "verifying" =>
           life[tokenOf[t]] = "verifying" /\ attemptRev[t] = rev[tokenOf[t]]
    /\ \A t, u \in Token : attempt[t] = "verifying" /\ attempt[u] = "verifying"
                           /\ tokenOf[t] = tokenOf[u] => t = u
    /\ \A t \in Token : attempt[t] = "verifying" => boundKey[tokenOf[t]] = None

\* The inductive invariant.
IInv ==
    /\ TypeOK /\ LinkInv /\ RelayInv /\ KeyInv
    /\ LedgerInv /\ PendingIsClean /\ VerifyingHasReason /\ BoundIsCurrent

=============================================================================
