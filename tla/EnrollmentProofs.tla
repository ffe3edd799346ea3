-------------------------- MODULE EnrollmentProofs --------------------------
(***************************************************************************)
(* What Enrollment promises about the Machine's lifecycle, its attempts,   *)
(* its binding and the Relay's state file, for any number of Machines,     *)
(* Relays, nodes, tokens, identities and revisions.                        *)
(*                                                                         *)
(* First, every step keeps the identities of the Relays apart, and the     *)
(* Machine and revision that a state file gives for an identity the same   *)
(* as those of the attempt it was proposed in (KeyInv).                    *)
(***************************************************************************)
EXTENDS EnrollmentStepProofs

(* The state of one Relay may change as long as its identity is its own,   *)
(* is not older than the one its process had, and names the attempts that  *)
(* proposed it.                                                            *)
LEMMA OneStateChanges ==
    ASSUME TypeOK, TypeOK', KeyInv, LinkInv, NEW r \in Relay,
           UNCHANGED <<candidate, peer, tokenOf, attempt, attemptRev, boundKey, boundRev>>,
           \A q \in Relay : q # r => file'[q] = file[q] /\ mem'[q] = mem[q],
           OwnState(r)', mem[r].key <= mem'[r].key,
           \A q \in Relay : q # r => Apart(r, q)' /\ Apart(q, r)',
           \A t \in Token : candidate[t] # None => Matches(file'[r], t) /\ Matches(mem'[r], t)
    PROVE  KeyInv'
  <1> USE EnrollmentAssumption DEF None
  <1>1. \A q \in Relay : OwnState(q)'
    BY Zenon DEF KeyInv, OwnState
  <1>2. ASSUME NEW q \in Relay, NEW s \in Relay PROVE Apart(q, s)'
    <2>1. CASE q # r /\ s # r
      BY <2>1 DEF KeyInv, Apart
    <2>2. CASE q = r
      BY <2>2, Zenon DEF Apart
    <2>3. CASE q # r /\ s = r
      BY <2>3, Zenon
    <2> QED
      BY <2>1, <2>2, <2>3, Zenon
  <1>3. ASSUME NEW t \in Token, candidate[t] # None PROVE Proposed(t)'
    <2>1. peer[t] \in Relay /\ candidate[t] \in Nat
      BY <1>3 DEF LinkInv, LinkInvOf, TypeOK, Key
    <2>2. mem[peer[t]].key <= mem'[peer[t]].key
      <3>1. mem[peer[t]].key \in Nat
        BY <2>1 DEF TypeOK, Identity, Key
      <3> QED
        BY <2>1, <3>1
    <2>3. candidate[t] <= mem'[peer[t]].key
      <3>1. mem[peer[t]].key \in Nat /\ mem'[peer[t]].key \in Nat
        BY <2>1 DEF TypeOK, Identity, Key
      <3> QED
        BY <1>3, <2>1, <2>2, <3>1 DEF KeyInv, Proposed
    <2>4. ASSUME NEW q \in Relay PROVE (Matches(file[q], t) /\ Matches(mem[q], t))'
      BY <1>3, <2>4 DEF KeyInv, Proposed, Matches
    <2> QED
      BY <2>3, <2>4, Zenon DEF Proposed
  <1>4. \A t \in Token : Proposed(t)'
    BY <1>3, Zenon DEF Proposed
  <1>5. \A m \in Machine : BoundWasProposed(m)'
    BY Zenon DEF KeyInv, BoundWasProposed
  <1> QED
    BY <1>1, <1>2, <1>4, <1>5, Zenon DEF KeyInv

(* Identities stay apart, and a proposed one stays with its attempt.       *)
LEMMA KeyStep ==
    TypeOK /\ TypeOK' /\ LinkInv /\ RelayInv /\ KeyInv /\ [Next]_vars => KeyInv'
  <1> SUFFICES ASSUME TypeOK, TypeOK', LinkInv, RelayInv, KeyInv, [Next]_vars
               PROVE  KeyInv'
    OBVIOUS
  <1> USE EnrollmentAssumption DEF None
  <1>1. CASE UNCHANGED <<file, mem, candidate, peer, tokenOf, attemptRev, boundKey, boundRev>>
    BY <1>1
       DEF TypeOK, LinkInv, LinkInvOf, KeyInv, OwnState, Apart, Proposed, BoundWasProposed,
           Matches
  <1>2. ASSUME NEW m \in Machine, NEW t \in Token, CreateMachine(m, t) PROVE KeyInv'
    BY <1>2, SMTT(20)
       DEF TypeOK, LinkInv, LinkInvOf, KeyInv, OwnState, Apart, Proposed, BoundWasProposed,
           Matches, machines, tokens, attempts, api, session, relays, CreateMachine, NewToken
  <1>3. ASSUME NEW m \in Machine, NEW t \in Token, IssueCommit(m, t) PROVE KeyInv'
    BY <1>3
       DEF TypeOK, LinkInv, LinkInvOf, KeyInv, OwnState, Apart, Proposed, BoundWasProposed,
           Matches, machines, tokens, attempts, api, session, relays, IssueCommit, NewToken
  <1>4. ASSUME NEW m \in Machine, NEW to \in {"pending", "disabled"}, Transition(m, to)
        PROVE  KeyInv'
    <2>1. UNCHANGED <<file, mem, peer, candidate, tokenOf, attemptRev>>
      BY <1>4, Zenon DEF Transition, session, relays
    <2>2. /\ boundKey'[m] = None
          /\ \A o \in Machine : o # m => boundKey'[o] = boundKey[o] /\ boundRev'[o] = boundRev[o]
      BY <1>4, SMTT(20) DEF Transition, TypeOK
    <2>3. \A o \in Machine : BoundWasProposed(o)'
      BY <2>1, <2>2, SMTT(20) DEF KeyInv, BoundWasProposed
    <2> QED
      BY <2>1, <2>3, SMTT(20) DEF KeyInv, OwnState, Apart, Proposed, Matches
  <1>5. ASSUME NEW r \in Relay, NEW n \in Node, AcceptToken(r, n) PROVE KeyInv'
    BY <1>5
       DEF TypeOK, LinkInv, LinkInvOf, KeyInv, OwnState, Apart, Proposed, BoundWasProposed,
           Matches, machines, tokens, attempts, api, session, relays, AcceptToken, Acceptable
  <1>6. ASSUME NEW t \in Token, ReceiveSetup(t) PROVE KeyInv'
    <2> DEFINE r == peer[t]
    <2>1. r \in Relay /\ proc[r] \in {"setup", "stream"} /\ using[r] = t /\ candidate[t] = None
      BY <1>6, Zenon DEF ReceiveSetup, Connected, LinkInv, LinkInvOf
    <2>2. /\ mem[r].key # None /\ mem[r].machine = tokenOf[t] /\ mem[r].rev = attemptRev[t]
          /\ mem[r].key \in Nat
      BY <2>1 DEF RelayInv, RelayInvOf, TypeOK, Identity, Key
    <2>3. candidate'[t] = mem[r].key /\ \A u \in Token : u # t => candidate'[u] = candidate[u]
      BY <1>6 DEF ReceiveSetup, TypeOK
    <2>4. UNCHANGED <<file, mem, peer, tokenOf, attemptRev, boundKey, boundRev>>
      BY <1>6, Zenon DEF ReceiveSetup, machines, tokens, attempts, relays
    <2> HIDE DEF r
    <2>5. \A u \in Token : u # t => Proposed(u)'
      BY <2>3, <2>4 DEF KeyInv, Proposed, Matches
    <2>6. ASSUME NEW q \in Relay
          PROVE  (Matches(file[q], t) /\ Matches(mem[q], t))'
      <3>1. CASE q = r
        BY <2>1, <2>2, <2>3, <2>4, <3>1, Zenon DEF KeyInv, OwnState, Matches
      <3>2. CASE q # r
        BY <2>1, <2>2, <2>3, <2>4, <3>2 DEF KeyInv, Apart, Matches
      <3> QED
        BY <3>1, <3>2, Zenon
    <2>7. Proposed(t)'
      BY <2>2, <2>3, <2>4, <2>6 DEF Proposed, r
    <2>8. \A m \in Machine : BoundWasProposed(m)'
      BY <2>1, <2>3, <2>4 DEF KeyInv, BoundWasProposed
    <2> QED
      BY <2>4, <2>5, <2>7, <2>8, Zenon DEF KeyInv, OwnState, Apart
  <1>7. ASSUME NEW t \in Token, Activate(t) PROVE KeyInv'
    <2>1. UNCHANGED <<file, mem, peer, candidate, tokenOf, attemptRev>>
      BY <1>7, Zenon DEF Activate, tokens, relays
    <2>2. \A m \in Machine : BoundWasProposed(m)'
      <3>1. CASE Activatable(t)
        <4>1. /\ boundKey' = [boundKey EXCEPT ![tokenOf[t]] = candidate[t]]
              /\ boundRev' = [boundRev EXCEPT ![tokenOf[t]] = attemptRev[t]]
          BY <1>7, <3>1, Zenon DEF Activate
        <4>2. \A m \in Machine : m = tokenOf[t] => BoundWasProposed(m)'
          <5>1. tokenOf[t] \in Machine
            BY <3>1, Zenon DEF Activatable, LinkInv, LinkInvOf
          <5> QED
            BY <2>1, <4>1, <5>1 DEF TypeOK, BoundWasProposed
        <4>3. \A m \in Machine : m # tokenOf[t] => BoundWasProposed(m)'
          BY <2>1, <4>1 DEF TypeOK, KeyInv, BoundWasProposed
        <4> QED
          BY <4>2, <4>3, Zenon
      <3>2. CASE ~Activatable(t)
        BY <1>7, <2>1, <3>2 DEF Activate, KeyInv, BoundWasProposed
      <3> QED
        BY <3>1, <3>2, Zenon
    <2> QED
      BY <2>1, <2>2 DEF KeyInv, OwnState, Apart, Proposed, Matches
  <1>8. ASSUME NEW r \in Relay, NEW t \in Token, StartEnroll(r, t) PROVE KeyInv'
    <2>0. TypeOK' /\ UNCHANGED <<candidate, peer, tokenOf, attempt, attemptRev, boundKey, boundRev>>
      BY <1>8, Zenon DEF StartEnroll, machines, tokens, attempts, session
    <2>1. ASSUME mem' = [mem EXCEPT ![r] = file[r]], UNCHANGED file PROVE KeyInv'
      <3>1. mem'[r] = file[r] /\ \A q \in Relay : q # r => mem'[q] = mem[q]
        BY <2>1 DEF TypeOK
      <3>2. OwnState(r)' /\ mem[r].key <= mem'[r].key
        <4>1. mem[r].key \in Nat /\ file[r].key \in Nat
          BY SMTT(20) DEF TypeOK, Identity, Key
        <4> QED
          BY <2>1, <3>1, <4>1 DEF KeyInv, OwnState
      <3>3. \A q \in Relay : q # r => Apart(r, q)' /\ Apart(q, r)'
        BY <2>1, <3>1, SMTT(20) DEF KeyInv, Apart
      <3>4. \A u \in Token : candidate[u] # None => Matches(file'[r], u) /\ Matches(mem'[r], u)
        BY <2>1, <3>1, Zenon DEF KeyInv, Proposed
      <3> QED
        BY <2>0, <2>1, <3>1, <3>2, <3>3, <3>4, OneStateChanges, Zenon
    <2>2. ASSUME NEW k \in Key, Fresh(k), file'[r].key = k,
                 \A q \in Relay : q # r => file'[q] = file[q] /\ mem'[q] = mem[q],
                 mem'[r] = file'[r] \/ mem'[r] = mem[r]
          PROVE  KeyInv'
      <3>1. \A q \in Relay : /\ file[q].key \in Nat /\ mem[q].key \in Nat
                              /\ file[q].key < k /\ mem[q].key < k
        BY <2>2 DEF TypeOK, Identity, Key, Fresh
      <3>2. OwnState(r)' /\ mem[r].key <= mem'[r].key
        BY <2>2, <3>1 DEF OwnState, Key
      <3>3. \A q \in Relay : q # r => Apart(r, q)' /\ Apart(q, r)'
        BY <2>2, <3>1 DEF KeyInv, Apart, Key
      <3>4. ASSUME NEW u \in Token, candidate[u] # None
            PROVE  Matches(file'[r], u) /\ Matches(mem'[r], u)
        <4>1. peer[u] \in Relay /\ candidate[u] \in Nat /\ candidate[u] <= mem[peer[u]].key
          BY <3>4 DEF LinkInv, LinkInvOf, TypeOK, Key, KeyInv, Proposed
        <4>2. candidate[u] # k
          BY <3>1, <4>1 DEF Key
        <4> QED
          BY <2>2, <3>4, <4>2, SMTT(20) DEF KeyInv, Proposed, Matches
      <3> QED
        BY <2>0, <2>2, <3>2, <3>3, <3>4, OneStateChanges, Zenon
    <2>3. CASE UNCHANGED file
      BY <1>8, <2>1, <2>3, Zenon DEF StartEnroll
    <2>4. ASSUME NEW k \in Key, Fresh(k), file' = [file EXCEPT ![r].key = k] PROVE KeyInv'
      <3>1. file'[r].key = k /\ \A q \in Relay : q # r => file'[q] = file[q]
        <4>1. file[r] \in Identity /\ file'[r] = [file[r] EXCEPT !.key = k]
          BY <2>4 DEF TypeOK
        <4> QED
          BY <2>4, <4>1 DEF TypeOK, Identity
      <3>2. mem'[r] = file'[r] /\ \A q \in Relay : q # r => mem'[q] = mem[q]
        BY <1>8 DEF StartEnroll, TypeOK
      <3> QED
        BY <2>2, <2>4, <3>1, <3>2, Zenon
    <2> QED
      BY <1>8, <2>3, <2>4, Zenon DEF StartEnroll
  <1>9. ASSUME NEW r \in Relay, ReceiveAccepted(r) PROVE KeyInv'
    <2>0. TypeOK' /\ UNCHANGED <<candidate, peer, tokenOf, attempt, attemptRev, boundKey, boundRev>>
      BY <1>9, Zenon DEF ReceiveAccepted, machines, tokens, attempts, session
    <2> DEFINE S == [mem[r] EXCEPT !.machine = tokenOf[using[r]], !.rev = attemptRev[using[r]]]
    <2>1. mem[r].rev = None
      BY <1>9, Zenon DEF ReceiveAccepted, RelayInv, RelayInvOf
    <2>2. S.key = mem[r].key
      BY DEF TypeOK, Identity
    <2>3. /\ file'[r] = S /\ mem'[r] = S
          /\ \A q \in Relay : q # r => file'[q] = file[q] /\ mem'[q] = mem[q]
      BY <1>9 DEF ReceiveAccepted, Persist, TypeOK
    <2> HIDE DEF S
    <2>4. OwnState(r)' /\ mem[r].key <= mem'[r].key
      <3>1. mem[r].key \in Nat
        BY DEF TypeOK, Identity, Key
      <3> QED
        BY <2>2, <2>3, <3>1 DEF OwnState
    <2>5. \A q \in Relay : q # r => Apart(r, q)' /\ Apart(q, r)'
      BY <2>2, <2>3 DEF KeyInv, Apart
    <2>6. ASSUME NEW u \in Token, candidate[u] # None
          PROVE  Matches(file'[r], u) /\ Matches(mem'[r], u)
      <3>1. attemptRev[u] # None
        BY <2>6 DEF LinkInv, LinkInvOf, Revision
      <3>2. mem[r].key # candidate[u]
        BY <2>1, <2>6, <3>1, Zenon DEF KeyInv, Proposed, Matches
      <3> QED
        BY <2>2, <2>3, <3>2, Zenon DEF Matches
    <2> QED
      BY <2>0, <2>3, <2>4, <2>5, <2>6, OneStateChanges, Zenon
  <1>10. ASSUME NEW r \in Relay, ReceiveActivated(r) PROVE KeyInv'
    <2>0. TypeOK' /\ UNCHANGED <<candidate, peer, tokenOf, attempt, attemptRev, boundKey, boundRev>>
      BY <1>10, Zenon DEF ReceiveActivated, machines, tokens, attempts, session
    <2> DEFINE S == [mem[r] EXCEPT !.rev = attemptRev[using[r]]]
    <2>1. mem[r].rev = attemptRev[using[r]]
      BY <1>10, Zenon DEF ReceiveActivated, RelayInv, RelayInvOf
    <2>2. S.key = mem[r].key /\ S.machine = mem[r].machine /\ S.rev = mem[r].rev
      BY <2>1 DEF TypeOK, Identity
    <2>3. /\ file'[r] = S /\ mem'[r] = S
          /\ \A q \in Relay : q # r => file'[q] = file[q] /\ mem'[q] = mem[q]
      BY <1>10 DEF ReceiveActivated, Persist, TypeOK
    <2> HIDE DEF S
    <2>4. OwnState(r)' /\ mem[r].key <= mem'[r].key
      <3>1. mem[r].key \in Nat
        BY DEF TypeOK, Identity, Key
      <3> QED
        BY <2>2, <2>3, <3>1 DEF OwnState
    <2>5. \A q \in Relay : q # r => Apart(r, q)' /\ Apart(q, r)'
      BY <2>2, <2>3 DEF KeyInv, Apart
    <2>6. \A u \in Token : candidate[u] # None => Matches(file'[r], u) /\ Matches(mem'[r], u)
      BY <2>2, <2>3 DEF KeyInv, Proposed, Matches
    <2> QED
      BY <2>0, <2>3, <2>4, <2>5, <2>6, OneStateChanges, Zenon
  <1>11. ASSUME NEW r \in Relay, StartRun(r) PROVE KeyInv'
    <2>0. TypeOK' /\ UNCHANGED <<candidate, peer, tokenOf, attempt, attemptRev, boundKey, boundRev>>
      BY <1>11, Zenon DEF StartRun, machines, tokens, attempts, session
    <2>1. ASSUME mem' = [mem EXCEPT ![r] = file[r]], UNCHANGED file PROVE KeyInv'
      <3>1. mem'[r] = file[r] /\ \A q \in Relay : q # r => mem'[q] = mem[q]
        BY <2>1 DEF TypeOK
      <3>2. OwnState(r)' /\ mem[r].key <= mem'[r].key
        <4>1. mem[r].key \in Nat /\ file[r].key \in Nat
          BY SMTT(20) DEF TypeOK, Identity, Key
        <4> QED
          BY <2>1, <3>1, <4>1 DEF KeyInv, OwnState
      <3>3. \A q \in Relay : q # r => Apart(r, q)' /\ Apart(q, r)'
        BY <2>1, <3>1, SMTT(20) DEF KeyInv, Apart
      <3>4. \A u \in Token : candidate[u] # None => Matches(file'[r], u) /\ Matches(mem'[r], u)
        BY <2>1, <3>1, Zenon DEF KeyInv, Proposed
      <3> QED
        BY <2>0, <2>1, <3>1, <3>2, <3>3, <3>4, OneStateChanges, Zenon
    <2> QED
      BY <1>11, <2>1, Zenon DEF StartRun
  <1>12. ASSUME NEW r \in Relay, Reset(r) PROVE KeyInv'
    <2>0. TypeOK' /\ UNCHANGED <<candidate, peer, tokenOf, attempt, attemptRev, boundKey, boundRev>>
      BY <1>12, Zenon DEF Reset, machines, tokens, attempts, session
    <2>1. ASSUME NEW k \in Key, Fresh(k), file'[r].key = k,
                 \A q \in Relay : q # r => file'[q] = file[q] /\ mem'[q] = mem[q],
                 mem'[r] = file'[r] \/ mem'[r] = mem[r]
          PROVE  KeyInv'
      <3>1. \A q \in Relay : /\ file[q].key \in Nat /\ mem[q].key \in Nat
                              /\ file[q].key < k /\ mem[q].key < k
        BY <2>1 DEF TypeOK, Identity, Key, Fresh
      <3>2. OwnState(r)' /\ mem[r].key <= mem'[r].key
        BY <2>1, <3>1, SMTT(20) DEF OwnState, Key
      <3>3. \A q \in Relay : q # r => Apart(r, q)' /\ Apart(q, r)'
        BY <2>1, <3>1, SMTT(20) DEF KeyInv, Apart, Key
      <3>4. ASSUME NEW u \in Token, candidate[u] # None
            PROVE  Matches(file'[r], u) /\ Matches(mem'[r], u)
        <4>1. peer[u] \in Relay /\ candidate[u] \in Nat /\ candidate[u] <= mem[peer[u]].key
          BY <3>4 DEF LinkInv, LinkInvOf, TypeOK, Key, KeyInv, Proposed
        <4>2. candidate[u] # k
          BY <3>1, <4>1 DEF Key
        <4> QED
          BY <2>1, <3>4, <4>2, SMTT(20) DEF KeyInv, Proposed, Matches
      <3> QED
        BY <2>0, <2>1, <3>2, <3>3, <3>4, OneStateChanges, Zenon
    <2>2. PICK k \in Key : Fresh(k) /\ file' = [file EXCEPT ![r] = [Blank EXCEPT !.key = k]]
      BY <1>12, Zenon DEF Reset
    <2>3. file'[r].key = k /\ \A q \in Relay : q # r => file'[q] = file[q]
      BY <2>2 DEF TypeOK, Blank
    <2>4. UNCHANGED mem
      BY <1>12, Zenon DEF Reset
    <2> QED
      BY <2>1, <2>2, <2>3, <2>4, Zenon
  <1>13. ASSUME NEW m \in Machine,
                RecoverExpired(m) \/ IssueBegin(m) \/ CancelToken(m) \/
                ReEnrollDisabled(m)
         PROVE  KeyInv'
    BY <1>1, <1>13, Zenon
       DEF machines, tokens, attempts, api, session, relays, RecoverExpired, IssueBegin,
           CancelToken, ReEnrollDisabled, Recover
  <1>14. ASSUME NEW t \in Token,
                PresentCredential(t) \/ Prove(t) \/ Interrupt(t) \/ FailAttempt(t) \/
                TokenExpires(t) \/ AttemptExpires(t)
         PROVE  KeyInv'
    BY <1>1, <1>14, Zenon
       DEF machines, tokens, attempts, api, session, relays, PresentCredential, Prove,
           Interrupt, FailAttempt, TokenExpires, AttemptExpires
  <1>15. ASSUME NEW r \in Relay,
                ConfirmReady(r) \/ EnrollmentEnds(r) \/ OpenTunnel(r) \/ RelayEnds(r)
         PROVE  KeyInv'
    BY <1>1, <1>15, Zenon
       DEF machines, tokens, attempts, api, session, relays, ConfirmReady, EnrollmentEnds,
           OpenTunnel, RelayEnds
  <1>16. ASSUME NEW n \in Node,
                BeginDrain(n) \/ LoseNode(n)
         PROVE  KeyInv'
    BY <1>1, <1>16, Zenon
       DEF machines, tokens, attempts, api, session, relays, BeginDrain, LoseNode
  <1>17. CASE UNCHANGED vars
    BY <1>1, <1>17, Zenon DEF vars, machines, tokens, attempts, api, session, relays
  <1> QED
    BY Zenon, <1>2, <1>3, <1>4, <1>5, <1>6, <1>7, <1>8, <1>9, <1>10, <1>11, <1>12, <1>13, <1>14,
       <1>15, <1>16, <1>17
       DEF Next, ApiStep, SessionStep, RelayStep, EnvironmentStep

-----------------------------------------------------------------------------
(* Before anything is created there is nothing to disagree.                *)
LEMMA InitInv == Init => IInv
  <1> SUFFICES ASSUME Init PROVE IInv
    OBVIOUS
  <1> USE EnrollmentAssumption DEF None, Init
  <1>1. TypeOK
    BY DEF TypeOK, Revision, Identity, Blank
  <1>2. LinkInv
    BY DEF LinkInv, LinkInvOf
  <1>3. RelayInv
    BY DEF RelayInv, RelayInvOf, Complete, Blank
  <1>4. KeyInv
    BY DEF KeyInv, OwnState, Apart, Proposed, BoundWasProposed, Blank
  <1>5. LedgerInv /\ PendingIsClean /\ VerifyingHasReason /\ BoundIsCurrent
    BY DEF LedgerInv, PendingIsClean, VerifyingHasReason, BoundIsCurrent, Verifying
  <1> QED
    BY <1>1, <1>2, <1>3, <1>4, <1>5 DEF IInv

(* The invariants hold together in every reachable state.                  *)
LEMMA Inductive == Spec => []IInv
  <1>1. IInv /\ [Next]_vars => IInv'
    BY TypeStep, LinkStep, RelayInvStep, KeyStep, LedgerStep, CleanStep, BoundStep, ReasonStep
       DEF IInv
  <1> QED
    BY InitInv, <1>1, PTL DEF Spec

(* Rows, connections and state files always have their types.              *)
THEOREM EnrollmentTypeOK == Spec => []TypeOK
  <1>1. IInv => TypeOK
    BY DEF IInv
  <1> QED
    BY Inductive, <1>1, PTL

(* A pending, disabled or absent Machine has no live attempt and no        *)
(* binding, whatever failed, expired or answered late before               *)
(* (fail_attempt, recover_expired_attempts and                             *)
(* commit_active_machine_transition).                                      *)
THEOREM PendingStaysClean == Spec => []PendingIsClean
  <1>1. IInv => PendingIsClean
    BY DEF IInv
  <1> QED
    BY Inductive, <1>1, PTL

(* A Machine is never left `verifying' without a live attempt of its       *)
(* revision or a binding (accept_token, activate, fail_attempt and the     *)
(* recovery).                                                              *)
THEOREM VerifyingAlwaysHasReason == Spec => []VerifyingHasReason
  <1>1. IInv => VerifyingHasReason
    BY DEF IInv
  <1> QED
    BY Inductive, <1>1, PTL

(* No failure or recovery undoes a binding under an active Machine, and a  *)
(* binding always has the Machine's revision and a pinned host key.        *)
THEOREM BindingStaysCurrent == Spec => []BoundIsCurrent
  <1>1. IInv => BoundIsCurrent
    BY DEF IInv
  <1> QED
    BY Inductive, <1>1, PTL

(* Wherever the Relay or its connection died, a state file with the bound  *)
(* identity names the Machine and the revision it can claim                *)
(* (state.persist before Setup and after Activated).                       *)
THEOREM BoundRelayCanClaim == Spec => []BindingIsClaimable
  <1>1. IInv => BindingIsClaimable
    BY DEF IInv, KeyInv, Proposed, BoundWasProposed, Matches, BindingIsClaimable
  <1> QED
    BY Inductive, <1>1, PTL

=============================================================================
