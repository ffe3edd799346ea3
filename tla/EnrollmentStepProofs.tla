------------------------ MODULE EnrollmentStepProofs ------------------------
(***************************************************************************)
(* Every step of Enrollment keeps the types, the links between tokens,     *)
(* attempts and connections (LinkInv), what a Relay process has loaded     *)
(* (RelayInv), and the agreement of the Machine's lifecycle with its       *)
(* attempts and its binding.                                               *)
(***************************************************************************)
EXTENDS EnrollmentInv, TLAPS

(* The rows, the connections and the state files keep their types.         *)
LEMMA TypeStep ==
    TypeOK /\ LinkInv /\ RelayInv /\ [Next]_vars => TypeOK'
  <1> SUFFICES ASSUME TypeOK, LinkInv, RelayInv, [Next]_vars
               PROVE  TypeOK'
    OBVIOUS
  <1> USE EnrollmentAssumption DEF None
  <1>1. ASSUME NEW m \in Machine, NEW t \in Token, CreateMachine(m, t) PROVE TypeOK'
    BY <1>1, Zenon
       DEF TypeOK, machines, tokens, attempts, api, session, relays, CreateMachine, NewToken
  <1>2. ASSUME NEW m \in Machine, NEW t \in Token, IssueCommit(m, t) PROVE TypeOK'
    <2>1. CASE NewToken(m, t)
      BY <1>2, <2>1, Zenon
         DEF TypeOK, machines, tokens, attempts, api, session, relays, IssueCommit, NewToken
    <2>2. CASE UNCHANGED tokens
      BY <1>2, <2>2, Zenon
         DEF TypeOK, machines, tokens, attempts, api, session, relays, IssueCommit
    <2> QED
      BY <1>2, <2>1, <2>2, Zenon DEF IssueCommit
  <1>3. ASSUME NEW m \in Machine, RecoverExpired(m) PROVE TypeOK'
    BY <1>3, Zenon
       DEF TypeOK, machines, tokens, attempts, api, session, relays, RecoverExpired,
           Recover, Expired, Reverts
  <1>4. ASSUME NEW m \in Machine, IssueBegin(m) PROVE TypeOK'
    BY <1>4
       DEF TypeOK, machines, tokens, attempts, api, session, relays, IssueBegin, Recover,
           Expired, Reverts
  <1>5. ASSUME NEW m \in Machine, CancelToken(m) PROVE TypeOK'
    BY <1>5, Zenon DEF TypeOK, machines, tokens, attempts, api, session, relays, CancelToken
  <1>6. ASSUME NEW m \in Machine, NEW to \in {"pending", "disabled"}, Transition(m, to)
        PROVE  TypeOK'
    BY <1>6
       DEF TypeOK, machines, tokens, attempts, api, session, relays, Transition,
           NextRevision, Revision
  <1>7. ASSUME NEW m \in Machine, ReEnrollDisabled(m) PROVE TypeOK'
    BY <1>7, Zenon DEF TypeOK, machines, tokens, attempts, api, session, relays,
       ReEnrollDisabled
  <1>8. ASSUME NEW r \in Relay, NEW n \in Node, AcceptToken(r, n) PROVE TypeOK'
    BY <1>8
       DEF TypeOK, machines, tokens, attempts, api, session, relays, AcceptToken,
           Acceptable, LinkInv, LinkInvOf, Live, RelayInv, RelayInvOf
  <1>9. ASSUME NEW t \in Token, ReceiveSetup(t) PROVE TypeOK'
    BY <1>9, Zenon
       DEF TypeOK, machines, tokens, attempts, api, session, relays, ReceiveSetup,
           Connected, LinkInv, LinkInvOf, Live, Identity
  <1>10. ASSUME NEW t \in Token, PresentCredential(t) PROVE TypeOK'
    BY <1>10, Zenon
       DEF TypeOK, machines, tokens, attempts, api, session, relays, PresentCredential, Live
  <1>11. ASSUME NEW t \in Token, Prove(t) PROVE TypeOK'
    BY <1>11, Zenon DEF TypeOK, machines, tokens, attempts, api, session, relays, Prove, Live
  <1>12. ASSUME NEW t \in Token, Activate(t) PROVE TypeOK'
    <2>1. tokenOf[t] \in Machine /\ attemptRev[t] \in Revision
      BY <1>12, Zenon DEF Activate, LinkInv, LinkInvOf
    <2>2. CASE Activatable(t)
      <3>1. /\ boundKey' \in [Machine -> Key \cup {None}]
            /\ boundRev' \in [Machine -> Revision \cup {None}]
        BY <1>12, <2>1, <2>2 DEF TypeOK, Activate
      <3>2. host' \in [Machine -> BOOLEAN]
        <4>1. host \in [Machine -> BOOLEAN] /\ host' = [host EXCEPT ![tokenOf[t]] = TRUE]
          BY <1>12, <2>2, Zenon DEF TypeOK, Activate, Pin
        <4> QED
          BY <4>1, Zenon
      <3>3. attempt' \in [Token -> {"none", "verifying", "activated", "failed"}]
        BY <1>12, <2>2 DEF TypeOK, Activate
      <3>4. phase' \in [Token -> Live \cup {"none", "reporting", "failing", "over"}]
        BY <1>12, <2>2 DEF TypeOK, Activate
      <3> QED
        BY <1>12, <3>1, <3>2, <3>3, <3>4, Zenon
           DEF TypeOK, Activate, machines, tokens, attempts, api, session, relays
    <2>3. CASE ~Activatable(t)
      BY <1>12, <2>3 DEF TypeOK, Activate, machines, tokens, attempts, api, session, relays
    <2> QED
      BY <2>2, <2>3, Zenon
  <1>13. ASSUME NEW t \in Token, Interrupt(t) PROVE TypeOK'
    BY <1>13, Zenon DEF TypeOK, machines, tokens, attempts, api, session, relays, Interrupt,
       Live
  <1>14. ASSUME NEW t \in Token, FailAttempt(t) PROVE TypeOK'
    <2>1. attempt' \in [Token -> {"none", "verifying", "activated", "failed"}]
      BY <1>14 DEF TypeOK, FailAttempt
    <2>2. life' \in [Machine -> {"absent", "pending", "verifying", "active", "disabled"}]
      BY <1>14 DEF TypeOK, FailAttempt
    <2>3. phase' \in [Token -> Live \cup {"none", "reporting", "failing", "over"}]
      BY <1>14, Zenon DEF TypeOK, FailAttempt
    <2> QED
      BY <1>14, <2>1, <2>2, <2>3, Zenon
         DEF TypeOK, FailAttempt, machines, tokens, attempts, api, session, relays
  <1>15. ASSUME NEW r \in Relay, NEW t \in Token, StartEnroll(r, t) PROVE TypeOK'
    <2>1. file' \in [Relay -> Identity]
      <3>1. CASE UNCHANGED file
        BY <3>1, Zenon DEF TypeOK
      <3>2. ASSUME NEW k \in Key, file' = [file EXCEPT ![r].key = k]
            PROVE  file' \in [Relay -> Identity]
        <4>1. file[r] \in Identity
          BY Zenon DEF TypeOK
        <4>2. [file[r] EXCEPT !.key = k] \in Identity
          BY <4>1, Zenon DEF Identity
        <4> QED
          BY <3>2, <4>2, Zenon DEF TypeOK
      <3> QED
        BY <1>15, <3>1, <3>2, Zenon DEF StartEnroll
    <2>2. mem' \in [Relay -> Identity]
      BY <1>15, <2>1, Zenon DEF TypeOK, StartEnroll
    <2>3. /\ proc' \in [Relay -> {"down", "token", "setup", "stream", "confirm", "run"}]
          /\ using' \in [Relay -> Token \cup {None}]
      BY <1>15, Zenon DEF TypeOK, StartEnroll
    <2> QED
      BY <1>15, <2>1, <2>2, <2>3, Zenon
         DEF TypeOK, StartEnroll, machines, tokens, attempts, api, session, relays
  <1>16. ASSUME NEW r \in Relay, ReceiveAccepted(r) PROVE TypeOK'
    <2> DEFINE S == [mem[r] EXCEPT !.machine = tokenOf[using[r]], !.rev = attemptRev[using[r]]]
    <2>1. using[r] \in Token
      BY <1>16, Zenon DEF ReceiveAccepted, RelayInv, RelayInvOf
    <2>2. S \in Identity
      <3>1. mem[r] \in Identity /\ tokenOf[using[r]] \in Machine \cup {None}
        BY <2>1 DEF TypeOK
      <3>2. attemptRev[using[r]] \in Revision \cup {None}
        BY <2>1, Zenon DEF TypeOK
      <3> QED
        BY <3>1, <3>2, Zenon DEF Identity
    <2>3. file' \in [Relay -> Identity] /\ mem' \in [Relay -> Identity]
      BY <1>16, <2>2, Zenon DEF TypeOK, ReceiveAccepted, Persist
    <2> QED
      BY <1>16, <2>3, Zenon
         DEF TypeOK, ReceiveAccepted, machines, tokens, attempts, api, session, relays
  <1>17. ASSUME NEW r \in Relay, ConfirmReady(r) PROVE TypeOK'
    BY <1>17, Zenon DEF TypeOK, machines, tokens, attempts, api, session, relays, ConfirmReady
  <1>18. ASSUME NEW r \in Relay, ReceiveActivated(r) PROVE TypeOK'
    <2> DEFINE S == [mem[r] EXCEPT !.rev = attemptRev[using[r]]]
    <2>1. using[r] \in Token
      BY <1>18, Zenon DEF ReceiveActivated, RelayInv, RelayInvOf
    <2>2. S \in Identity
      <3>1. mem[r] \in Identity /\ tokenOf[using[r]] \in Machine \cup {None}
        BY <2>1 DEF TypeOK
      <3>2. attemptRev[using[r]] \in Revision \cup {None}
        BY <2>1 DEF TypeOK
      <3> QED
        BY <3>1, <3>2, Zenon DEF Identity
    <2>3. file' \in [Relay -> Identity] /\ mem' \in [Relay -> Identity]
      BY <1>18, <2>2, Zenon DEF TypeOK, ReceiveActivated, Persist
    <2> QED
      BY <1>18, <2>3, Zenon
         DEF TypeOK, ReceiveActivated, machines, tokens, attempts, api, session, relays
  <1>19. ASSUME NEW r \in Relay, EnrollmentEnds(r) PROVE TypeOK'
    <2>1. /\ proc' \in [Relay -> {"down", "token", "setup", "stream", "confirm", "run"}]
          /\ using' \in [Relay -> Token \cup {None}]
      BY <1>19 DEF TypeOK, EnrollmentEnds
    <2> QED
      BY <1>19, <2>1, Zenon
         DEF TypeOK, EnrollmentEnds, machines, tokens, attempts, api, session, relays
  <1>20. ASSUME NEW r \in Relay, StartRun(r) PROVE TypeOK'
    BY <1>20, Zenon DEF TypeOK, machines, tokens, attempts, api, session, relays, StartRun
  <1>21. ASSUME NEW r \in Relay, OpenTunnel(r) PROVE TypeOK'
    <2>1. /\ proc' \in [Relay -> {"down", "token", "setup", "stream", "confirm", "run"}]
          /\ using' \in [Relay -> Token \cup {None}]
      BY <1>21 DEF TypeOK, OpenTunnel
    <2>2. life' \in [Machine -> {"absent", "pending", "verifying", "active", "disabled"}]
      BY <1>21, Zenon DEF TypeOK, OpenTunnel
    <2> QED
      BY <1>21, <2>1, <2>2, Zenon
         DEF TypeOK, OpenTunnel, machines, tokens, attempts, api, session, relays
  <1>22. ASSUME NEW r \in Relay, RelayEnds(r) PROVE TypeOK'
    BY <1>22, Zenon DEF TypeOK, machines, tokens, attempts, api, session, relays, RelayEnds
  <1>23. ASSUME NEW r \in Relay, Reset(r) PROVE TypeOK'
    BY <1>23
       DEF TypeOK, machines, tokens, attempts, api, session, relays, Reset, Fresh, Identity,
           Blank
  <1>24. ASSUME NEW t \in Token, TokenExpires(t) PROVE TypeOK'
    BY <1>24 DEF TypeOK, machines, tokens, attempts, api, session, relays, TokenExpires
  <1>25. ASSUME NEW t \in Token, AttemptExpires(t) PROVE TypeOK'
    BY <1>25 DEF TypeOK, machines, tokens, attempts, api, session, relays, AttemptExpires
  <1>26. ASSUME NEW n \in Node, BeginDrain(n) PROVE TypeOK'
    BY <1>26, Zenon DEF TypeOK, machines, tokens, attempts, api, session, relays, BeginDrain
  <1>27. ASSUME NEW n \in Node, LoseNode(n) PROVE TypeOK'
    BY <1>27, Zenon DEF TypeOK, machines, tokens, attempts, api, session, relays, LoseNode
  <1>28. CASE UNCHANGED vars
    BY <1>28, Zenon DEF TypeOK, vars, machines, tokens, attempts, api, session, relays
  <1> QED
    BY Zenon, <1>1, <1>2, <1>3, <1>4, <1>5, <1>6, <1>7, <1>8, <1>9, <1>10, <1>11, <1>12, <1>13,
       <1>14, <1>15, <1>16, <1>17, <1>18, <1>19, <1>20, <1>21, <1>22, <1>23, <1>24, <1>25,
       <1>26, <1>27, <1>28
       DEF Next, ApiStep, SessionStep, RelayStep, EnvironmentStep

(* A connection belongs to an attempt, an attempt to a token, a token to a Machine. *)
LEMMA LinkStep ==
    TypeOK /\ LinkInv /\ RelayInv /\ [Next]_vars => LinkInv'
  <1> SUFFICES ASSUME TypeOK, LinkInv, RelayInv, [Next]_vars
               PROVE  LinkInv'
    OBVIOUS
  <1> USE EnrollmentAssumption DEF None
  <1>1. CASE UNCHANGED <<life, tokenOf, token, attempt, attemptRev, attemptNode, phase, peer, candidate>>
    BY <1>1, Zenon DEF TypeOK, LinkInv, LinkInvOf
  <1>2. ASSUME NEW m \in Machine, NEW t \in Token, CreateMachine(m, t) PROVE LinkInv'
    BY <1>2
       DEF TypeOK, LinkInv, LinkInvOf, machines, tokens, attempts, api, session, relays,
           CreateMachine, NewToken
  <1>3. ASSUME NEW m \in Machine, NEW t \in Token, IssueCommit(m, t) PROVE LinkInv'
    BY <1>3
       DEF TypeOK, LinkInv, LinkInvOf, machines, tokens, attempts, api, session, relays,
           IssueCommit, NewToken
  <1>4. ASSUME NEW m \in Machine, RecoverExpired(m) PROVE LinkInv'
    BY <1>4, Zenon
       DEF TypeOK, LinkInv, LinkInvOf, machines, tokens, attempts, api, session, relays,
           RecoverExpired, Recover, Expired, Reverts
  <1>5. ASSUME NEW m \in Machine, IssueBegin(m) PROVE LinkInv'
    BY <1>5, Zenon
       DEF TypeOK, LinkInv, LinkInvOf, machines, tokens, attempts, api, session, relays,
           IssueBegin, Recover, Expired, Reverts
  <1>6. ASSUME NEW m \in Machine, CancelToken(m) PROVE LinkInv'
    BY <1>6, SMTT(20)
       DEF TypeOK, LinkInv, LinkInvOf, machines, tokens, attempts, api, session, relays,
           CancelToken
  <1>7. ASSUME NEW m \in Machine, NEW to \in {"pending", "disabled"}, Transition(m, to)
        PROVE  LinkInv'
    BY <1>7
       DEF TypeOK, LinkInv, LinkInvOf, machines, tokens, attempts, api, session, relays,
           Transition, NextRevision
  <1>8. ASSUME NEW m \in Machine, ReEnrollDisabled(m) PROVE LinkInv'
    BY <1>8, Zenon
       DEF TypeOK, LinkInv, LinkInvOf, machines, tokens, attempts, api, session, relays,
           ReEnrollDisabled
  <1>9. ASSUME NEW r \in Relay, NEW n \in Node, AcceptToken(r, n) PROVE LinkInv'
    BY <1>9, SMTT(20)
       DEF TypeOK, LinkInv, LinkInvOf, machines, tokens, attempts, api, session, relays,
           AcceptToken, Acceptable
  <1>10. ASSUME NEW t \in Token, ReceiveSetup(t) PROVE LinkInv'
    BY <1>10
       DEF TypeOK, LinkInv, LinkInvOf, machines, tokens, attempts, api, session, relays,
           ReceiveSetup, Connected, RelayInv, RelayInvOf
  <1>11. ASSUME NEW t \in Token, PresentCredential(t) PROVE LinkInv'
    BY <1>11
       DEF TypeOK, LinkInv, LinkInvOf, machines, tokens, attempts, api, session, relays,
           PresentCredential
  <1>12. ASSUME NEW t \in Token, Prove(t) PROVE LinkInv'
    BY <1>12
       DEF TypeOK, LinkInv, LinkInvOf, machines, tokens, attempts, api, session, relays,
           Prove
  <1>13. ASSUME NEW t \in Token, Activate(t) PROVE LinkInv'
    BY <1>13
       DEF TypeOK, LinkInv, LinkInvOf, machines, tokens, attempts, api, session, relays,
           Activate, Activatable, Pin
  <1>14. ASSUME NEW t \in Token, Interrupt(t) PROVE LinkInv'
    BY <1>14
       DEF TypeOK, LinkInv, LinkInvOf, machines, tokens, attempts, api, session, relays,
           Interrupt, Live
  <1>15. ASSUME NEW t \in Token, FailAttempt(t) PROVE LinkInv'
    BY <1>15
       DEF TypeOK, LinkInv, LinkInvOf, machines, tokens, attempts, api, session, relays,
           FailAttempt, Failable
  <1>16. ASSUME NEW r \in Relay, NEW t \in Token, StartEnroll(r, t) PROVE LinkInv'
    BY <1>16
       DEF TypeOK, LinkInv, LinkInvOf, machines, tokens, attempts, api, session, relays,
           StartEnroll, Fresh, NotEnrolled
  <1>17. ASSUME NEW r \in Relay, ReceiveActivated(r) PROVE LinkInv'
    BY <1>17
       DEF TypeOK, LinkInv, LinkInvOf, machines, tokens, attempts, api, session, relays,
           ReceiveActivated, Persist
  <1>18. ASSUME NEW r \in Relay, OpenTunnel(r) PROVE LinkInv'
    BY <1>18
       DEF TypeOK, LinkInv, LinkInvOf, machines, tokens, attempts, api, session, relays,
           OpenTunnel, Claimable
  <1>19. ASSUME NEW n \in Node, LoseNode(n) PROVE LinkInv'
    BY <1>19, SMTT(20)
       DEF TypeOK, LinkInv, LinkInvOf, machines, tokens, attempts, api, session, relays,
           LoseNode
  <1>20. ASSUME NEW t \in Token,
                TokenExpires(t) \/ AttemptExpires(t)
         PROVE  LinkInv'
    BY <1>1, <1>20, Zenon
       DEF machines, tokens, attempts, api, session, relays, TokenExpires, AttemptExpires
  <1>21. ASSUME NEW r \in Relay,
                ReceiveAccepted(r) \/ ConfirmReady(r) \/ EnrollmentEnds(r) \/
                StartRun(r) \/ RelayEnds(r) \/ Reset(r)
         PROVE  LinkInv'
    BY <1>1, <1>21, Zenon
       DEF machines, tokens, attempts, api, session, relays, ReceiveAccepted, ConfirmReady,
           EnrollmentEnds, StartRun, RelayEnds, Reset, Persist
  <1>22. ASSUME NEW n \in Node,
                BeginDrain(n)
         PROVE  LinkInv'
    BY <1>1, <1>22, Zenon DEF machines, tokens, attempts, api, session, relays, BeginDrain
  <1>23. CASE UNCHANGED vars
    BY <1>1, <1>23, Zenon DEF vars, machines, tokens, attempts, api, session, relays
  <1> QED
    BY Zenon, <1>2, <1>3, <1>4, <1>5, <1>6, <1>7, <1>8, <1>9, <1>10, <1>11, <1>12, <1>13, <1>14,
       <1>15, <1>16, <1>17, <1>18, <1>19, <1>20, <1>21, <1>22, <1>23
       DEF Next, ApiStep, SessionStep, RelayStep, EnvironmentStep

(* A Relay process has loaded what its phase needs.                        *)
LEMMA RelayInvStep ==
    TypeOK /\ LinkInv /\ RelayInv /\ [Next]_vars => RelayInv'
  <1> SUFFICES ASSUME TypeOK, LinkInv, RelayInv, [Next]_vars
               PROVE  RelayInv'
    OBVIOUS
  <1> USE EnrollmentAssumption DEF None
  <1>1. CASE UNCHANGED <<tokenOf, attempt, attemptRev, peer, file, proc, mem, using>>
    BY <1>1, SMTT(20) DEF TypeOK, RelayInv, RelayInvOf, Complete, LinkInv, LinkInvOf
  <1>2. ASSUME NEW m \in Machine, NEW t \in Token, CreateMachine(m, t) PROVE RelayInv'
    BY <1>2
       DEF TypeOK, RelayInv, RelayInvOf, Complete, LinkInv, LinkInvOf, machines, tokens,
           attempts, api, session, relays, CreateMachine, NewToken
  <1>3. ASSUME NEW m \in Machine, NEW t \in Token, IssueCommit(m, t) PROVE RelayInv'
    BY <1>3, SMTT(20)
       DEF TypeOK, RelayInv, RelayInvOf, Complete, LinkInv, LinkInvOf, machines, tokens,
           attempts, api, session, relays, IssueCommit, NewToken
  <1>4. ASSUME NEW m \in Machine, RecoverExpired(m) PROVE RelayInv'
    BY <1>4, SMTT(20)
       DEF TypeOK, RelayInv, RelayInvOf, Complete, LinkInv, LinkInvOf, machines, tokens,
           attempts, api, session, relays, RecoverExpired, Recover, Expired, Reverts
  <1>5. ASSUME NEW m \in Machine, IssueBegin(m) PROVE RelayInv'
    BY <1>5, SMTT(20)
       DEF TypeOK, RelayInv, RelayInvOf, Complete, LinkInv, LinkInvOf, machines, tokens,
           attempts, api, session, relays, IssueBegin, Recover, Expired, Reverts
  <1>6. ASSUME NEW m \in Machine, NEW to \in {"pending", "disabled"}, Transition(m, to)
        PROVE  RelayInv'
    BY <1>6, SMTT(20)
       DEF TypeOK, RelayInv, RelayInvOf, Complete, LinkInv, LinkInvOf, machines, tokens,
           attempts, api, session, relays, Transition, NextRevision
  <1>7. ASSUME NEW r \in Relay, NEW n \in Node, AcceptToken(r, n) PROVE RelayInv'
    BY <1>7, SMTT(20)
       DEF TypeOK, RelayInv, RelayInvOf, Complete, LinkInv, LinkInvOf, machines, tokens,
           attempts, api, session, relays, AcceptToken, Acceptable
  <1>8. ASSUME NEW t \in Token, Activate(t) PROVE RelayInv'
    BY <1>8, SMTT(20)
       DEF TypeOK, RelayInv, RelayInvOf, Complete, LinkInv, LinkInvOf, machines, tokens,
           attempts, api, session, relays, Activate, Activatable, Pin
  <1>9. ASSUME NEW t \in Token, FailAttempt(t) PROVE RelayInv'
    BY <1>9
       DEF TypeOK, RelayInv, RelayInvOf, Complete, LinkInv, LinkInvOf, machines, tokens,
           attempts, api, session, relays, FailAttempt, Failable
  <1>10. ASSUME NEW r \in Relay, NEW t \in Token, StartEnroll(r, t) PROVE RelayInv'
    <2> SUFFICES ASSUME NEW q \in Relay PROVE RelayInvOf(q)'
      BY Zenon DEF RelayInv
    <2>1. CASE q # r
      <3>1. file'[q] = file[q] /\ mem'[q] = mem[q] /\ proc'[q] = proc[q] /\ using'[q] = using[q]
        BY <1>10, <2>1, SMTT(20) DEF TypeOK, StartEnroll
      <3> QED
        BY <1>10, <3>1
           DEF RelayInv, RelayInvOf, Complete, StartEnroll, machines, tokens, attempts, api,
               session, relays
    <2>2. CASE q = r
      <3>1. /\ file'[r].key # None /\ file'[r].rev = None
        <4>1. CASE file[r].key # None /\ UNCHANGED file
          BY <1>10, <4>1, Zenon DEF StartEnroll, NotEnrolled
        <4>2. ASSUME NEW k \in Key, file' = [file EXCEPT ![r].key = k]
              PROVE  file'[r].key # None /\ file'[r].rev = None
          <5>1. file[r] \in Identity /\ file'[r] = [file[r] EXCEPT !.key = k]
            BY <4>2 DEF TypeOK
          <5> QED
            BY <1>10, <5>1 DEF StartEnroll, NotEnrolled, Identity, Key
        <4> QED
          BY <1>10, <4>1, <4>2, Zenon DEF StartEnroll
      <3>2. mem'[r] = file'[r] /\ proc'[r] = "token" /\ using'[r] = t
        BY <1>10 DEF TypeOK, StartEnroll
      <3> QED
        BY <2>2, <3>1, <3>2, Zenon DEF RelayInvOf, Complete
    <2> QED
      BY <2>1, <2>2, Zenon
  <1>11. ASSUME NEW r \in Relay, ReceiveAccepted(r) PROVE RelayInv'
    BY <1>11, SMTT(20)
       DEF TypeOK, RelayInv, RelayInvOf, Complete, LinkInv, LinkInvOf, machines, tokens,
           attempts, api, session, relays, ReceiveAccepted, Persist
  <1>12. ASSUME NEW r \in Relay, ConfirmReady(r) PROVE RelayInv'
    BY <1>12
       DEF TypeOK, RelayInv, RelayInvOf, Complete, LinkInv, LinkInvOf, machines, tokens,
           attempts, api, session, relays, ConfirmReady
  <1>13. ASSUME NEW r \in Relay, ReceiveActivated(r) PROVE RelayInv'
    <2> DEFINE S == [mem[r] EXCEPT !.rev = attemptRev[using[r]]]
    <2>1. /\ using[r] \in Token /\ attempt[using[r]] # "none" /\ mem[r].key # None
          /\ mem[r].machine = tokenOf[using[r]] /\ mem[r].rev = attemptRev[using[r]]
      BY <1>13, Zenon DEF ReceiveActivated, RelayInv, RelayInvOf
    <2>2. tokenOf[using[r]] \in Machine /\ attemptRev[using[r]] # None
      BY <2>1 DEF LinkInv, LinkInvOf, Revision
    <2>3. S.key = mem[r].key /\ S.machine = mem[r].machine /\ S.rev = attemptRev[using[r]]
      BY DEF TypeOK, Identity
    <2>4. /\ file' = [file EXCEPT ![r] = S] /\ mem' = [mem EXCEPT ![r] = S]
          /\ proc' = [proc EXCEPT ![r] = "confirm"]
      BY <1>13, Zenon DEF ReceiveActivated, Persist
    <2> HIDE DEF S
    <2>5. file'[r] = S /\ mem'[r] = S /\ proc'[r] = "confirm"
      BY <2>4 DEF TypeOK
    <2>6. \A q \in Relay : q # r =>
              file'[q] = file[q] /\ mem'[q] = mem[q] /\ proc'[q] = proc[q]
      BY <2>4 DEF TypeOK
    <2>7. RelayInvOf(r)'
      BY <2>1, <2>2, <2>3, <2>5, Zenon DEF RelayInvOf, Complete
    <2>8. \A q \in Relay : q # r => RelayInvOf(q)'
      BY <1>13, <2>6, SMTT(20)
         DEF RelayInv, RelayInvOf, Complete, ReceiveActivated, machines, tokens, attempts,
             api, session, relays
    <2> QED
      BY <2>7, <2>8, Zenon DEF RelayInv
  <1>14. ASSUME NEW r \in Relay, EnrollmentEnds(r) PROVE RelayInv'
    <2>1. proc[r] = "stream" => mem[r].rev # None
      BY DEF LinkInv, LinkInvOf, RelayInv, RelayInvOf, Revision
    <2>2. proc'[r] = "down" \/ (proc[r] = "stream" /\ proc'[r] = "confirm")
      <3>1. CASE proc' = [proc EXCEPT ![r] = "down"]
        BY <3>1 DEF TypeOK
      <3>2. CASE proc[r] = "stream" /\ proc' = [proc EXCEPT ![r] = "confirm"]
        BY <3>2 DEF TypeOK
      <3> QED
        BY <1>14, <3>1, <3>2, Zenon DEF EnrollmentEnds
    <2>3. \A q \in Relay : q # r => proc'[q] = proc[q]
      BY <1>14 DEF TypeOK, EnrollmentEnds
    <2>4. \A q \in Relay : q # r => using'[q] = using[q]
      BY <1>14, SMTT(20) DEF TypeOK, EnrollmentEnds
    <2>5. RelayInvOf(r)'
      BY <1>14, <2>1, <2>2, Zenon DEF RelayInv, RelayInvOf, Complete, EnrollmentEnds, relays
    <2>6. \A q \in Relay : q # r => RelayInvOf(q)'
      BY <1>14, <2>3, <2>4, SMTT(20)
         DEF RelayInv, RelayInvOf, Complete, EnrollmentEnds, machines, tokens, attempts,
             api, session, relays
    <2> QED
      BY <2>5, <2>6, Zenon DEF RelayInv
  <1>15. ASSUME NEW r \in Relay, StartRun(r) PROVE RelayInv'
    BY <1>15, SMTT(20)
       DEF TypeOK, RelayInv, RelayInvOf, Complete, LinkInv, LinkInvOf, machines, tokens,
           attempts, api, session, relays, StartRun
  <1>16. ASSUME NEW r \in Relay, OpenTunnel(r) PROVE RelayInv'
    BY <1>16, SMTT(20)
       DEF TypeOK, RelayInv, RelayInvOf, Complete, LinkInv, LinkInvOf, machines, tokens,
           attempts, api, session, relays, OpenTunnel, Claimable
  <1>17. ASSUME NEW r \in Relay, RelayEnds(r) PROVE RelayInv'
    BY <1>17
       DEF TypeOK, RelayInv, RelayInvOf, Complete, LinkInv, LinkInvOf, machines, tokens,
           attempts, api, session, relays, RelayEnds
  <1>18. ASSUME NEW r \in Relay, Reset(r) PROVE RelayInv'
    <2>1. PICK k \in Key : file' = [file EXCEPT ![r] = [Blank EXCEPT !.key = k]]
      BY <1>18, Zenon DEF Reset
    <2>2. \A q \in Relay : q # r => file'[q] = file[q]
      BY <2>1 DEF TypeOK
    <2>3. file'[r].rev = None
      BY <2>1 DEF TypeOK, Blank
    <2> QED
      BY <1>18, <2>2, <2>3
         DEF RelayInv, RelayInvOf, Complete, Reset, machines, tokens, attempts, api,
             session, relays
  <1>19. ASSUME NEW m \in Machine,
                CancelToken(m) \/ ReEnrollDisabled(m)
         PROVE  RelayInv'
    BY <1>1, <1>19, Zenon
       DEF machines, tokens, attempts, api, session, relays, CancelToken, ReEnrollDisabled
  <1>20. ASSUME NEW t \in Token,
                ReceiveSetup(t) \/ PresentCredential(t) \/ Prove(t) \/ Interrupt(t) \/
                TokenExpires(t) \/ AttemptExpires(t)
         PROVE  RelayInv'
    BY <1>1, <1>20, Zenon
       DEF machines, tokens, attempts, api, session, relays, ReceiveSetup,
           PresentCredential, Prove, Interrupt, TokenExpires, AttemptExpires
  <1>21. ASSUME NEW n \in Node,
                BeginDrain(n) \/ LoseNode(n)
         PROVE  RelayInv'
    BY <1>1, <1>21, Zenon
       DEF machines, tokens, attempts, api, session, relays, BeginDrain, LoseNode
  <1>22. CASE UNCHANGED vars
    BY <1>1, <1>22, Zenon DEF vars, machines, tokens, attempts, api, session, relays
  <1> QED
    BY Zenon, <1>2, <1>3, <1>4, <1>5, <1>6, <1>7, <1>8, <1>9, <1>10, <1>11, <1>12, <1>13, <1>14,
       <1>15, <1>16, <1>17, <1>18, <1>19, <1>20, <1>21, <1>22
       DEF Next, ApiStep, SessionStep, RelayStep, EnvironmentStep

-----------------------------------------------------------------------------
(* Nothing but its own recovery, failure or activation ends an attempt.    *)
LEMMA LedgerStep ==
    TypeOK /\ LinkInv /\ RelayInv /\ LedgerInv /\ PendingIsClean /\ [Next]_vars => LedgerInv'
  <1> SUFFICES ASSUME TypeOK, LinkInv, RelayInv, LedgerInv, PendingIsClean, [Next]_vars
               PROVE  LedgerInv'
    OBVIOUS
  <1> USE EnrollmentAssumption DEF None
  <1>1. CASE UNCHANGED <<life, rev, host, boundKey, boundRev, tokenOf, attempt, attemptRev>>
    BY <1>1 DEF TypeOK, LinkInv, LinkInvOf, LedgerInv, PendingIsClean, Verifying
  <1>2. ASSUME NEW m \in Machine, NEW t \in Token, CreateMachine(m, t) PROVE LedgerInv'
    BY <1>2
       DEF TypeOK, LinkInv, LinkInvOf, LedgerInv, PendingIsClean, Verifying, machines,
           tokens, attempts, api, session, relays, CreateMachine, NewToken
  <1>3. ASSUME NEW m \in Machine, NEW t \in Token, IssueCommit(m, t) PROVE LedgerInv'
    <2>1. CASE NewToken(m, t)
      BY <1>3, <2>1
         DEF TypeOK, LinkInv, LinkInvOf, LedgerInv, IssueCommit, NewToken, machines, tokens,
             attempts, api, session, relays
    <2>2. CASE UNCHANGED tokens
      BY <1>3, <2>2
         DEF TypeOK, LinkInv, LinkInvOf, LedgerInv, IssueCommit, machines, tokens, attempts,
             api, session, relays
    <2> QED
      BY <1>3, <2>1, <2>2, Zenon DEF IssueCommit
  <1>4. ASSUME NEW m \in Machine, RecoverExpired(m) PROVE LedgerInv'
    BY <1>4
       DEF TypeOK, LinkInv, LinkInvOf, LedgerInv, PendingIsClean, Verifying, machines,
           tokens, attempts, api, session, relays, RecoverExpired, Recover, Expired, Reverts
  <1>5. ASSUME NEW m \in Machine, IssueBegin(m) PROVE LedgerInv'
    BY <1>5
       DEF TypeOK, LinkInv, LinkInvOf, LedgerInv, PendingIsClean, Verifying, machines,
           tokens, attempts, api, session, relays, IssueBegin, Recover, Expired, Reverts
  <1>6. ASSUME NEW m \in Machine, NEW to \in {"pending", "disabled"}, Transition(m, to)
        PROVE  LedgerInv'
    BY <1>6
       DEF TypeOK, LinkInv, LinkInvOf, LedgerInv, PendingIsClean, Verifying, machines,
           tokens, attempts, api, session, relays, Transition, NextRevision
  <1>7. ASSUME NEW m \in Machine, ReEnrollDisabled(m) PROVE LedgerInv'
    BY <1>7
       DEF TypeOK, LinkInv, LinkInvOf, LedgerInv, PendingIsClean, Verifying, machines,
           tokens, attempts, api, session, relays, ReEnrollDisabled
  <1>8. ASSUME NEW r \in Relay, NEW n \in Node, AcceptToken(r, n) PROVE LedgerInv'
    BY <1>8
       DEF TypeOK, LinkInv, LinkInvOf, LedgerInv, PendingIsClean, Verifying, machines,
           tokens, attempts, api, session, relays, AcceptToken, Acceptable
  <1>9. ASSUME NEW t \in Token, Activate(t) PROVE LedgerInv'
    <2>1. CASE Activatable(t)
      <3>1. /\ \A u \in Token : u # t => attempt'[u] = attempt[u]
            /\ attempt'[t] = "activated" /\ attempt[t] = "verifying"
            /\ \A o \in Machine : o # tokenOf[t] => boundKey'[o] = boundKey[o]
        BY <1>9, <2>1 DEF TypeOK, Activate, Activatable
      <3> QED
        BY <1>9, <3>1
           DEF TypeOK, LinkInv, LinkInvOf, LedgerInv, Activate, machines, tokens, attempts,
               api, session, relays
    <2>2. CASE ~Activatable(t)
      BY <1>9, <2>2
         DEF TypeOK, LinkInv, LinkInvOf, LedgerInv, Activate, machines, tokens, attempts,
             api, session, relays
    <2> QED
      BY <2>1, <2>2, Zenon
  <1>10. ASSUME NEW t \in Token, FailAttempt(t) PROVE LedgerInv'
    BY <1>10, SMTT(20)
       DEF TypeOK, LinkInv, LinkInvOf, LedgerInv, PendingIsClean, Verifying, machines,
           tokens, attempts, api, session, relays, FailAttempt, Failable
  <1>11. ASSUME NEW r \in Relay, NEW t \in Token, StartEnroll(r, t) PROVE LedgerInv'
    BY <1>11
       DEF TypeOK, LinkInv, LinkInvOf, LedgerInv, PendingIsClean, Verifying, machines,
           tokens, attempts, api, session, relays, StartEnroll, Fresh, NotEnrolled
  <1>12. ASSUME NEW r \in Relay, OpenTunnel(r) PROVE LedgerInv'
    <2>1. mem[r].key # None /\ mem[r].machine \in Machine
      BY <1>12, Zenon DEF OpenTunnel, RelayInv, RelayInvOf, Complete
    <2>2. boundKey[mem[r].machine] # None
      BY <1>12, <2>1, Zenon DEF OpenTunnel, Claimable
    <2>3. \A o \in Machine : o # mem[r].machine => life'[o] = life[o]
      BY <1>12, Zenon DEF TypeOK, OpenTunnel
    <2> QED
      BY <1>12, <2>1, <2>2, <2>3
         DEF TypeOK, LinkInv, LinkInvOf, LedgerInv, OpenTunnel, machines, tokens, attempts,
             api, session, relays
  <1>13. ASSUME NEW m \in Machine,
                CancelToken(m)
         PROVE  LedgerInv'
    BY <1>1, <1>13, Zenon DEF machines, tokens, attempts, api, session, relays, CancelToken
  <1>14. ASSUME NEW t \in Token,
                ReceiveSetup(t) \/ PresentCredential(t) \/ Prove(t) \/ Interrupt(t) \/
                TokenExpires(t) \/ AttemptExpires(t)
         PROVE  LedgerInv'
    BY <1>1, <1>14, Zenon
       DEF machines, tokens, attempts, api, session, relays, ReceiveSetup,
           PresentCredential, Prove, Interrupt, TokenExpires, AttemptExpires
  <1>15. ASSUME NEW r \in Relay,
                ReceiveAccepted(r) \/ ConfirmReady(r) \/ ReceiveActivated(r) \/
                EnrollmentEnds(r) \/ StartRun(r) \/ RelayEnds(r) \/ Reset(r)
         PROVE  LedgerInv'
    BY <1>1, <1>15, Zenon
       DEF machines, tokens, attempts, api, session, relays, ReceiveAccepted, ConfirmReady,
           ReceiveActivated, EnrollmentEnds, StartRun, RelayEnds, Reset, Persist
  <1>16. ASSUME NEW n \in Node,
                BeginDrain(n) \/ LoseNode(n)
         PROVE  LedgerInv'
    BY <1>1, <1>16, Zenon
       DEF machines, tokens, attempts, api, session, relays, BeginDrain, LoseNode
  <1>17. CASE UNCHANGED vars
    BY <1>1, <1>17, Zenon DEF vars, machines, tokens, attempts, api, session, relays
  <1> QED
    BY Zenon, <1>2, <1>3, <1>4, <1>5, <1>6, <1>7, <1>8, <1>9, <1>10, <1>11, <1>12, <1>13, <1>14,
       <1>15, <1>16, <1>17
       DEF Next, ApiStep, SessionStep, RelayStep, EnvironmentStep

(* A Machine goes back to `pending' clean.                                 *)
LEMMA CleanStep ==
    TypeOK /\ LinkInv /\ RelayInv /\ LedgerInv /\ PendingIsClean /\ BoundIsCurrent /\ [Next]_vars => PendingIsClean'
  <1> SUFFICES ASSUME TypeOK, LinkInv, RelayInv, LedgerInv, PendingIsClean, BoundIsCurrent, [Next]_vars
               PROVE  PendingIsClean'
    OBVIOUS
  <1> USE EnrollmentAssumption DEF None
  <1>1. CASE UNCHANGED <<life, rev, host, boundKey, boundRev, tokenOf, attempt, attemptRev>>
    BY <1>1 DEF TypeOK, LinkInv, LinkInvOf, LedgerInv, PendingIsClean, Verifying
  <1>2. ASSUME NEW m \in Machine, NEW t \in Token, CreateMachine(m, t) PROVE PendingIsClean'
    BY <1>2
       DEF TypeOK, LinkInv, LinkInvOf, LedgerInv, PendingIsClean, Verifying, machines,
           tokens, attempts, api, session, relays, CreateMachine, NewToken
  <1>3. ASSUME NEW m \in Machine, NEW t \in Token, IssueCommit(m, t) PROVE PendingIsClean'
    BY <1>3
       DEF TypeOK, LinkInv, LinkInvOf, LedgerInv, PendingIsClean, Verifying, machines,
           tokens, attempts, api, session, relays, IssueCommit, NewToken
  <1>4. ASSUME NEW m \in Machine, RecoverExpired(m) PROVE PendingIsClean'
    BY <1>4
       DEF TypeOK, LinkInv, LinkInvOf, LedgerInv, PendingIsClean, Verifying, machines,
           tokens, attempts, api, session, relays, RecoverExpired, Recover, Expired, Reverts
  <1>5. ASSUME NEW m \in Machine, IssueBegin(m) PROVE PendingIsClean'
    BY <1>5
       DEF TypeOK, LinkInv, LinkInvOf, LedgerInv, PendingIsClean, Verifying, machines,
           tokens, attempts, api, session, relays, IssueBegin, Recover, Expired, Reverts
  <1>6. ASSUME NEW m \in Machine, NEW to \in {"pending", "disabled"}, Transition(m, to)
        PROVE  PendingIsClean'
    BY <1>6
       DEF TypeOK, LinkInv, LinkInvOf, LedgerInv, PendingIsClean, Verifying, machines,
           tokens, attempts, api, session, relays, Transition, NextRevision
  <1>7. ASSUME NEW m \in Machine, ReEnrollDisabled(m) PROVE PendingIsClean'
    BY <1>7
       DEF TypeOK, LinkInv, LinkInvOf, LedgerInv, PendingIsClean, Verifying, machines,
           tokens, attempts, api, session, relays, ReEnrollDisabled
  <1>8. ASSUME NEW r \in Relay, NEW n \in Node, AcceptToken(r, n) PROVE PendingIsClean'
    BY <1>8
       DEF TypeOK, LinkInv, LinkInvOf, LedgerInv, PendingIsClean, Verifying, machines,
           tokens, attempts, api, session, relays, AcceptToken, Acceptable
  <1>9. ASSUME NEW t \in Token, Activate(t) PROVE PendingIsClean'
    BY <1>9
       DEF TypeOK, LinkInv, LinkInvOf, LedgerInv, PendingIsClean, Verifying, machines,
           tokens, attempts, api, session, relays, Activate, Activatable, Pin
  <1>10. ASSUME NEW t \in Token, FailAttempt(t) PROVE PendingIsClean'
    BY <1>10
       DEF TypeOK, LinkInv, LinkInvOf, LedgerInv, PendingIsClean, Verifying, machines,
           tokens, attempts, api, session, relays, FailAttempt, Failable
  <1>11. ASSUME NEW r \in Relay, NEW t \in Token, StartEnroll(r, t) PROVE PendingIsClean'
    BY <1>11
       DEF TypeOK, LinkInv, LinkInvOf, LedgerInv, PendingIsClean, Verifying, machines,
           tokens, attempts, api, session, relays, StartEnroll, Fresh, NotEnrolled
  <1>12. ASSUME NEW r \in Relay, OpenTunnel(r) PROVE PendingIsClean'
    BY <1>12
       DEF TypeOK, LinkInv, LinkInvOf, LedgerInv, PendingIsClean, Verifying, machines,
           tokens, attempts, api, session, relays, OpenTunnel, Claimable
  <1>13. ASSUME NEW m \in Machine,
                CancelToken(m)
         PROVE  PendingIsClean'
    BY <1>1, <1>13, Zenon DEF machines, tokens, attempts, api, session, relays, CancelToken
  <1>14. ASSUME NEW t \in Token,
                ReceiveSetup(t) \/ PresentCredential(t) \/ Prove(t) \/ Interrupt(t) \/
                TokenExpires(t) \/ AttemptExpires(t)
         PROVE  PendingIsClean'
    BY <1>1, <1>14, Zenon
       DEF machines, tokens, attempts, api, session, relays, ReceiveSetup,
           PresentCredential, Prove, Interrupt, TokenExpires, AttemptExpires
  <1>15. ASSUME NEW r \in Relay,
                ReceiveAccepted(r) \/ ConfirmReady(r) \/ ReceiveActivated(r) \/
                EnrollmentEnds(r) \/ StartRun(r) \/ RelayEnds(r) \/ Reset(r)
         PROVE  PendingIsClean'
    BY <1>1, <1>15, Zenon
       DEF machines, tokens, attempts, api, session, relays, ReceiveAccepted, ConfirmReady,
           ReceiveActivated, EnrollmentEnds, StartRun, RelayEnds, Reset, Persist
  <1>16. ASSUME NEW n \in Node,
                BeginDrain(n) \/ LoseNode(n)
         PROVE  PendingIsClean'
    BY <1>1, <1>16, Zenon
       DEF machines, tokens, attempts, api, session, relays, BeginDrain, LoseNode
  <1>17. CASE UNCHANGED vars
    BY <1>1, <1>17, Zenon DEF vars, machines, tokens, attempts, api, session, relays
  <1> QED
    BY Zenon, <1>2, <1>3, <1>4, <1>5, <1>6, <1>7, <1>8, <1>9, <1>10, <1>11, <1>12, <1>13, <1>14,
       <1>15, <1>16, <1>17
       DEF Next, ApiStep, SessionStep, RelayStep, EnvironmentStep

(* A binding stays with its revision.                                      *)
LEMMA BoundStep ==
    TypeOK /\ LinkInv /\ RelayInv /\ LedgerInv /\ PendingIsClean /\ BoundIsCurrent /\ [Next]_vars => BoundIsCurrent'
  <1> SUFFICES ASSUME TypeOK, LinkInv, RelayInv, LedgerInv, PendingIsClean, BoundIsCurrent, [Next]_vars
               PROVE  BoundIsCurrent'
    OBVIOUS
  <1> USE EnrollmentAssumption DEF None
  <1>1. CASE UNCHANGED <<life, rev, host, boundKey, boundRev, tokenOf, attempt, attemptRev>>
    BY <1>1, Zenon DEF TypeOK, LinkInv, LinkInvOf, LedgerInv, PendingIsClean, BoundIsCurrent
  <1>2. ASSUME NEW m \in Machine, NEW t \in Token, CreateMachine(m, t) PROVE BoundIsCurrent'
    BY <1>2
       DEF TypeOK, LinkInv, LinkInvOf, LedgerInv, PendingIsClean, BoundIsCurrent, machines,
           tokens, attempts, api, session, relays, CreateMachine, NewToken
  <1>3. ASSUME NEW m \in Machine, NEW t \in Token, IssueCommit(m, t) PROVE BoundIsCurrent'
    BY <1>3, Zenon
       DEF TypeOK, LinkInv, LinkInvOf, LedgerInv, PendingIsClean, BoundIsCurrent, machines,
           tokens, attempts, api, session, relays, IssueCommit, NewToken
  <1>4. ASSUME NEW m \in Machine, RecoverExpired(m) PROVE BoundIsCurrent'
    BY <1>4
       DEF TypeOK, LinkInv, LinkInvOf, LedgerInv, PendingIsClean, BoundIsCurrent, machines,
           tokens, attempts, api, session, relays, RecoverExpired, Recover, Expired, Reverts
  <1>5. ASSUME NEW m \in Machine, IssueBegin(m) PROVE BoundIsCurrent'
    BY <1>5
       DEF TypeOK, LinkInv, LinkInvOf, LedgerInv, PendingIsClean, BoundIsCurrent, machines,
           tokens, attempts, api, session, relays, IssueBegin, Recover, Expired, Reverts
  <1>6. ASSUME NEW m \in Machine, NEW to \in {"pending", "disabled"}, Transition(m, to)
        PROVE  BoundIsCurrent'
    BY <1>6
       DEF TypeOK, LinkInv, LinkInvOf, LedgerInv, PendingIsClean, BoundIsCurrent, machines,
           tokens, attempts, api, session, relays, Transition, NextRevision
  <1>7. ASSUME NEW m \in Machine, ReEnrollDisabled(m) PROVE BoundIsCurrent'
    BY <1>7
       DEF TypeOK, LinkInv, LinkInvOf, LedgerInv, PendingIsClean, BoundIsCurrent, machines,
           tokens, attempts, api, session, relays, ReEnrollDisabled
  <1>8. ASSUME NEW r \in Relay, NEW n \in Node, AcceptToken(r, n) PROVE BoundIsCurrent'
    BY <1>8
       DEF TypeOK, LinkInv, LinkInvOf, LedgerInv, PendingIsClean, BoundIsCurrent, machines,
           tokens, attempts, api, session, relays, AcceptToken, Acceptable
  <1>9. ASSUME NEW t \in Token, Activate(t) PROVE BoundIsCurrent'
    BY <1>9
       DEF TypeOK, LinkInv, LinkInvOf, LedgerInv, PendingIsClean, BoundIsCurrent, machines,
           tokens, attempts, api, session, relays, Activate, Activatable, Pin
  <1>10. ASSUME NEW t \in Token, FailAttempt(t) PROVE BoundIsCurrent'
    BY <1>10
       DEF TypeOK, LinkInv, LinkInvOf, LedgerInv, PendingIsClean, BoundIsCurrent, machines,
           tokens, attempts, api, session, relays, FailAttempt, Failable
  <1>11. ASSUME NEW r \in Relay, NEW t \in Token, StartEnroll(r, t) PROVE BoundIsCurrent'
    BY <1>11, Zenon
       DEF TypeOK, LinkInv, LinkInvOf, LedgerInv, PendingIsClean, BoundIsCurrent, machines,
           tokens, attempts, api, session, relays, StartEnroll, Fresh, NotEnrolled
  <1>12. ASSUME NEW r \in Relay, OpenTunnel(r) PROVE BoundIsCurrent'
    <2>1. mem[r].key # None /\ mem[r].machine \in Machine
      BY <1>12, Zenon DEF OpenTunnel, RelayInv, RelayInvOf, Complete
    <2>2. boundKey[mem[r].machine] # None
      BY <1>12, <2>1, Zenon DEF OpenTunnel, Claimable
    <2>3. \A o \in Machine : o # mem[r].machine => life'[o] = life[o]
      BY <1>12, Zenon DEF TypeOK, OpenTunnel
    <2> QED
      BY <1>12, <2>1, <2>2, <2>3, SMTT(20)
         DEF TypeOK, BoundIsCurrent, OpenTunnel, machines, tokens, attempts, api, session,
             relays
  <1>13. ASSUME NEW m \in Machine,
                CancelToken(m)
         PROVE  BoundIsCurrent'
    BY <1>1, <1>13, Zenon DEF machines, tokens, attempts, api, session, relays, CancelToken
  <1>14. ASSUME NEW t \in Token,
                ReceiveSetup(t) \/ PresentCredential(t) \/ Prove(t) \/ Interrupt(t) \/
                TokenExpires(t) \/ AttemptExpires(t)
         PROVE  BoundIsCurrent'
    BY <1>1, <1>14, Zenon
       DEF machines, tokens, attempts, api, session, relays, ReceiveSetup,
           PresentCredential, Prove, Interrupt, TokenExpires, AttemptExpires
  <1>15. ASSUME NEW r \in Relay,
                ReceiveAccepted(r) \/ ConfirmReady(r) \/ ReceiveActivated(r) \/
                EnrollmentEnds(r) \/ StartRun(r) \/ RelayEnds(r) \/ Reset(r)
         PROVE  BoundIsCurrent'
    BY <1>1, <1>15, Zenon
       DEF machines, tokens, attempts, api, session, relays, ReceiveAccepted, ConfirmReady,
           ReceiveActivated, EnrollmentEnds, StartRun, RelayEnds, Reset, Persist
  <1>16. ASSUME NEW n \in Node,
                BeginDrain(n) \/ LoseNode(n)
         PROVE  BoundIsCurrent'
    BY <1>1, <1>16, Zenon
       DEF machines, tokens, attempts, api, session, relays, BeginDrain, LoseNode
  <1>17. CASE UNCHANGED vars
    BY <1>1, <1>17, Zenon DEF vars, machines, tokens, attempts, api, session, relays
  <1> QED
    BY Zenon, <1>2, <1>3, <1>4, <1>5, <1>6, <1>7, <1>8, <1>9, <1>10, <1>11, <1>12, <1>13, <1>14,
       <1>15, <1>16, <1>17
       DEF Next, ApiStep, SessionStep, RelayStep, EnvironmentStep

(* A verifying Machine keeps a reason.                                     *)
LEMMA ReasonStep ==
    TypeOK /\ LinkInv /\ RelayInv /\ LedgerInv /\ BoundIsCurrent /\ VerifyingHasReason /\ [Next]_vars => VerifyingHasReason'
  <1> SUFFICES ASSUME TypeOK, LinkInv, RelayInv, LedgerInv, BoundIsCurrent, VerifyingHasReason, [Next]_vars
               PROVE  VerifyingHasReason'
    OBVIOUS
  <1> USE EnrollmentAssumption DEF None
  <1>1. CASE UNCHANGED <<life, rev, host, boundKey, boundRev, tokenOf, attempt, attemptRev>>
    BY <1>1
       DEF TypeOK, LinkInv, LinkInvOf, LedgerInv, BoundIsCurrent, VerifyingHasReason,
           Verifying
  <1>2. ASSUME NEW m \in Machine, NEW t \in Token, CreateMachine(m, t)
        PROVE  VerifyingHasReason'
    BY <1>2
       DEF TypeOK, LinkInv, LinkInvOf, LedgerInv, BoundIsCurrent, VerifyingHasReason,
           Verifying, machines, tokens, attempts, api, session, relays, CreateMachine, NewToken
  <1>3. ASSUME NEW m \in Machine, NEW t \in Token, IssueCommit(m, t)
        PROVE  VerifyingHasReason'
    BY <1>3
       DEF TypeOK, LinkInv, LinkInvOf, LedgerInv, BoundIsCurrent, VerifyingHasReason,
           Verifying, machines, tokens, attempts, api, session, relays, IssueCommit, NewToken
  <1>4. ASSUME NEW m \in Machine, RecoverExpired(m) PROVE VerifyingHasReason'
    BY <1>4
       DEF TypeOK, LinkInv, LinkInvOf, LedgerInv, BoundIsCurrent, VerifyingHasReason,
           Verifying, machines, tokens, attempts, api, session, relays, RecoverExpired, Recover,
           Expired, Reverts
  <1>5. ASSUME NEW m \in Machine, IssueBegin(m) PROVE VerifyingHasReason'
    BY <1>5, SMTT(20)
       DEF TypeOK, LinkInv, LinkInvOf, LedgerInv, BoundIsCurrent, VerifyingHasReason,
           Verifying, machines, tokens, attempts, api, session, relays, IssueBegin, Recover,
           Expired, Reverts
  <1>6. ASSUME NEW m \in Machine, NEW to \in {"pending", "disabled"}, Transition(m, to)
        PROVE  VerifyingHasReason'
    BY <1>6
       DEF TypeOK, LinkInv, LinkInvOf, LedgerInv, BoundIsCurrent, VerifyingHasReason,
           Verifying, machines, tokens, attempts, api, session, relays, Transition, NextRevision
  <1>7. ASSUME NEW m \in Machine, ReEnrollDisabled(m) PROVE VerifyingHasReason'
    BY <1>7, SMTT(20)
       DEF TypeOK, LinkInv, LinkInvOf, LedgerInv, BoundIsCurrent, VerifyingHasReason,
           Verifying, machines, tokens, attempts, api, session, relays, ReEnrollDisabled
  <1>8. ASSUME NEW r \in Relay, NEW n \in Node, AcceptToken(r, n) PROVE VerifyingHasReason'
    BY <1>8
       DEF TypeOK, LinkInv, LinkInvOf, LedgerInv, BoundIsCurrent, VerifyingHasReason,
           Verifying, machines, tokens, attempts, api, session, relays, AcceptToken, Acceptable
  <1>9. ASSUME NEW t \in Token, Activate(t) PROVE VerifyingHasReason'
    BY <1>9
       DEF TypeOK, LinkInv, LinkInvOf, LedgerInv, BoundIsCurrent, VerifyingHasReason,
           Verifying, machines, tokens, attempts, api, session, relays, Activate, Activatable,
           Pin
  <1>10. ASSUME NEW t \in Token, FailAttempt(t) PROVE VerifyingHasReason'
    BY <1>10
       DEF TypeOK, LinkInv, LinkInvOf, LedgerInv, BoundIsCurrent, VerifyingHasReason,
           Verifying, machines, tokens, attempts, api, session, relays, FailAttempt, Failable
  <1>11. ASSUME NEW r \in Relay, NEW t \in Token, StartEnroll(r, t)
         PROVE  VerifyingHasReason'
    BY <1>11
       DEF TypeOK, LinkInv, LinkInvOf, LedgerInv, BoundIsCurrent, VerifyingHasReason,
           Verifying, machines, tokens, attempts, api, session, relays, StartEnroll, Fresh,
           NotEnrolled
  <1>12. ASSUME NEW r \in Relay, OpenTunnel(r) PROVE VerifyingHasReason'
    BY <1>12, SMTT(20)
       DEF TypeOK, LinkInv, LinkInvOf, LedgerInv, BoundIsCurrent, VerifyingHasReason,
           Verifying, machines, tokens, attempts, api, session, relays, OpenTunnel, Claimable
  <1>13. ASSUME NEW m \in Machine,
                CancelToken(m)
         PROVE  VerifyingHasReason'
    BY <1>1, <1>13, Zenon DEF machines, tokens, attempts, api, session, relays, CancelToken
  <1>14. ASSUME NEW t \in Token,
                ReceiveSetup(t) \/ PresentCredential(t) \/ Prove(t) \/ Interrupt(t) \/
                TokenExpires(t) \/ AttemptExpires(t)
         PROVE  VerifyingHasReason'
    BY <1>1, <1>14, Zenon
       DEF machines, tokens, attempts, api, session, relays, ReceiveSetup,
           PresentCredential, Prove, Interrupt, TokenExpires, AttemptExpires
  <1>15. ASSUME NEW r \in Relay,
                ReceiveAccepted(r) \/ ConfirmReady(r) \/ ReceiveActivated(r) \/
                EnrollmentEnds(r) \/ StartRun(r) \/ RelayEnds(r) \/ Reset(r)
         PROVE  VerifyingHasReason'
    BY <1>1, <1>15, Zenon
       DEF machines, tokens, attempts, api, session, relays, ReceiveAccepted, ConfirmReady,
           ReceiveActivated, EnrollmentEnds, StartRun, RelayEnds, Reset, Persist
  <1>16. ASSUME NEW n \in Node,
                BeginDrain(n) \/ LoseNode(n)
         PROVE  VerifyingHasReason'
    BY <1>1, <1>16, Zenon
       DEF machines, tokens, attempts, api, session, relays, BeginDrain, LoseNode
  <1>17. CASE UNCHANGED vars
    BY <1>1, <1>17, Zenon DEF vars, machines, tokens, attempts, api, session, relays
  <1> QED
    BY Zenon, <1>2, <1>3, <1>4, <1>5, <1>6, <1>7, <1>8, <1>9, <1>10, <1>11, <1>12, <1>13, <1>14,
       <1>15, <1>16, <1>17
       DEF Next, ApiStep, SessionStep, RelayStep, EnvironmentStep

=============================================================================
