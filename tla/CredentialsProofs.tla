------------------------- MODULE CredentialsProofs -------------------------
(***************************************************************************)
(* What Credentials promises, for every number of credentials, Machines    *)
(* and attempts and for every limit: the references hold, every start is   *)
(* accepted, and an activation rests on a proof of the credential that was *)
(* shown.  CountInv and AttemptInv are what the properties need besides    *)
(* themselves to be inductive.                                             *)
(***************************************************************************)
EXTENDS Credentials, FiniteSetTheorems, TLAPS

\* The rows are within the limit, and there are none before the first start.
CountInv ==
    /\ default = None => Rows = {}
    /\ Cardinality(Rows) <= MaxCredentials

\* An attempt that its Machine is waiting for: under way, or activated and
\* not claimed yet.
Current(a) ==
    \/ attempt[a] = "verifying"
    \/ attempt[a] = "activated" /\ arev[a] = rev[of[a]] /\ life[of[a]] = "verifying"

\* A connection of an attempt under way has read the Machine's credential.
ReadsCurrent(a) ==
    /\ conn[a] \in {"presented", "proved"} => presented[a] = cred[of[a]]
    /\ conn[a] = "proved" => proved[a] = cred[of[a]]

\* The life of one attempt, relative to its Machine.
AttemptInvOf(a) ==
    /\ attempt[a] = "none" => conn[a] = "none"
    /\ attempt[a] = "activated" => conn[a] = "over"
    /\ attempt[a] # "none" => arev[a] <= rev[of[a]]
    /\ attempt[a] = "verifying" =>
           life[of[a]] = "verifying" /\ arev[a] = rev[of[a]] /\ ReadsCurrent(a)
    /\ attempt[a] = "activated" /\ arev[a] = rev[of[a]] =>
           life[of[a]] \in {"verifying", "active"}

AttemptInv ==
    /\ \A a \in Attempt : AttemptInvOf(a)
    /\ \A a, b \in Attempt : Current(a) /\ Current(b) /\ of[a] = of[b] => a = b

IInv == TypeOK /\ InUseIsActive /\ CountInv /\ StartupAccepts /\ AttemptInv /\ ProofStands

-----------------------------------------------------------------------------
(* The initial states.                                                     *)

(* Before the first start there is nothing that could refer to a credential. *)
LEMMA InitInv == Init => IInv
  <1> SUFFICES ASSUME Init PROVE IInv
    OBVIOUS
  <1>1. TypeOK
    BY CredentialAssumption, Zenon DEF Init, TypeOK, Exists
  <1>2. Rows = {} /\ Machines = {}
    BY Zenon DEF Init, Rows, Machines, Exists
  <1>3. CountInv
    BY <1>2, FS_EmptySet, CredentialAssumption DEF CountInv
  <1>4. InUseIsActive /\ StartupAccepts /\ ProofStands
    BY <1>2, Zenon DEF Init, InUseIsActive, StartupAccepts, ProofStands
  <1>5. AttemptInv
    BY Zenon DEF Init, AttemptInv, AttemptInvOf, Current
  <1> QED
    BY <1>1, <1>3, <1>4, <1>5, Zenon DEF IInv

-----------------------------------------------------------------------------
(* Each conjunct is preserved.                                             *)

(* The references of the Deployment, of Machines and of attempts hold.     *)
LEMMA TypeStep == TypeOK /\ AttemptInv /\ [Next]_vars => TypeOK'
  <1> SUFFICES ASSUME TypeOK, AttemptInv, [Next]_vars PROVE TypeOK'
    OBVIOUS
  <1> USE CredentialAssumption
  <1>1. ASSUME NEW c \in Credential, Initialize(c) PROVE TypeOK'
    BY <1>1, Zenon
       DEF TypeOK, Rows, Exists, credentials, machines, attempts, session, Initialize,
           Insert
  <1>2. ASSUME NEW c \in Credential, CreateCredential(c) PROVE TypeOK'
    BY <1>2, Zenon
       DEF TypeOK, Rows, Exists, credentials, machines, attempts, session, CreateCredential,
           Insert
  <1>3. ASSUME NEW c \in Credential, SetDefault(c) PROVE TypeOK'
    BY <1>3, Zenon
       DEF TypeOK, Rows, Exists, credentials, machines, attempts, session, SetDefault,
           Selectable
  <1>4. ASSUME NEW c \in Credential, ResetDefault(c) PROVE TypeOK'
    BY <1>4, Zenon
       DEF TypeOK, Rows, Exists, credentials, machines, attempts, session, ResetDefault,
           Insert
  <1>5. ASSUME NEW c \in Credential, Retire(c) PROVE TypeOK'
    BY <1>5, Zenon
       DEF TypeOK, Rows, Exists, credentials, machines, attempts, session, Retire, Retirable
  <1>6. ASSUME NEW m \in Machine, NEW c \in Credential, CreateMachine(m, c) PROVE TypeOK'
    BY <1>6
       DEF TypeOK, Rows, Exists, credentials, machines, attempts, session, CreateMachine,
           Selectable
  <1>7. ASSUME NEW m \in Machine, NEW c \in Credential, Rebind(m, c) PROVE TypeOK'
    BY <1>7
       DEF TypeOK, Rows, Exists, credentials, machines, attempts, session, Rebind,
           Rebindable, Selectable
  <1>8. ASSUME NEW m \in Machine, NEW to \in {"pending", "disabled"}, Transition(m, to)
        PROVE  TypeOK'
    BY <1>8 DEF TypeOK, Rows, Exists, credentials, machines, attempts, session, Transition
  <1>9. ASSUME NEW m \in Machine, ReEnrollDisabled(m) PROVE TypeOK'
    BY <1>9, Zenon
       DEF TypeOK, Rows, Exists, credentials, machines, attempts, session, ReEnrollDisabled
  <1>10. ASSUME NEW m \in Machine, Claim(m) PROVE TypeOK'
    BY <1>10 DEF TypeOK, Rows, Exists, credentials, machines, attempts, session, Claim
  <1>11. ASSUME NEW a \in Attempt, NEW m \in Machine, Accept(a, m) PROVE TypeOK'
    BY <1>11 DEF TypeOK, Rows, Exists, credentials, machines, attempts, session, Accept
  <1>12. ASSUME NEW a \in Attempt, Present(a) PROVE TypeOK'
    BY <1>12
       DEF TypeOK, Rows, Exists, credentials, machines, attempts, session, Present,
           AttemptInv, AttemptInvOf
  <1>13. ASSUME NEW a \in Attempt, Prove(a) PROVE TypeOK'
    BY <1>13
       DEF TypeOK, Rows, Exists, credentials, machines, attempts, session, Prove,
           AttemptInv, AttemptInvOf
  <1>14. ASSUME NEW a \in Attempt, Activate(a) PROVE TypeOK'
    BY <1>14
       DEF TypeOK, Rows, Exists, credentials, machines, attempts, session, Activate,
           Activatable
  <1>15. ASSUME NEW a \in Attempt, FailAttempt(a) PROVE TypeOK'
    BY <1>15
       DEF TypeOK, Rows, Exists, credentials, machines, attempts, session, FailAttempt,
           Settle
  <1>16. ASSUME NEW a \in Attempt, RecoverExpired(a) PROVE TypeOK'
    BY <1>16
       DEF TypeOK, Rows, Exists, credentials, machines, attempts, session, RecoverExpired,
           Settle
  <1>17. CASE Validate
    BY <1>17, Zenon DEF TypeOK, Rows, Exists, credentials, machines, attempts, session, Validate
  <1>18. CASE UNCHANGED vars
    BY <1>18, Zenon
       DEF TypeOK, Rows, Exists, credentials, machines, attempts, session, vars,
           credentials, machines, attempts, session
  <1> QED
    BY <1>1, <1>2, <1>3, <1>4, <1>5, <1>6, <1>7, <1>8, <1>9, <1>10, <1>11, <1>12, <1>13,
       <1>14, <1>15, <1>16, <1>17, <1>18
       DEF Next, CredentialStep, MachineStep, AttemptStep

(* No step retires, or refers to, a credential that is then not active.    *)
LEMMA InUseStep == TypeOK /\ InUseIsActive /\ [Next]_vars => InUseIsActive'
  <1> SUFFICES ASSUME TypeOK, InUseIsActive, [Next]_vars PROVE InUseIsActive'
    OBVIOUS
  <1> USE CredentialAssumption
  <1>1. ASSUME NEW c \in Credential, Initialize(c) PROVE InUseIsActive'
    BY <1>1
       DEF TypeOK, InUseIsActive, Rows, Exists, Machines, credentials, machines, attempts,
           session, Initialize, Insert
  <1>2. ASSUME NEW c \in Credential, CreateCredential(c) PROVE InUseIsActive'
    BY <1>2
       DEF TypeOK, InUseIsActive, Rows, Exists, Machines, credentials, machines, attempts,
           session, CreateCredential, Insert
  <1>3. ASSUME NEW c \in Credential, SetDefault(c) PROVE InUseIsActive'
    BY <1>3, Zenon
       DEF TypeOK, InUseIsActive, Rows, Exists, Machines, credentials, machines, attempts,
           session, SetDefault, Selectable
  <1>4. ASSUME NEW c \in Credential, ResetDefault(c) PROVE InUseIsActive'
    BY <1>4
       DEF TypeOK, InUseIsActive, Rows, Exists, Machines, credentials, machines, attempts,
           session, ResetDefault, Insert
  <1>5. ASSUME NEW c \in Credential, Retire(c) PROVE InUseIsActive'
    BY <1>5
       DEF TypeOK, InUseIsActive, Rows, Exists, Machines, credentials, machines, attempts,
           session, Retire, Retirable
  <1>6. ASSUME NEW m \in Machine, NEW c \in Credential, CreateMachine(m, c)
        PROVE  InUseIsActive'
    BY <1>6, Zenon
       DEF TypeOK, InUseIsActive, Rows, Exists, Machines, credentials, machines, attempts,
           session, CreateMachine, Selectable
  <1>7. ASSUME NEW m \in Machine, NEW c \in Credential, Rebind(m, c) PROVE InUseIsActive'
    BY <1>7, Zenon
       DEF TypeOK, InUseIsActive, Rows, Exists, Machines, credentials, machines, attempts,
           session, Rebind, Rebindable, Selectable
  <1>8. ASSUME NEW m \in Machine, NEW to \in {"pending", "disabled"}, Transition(m, to)
        PROVE  InUseIsActive'
    BY <1>8, Zenon
       DEF TypeOK, InUseIsActive, Rows, Exists, Machines, credentials, machines, attempts,
           session, Transition
  <1>9. ASSUME NEW m \in Machine, ReEnrollDisabled(m) PROVE InUseIsActive'
    BY <1>9, Zenon
       DEF TypeOK, InUseIsActive, Rows, Exists, Machines, credentials, machines, attempts,
           session, ReEnrollDisabled
  <1>10. ASSUME NEW m \in Machine, Claim(m) PROVE InUseIsActive'
    BY <1>10, Zenon
       DEF TypeOK, InUseIsActive, Rows, Exists, Machines, credentials, machines, attempts,
           session, Claim
  <1>11. ASSUME NEW a \in Attempt, NEW m \in Machine, Accept(a, m) PROVE InUseIsActive'
    BY <1>11, Zenon
       DEF TypeOK, InUseIsActive, Rows, Exists, Machines, credentials, machines, attempts,
           session, Accept
  <1>12. ASSUME NEW a \in Attempt, Present(a) PROVE InUseIsActive'
    BY <1>12, Zenon
       DEF TypeOK, InUseIsActive, Rows, Exists, Machines, credentials, machines, attempts,
           session, Present
  <1>13. ASSUME NEW a \in Attempt, Prove(a) PROVE InUseIsActive'
    BY <1>13, Zenon
       DEF TypeOK, InUseIsActive, Rows, Exists, Machines, credentials, machines, attempts,
           session, Prove
  <1>14. ASSUME NEW a \in Attempt, Activate(a) PROVE InUseIsActive'
    BY <1>14, Zenon
       DEF TypeOK, InUseIsActive, Rows, Exists, Machines, credentials, machines, attempts,
           session, Activate, Activatable
  <1>15. ASSUME NEW a \in Attempt, FailAttempt(a) PROVE InUseIsActive'
    BY <1>15, Zenon
       DEF TypeOK, InUseIsActive, Rows, Exists, Machines, credentials, machines, attempts,
           session, FailAttempt, Settle
  <1>16. ASSUME NEW a \in Attempt, RecoverExpired(a) PROVE InUseIsActive'
    BY <1>16, Zenon
       DEF TypeOK, InUseIsActive, Rows, Exists, Machines, credentials, machines, attempts,
           session, RecoverExpired, Settle
  <1>17. CASE Validate
    BY <1>17, Zenon
       DEF TypeOK, InUseIsActive, Rows, Exists, Machines, credentials, machines, attempts,
           session, Validate
  <1>18. CASE UNCHANGED vars
    BY <1>18, Zenon
       DEF TypeOK, InUseIsActive, Rows, Exists, Machines, credentials, machines, attempts,
           session, vars, credentials, machines, attempts, session
  <1> QED
    BY Zenon, <1>1, <1>2, <1>3, <1>4, <1>5, <1>6, <1>7, <1>8, <1>9, <1>10, <1>11, <1>12, <1>13,
       <1>14, <1>15, <1>16, <1>17, <1>18
       DEF Next, CredentialStep, MachineStep, AttemptStep

(* A new row takes one place of the limit.                                 *)
LEMMA InsertCounts ==
  ASSUME TypeOK, CountInv, NEW c \in Credential, Insert(c),
         default = None \/ WithinLimit
  PROVE  Cardinality(Rows') <= MaxCredentials
  <1> USE CredentialAssumption
  <1>1. Rows' = Rows \cup {c} /\ c \notin Rows
    BY DEF TypeOK, Insert, Rows
  <1>2. IsFiniteSet(Rows) /\ Cardinality(Rows) \in Nat
    BY FS_Subset, FS_CardinalityType, Zenon DEF Rows
  <1>3. Cardinality(Rows') = Cardinality(Rows) + 1
    BY <1>1, <1>2, FS_AddElement, Zenon
  <1>4. default = None => Cardinality(Rows) = 0
    BY FS_EmptySet, Zenon DEF CountInv
  <1> QED
    BY <1>2, <1>3, <1>4 DEF WithinLimit

(* The rows, retired ones included, never outgrow the limit.               *)
LEMMA CountStep == TypeOK /\ CountInv /\ [Next]_vars => CountInv'
  <1> SUFFICES ASSUME TypeOK, CountInv, [Next]_vars PROVE CountInv'
    OBVIOUS
  <1> USE CredentialAssumption
  <1>1. ASSUME NEW c \in Credential, Initialize(c) \/ CreateCredential(c) \/ ResetDefault(c)
        PROVE  CountInv'
    <2>1. default' # None
      BY <1>1, Zenon DEF Initialize, CreateCredential, ResetDefault
    <2>2. Cardinality(Rows') <= MaxCredentials
      BY <1>1, InsertCounts, Zenon DEF Initialize, CreateCredential, ResetDefault
    <2>3. Cardinality(Rows)' <= MaxCredentials
      BY <2>2, Zenon
    <2> QED
      BY <2>1, <2>3, Zenon DEF CountInv
  <1>2. ASSUME Rows' = Rows, default' = default \/ default' # None PROVE CountInv'
    BY <1>2, Zenon DEF CountInv
  <1>3. ASSUME UNCHANGED credentials PROVE CountInv'
    BY <1>2, <1>3, Zenon DEF credentials, Rows
  <1>4. ASSUME NEW c \in Credential, SetDefault(c) \/ Retire(c) PROVE CountInv'
    <2>1. Rows' = Rows
      BY <1>4 DEF SetDefault, Retire, Retirable, Rows, TypeOK
    <2> QED
      BY <1>2, <1>4, <2>1, Zenon DEF SetDefault, Retire
  <1>5. ASSUME NEW m \in Machine, MachineStep(m) PROVE UNCHANGED credentials
    BY <1>5, Zenon DEF MachineStep, Transition, ReEnrollDisabled, Claim, Accept
  <1>6. ASSUME NEW a \in Attempt, AttemptStep(a) PROVE UNCHANGED credentials
    BY <1>6, Zenon DEF AttemptStep, Present, Prove, Activate, FailAttempt, RecoverExpired
  <1>7. ASSUME NEW m \in Machine, NEW c \in Credential, CreateMachine(m, c) \/ Rebind(m, c)
        PROVE  UNCHANGED credentials
    BY <1>7, Zenon DEF CreateMachine, Rebind
  <1>8. Validate \/ UNCHANGED vars => UNCHANGED credentials
    BY Zenon DEF Validate, vars
  <1> QED
    BY <1>1, <1>3, <1>4, <1>5, <1>6, <1>7, <1>8, Zenon DEF Next, CredentialStep

(* What the checks of a Server start look for holds whenever one is made.  *)
LEMMA CustodyHolds ==
  ASSUME TypeOK, InUseIsActive, CountInv, default # None
  PROVE  CustodyValid
  <1> USE CredentialAssumption
  <1>1. status[default] = "active" /\ \A m \in Machines : status[cred[m]] = "active"
    BY Zenon DEF InUseIsActive
  <1>2. IsFiniteSet(Rows) /\ Active \subseteq Rows
    BY FS_Subset, Zenon DEF Rows, Active
  <1>3. IsFiniteSet(Active) /\ Cardinality(Active) \in Nat /\ Cardinality(Rows) \in Nat
    BY <1>2, FS_Subset, FS_CardinalityType, Zenon
  <1>4. Cardinality(Active) <= Cardinality(Rows)
    BY <1>2, FS_Subset, Zenon
  <1>5. default \in Active
    BY <1>1, Zenon DEF Active, TypeOK
  <1>6. Cardinality(Active) # 0
    BY <1>3, <1>5, FS_EmptySet, Zenon
  <1>7. Cardinality(Active) \in 1..MaxCredentials
    BY <1>3, <1>4, <1>6 DEF CountInv
  <1> QED
    BY <1>1, <1>7, Zenon DEF CustodyValid

(* Only a start changes how the last one ended.                            *)
LEMMA StartStep ==
    TypeOK /\ InUseIsActive /\ CountInv /\ StartupAccepts /\ [Next]_vars => StartupAccepts'
  <1> SUFFICES ASSUME TypeOK, InUseIsActive, CountInv, StartupAccepts, [Next]_vars
               PROVE  StartupAccepts'
    OBVIOUS
  <1>1. CASE Validate
    BY <1>1, CustodyHolds, Zenon DEF Validate, StartupAccepts
  <1>2. ASSUME NEW c \in Credential, Initialize(c) PROVE StartupAccepts'
    BY <1>2, Zenon DEF Initialize, StartupAccepts
  <1>3. ASSUME start' = start PROVE StartupAccepts'
    BY <1>3, Zenon DEF StartupAccepts
  <1>4. ASSUME NEW c \in Credential,
               \/ CreateCredential(c) \/ SetDefault(c) \/ ResetDefault(c) \/ Retire(c)
               \/ \E m \in Machine : CreateMachine(m, c) \/ Rebind(m, c)
        PROVE  start' = start
    BY <1>4, Zenon DEF CreateCredential, SetDefault, ResetDefault, Retire, CreateMachine, Rebind
  <1>5. ASSUME NEW m \in Machine, MachineStep(m) PROVE start' = start
    BY <1>5, Zenon DEF MachineStep, Transition, ReEnrollDisabled, Claim, Accept
  <1>6. ASSUME NEW a \in Attempt, AttemptStep(a) PROVE start' = start
    BY <1>6, Zenon DEF AttemptStep, Present, Prove, Activate, FailAttempt, RecoverExpired
  <1>7. CASE UNCHANGED vars
    BY <1>3, <1>7, Zenon DEF vars
  <1> QED
    BY <1>1, <1>2, <1>3, <1>4, <1>5, <1>6, <1>7, Zenon DEF Next, CredentialStep

(* An attempt under way keeps its Machine `verifying' at its revision and  *)
(* with its credential, and a Machine waits for one attempt at a time.     *)
LEMMA AttemptInvStep == TypeOK /\ AttemptInv /\ [Next]_vars => AttemptInv'
  <1> SUFFICES ASSUME TypeOK, AttemptInv, [Next]_vars PROVE AttemptInv'
    OBVIOUS
  <1>1. ASSUME NEW c \in Credential, Initialize(c) PROVE AttemptInv'
    BY <1>1
       DEF TypeOK, Exists, AttemptInv, AttemptInvOf, Current, ReadsCurrent, credentials,
           machines, attempts, session, Initialize, Insert
  <1>2. ASSUME NEW c \in Credential, CreateCredential(c) PROVE AttemptInv'
    BY <1>2
       DEF TypeOK, Exists, AttemptInv, AttemptInvOf, Current, ReadsCurrent, credentials,
           machines, attempts, session, CreateCredential, Insert
  <1>3. ASSUME NEW c \in Credential, SetDefault(c) PROVE AttemptInv'
    BY <1>3
       DEF TypeOK, Exists, AttemptInv, AttemptInvOf, Current, ReadsCurrent, credentials,
           machines, attempts, session, SetDefault, Selectable
  <1>4. ASSUME NEW c \in Credential, ResetDefault(c) PROVE AttemptInv'
    BY <1>4, SMTT(20)
       DEF TypeOK, Exists, AttemptInv, AttemptInvOf, Current, ReadsCurrent, credentials,
           machines, attempts, session, ResetDefault, Insert
  <1>5. ASSUME NEW c \in Credential, Retire(c) PROVE AttemptInv'
    BY <1>5, SMTT(20)
       DEF TypeOK, Exists, AttemptInv, AttemptInvOf, Current, ReadsCurrent, credentials,
           machines, attempts, session, Retire, Retirable
  <1>6. ASSUME NEW m \in Machine, NEW c \in Credential, CreateMachine(m, c)
        PROVE  AttemptInv'
    BY <1>6, SMTT(20)
       DEF TypeOK, Exists, AttemptInv, AttemptInvOf, Current, ReadsCurrent, credentials,
           machines, attempts, session, CreateMachine, Selectable
  <1>7. ASSUME NEW m \in Machine, NEW c \in Credential, Rebind(m, c) PROVE AttemptInv'
    BY <1>7, SMTT(20)
       DEF TypeOK, Exists, AttemptInv, AttemptInvOf, Current, ReadsCurrent, credentials,
           machines, attempts, session, Rebind, Rebindable, Selectable
  <1>8. ASSUME NEW m \in Machine, NEW to \in {"pending", "disabled"}, Transition(m, to)
        PROVE  AttemptInv'
    BY <1>8, SMTT(20)
       DEF TypeOK, Exists, AttemptInv, AttemptInvOf, Current, ReadsCurrent, credentials,
           machines, attempts, session, Transition
  <1>9. ASSUME NEW m \in Machine, ReEnrollDisabled(m) PROVE AttemptInv'
    BY <1>9, SMTT(20)
       DEF TypeOK, Exists, AttemptInv, AttemptInvOf, Current, ReadsCurrent, credentials,
           machines, attempts, session, ReEnrollDisabled
  <1>10. ASSUME NEW m \in Machine, Claim(m) PROVE AttemptInv'
    BY <1>10, SMTT(20)
       DEF TypeOK, Exists, AttemptInv, AttemptInvOf, Current, ReadsCurrent, credentials,
           machines, attempts, session, Claim, Bound
  <1>11. ASSUME NEW a \in Attempt, NEW m \in Machine, Accept(a, m) PROVE AttemptInv'
    BY <1>11, SMTT(20)
       DEF TypeOK, Exists, AttemptInv, AttemptInvOf, Current, ReadsCurrent, credentials,
           machines, attempts, session, Accept
  <1>12. ASSUME NEW a \in Attempt, Present(a) PROVE AttemptInv'
    BY <1>12, SMTT(20)
       DEF TypeOK, Exists, AttemptInv, AttemptInvOf, Current, ReadsCurrent, credentials,
           machines, attempts, session, Present
  <1>13. ASSUME NEW a \in Attempt, Prove(a) PROVE AttemptInv'
    BY <1>13, SMTT(20)
       DEF TypeOK, Exists, AttemptInv, AttemptInvOf, Current, ReadsCurrent, credentials,
           machines, attempts, session, Prove
  <1>14. ASSUME NEW a \in Attempt, Activate(a) PROVE AttemptInv'
    BY <1>14, SMTT(20)
       DEF TypeOK, Exists, AttemptInv, AttemptInvOf, Current, ReadsCurrent, credentials,
           machines, attempts, session, Activate, Activatable
  <1>15. ASSUME NEW a \in Attempt, FailAttempt(a) PROVE AttemptInv'
    BY <1>15, SMTT(20)
       DEF TypeOK, Exists, AttemptInv, AttemptInvOf, Current, ReadsCurrent, credentials,
           machines, attempts, session, FailAttempt, Settle
  <1>16. ASSUME NEW a \in Attempt, RecoverExpired(a) PROVE AttemptInv'
    BY <1>16
       DEF TypeOK, Exists, AttemptInv, AttemptInvOf, Current, ReadsCurrent, credentials,
           machines, attempts, session, RecoverExpired, Settle
  <1>17. CASE Validate
    BY <1>17
       DEF TypeOK, Exists, AttemptInv, AttemptInvOf, Current, ReadsCurrent, credentials,
           machines, attempts, session, Validate
  <1>18. CASE UNCHANGED vars
    BY <1>18
       DEF TypeOK, Exists, AttemptInv, AttemptInvOf, Current, ReadsCurrent, credentials,
           machines, attempts, session, vars, credentials, machines, attempts, session
  <1> QED
    BY <1>1, <1>2, <1>3, <1>4, <1>5, <1>6, <1>7, <1>8, <1>9, <1>10, <1>11, <1>12, <1>13,
       <1>14, <1>15, <1>16, <1>17, <1>18
       DEF Next, CredentialStep, MachineStep, AttemptStep

(* Nothing between the activation and the first claim changes the          *)
(* credential that was proved.                                             *)
LEMMA ProofStep == TypeOK /\ AttemptInv /\ ProofStands /\ [Next]_vars => ProofStands'
  <1> SUFFICES ASSUME TypeOK, AttemptInv, ProofStands, [Next]_vars PROVE ProofStands'
    OBVIOUS
  <1> USE CredentialAssumption
  <1>1. ASSUME NEW c \in Credential, Initialize(c) PROVE ProofStands'
    BY <1>1, Zenon
       DEF TypeOK, Exists, ProofStands, AttemptInv, AttemptInvOf, Current, ReadsCurrent,
           credentials, machines, attempts, session, Initialize, Insert
  <1>2. ASSUME NEW c \in Credential, CreateCredential(c) PROVE ProofStands'
    BY <1>2
       DEF TypeOK, Exists, ProofStands, AttemptInv, AttemptInvOf, Current, ReadsCurrent,
           credentials, machines, attempts, session, CreateCredential, Insert
  <1>3. ASSUME NEW c \in Credential, SetDefault(c) PROVE ProofStands'
    BY <1>3
       DEF TypeOK, Exists, ProofStands, AttemptInv, AttemptInvOf, Current, ReadsCurrent,
           credentials, machines, attempts, session, SetDefault, Selectable
  <1>4. ASSUME NEW c \in Credential, ResetDefault(c) PROVE ProofStands'
    BY <1>4
       DEF TypeOK, Exists, ProofStands, AttemptInv, AttemptInvOf, Current, ReadsCurrent,
           credentials, machines, attempts, session, ResetDefault, Insert
  <1>5. ASSUME NEW c \in Credential, Retire(c) PROVE ProofStands'
    BY <1>5, SMTT(20)
       DEF TypeOK, Exists, ProofStands, AttemptInv, AttemptInvOf, Current, ReadsCurrent,
           credentials, machines, attempts, session, Retire, Retirable
  <1>6. ASSUME NEW m \in Machine, NEW c \in Credential, CreateMachine(m, c)
        PROVE  ProofStands'
    BY <1>6, SMTT(20)
       DEF TypeOK, Exists, ProofStands, AttemptInv, AttemptInvOf, Current, ReadsCurrent,
           credentials, machines, attempts, session, CreateMachine, Selectable
  <1>7. ASSUME NEW m \in Machine, NEW c \in Credential, Rebind(m, c) PROVE ProofStands'
    BY <1>7, SMTT(20)
       DEF TypeOK, Exists, ProofStands, AttemptInv, AttemptInvOf, Current, ReadsCurrent,
           credentials, machines, attempts, session, Rebind, Rebindable, Selectable
  <1>8. ASSUME NEW m \in Machine, NEW to \in {"pending", "disabled"}, Transition(m, to)
        PROVE  ProofStands'
    BY <1>8, SMTT(20)
       DEF TypeOK, Exists, ProofStands, AttemptInv, AttemptInvOf, Current, ReadsCurrent,
           credentials, machines, attempts, session, Transition
  <1>9. ASSUME NEW m \in Machine, ReEnrollDisabled(m) PROVE ProofStands'
    BY <1>9, SMTT(20)
       DEF TypeOK, Exists, ProofStands, AttemptInv, AttemptInvOf, Current, ReadsCurrent,
           credentials, machines, attempts, session, ReEnrollDisabled
  <1>10. ASSUME NEW m \in Machine, Claim(m) PROVE ProofStands'
    BY <1>10, SMTT(20)
       DEF TypeOK, Exists, ProofStands, AttemptInv, AttemptInvOf, Current, ReadsCurrent,
           credentials, machines, attempts, session, Claim
  <1>11. ASSUME NEW a \in Attempt, NEW m \in Machine, Accept(a, m) PROVE ProofStands'
    BY <1>11, SMTT(20)
       DEF TypeOK, Exists, ProofStands, AttemptInv, AttemptInvOf, Current, ReadsCurrent,
           credentials, machines, attempts, session, Accept
  <1>12. ASSUME NEW a \in Attempt, Present(a) PROVE ProofStands'
    BY <1>12, SMTT(20)
       DEF TypeOK, Exists, ProofStands, AttemptInv, AttemptInvOf, Current, ReadsCurrent,
           credentials, machines, attempts, session, Present
  <1>13. ASSUME NEW a \in Attempt, Prove(a) PROVE ProofStands'
    BY <1>13, SMTT(20)
       DEF TypeOK, Exists, ProofStands, AttemptInv, AttemptInvOf, Current, ReadsCurrent,
           credentials, machines, attempts, session, Prove
  <1>14. ASSUME NEW a \in Attempt, Activate(a) PROVE ProofStands'
    BY <1>14, SMTT(20)
       DEF TypeOK, Exists, ProofStands, AttemptInv, AttemptInvOf, Current, ReadsCurrent,
           credentials, machines, attempts, session, Activate, Activatable, Rows
  <1>15. ASSUME NEW a \in Attempt, FailAttempt(a) PROVE ProofStands'
    BY <1>15, SMTT(20)
       DEF TypeOK, Exists, ProofStands, AttemptInv, AttemptInvOf, Current, ReadsCurrent,
           credentials, machines, attempts, session, FailAttempt, Settle
  <1>16. ASSUME NEW a \in Attempt, RecoverExpired(a) PROVE ProofStands'
    BY <1>16, SMTT(20)
       DEF TypeOK, Exists, ProofStands, AttemptInv, AttemptInvOf, Current, ReadsCurrent,
           credentials, machines, attempts, session, RecoverExpired, Settle
  <1>17. CASE Validate
    BY <1>17, SMTT(20)
       DEF TypeOK, Exists, ProofStands, AttemptInv, AttemptInvOf, Current, ReadsCurrent,
           credentials, machines, attempts, session, Validate
  <1>18. CASE UNCHANGED vars
    BY <1>18
       DEF TypeOK, Exists, ProofStands, AttemptInv, AttemptInvOf, Current, ReadsCurrent,
           credentials, machines, attempts, session, vars, credentials, machines, attempts,
           session
  <1> QED
    BY Zenon, <1>1, <1>2, <1>3, <1>4, <1>5, <1>6, <1>7, <1>8, <1>9, <1>10, <1>11, <1>12, <1>13,
       <1>14, <1>15, <1>16, <1>17, <1>18
       DEF Next, CredentialStep, MachineStep, AttemptStep

(* Everything together is inductive.                                       *)
LEMMA InductiveInvariant == Spec => []IInv
  <1>1. IInv /\ [Next]_vars => IInv'
    BY TypeStep, InUseStep, CountStep, StartStep, AttemptInvStep, ProofStep, Zenon DEF IInv
  <1> QED
    BY InitInv, <1>1, PTL DEF Spec

-----------------------------------------------------------------------------
(* The results.                                                            *)

(* The database's references hold: the default, the credential of every    *)
(* Machine and the Machine of every attempt are rows (api/mod.rs).         *)
THEOREM CredentialsTypeOK == Spec => []TypeOK
  BY InductiveInvariant, PTL DEF IInv

(* retire_credential never takes a credential that the default or a        *)
(* Machine, in whatever lifecycle, still needs.                            *)
THEOREM ReferencedIsActive == Spec => []InUseIsActive
  BY InductiveInvariant, PTL DEF IInv

(* No sequence of API calls leaves credentials that validate_credential_   *)
(* custody refuses, so the next start of a Server is accepted.             *)
THEOREM EveryStartAccepts == Spec => []StartupAccepts
  BY InductiveInvariant, PTL DEF IInv

(* enrollment_credential, verify_access and activate, three reads without  *)
(* a common lock, agree on the credential; the binding is claimed with it. *)
THEOREM ActivationRestsOnProof == Spec => []ProofStands
  BY InductiveInvariant, PTL DEF IInv

=============================================================================
