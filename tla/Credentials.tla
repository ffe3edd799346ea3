---------------------------- MODULE Credentials ----------------------------
(***************************************************************************)
(* The Deployment's SSH credentials and what refers to them: the API of    *)
(* api/mod.rs that creates, retires and selects them and binds Machines to *)
(* them, the check that every Server start makes of them (storage.rs), and *)
(* the enrollment that shows a credential to the operator, proves it       *)
(* against the target and activates the Relay's binding on that proof.     *)
(*                                                                         *)
(* API calls are single transactions under the Deployment row's lock.  The *)
(* enrollment reads the Machine's credential twice without that lock, and  *)
(* takes it only to activate.  A credential's key never changes: it is the *)
(* credential.  Names, tokens, host keys and Relay identities are left to  *)
(* Enrollment; here an enrollment is its verification attempt.             *)
(***************************************************************************)
EXTENDS Naturals, FiniteSets

CONSTANTS Credential, Machine, Attempt, None,
          MaxCredentials,  \* the limit on rows of ssh_credentials
          MaxMachines,     \* MAX_MACHINES
          MaxRevision      \* bound on both revisions of a Machine

ASSUME CredentialAssumption ==
    /\ IsFiniteSet(Credential) /\ IsFiniteSet(Machine)
    /\ None \notin Credential \cup Machine
    /\ MaxCredentials \in Nat \ {0} /\ MaxMachines \in Nat /\ MaxRevision \in Nat \ {0}

VARIABLES
    status,            \* ssh_credentials.status, "none" for an id not inserted
    default,           \* deployment.default_ssh_credential_id, None before the first start
    life, rev,         \* machines.lifecycle and route_revision
    cred, credRev,     \* machines.ssh_credential_id and credential_revision
    attempt, of, arev, \* relay_verification_attempts
    conn,              \* the connection that carries an attempt out
    presented, proved, \* the credentials it read to show, and to prove
    start              \* what the last Server start said of the credentials

credentials == <<status, default>>
machines == <<life, rev, cred, credRev>>
attempts == <<attempt, of, arev>>
session == <<conn, presented, proved>>
vars == <<credentials, machines, attempts, session, start>>

Rows == {c \in Credential : status[c] # "none"}
Active == {c \in Credential : status[c] = "active"}
Exists(m) == life[m] # "absent"
Machines == {m \in Machine : Exists(m)}

(* The second half says that the foreign keys hold.                        *)
TypeOK ==
    /\ status \in [Credential -> {"none", "active", "retired"}]
    /\ default \in Credential \cup {None}
    /\ life \in [Machine -> {"absent", "pending", "verifying", "active", "disabled"}]
    /\ rev \in [Machine -> Nat] /\ credRev \in [Machine -> Nat]
    /\ cred \in [Machine -> Credential \cup {None}]
    /\ attempt \in [Attempt -> {"none", "verifying", "activated", "failed"}]
    /\ of \in [Attempt -> Machine \cup {None}] /\ arev \in [Attempt -> Nat]
    /\ conn \in [Attempt -> {"none", "accepted", "presented", "proved", "over"}]
    /\ presented \in [Attempt -> Credential \cup {None}]
    /\ proved \in [Attempt -> Credential \cup {None}]
    /\ start \in {"never", "accepted", "refused"}
    /\ default # None => default \in Rows
    /\ \A m \in Machine : Exists(m) => default # None /\ cred[m] \in Rows
    /\ \A a \in Attempt : attempt[a] # "none" => of[a] \in Machine /\ Exists(of[a])

Init ==
    /\ status = [c \in Credential |-> "none"] /\ default = None
    /\ life = [m \in Machine |-> "absent"] /\ rev = [m \in Machine |-> 1]
    /\ cred = [m \in Machine |-> None] /\ credRev = [m \in Machine |-> 1]
    /\ attempt = [a \in Attempt |-> "none"] /\ of = [a \in Attempt |-> None]
    /\ arev = [a \in Attempt |-> 0] /\ conn = [a \in Attempt |-> "none"]
    /\ presented = [a \in Attempt |-> None] /\ proved = [a \in Attempt |-> None]
    /\ start = "never"

-----------------------------------------------------------------------------
(* The start of a Server.                                                  *)

\* The INSERT of a new, active row under a new id.
Insert(c) ==
    /\ status[c] = "none"
    /\ status' = [status EXCEPT ![c] = "active"]

\* initialize_or_validate without a Deployment
Initialize(c) ==
    /\ default = None
    /\ Insert(c) /\ default' = c
    /\ start' = "accepted"
    /\ UNCHANGED <<machines, attempts, session>>

\* validate_credential_custody; that every envelope opens is a matter of the
\* encryption key, which is the same for all of them.
CustodyValid ==
    /\ status[default] = "active"
    /\ \A m \in Machines : status[cred[m]] = "active"
    /\ Cardinality(Active) \in 1..MaxCredentials

\* initialize_or_validate with one
Validate ==
    /\ default # None
    /\ start' = IF CustodyValid THEN "accepted" ELSE "refused"
    /\ UNCHANGED <<credentials, machines, attempts, session>>

-----------------------------------------------------------------------------
(* The API on credentials.                                                 *)

\* Mutant: retired rows are not counted, and one row too many fits.
WithinLimitOfActive == Cardinality(Active) <= MaxCredentials

\* enforce_credential_limit counts retired rows too.
WithinLimit == Cardinality(Rows) < MaxCredentials

CreateCredential(c) ==
    /\ default # None /\ WithinLimit
    /\ Insert(c)
    /\ UNCHANGED <<default, machines, attempts, session, start>>

\* SELECT ... WHERE id = $1 AND status = 'active' FOR UPDATE
Selectable(c) == status[c] = "active"

SetDefault(c) ==
    /\ default # None /\ Selectable(c)
    /\ default' = c
    /\ UNCHANGED <<status, machines, attempts, session, start>>

ResetDefault(c) ==
    /\ default # None /\ WithinLimit
    /\ Insert(c) /\ default' = c
    /\ UNCHANGED <<machines, attempts, session, start>>

\* Mutant: only the Machines that a Relay serves or enrolls are looked at.
RetirableUnlessServed(c) ==
    /\ status[c] = "active" /\ default # c
    /\ \A m \in Machines : life[m] \in {"verifying", "active"} => cred[m] # c

\* Neither the Deployment nor a Machine in any lifecycle refers to it.
Retirable(c) ==
    /\ status[c] = "active" /\ default # c
    /\ \A m \in Machines : cred[m] # c

Retire(c) ==
    /\ default # None /\ Retirable(c)
    /\ status' = [status EXCEPT ![c] = "retired"]
    /\ UNCHANGED <<default, machines, attempts, session, start>>

-----------------------------------------------------------------------------
(* The API on Machines.                                                    *)

\* With the credential asked for, or else the default.
CreateMachine(m, c) ==
    /\ default # None /\ ~Exists(m)
    /\ Cardinality(Machines) < MaxMachines
    /\ Selectable(c)
    /\ life' = [life EXCEPT ![m] = "pending"]
    /\ cred' = [cred EXCEPT ![m] = c]
    /\ UNCHANGED <<credentials, rev, credRev, attempts, session, start>>

\* Mutant: a Machine that has not been enrolled yet can be rebound as well.
RebindableEarly(m, c) ==
    /\ life[m] \in {"verifying", "active"} /\ cred[m] # c /\ Selectable(c)

Rebindable(m, c) == life[m] = "active" /\ cred[m] # c /\ Selectable(c)

\* rebind_machine_credential
Rebind(m, c) ==
    /\ Rebindable(m, c) /\ credRev[m] < MaxRevision
    /\ cred' = [cred EXCEPT ![m] = c]
    /\ credRev' = [credRev EXCEPT ![m] = @ + 1]
    /\ UNCHANGED <<credentials, life, rev, attempts, session, start>>

\* commit_active_machine_transition
Transition(m, to) ==
    /\ life[m] = "active" /\ rev[m] < MaxRevision
    /\ life' = [life EXCEPT ![m] = to]
    /\ rev' = [rev EXCEPT ![m] = @ + 1]
    /\ attempt' = [a \in Attempt |-> IF of[a] = m /\ attempt[a] = "verifying"
                                     THEN "failed" ELSE attempt[a]]
    /\ UNCHANGED <<credentials, cred, credRev, of, arev, session, start>>

ReEnrollDisabled(m) ==
    /\ life[m] = "disabled"
    /\ life' = [life EXCEPT ![m] = "pending"]
    /\ UNCHANGED <<credentials, rev, cred, credRev, attempts, session, start>>

-----------------------------------------------------------------------------
(* The enrollment.                                                         *)

\* accept_token
Accept(a, m) ==
    /\ attempt[a] = "none" /\ life[m] = "pending"
    /\ life' = [life EXCEPT ![m] = "verifying"]
    /\ attempt' = [attempt EXCEPT ![a] = "verifying"]
    /\ of' = [of EXCEPT ![a] = m] /\ arev' = [arev EXCEPT ![a] = rev[m]]
    /\ conn' = [conn EXCEPT ![a] = "accepted"]
    /\ UNCHANGED <<credentials, rev, cred, credRev, presented, proved, start>>

\* enrollment_credential: the row that the operator authorises on the target
Present(a) ==
    LET m == of[a] IN
    /\ conn[a] = "accepted"
    /\ life[m] = "verifying" /\ rev[m] = arev[a] /\ status[cred[m]] = "active"
    /\ presented' = [presented EXCEPT ![a] = cred[m]]
    /\ conn' = [conn EXCEPT ![a] = "presented"]
    /\ UNCHANGED <<credentials, machines, attempts, proved, start>>

\* verify_access reads the row again, and not the revision.
Prove(a) ==
    LET m == of[a] IN
    /\ conn[a] = "presented"
    /\ life[m] = "verifying" /\ status[cred[m]] = "active"
    /\ proved' = [proved EXCEPT ![a] = cred[m]]
    /\ conn' = [conn EXCEPT ![a] = "proved"]
    /\ UNCHANGED <<credentials, machines, attempts, presented, start>>

\* The predicate of activate.
Activatable(a) ==
    LET m == of[a] IN
    /\ attempt[a] = "verifying" /\ arev[a] = rev[m]
    /\ life[m] = "verifying" /\ status[cred[m]] = "active"

\* activate; the binding it inserts is the activated attempt
Activate(a) ==
    /\ conn[a] = "proved" /\ Activatable(a)
    /\ attempt' = [attempt EXCEPT ![a] = "activated"]
    /\ conn' = [conn EXCEPT ![a] = "over"]
    /\ UNCHANGED <<credentials, machines, of, arev, presented, proved, start>>

\* The binding of the current revision is an activated attempt.
Bound(m) == \E a \in Attempt : attempt[a] = "activated" /\ of[a] = m /\ arev[a] = rev[m]

\* A failed attempt gives the Machine back to `pending', unless it is spared.
Settle(a, spared) ==
    /\ attempt[a] = "verifying"
    /\ attempt' = [attempt EXCEPT ![a] = "failed"]
    /\ life' = [life EXCEPT ![of[a]] = IF @ = "verifying" /\ rev[of[a]] = arev[a] /\ ~spared
                                       THEN "pending" ELSE @]

\* fail_attempt, at the end of a connection that did not activate
FailAttempt(a) ==
    /\ conn[a] \notin {"none", "over"}
    /\ Settle(a, FALSE) \/ UNCHANGED <<attempt, life>>
    /\ conn' = [conn EXCEPT ![a] = "over"]
    /\ UNCHANGED <<credentials, rev, cred, credRev, of, arev, presented, proved, start>>

\* recover_expired_attempts, whose connection may still be working
RecoverExpired(a) ==
    /\ Settle(a, Bound(of[a]))
    /\ UNCHANGED <<credentials, rev, cred, credRev, of, arev, session, start>>

\* claim_owner, the first one of a binding
Claim(m) ==
    /\ life[m] = "verifying" /\ Bound(m)
    /\ life' = [life EXCEPT ![m] = "active"]
    /\ UNCHANGED <<credentials, rev, cred, credRev, attempts, session, start>>

-----------------------------------------------------------------------------
CredentialStep(c) ==
    \/ Initialize(c) \/ CreateCredential(c) \/ SetDefault(c) \/ ResetDefault(c) \/ Retire(c)
    \/ \E m \in Machine : CreateMachine(m, c) \/ Rebind(m, c)

MachineStep(m) ==
    \/ \E to \in {"pending", "disabled"} : Transition(m, to)
    \/ ReEnrollDisabled(m) \/ Claim(m)
    \/ \E a \in Attempt : Accept(a, m)

AttemptStep(a) ==
    Present(a) \/ Prove(a) \/ Activate(a) \/ FailAttempt(a) \/ RecoverExpired(a)

Next ==
    \/ Validate
    \/ \E c \in Credential : CredentialStep(c)
    \/ \E m \in Machine : MachineStep(m)
    \/ \E a \in Attempt : AttemptStep(a)

Spec == Init /\ [][Next]_vars

-----------------------------------------------------------------------------
(* Whatever the API was used for, every later start of a Server accepts    *)
(* the credentials it finds: the default and every bound one are active,   *)
(* and their number is within the limit (validate_credential_custody).     *)
StartupAccepts == start # "refused"

(* The binding that activate makes rests on a proof of the very credential *)
(* that was shown to the operator, and until the Relay's first claim it is *)
(* still the Machine's, although the three are separate unlocked reads     *)
(* (enrollment_credential, verify_access, activate).                       *)
ProofStands ==
    \A a \in Attempt : attempt[a] = "activated" =>
        /\ presented[a] # None /\ proved[a] = presented[a]
        /\ life[of[a]] = "verifying" /\ arev[a] = rev[of[a]] => cred[of[a]] = proved[a]

(* A Machine that may be reached always has a usable credential: the       *)
(* status that enrollment_credential, verify_access and load_active_access *)
(* join on is never what refuses them, since retire_credential sees every  *)
(* reference.                                                              *)
InUseIsActive ==
    /\ default # None => status[default] = "active"
    /\ \A m \in Machines : status[cred[m]] = "active"

=============================================================================
