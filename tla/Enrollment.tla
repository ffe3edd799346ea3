----------------------------- MODULE Enrollment -----------------------------
(***************************************************************************)
(* Enrollment of a Relay: the tokens, verification attempts and bindings   *)
(* in PostgreSQL (api/mod.rs and relay/mod.rs), the enrollment connection  *)
(* on the Server, and the Relay process with its state file                *)
(* (owlmux-relay/src/main.rs and state.rs).                                *)
(*                                                                         *)
(* Every transaction locks the Deployment row first, so a transaction is   *)
(* one step; what happens between transactions interleaves.  Time is       *)
(* abstracted: the expiry of a token and of an attempt are steps that may  *)
(* happen at any moment.  The ownership that a claim also writes is the    *)
(* subject of RelayOwnership; here a claim only activates the Machine.     *)
(***************************************************************************)
EXTENDS Naturals, FiniteSets

CONSTANTS Machine, Relay, Node,
          MaxToken,     \* bound on the tokens issued
          MaxKey,       \* bound on the Relay identities generated
          MaxRevision   \* bound on route_revision

ASSUME EnrollmentAssumption ==
    /\ {MaxToken, MaxKey, MaxRevision} \subseteq Nat \ {0}
    /\ 0 \notin Machine \cup Relay \cup Node

Token == 1..MaxToken
Key == 1..MaxKey
Revision == 1..MaxRevision
None == 0

VARIABLES
    life, rev, host,     \* machines: lifecycle, route_revision, host_identity is pinned
    boundKey, boundRev,  \* the active relay_bindings row of a Machine
    tokenOf, token,      \* relay_enrollments: machine_id and status
    stale,               \* tokens past token_expires_at
    attempt, attemptRev, attemptNode,  \* relay_verification_attempts, by enrollment
    late,                \* attempts past their deadline
    node,                \* server_nodes: state, or "lost" once the lease is
    issuing,             \* Machines with a token request between its transactions
    phase, peer, candidate,    \* the enrollment connection of a token
    file,                \* the Relay's state file
    proc, mem, using     \* the Relay process: phase, loaded state, its token

machines == <<life, rev, host, boundKey, boundRev>>
tokens == <<tokenOf, token, stale>>
attempts == <<attempt, attemptRev, attemptNode, late>>
api == <<node, issuing>>
session == <<phase, peer, candidate>>
relays == <<file, proc, mem, using>>
vars == <<machines, tokens, attempts, api, session, relays>>

Identity == [key : Key \cup {None}, machine : Machine \cup {None}, rev : Revision \cup {None}]
Blank == [key |-> None, machine |-> None, rev |-> None]

Live == {"accepted", "setup", "credential", "proved"}

TypeOK ==
    /\ life \in [Machine -> {"absent", "pending", "verifying", "active", "disabled"}]
    /\ rev \in [Machine -> Revision] /\ host \in [Machine -> BOOLEAN]
    /\ boundKey \in [Machine -> Key \cup {None}] /\ boundRev \in [Machine -> Revision \cup {None}]
    /\ tokenOf \in [Token -> Machine \cup {None}]
    /\ token \in [Token -> {"none", "issued", "consumed", "cancelled"}]
    /\ stale \subseteq Token /\ late \subseteq Token
    /\ attempt \in [Token -> {"none", "verifying", "activated", "failed"}]
    /\ attemptRev \in [Token -> Revision \cup {None}]
    /\ attemptNode \in [Token -> Node \cup {None}]
    /\ node \in [Node -> {"serving", "draining", "lost"}]
    /\ issuing \subseteq Machine
    /\ phase \in [Token -> Live \cup {"none", "reporting", "failing", "over"}]
    /\ peer \in [Token -> Relay \cup {None}] /\ candidate \in [Token -> Key \cup {None}]
    /\ file \in [Relay -> Identity] /\ mem \in [Relay -> Identity]
    /\ proc \in [Relay -> {"down", "token", "setup", "stream", "confirm", "run"}]
    /\ using \in [Relay -> Token \cup {None}]

Init ==
    /\ life = [m \in Machine |-> "absent"] /\ rev = [m \in Machine |-> 1]
    /\ host = [m \in Machine |-> FALSE]
    /\ boundKey = [m \in Machine |-> None] /\ boundRev = [m \in Machine |-> None]
    /\ tokenOf = [t \in Token |-> None] /\ token = [t \in Token |-> "none"]
    /\ stale = {} /\ late = {}
    /\ attempt = [t \in Token |-> "none"] /\ attemptRev = [t \in Token |-> None]
    /\ attemptNode = [t \in Token |-> None]
    /\ node = [n \in Node |-> "serving"] /\ issuing = {}
    /\ phase = [t \in Token |-> "none"] /\ peer = [t \in Token |-> None]
    /\ candidate = [t \in Token |-> None]
    /\ file = [r \in Relay |-> Blank] /\ mem = [r \in Relay |-> Blank]
    /\ proc = [r \in Relay |-> "down"] /\ using = [r \in Relay |-> None]

Serves == \E n \in Node : node[n] = "serving"

-----------------------------------------------------------------------------
(* The API: one transaction each, on any node that serves.                 *)

\* insert_enrollment, after the issued tokens of the Machine are cancelled
NewToken(m, t) ==
    /\ token[t] = "none"
    /\ tokenOf' = [tokenOf EXCEPT ![t] = m]
    /\ token' = [u \in Token |-> IF u = t THEN "issued"
                                 ELSE IF tokenOf[u] = m /\ token[u] = "issued" THEN "cancelled"
                                 ELSE token[u]]
    /\ UNCHANGED stale

CreateMachine(m, t) ==
    /\ Serves /\ life[m] = "absent"
    /\ life' = [life EXCEPT ![m] = "pending"]
    /\ NewToken(m, t)
    /\ UNCHANGED <<rev, host, boundKey, boundRev, attempts, api, session, relays>>

\* Mutant: the recovery selects the attempts of nodes that still serve.
ExpiredOfServing(m) ==
    {t \in late : attempt[t] = "verifying" /\ tokenOf[t] = m /\ node[attemptNode[t]] = "serving"}

\* the attempts the recovery selects
Expired(m) == {t \in late : attempt[t] = "verifying" /\ tokenOf[t] = m}

\* Mutant: only the attempt is settled.
RevertsNever(m) == FALSE

\* the WHERE clause that returns the Machine to `pending'
Reverts(m) ==
    /\ life[m] = "verifying"
    /\ \E t \in Expired(m) : attemptRev[t] = rev[m]
    /\ ~(boundKey[m] # None /\ boundRev[m] = rev[m])

\* recover_expired_attempts(Some(machine_id)); the batch of list_machines is
\* one such step for every Machine.
Recover(m) ==
    /\ Serves
    /\ attempt' = [t \in Token |-> IF t \in Expired(m) THEN "failed" ELSE attempt[t]]
    /\ life' = IF Reverts(m) THEN [life EXCEPT ![m] = "pending"] ELSE life
    /\ UNCHANGED <<rev, host, boundKey, boundRev, tokens, attemptRev, attemptNode, late, node,
                   session, relays>>

RecoverExpired(m) == Expired(m) # {} /\ Recover(m) /\ UNCHANGED issuing

\* issue_enrollment_token: the recovery, then the token
IssueBegin(m) ==
    /\ life[m] # "absent" /\ m \notin issuing
    /\ Recover(m)
    /\ issuing' = issuing \cup {m}

IssueCommit(m, t) ==
    /\ Serves /\ m \in issuing
    /\ issuing' = issuing \ {m}
    /\ \/ life[m] = "pending" /\ NewToken(m, t)
       \/ life[m] # "pending" /\ UNCHANGED tokens
    /\ UNCHANGED <<machines, attempts, node, session, relays>>

CancelToken(m) ==
    /\ Serves /\ \E t \in Token : tokenOf[t] = m /\ token[t] = "issued"
    /\ token' = [t \in Token |-> IF tokenOf[t] = m /\ token[t] = "issued"
                                 THEN "cancelled" ELSE token[t]]
    /\ UNCHANGED <<machines, tokenOf, stale, attempts, api, session, relays>>

\* route_revision.checked_add(1)
NextRevision(m) == rev[m] + 1

\* commit_active_machine_transition, to "disabled" or (re-enroll) "pending"
Transition(m, to) ==
    /\ Serves /\ life[m] = "active" /\ rev[m] < MaxRevision
    /\ boundKey[m] # None /\ boundRev[m] = rev[m]
    /\ boundKey' = [boundKey EXCEPT ![m] = None] /\ boundRev' = [boundRev EXCEPT ![m] = None]
    /\ attempt' = [t \in Token |-> IF tokenOf[t] = m /\ attempt[t] = "verifying"
                                   THEN "failed" ELSE attempt[t]]
    /\ token' = [t \in Token |-> IF tokenOf[t] = m /\ token[t] = "issued"
                                 THEN "cancelled" ELSE token[t]]
    /\ life' = [life EXCEPT ![m] = to] /\ rev' = [rev EXCEPT ![m] = NextRevision(m)]
    /\ UNCHANGED <<host, tokenOf, stale, attemptRev, attemptNode, late, api, session, relays>>

ReEnrollDisabled(m) ==
    /\ Serves /\ life[m] = "disabled"
    /\ life' = [life EXCEPT ![m] = "pending"]
    /\ UNCHANGED <<rev, host, boundKey, boundRev, tokens, attempts, api, session, relays>>

-----------------------------------------------------------------------------
(* The enrollment connection on the Server.                                *)

Acceptable(t) == token[t] = "issued" /\ t \notin stale /\ life[tokenOf[t]] = "pending"

\* accept_token.  When the answer to the commit is lost, the connection ends
\* without fail_attempt.
AcceptToken(r, n) ==
    LET t == using[r] IN
    /\ proc[r] = "token" /\ t # None /\ node[n] = "serving" /\ Acceptable(t)
    /\ token' = [token EXCEPT ![t] = "consumed"]
    /\ life' = [life EXCEPT ![tokenOf[t]] = "verifying"]
    /\ attempt' = [attempt EXCEPT ![t] = "verifying"]
    /\ attemptRev' = [attemptRev EXCEPT ![t] = rev[tokenOf[t]]]
    /\ attemptNode' = [attemptNode EXCEPT ![t] = n]
    /\ \E p \in {"accepted", "over"} : phase' = [phase EXCEPT ![t] = p]
    /\ peer' = [peer EXCEPT ![t] = r]
    /\ UNCHANGED <<rev, host, boundKey, boundRev, tokenOf, stale, late, api, candidate, relays>>

Connected(t) == proc[peer[t]] \in {"setup", "stream"} /\ using[peer[t]] = t

\* The Setup frame
ReceiveSetup(t) ==
    /\ phase[t] = "accepted" /\ Connected(t)
    /\ candidate' = [candidate EXCEPT ![t] = mem[peer[t]].key]
    /\ phase' = [phase EXCEPT ![t] = "setup"]
    /\ UNCHANGED <<machines, tokens, attempts, api, peer, relays>>

\* enrollment_credential
PresentCredential(t) ==
    LET m == tokenOf[t] IN
    /\ phase[t] = "setup"
    /\ phase' = [phase EXCEPT ![t] =
                    IF life[m] = "verifying" /\ rev[m] = attemptRev[t]
                    THEN "credential" ELSE "failing"]
    /\ UNCHANGED <<machines, tokens, attempts, api, peer, candidate, relays>>

\* Ready, the signature, the host key that is discovered and confirmed or was
\* pinned before, and verify_access.
Prove(t) ==
    /\ phase[t] = "credential" /\ Connected(t) /\ proc[peer[t]] = "stream"
    /\ phase' = [phase EXCEPT ![t] = "proved"]
    /\ UNCHANGED <<machines, tokens, attempts, api, peer, candidate, relays>>

Activatable(t) ==
    LET m == tokenOf[t] IN
    /\ attempt[t] = "verifying" /\ t \notin late
    /\ node[attemptNode[t]] = "serving"
    /\ attemptRev[t] = rev[m] /\ life[m] = "verifying"
    /\ boundKey[m] = None
    /\ \A o \in Machine : boundKey[o] # candidate[t]

\* Mutant: the confirmed host key is not written.
PinNothing(m) == host

\* host_identity = COALESCE(host_identity, $1)
Pin(m) == [host EXCEPT ![m] = TRUE]

\* activate.  A refusal and a lost answer to the commit both lead to
\* fail_attempt.
Activate(t) ==
    LET m == tokenOf[t] IN
    /\ phase[t] = "proved"
    /\ IF Activatable(t)
       THEN /\ host' = Pin(m)
            /\ boundKey' = [boundKey EXCEPT ![m] = candidate[t]]
            /\ boundRev' = [boundRev EXCEPT ![m] = attemptRev[t]]
            /\ attempt' = [attempt EXCEPT ![t] = "activated"]
            /\ \E p \in {"reporting", "failing"} : phase' = [phase EXCEPT ![t] = p]
       ELSE /\ phase' = [phase EXCEPT ![t] = "failing"]
            /\ UNCHANGED <<host, boundKey, boundRev, attempt>>
    /\ UNCHANGED <<life, rev, tokens, attemptRev, attemptNode, late, api, peer, candidate,
                   relays>>

\* Anything that ends continue_enrollment with an error: the connection is
\* lost, a frame or the proof is refused, or the local deadline passes.
Interrupt(t) ==
    /\ phase[t] \in Live \cup {"reporting"}
    /\ phase' = [phase EXCEPT ![t] = "failing"]
    /\ UNCHANGED <<machines, tokens, attempts, api, peer, candidate, relays>>

\* Mutant: the attempt's status is not looked at.
Failable0(t) == TRUE

\* the WHERE clause of the first UPDATE, which changed one row
Failable(t) == attempt[t] = "verifying"

\* fail_attempt, which is not tried again
FailAttempt(t) ==
    LET m == tokenOf[t] IN
    /\ phase[t] = "failing"
    /\ phase' = [phase EXCEPT ![t] = "over"]
    /\ \/ /\ node[attemptNode[t]] = "serving" /\ Failable(t)
          /\ attempt' = [attempt EXCEPT ![t] = "failed"]
          /\ life' = IF life[m] = "verifying" /\ rev[m] = attemptRev[t]
                     THEN [life EXCEPT ![m] = "pending"] ELSE life
       \/ UNCHANGED <<attempt, life>>
    /\ UNCHANGED <<rev, host, boundKey, boundRev, tokens, attemptRev, attemptNode, late, api,
                   peer, candidate, relays>>

-----------------------------------------------------------------------------
(* The Relay process and its state file.                                   *)

\* a random secret and a new Relay ID, which nobody has had before
Fresh(k) == \A r \in Relay : file[r].key < k /\ mem[r].key < k

\* the check that `enroll` begins with
NotEnrolled(s) == s.rev = None

\* `enroll`, or `start` before an enrollment: the state is created when there
\* is none, and the operator supplies a token.  One that is used up by then is
\* refused and changes nothing; this one may be used up before it arrives.
StartEnroll(r, t) ==
    /\ proc[r] = "down" /\ NotEnrolled(file[r]) /\ token[t] = "issued"
    /\ \/ file[r].key # None /\ UNCHANGED file
       \/ /\ file[r].key = None
          /\ \E k \in Key : /\ Fresh(k) /\ \A j \in Key : Fresh(j) => k <= j
                            /\ file' = [file EXCEPT ![r].key = k]
    /\ mem' = [mem EXCEPT ![r] = file'[r]]
    /\ proc' = [proc EXCEPT ![r] = "token"] /\ using' = [using EXCEPT ![r] = t]
    /\ UNCHANGED <<machines, tokens, attempts, api, session>>

\* Mutant: the answer is kept in memory only.
Remember(r, s) == mem' = [mem EXCEPT ![r] = s] /\ UNCHANGED file

\* state.persist
Persist(r, s) == mem' = [mem EXCEPT ![r] = s] /\ file' = [file EXCEPT ![r] = s]

\* The Accepted frame: persist, then send Setup.
ReceiveAccepted(r) ==
    LET t == using[r] IN
    /\ proc[r] = "token" /\ t # None /\ phase[t] = "accepted" /\ peer[t] = r
    /\ Persist(r, [mem[r] EXCEPT !.machine = tokenOf[t], !.rev = attemptRev[t]])
    /\ proc' = [proc EXCEPT ![r] = "setup"]
    /\ UNCHANGED <<machines, tokens, attempts, api, session, using>>

\* The Credential frame, the operator's confirmation, Ready and the signature
ConfirmReady(r) ==
    /\ proc[r] = "setup" /\ phase[using[r]] = "credential"
    /\ proc' = [proc EXCEPT ![r] = "stream"]
    /\ UNCHANGED <<machines, tokens, attempts, api, session, file, mem, using>>

\* The Activated frame; the connection is closed.
ReceiveActivated(r) ==
    LET t == using[r] IN
    /\ proc[r] = "stream" /\ phase[t] = "reporting"
    /\ Persist(r, [mem[r] EXCEPT !.rev = attemptRev[t]])
    /\ proc' = [proc EXCEPT ![r] = "confirm"]
    /\ phase' = [phase EXCEPT ![t] = "over"]
    /\ UNCHANGED <<machines, tokens, attempts, api, peer, candidate, using>>

\* An error ends the process; a transport error in enrollment_stream leads to
\* confirm_enrollment instead.
EnrollmentEnds(r) ==
    /\ proc[r] \in {"token", "setup", "stream"}
    /\ \/ proc' = [proc EXCEPT ![r] = "down"] /\ using' = [using EXCEPT ![r] = None]
       \/ proc[r] = "stream" /\ proc' = [proc EXCEPT ![r] = "confirm"] /\ UNCHANGED using
    /\ UNCHANGED <<machines, tokens, attempts, api, session, file, mem>>

\* `run`, or `start` with an enrolled state
StartRun(r) ==
    /\ proc[r] = "down" /\ file[r].rev # None
    /\ proc' = [proc EXCEPT ![r] = "run"] /\ mem' = [mem EXCEPT ![r] = file[r]]
    /\ UNCHANGED <<machines, tokens, attempts, api, session, file, using>>

\* binding_key and claim_owner, on a node that serves
Claimable(s) ==
    /\ life[s.machine] \in {"verifying", "active"} /\ host[s.machine]
    /\ rev[s.machine] = s.rev
    /\ boundKey[s.machine] = s.key /\ boundRev[s.machine] = s.rev

\* open_tunnel succeeds: the claim activates the Machine.  After the
\* confirmation `enroll` ends and `start` goes on.
OpenTunnel(r) ==
    /\ proc[r] \in {"confirm", "run"} /\ Serves /\ Claimable(mem[r])
    /\ life' = [life EXCEPT ![mem[r].machine] = "active"]
    /\ using' = [using EXCEPT ![r] = None]
    /\ \/ proc' = [proc EXCEPT ![r] = "run"]
       \/ proc[r] = "confirm" /\ proc' = [proc EXCEPT ![r] = "down"]
    /\ UNCHANGED <<rev, host, boundKey, boundRev, tokens, attempts, api, session, file, mem>>

\* The confirmation fails, or the process ends at any point.
RelayEnds(r) ==
    /\ proc[r] \in {"confirm", "run"}
    /\ proc' = [proc EXCEPT ![r] = "down"] /\ using' = [using EXCEPT ![r] = None]
    /\ UNCHANGED <<machines, tokens, attempts, api, session, file, mem>>

\* `reset`, by another process or none
Reset(r) ==
    /\ file[r].key # None
    /\ \E k \in Key : /\ Fresh(k) /\ \A j \in Key : Fresh(j) => k <= j
                      /\ file' = [file EXCEPT ![r] = [Blank EXCEPT !.key = k]]
    /\ UNCHANGED <<machines, tokens, attempts, api, session, proc, mem, using>>

-----------------------------------------------------------------------------
(* Time and the Server's nodes.                                            *)

TokenExpires(t) ==
    /\ token[t] = "issued" /\ t \notin stale
    /\ stale' = stale \cup {t}
    /\ UNCHANGED <<machines, tokenOf, token, attempts, api, session, relays>>

AttemptExpires(t) ==
    /\ attempt[t] = "verifying" /\ t \notin late
    /\ late' = late \cup {t}
    /\ UNCHANGED <<machines, tokens, attempt, attemptRev, attemptNode, api, session, relays>>

BeginDrain(n) ==
    /\ node[n] = "serving"
    /\ node' = [node EXCEPT ![n] = "draining"]
    /\ UNCHANGED <<machines, tokens, attempts, issuing, session, relays>>

\* The lease is lost or the process dies: the fence drops its connections.
LoseNode(n) ==
    /\ node[n] # "lost"
    /\ node' = [node EXCEPT ![n] = "lost"]
    /\ phase' = [t \in Token |-> IF attemptNode[t] = n THEN "over" ELSE phase[t]]
    /\ UNCHANGED <<machines, tokens, attempts, issuing, peer, candidate, relays>>

-----------------------------------------------------------------------------
ApiStep ==
    \E m \in Machine :
        \/ \E t \in Token : CreateMachine(m, t) \/ IssueCommit(m, t)
        \/ RecoverExpired(m) \/ IssueBegin(m) \/ CancelToken(m) \/ ReEnrollDisabled(m)
        \/ \E to \in {"pending", "disabled"} : Transition(m, to)

SessionStep ==
    \/ \E r \in Relay, n \in Node : AcceptToken(r, n)
    \/ \E t \in Token :
          \/ ReceiveSetup(t) \/ PresentCredential(t) \/ Prove(t) \/ Activate(t)
          \/ Interrupt(t) \/ FailAttempt(t)

RelayStep ==
    \E r \in Relay :
        \/ \E t \in Token : StartEnroll(r, t)
        \/ ReceiveAccepted(r) \/ ConfirmReady(r) \/ ReceiveActivated(r) \/ EnrollmentEnds(r)
        \/ StartRun(r) \/ OpenTunnel(r) \/ RelayEnds(r) \/ Reset(r)

EnvironmentStep ==
    \/ \E t \in Token : TokenExpires(t) \/ AttemptExpires(t)
    \/ \E n \in Node : BeginDrain(n) \/ LoseNode(n)

Next == ApiStep \/ SessionStep \/ RelayStep \/ EnvironmentStep

Spec == Init /\ [][Next]_vars

\* Deadlines pass, someone reads the Machine (which recovers its attempts),
\* and a Relay with an enrolled state is kept running by its supervisor and
\* reaches a node.
FairSpec ==
    /\ Spec
    /\ \A t \in Token : WF_vars(AttemptExpires(t))
    /\ \A m \in Machine : WF_vars(RecoverExpired(m))
    /\ \A r \in Relay : /\ WF_vars(StartRun(r)) /\ SF_vars(OpenTunnel(r))
                        /\ WF_vars(proc[r] = "stream" /\ EnrollmentEnds(r))

-----------------------------------------------------------------------------
Verifying(m) == {t \in Token : tokenOf[t] = m /\ attempt[t] = "verifying"}

(* A Machine leaves `pending' only through accept_token and comes back     *)
(* only when nothing of the attempt is left: no live attempt, which        *)
(* relay_verification_one_live_per_machine would turn into a failure of    *)
(* the next accept_token, and no binding, which would let an old Relay in. *)
PendingIsClean ==
    \A m \in Machine : life[m] \in {"absent", "pending", "disabled"} =>
        Verifying(m) = {} /\ boundKey[m] = None

(* A Machine is `verifying' for a reason that some step can end: a live    *)
(* attempt of its current revision, which expires, or a binding that its   *)
(* Relay can claim.  No failure, late answer or recovery leaves it without *)
(* either.                                                                 *)
VerifyingHasReason ==
    \A m \in Machine : life[m] = "verifying" =>
        \/ \E t \in Verifying(m) : attemptRev[t] = rev[m]
        \/ boundKey[m] # None /\ boundRev[m] = rev[m]

(* A binding belongs to the current revision of a Machine with a pinned    *)
(* host key, and an active Machine has one: fail_attempt after a lost      *)
(* answer to activate's commit and the recovery of an expired attempt do   *)
(* not undo it.                                                            *)
BoundIsCurrent ==
    \A m \in Machine :
        /\ boundKey[m] # None =>
              life[m] \in {"verifying", "active"} /\ boundRev[m] = rev[m] /\ host[m]
        /\ life[m] = "active" => boundKey[m] # None

(* A Relay that still has a bound identity can claim the Machine: its file *)
(* names the Machine and the revision of the binding from before the       *)
(* setup, wherever the process or the connection died.                     *)
BindingIsClaimable ==
    \A m \in Machine, r \in Relay :
        boundKey[m] # None /\ file[r].key = boundKey[m] =>
            file[r].machine = m /\ file[r].rev = boundRev[m]

\* The identity that the Machine is bound to is in no state file any more.
Orphaned(m) == boundKey[m] # None /\ \A r \in Relay : file[r].key # boundKey[m]

(* A `verifying' Machine becomes active or pending again while some node   *)
(* serves: its attempt expires and is recovered, or its Relay claims.  The *)
(* one exception is a Relay that was reset before its first claim.         *)
VerifyingEnds ==
    \A m \in Machine :
        life[m] = "verifying" ~> (life[m] # "verifying" \/ ~Serves \/ Orphaned(m))

=============================================================================
