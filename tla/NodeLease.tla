----------------------------- MODULE NodeLease -----------------------------
(***************************************************************************)
(* The node lease of owlmux-server (deployment.rs) with the bootstrap that *)
(* precedes it (storage.rs), the shutdown that ends it (main.rs) and the   *)
(* server_nodes and deployment rows it keeps in PostgreSQL.                *)
(*                                                                         *)
(* A member of Node is one process incarnation: a restart is another       *)
(* member.  Every transaction of this component starts by locking the      *)
(* single deployment row, so each is one step here; the time it takes and  *)
(* the late arrival of its answer are the steps before and after it.       *)
(*                                                                         *)
(* "now" is CLOCK_BOOTTIME, up to a constant per host that never matters   *)
(* because no host reading is compared with another host's; PostgreSQL's   *)
(* clock_timestamp() is now + skew, and skew may move both ways within the *)
(* operating bound the safety margin has to cover.                         *)
(***************************************************************************)
EXTENDS Naturals

CONSTANTS Node,        \* process incarnations
          TTL,         \* lease_ttl
          Margin,      \* lease_safety_margin
          MaxSkew,     \* bound on PostgreSQL clock adjustments
          SingleNode,  \* the single_node profile (else clustered)
          MaxEpoch,    \* bound on config_epoch
          MaxTime      \* bound on the clock

ASSUME LeaseAssumption ==
    /\ TTL \in Nat /\ Margin \in Nat /\ MaxSkew \in Nat
    /\ MaxEpoch \in Nat /\ MaxTime \in Nat
    /\ 0 < Margin /\ Margin < TTL     \* config.rs refuses anything else
    /\ MaxSkew <= Margin              \* the operator's obligation
    /\ SingleNode \in BOOLEAN

VARIABLES
    now, skew,     \* the two clocks
    cfgEpoch,      \* deployment.config_epoch
    rowState,      \* server_nodes.state; "none" before INSERT, "gone" after DELETE
    leaseUntil,    \* server_nodes.lease_until
    epoch,         \* the configuration epoch a process was started with
    main,          \* where main() is
    task,          \* where registration, then the renewal task, is
    before,        \* the clock sample taken before the current request
    deadline,      \* hard_deadline_ns, 0 when not installed
    fenced, draining, depReady

vars == <<now, skew, cfgEpoch, rowState, leaseUntil, epoch, main, task,
          before, deadline, fenced, draining, depReady>>

clocks == <<now, skew>>
durable == <<cfgEpoch, rowState, leaseUntil>>
local == <<epoch, main, task, before, deadline, fenced, draining, depReady>>

MainState == {"off", "boot", "serving", "draining", "drained", "released", "exited"}
TaskState == {"none", "registering", "registered", "idle", "renewing", "renewed", "done"}
RowState == {"none", "serving", "draining", "gone"}

TypeOK ==
    /\ now \in Nat /\ skew \in 0..MaxSkew /\ cfgEpoch \in Nat
    /\ rowState \in [Node -> RowState]
    /\ leaseUntil \in [Node -> Nat]
    /\ epoch \in [Node -> Nat]
    /\ main \in [Node -> MainState]
    /\ task \in [Node -> TaskState]
    /\ before \in [Node -> Nat]
    /\ deadline \in [Node -> Nat]
    /\ fenced \in [Node -> BOOLEAN]
    /\ draining \in [Node -> BOOLEAN]
    /\ depReady \in [Node -> BOOLEAN]

Init ==
    /\ now = 1 /\ skew = 0 /\ cfgEpoch = 1
    /\ rowState = [n \in Node |-> "none"]
    /\ leaseUntil = [n \in Node |-> 0]
    /\ epoch = [n \in Node |-> 0]
    /\ main = [n \in Node |-> "off"]
    /\ task = [n \in Node |-> "none"]
    /\ before = [n \in Node |-> 0]
    /\ deadline = [n \in Node |-> 0]
    /\ fenced = [n \in Node |-> FALSE]
    /\ draining = [n \in Node |-> FALSE]
    /\ depReady = [n \in Node |-> TRUE]

DbNow == now + skew

HasRow(n) == rowState[n] \in {"serving", "draining"}

\* lease_until > clock_timestamp()
LeaseValid(n) == HasRow(n) /\ leaseUntil[n] > DbNow

\* Mutant: only Serving rows are taken to hold a lease.
NoUnexpiredServingLease == \A m \in Node : ~(rowState[m] = "serving" /\ LeaseValid(m))

\* NOT EXISTS (SELECT 1 FROM server_nodes WHERE lease_until > clock_timestamp())
NoUnexpiredLease == \A m \in Node : ~LeaseValid(m)

Alive(n) == main[n] \notin {"off", "exited"}

Running(n) == main[n] \in {"serving", "draining", "drained", "released"}

\* NodeLease::check returns Ok
CheckOk(n) == Alive(n) /\ ~fenced[n] /\ deadline[n] # 0 /\ now < deadline[n]

\* NodeLease::is_ready
IsReady(n) == depReady[n] /\ ~draining[n] /\ CheckOk(n)

\* validate_deployment: the stored epoch, build and proof are this process's
DeploymentMatches(n) == cfgEpoch = epoch[n]

-----------------------------------------------------------------------------
(* The environment: the clocks, and the death of a process.                *)

Tick ==
    /\ now < MaxTime
    /\ now' = now + 1
    /\ UNCHANGED <<skew, durable, local>>

AdjustDbClock ==
    /\ skew' \in 0..MaxSkew
    /\ UNCHANGED <<now, durable, local>>

\* The process memory is lost; a transaction it had in flight is one that
\* committed before this step or never will.
Exit(n) ==
    /\ main' = [main EXCEPT ![n] = "exited"]
    /\ task' = [task EXCEPT ![n] = "none"]
    /\ before' = [before EXCEPT ![n] = 0]
    /\ deadline' = [deadline EXCEPT ![n] = 0]
    /\ fenced' = [fenced EXCEPT ![n] = TRUE]
    /\ draining' = [draining EXCEPT ![n] = TRUE]
    /\ depReady' = [depReady EXCEPT ![n] = FALSE]
    /\ epoch' = [epoch EXCEPT ![n] = 0]

\* A crash at any point, and also main()'s return when tasks.shutdown times
\* out or startup fails for a reason outside this component.
Crash(n) ==
    /\ Alive(n)
    /\ Exit(n)
    /\ UNCHANGED <<clocks, durable>>

-----------------------------------------------------------------------------
(* Startup: initialize_or_validate, then NodeLease::register.              *)

\* The supplied epoch equals the stored one, or is the next one and no lease
\* row is unexpired: then the same transaction replaces the configuration.
Bootstrap(n, e) ==
    /\ main[n] = "off"
    /\ e \in 1..MaxEpoch
    /\ \/ e = cfgEpoch
       \/ /\ e = cfgEpoch + 1
          /\ NoUnexpiredLease
    /\ cfgEpoch' = e
    /\ epoch' = [epoch EXCEPT ![n] = e]
    /\ main' = [main EXCEPT ![n] = "boot"]
    /\ UNCHANGED <<clocks, rowState, leaseUntil, task, before, deadline,
                   fenced, draining, depReady>>

RegisterBegin(n) ==
    /\ main[n] = "boot" /\ task[n] = "none"
    /\ task' = [task EXCEPT ![n] = "registering"]
    /\ before' = [before EXCEPT ![n] = now]
    /\ UNCHANGED <<clocks, durable, epoch, main, deadline, fenced, draining, depReady>>

\* Mutant: the single_node profile is not looked at.
InsertRowOfAnyProfile(n) ==
    /\ DeploymentMatches(n)
    /\ rowState' = [rowState EXCEPT ![n] = "serving"]
    /\ leaseUntil' = [leaseUntil EXCEPT ![n] = DbNow + TTL]
    /\ UNCHANGED cfgEpoch

InsertRow(n) ==
    /\ DeploymentMatches(n)
    /\ SingleNode => NoUnexpiredLease
    /\ rowState' = [rowState EXCEPT ![n] = "serving"]
    /\ leaseUntil' = [leaseUntil EXCEPT ![n] = DbNow + TTL]
    /\ UNCHANGED cfgEpoch

RegisterCommit(n) ==
    /\ task[n] = "registering"
    /\ InsertRow(n)
    /\ task' = [task EXCEPT ![n] = "registered"]
    /\ UNCHANGED <<clocks, epoch, main, before, deadline, fenced, draining, depReady>>

\* A refused predicate, a database error, or a commit whose answer was lost:
\* register() fails and the process exits, its row possibly in place.
RegisterError(n) ==
    /\ task[n] = "registering"
    /\ UNCHANGED durable \/ InsertRow(n)
    /\ Exit(n)
    /\ UNCHANGED clocks

\* Mutant: the deadline is counted from the answer, not from the request.
CandidateFromAnswer(n) == now + TTL - Margin

Candidate(n) == before[n] + TTL - Margin

\* Mutant: a late answer is accepted although the old deadline has passed.
InstallableLate(n) == ~fenced[n] /\ now < Candidate(n)

\* The condition under which install_deadline stores its candidate.
Installable(n) ==
    /\ ~fenced[n]
    /\ deadline[n] # 0 => now < deadline[n]
    /\ now < Candidate(n)

\* install_deadline at the end of register(): on failure the process exits.
RegisterInstall(n) ==
    /\ task[n] = "registered"
    /\ \/ /\ Installable(n)
          /\ deadline' = [deadline EXCEPT ![n] = Candidate(n)]
          /\ before' = [before EXCEPT ![n] = 0]
          /\ task' = [task EXCEPT ![n] = "idle"]
          /\ main' = [main EXCEPT ![n] = "serving"]
          /\ UNCHANGED <<epoch, fenced, draining, depReady>>
       \/ /\ ~Installable(n)
          /\ Exit(n)
    /\ UNCHANGED <<clocks, durable>>

-----------------------------------------------------------------------------
(* run_renewals.                                                           *)

\* One wake-up of the loop: check() and the drain flag, then the sample.
RenewBegin(n) ==
    /\ Running(n) /\ task[n] = "idle"
    /\ \/ /\ CheckOk(n) /\ ~draining[n]
          /\ task' = [task EXCEPT ![n] = "renewing"]
          /\ before' = [before EXCEPT ![n] = now]
          /\ UNCHANGED fenced
       \/ /\ ~CheckOk(n) \/ draining[n]
          /\ task' = [task EXCEPT ![n] = "done"]
          /\ fenced' = [fenced EXCEPT ![n] = fenced[n] \/ ~CheckOk(n)]
          /\ UNCHANGED before
    /\ UNCHANGED <<clocks, durable, epoch, main, deadline, draining, depReady>>

\* The UPDATE names no lease_until: it extends an expired lease as well.
ExtendRow(n) ==
    /\ DeploymentMatches(n) /\ rowState[n] = "serving"
    /\ leaseUntil' = [leaseUntil EXCEPT ![n] = DbNow + TTL]
    /\ UNCHANGED <<cfgEpoch, rowState>>

RenewCommit(n) ==
    /\ task[n] = "renewing"
    /\ ExtendRow(n)
    /\ task' = [task EXCEPT ![n] = "renewed"]
    /\ UNCHANGED <<clocks, epoch, main, before, deadline, fenced, draining, depReady>>

\* No row matched: renew_database fences; any other error only clears
\* dependency_ready, and its commit may have happened.  The loop goes on.
RenewError(n) ==
    /\ task[n] = "renewing"
    /\ \/ /\ DeploymentMatches(n) /\ rowState[n] # "serving"
          /\ fenced' = [fenced EXCEPT ![n] = TRUE]
          /\ UNCHANGED durable
       \/ /\ UNCHANGED durable \/ ExtendRow(n)
          /\ UNCHANGED fenced
    /\ depReady' = [depReady EXCEPT ![n] = FALSE]
    /\ task' = [task EXCEPT ![n] = "idle"]
    /\ before' = [before EXCEPT ![n] = 0]
    /\ UNCHANGED <<clocks, epoch, main, deadline, draining>>

RenewInstall(n) ==
    /\ task[n] = "renewed"
    /\ \/ /\ Installable(n)
          /\ deadline' = [deadline EXCEPT ![n] = Candidate(n)]
          /\ depReady' = [depReady EXCEPT ![n] = TRUE]
          /\ task' = [task EXCEPT ![n] = "idle"]
          /\ UNCHANGED fenced
       \/ /\ ~Installable(n)
          /\ fenced' = [fenced EXCEPT ![n] = TRUE]
          /\ depReady' = [depReady EXCEPT ![n] = FALSE]
          /\ task' = [task EXCEPT ![n] = "done"]
          /\ UNCHANGED deadline
    /\ before' = [before EXCEPT ![n] = 0]
    /\ UNCHANGED <<clocks, durable, epoch, main, draining>>

\* fence(): a check() at or after the deadline, a clock failure, or
\* hard_fence from the Relay and transition code.
Fence(n) ==
    /\ Running(n) /\ ~fenced[n]
    /\ fenced' = [fenced EXCEPT ![n] = TRUE]
    /\ UNCHANGED <<clocks, durable, epoch, main, task, before, deadline, draining, depReady>>

-----------------------------------------------------------------------------
(* Shutdown: begin_drain, the wait for the tasks, release.                 *)

\* Mutant: the drain flag is left to the durable transition.
BeginDrainWithoutFlag(n) ==
    /\ main[n] = "serving"
    /\ fenced' = [fenced EXCEPT ![n] = fenced[n] \/ ~CheckOk(n)]
    /\ main' = [main EXCEPT ![n] = IF CheckOk(n) THEN "draining" ELSE "drained"]
    /\ UNCHANGED <<clocks, durable, epoch, task, before, deadline, draining, depReady>>

\* The flag is set before anything is checked.
BeginDrain(n) ==
    /\ main[n] = "serving"
    /\ draining' = [draining EXCEPT ![n] = TRUE]
    /\ fenced' = [fenced EXCEPT ![n] = fenced[n] \/ ~CheckOk(n)]
    /\ main' = [main EXCEPT ![n] = IF CheckOk(n) THEN "draining" ELSE "drained"]
    /\ UNCHANGED <<clocks, durable, epoch, task, before, deadline, depReady>>

DrainRow(n) ==
    /\ DeploymentMatches(n) /\ rowState[n] = "serving" /\ LeaseValid(n)
    /\ rowState' = [rowState EXCEPT ![n] = "draining"]
    /\ UNCHANGED <<cfgEpoch, leaseUntil>>

\* main() goes on whatever begin_drain returned; an unmatched row fences.
EndDrain(n) ==
    /\ main[n] = "draining"
    /\ \/ (DrainRow(n) \/ UNCHANGED durable) /\ UNCHANGED fenced
       \/ /\ DeploymentMatches(n) /\ ~(rowState[n] = "serving" /\ LeaseValid(n))
          /\ fenced' = [fenced EXCEPT ![n] = TRUE]
          /\ UNCHANGED durable
    /\ main' = [main EXCEPT ![n] = "drained"]
    /\ UNCHANGED <<clocks, epoch, task, before, deadline, draining, depReady>>

\* release(): the renewal task has ended; DELETE, which needs the draining
\* state but no unexpired lease, or an error of any kind.
DeleteRow(n) ==
    /\ DeploymentMatches(n) /\ rowState[n] = "draining"
    /\ rowState' = [rowState EXCEPT ![n] = "gone"]
    /\ leaseUntil' = [leaseUntil EXCEPT ![n] = 0]
    /\ UNCHANGED cfgEpoch

ReleaseRow(n) ==
    /\ main[n] = "drained" /\ task[n] \in {"idle", "done"}
    /\ DeleteRow(n) \/ UNCHANGED durable
    /\ main' = [main EXCEPT ![n] = "released"]
    /\ task' = [task EXCEPT ![n] = "done"]
    /\ UNCHANGED <<clocks, epoch, before, deadline, fenced, draining, depReady>>

\* release() fences only after the DELETE returned; then main() returns.
ReleaseFence(n) ==
    /\ main[n] = "released"
    /\ Exit(n)
    /\ UNCHANGED <<clocks, durable>>

-----------------------------------------------------------------------------
NodeStep(n) ==
    \/ Crash(n)
    \/ \E e \in 1..MaxEpoch : Bootstrap(n, e)
    \/ RegisterBegin(n) \/ RegisterCommit(n) \/ RegisterError(n) \/ RegisterInstall(n)
    \/ RenewBegin(n) \/ RenewCommit(n) \/ RenewError(n) \/ RenewInstall(n)
    \/ Fence(n)
    \/ BeginDrain(n) \/ EndDrain(n) \/ ReleaseRow(n) \/ ReleaseFence(n)

Next == Tick \/ AdjustDbClock \/ \E n \in Node : NodeStep(n)

Spec == Init /\ [][Next]_vars

-----------------------------------------------------------------------------
(* Properties.                                                             *)

\* A process whose check() passes is covered by an unexpired lease row of
\* its own, on PostgreSQL's clock, until it has deleted that row itself:
\* nobody else can claim its Machines while it may still dispatch.
LeaseCovered == \A n \in Node : CheckOk(n) => LeaseValid(n) \/ rowState[n] = "gone"

\* A process that may still dispatch runs under the stored configuration:
\* a configuration transition never overlaps with an old-epoch authority.
EpochCurrent == \A n \in Node : CheckOk(n) /\ HasRow(n) => epoch[n] = cfgEpoch

\* A node that accepts new claims (is_ready) is Serving in the database, so
\* the local drain flag never lags behind the durable draining state.
ReadyIsServing == \A n \in Node : IsReady(n) => rowState[n] = "serving" /\ LeaseValid(n)

\* In the single_node profile two processes with a row never both pass
\* check(), even when a stalled process's renewal revives its expired row
\* after another one has registered.  (release() deletes the row and then
\* fences: in between, a process without a row still passes check().)
SingleAuthority ==
    SingleNode => \A n, m \in Node :
        CheckOk(n) /\ HasRow(n) /\ CheckOk(m) /\ HasRow(m) => n = m

\* Once a running process stops passing check(), it never passes it again:
\* no late answer, renewal or clock adjustment restores authority.
AuthorityNeverReturns ==
    [][\A n \in Node : Running(n) /\ ~CheckOk(n) => ~CheckOk(n)']_vars

-----------------------------------------------------------------------------
(* What the other components rely on.                                      *)

Authority(n) ==
    IF main[n] \in {"off", "boot"} THEN "new"
    ELSE IF ~CheckOk(n) THEN "lost"
    ELSE IF draining[n] THEN "draining" ELSE "admitting"

Promise == INSTANCE LeaseAuthority
             WITH authority <- [n \in Node |-> Authority(n)],
                  row <- rowState,
                  leased <- [n \in Node |-> LeaseValid(n)]

\* The lease with its clocks, deadlines and late answers implements the
\* clock-free authority that the Relay registry and the API rely on.
KeepsPromise == Promise!LeaseSpec

=============================================================================
