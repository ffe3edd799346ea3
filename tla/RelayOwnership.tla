--------------------------- MODULE RelayOwnership ---------------------------
(***************************************************************************)
(* Ownership of one Machine: the machine_owners row, each node's Relay     *)
(* registry entry for that Machine, the life of Relay tunnels from hello   *)
(* to cleanup, and the Machine transitions (disable, revoke, re-enroll)    *)
(* that take the route away (relay/mod.rs, owner.rs, api/mod.rs and        *)
(* internal.rs).  The registry's maps are keyed by Machine and no          *)
(* operation mixes two keys, so one Machine is enough.                     *)
(*                                                                         *)
(* The lease is LeaseAuthority, which NodeLease implements.  Whoever holds *)
(* authority runs under the stored configuration (EpochCurrent of          *)
(* NodeLease), so lock_deployment adds nothing to the check() that follows *)
(* it.  Every transaction locks the deployment row first: it is one step.  *)
(* A check() inside it and its commit are the same step, because nothing   *)
(* that reads the rows under the lock can come between them.               *)
(***************************************************************************)
EXTENDS Naturals, LeaseAuthority

CONSTANTS Conn,      \* Relay connections, each with its own connection_id
          Op,        \* requests to disable, revoke or re-enroll the Machine
          None,      \* SQL NULL and an absent map entry
          MaxRev     \* bound on route_revision

\* No node and no connection is called NULL.
ASSUME NullAssumption == None \notin Node \cup Conn

VARIABLES
    rev, life,   \* machines.route_revision and lifecycle ("verifying": newly bound)
    owner,       \* the machine_owners row: node, conn, epoch
    st, at, crev, ep,           \* a connection: phase, node, revision, epoch
    tunnels, pending, exits,    \* RegistryState of each node
    open,        \* handles whose dispatch_open is true
    busy,        \* handles whose dispatch lock is held by work in flight
    closers,     \* handles a registry operation removed and is about to close
    cleaned,     \* handles whose cleanup_complete is cancelled
    op           \* a request: phase, API node, target connection, revision, awaited claims

machine == <<rev, life, owner>>
conns == <<st, at, crev, ep>>
registry == <<tunnels, pending, exits>>
handles == <<open, busy, closers, cleaned>>
vars == <<leaseVars, machine, conns, registry, handles, op>>

ConnState == {"new", "hello", "reserved", "claimFailed", "claimed", "unwinding", "unwound",
              "running", "ending", "closed", "releasing", "released", "done"}
OpState == {"idle", "resolved", "closing", "waiting", "ready", "settling", "aborted"}
Life == {"verifying", "active", "inactive"}
Exit(k, c) == [kind |-> k, conn |-> c]
NoExit == Exit("none", None)
OwnerRow == [node : Node \cup {None}, conn : Conn \cup {None}, epoch : Nat]
MachineExit == [kind : {"none", "transitioning", "releasing"}, conn : Conn \cup {None}]
Request == [ph : OpState, api : Node \cup {None}, target : Conn \cup {None},
            rev : Nat, waits : SUBSET Conn]

TypeOK ==
    /\ authority \in [Node -> AuthorityState] /\ row \in [Node -> NodeRow]
    /\ leased \in [Node -> BOOLEAN]
    /\ rev \in Nat /\ life \in Life
    /\ owner \in OwnerRow
    /\ st \in [Conn -> ConnState] /\ at \in [Conn -> Node \cup {None}]
    /\ crev \in [Conn -> Nat] /\ ep \in [Conn -> Nat]
    /\ tunnels \in [Node -> Conn \cup {None}] /\ pending \in [Node -> SUBSET Conn]
    /\ exits \in [Node -> MachineExit]
    /\ open \in SUBSET Conn /\ busy \in SUBSET Conn
    /\ closers \in SUBSET Conn /\ cleaned \in SUBSET Conn
    /\ op \in [Op -> Request]

IdleOp == [ph |-> "idle", api |-> None, target |-> None, rev |-> 0, waits |-> {}]

Init ==
    /\ LeaseInit
    /\ rev = 1 /\ life = "verifying"
    /\ owner = [node |-> None, conn |-> None, epoch |-> 0]
    /\ st = [c \in Conn |-> "new"] /\ at = [c \in Conn |-> None]
    /\ crev = [c \in Conn |-> 0] /\ ep = [c \in Conn |-> 0]
    /\ tunnels = [n \in Node |-> None] /\ pending = [n \in Node |-> {}]
    /\ exits = [n \in Node |-> NoExit]
    /\ open = {} /\ busy = {} /\ closers = {} /\ cleaned = {}
    /\ op = [o \in Op |-> IdleOp]

\* n.state IN ('serving', 'draining') AND n.lease_until > clock_timestamp()
NodeValid(n) == row[n] \in {"serving", "draining"} /\ leased[n]

\* validate_node and lock_current_deployment
NodeServing(n) == Held(n) /\ row[n] = "serving" /\ leased[n]

OwnerValid == owner.node # None /\ NodeValid(owner.node)

Vacant == [owner EXCEPT !.node = None, !.conn = None]

\* The WHERE clause of release_owner, with validate_releasing_node.
OwnsExactly(c) ==
    /\ Held(at[c]) /\ NodeValid(at[c])
    /\ owner.node = at[c] /\ owner.conn = c /\ owner.epoch = ep[c]

ReleaseSucceeds(c) == OwnsExactly(c) /\ owner' = Vacant /\ UNCHANGED leaseVars

\* Every failure hard-fences, and a failed commit may have landed.
ReleaseFails(c) ==
    /\ owner' = owner \/ (OwnsExactly(c) /\ owner' = Vacant)
    /\ LoseAuthority(at[c])

\* release_owner
ReleaseOwner(c) == ReleaseSucceeds(c) \/ ReleaseFails(c)

Goto(c, s) == st' = [st EXCEPT ![c] = s]

-----------------------------------------------------------------------------
(* The lease, as the database constrains it: machine_owners references     *)
(* server_nodes ON DELETE RESTRICT.                                        *)

LeaseStep ==
    /\ LeaseNext
    /\ \A n \in Node : row'[n] = "gone" /\ row[n] # "gone" => owner.node # n
    /\ UNCHANGED <<machine, conns, registry, handles, op>>

-----------------------------------------------------------------------------
(* A Relay tunnel, up to its installation.                                 *)

\* hello, binding_key and the signature
Hello(c, n) ==
    /\ st[c] = "new" /\ Held(n) /\ life \in {"verifying", "active"}
    /\ at' = [at EXCEPT ![c] = n]
    /\ crev' = [crev EXCEPT ![c] = rev]
    /\ Goto(c, "hello")
    /\ UNCHANGED <<leaseVars, machine, ep, registry, handles, op>>

\* reserve_claim; is_ready may also fail because the database does.
Reserve(c) ==
    LET n == at[c] IN
    /\ st[c] = "hello"
    /\ \/ /\ authority[n] = "admitting"
          /\ exits[n] = NoExit /\ tunnels[n] = None /\ c \notin pending[n]
          /\ pending' = [pending EXCEPT ![n] = @ \cup {c}]
          /\ Goto(c, "reserved")
       \/ Goto(c, "done") /\ UNCHANGED pending
    /\ UNCHANGED <<leaseVars, machine, at, crev, ep, tunnels, exits, handles, op>>

\* Mutant: a draining owner is not taken to be a valid one.
ClaimableFromDraining(c) ==
    /\ NodeServing(at[c]) /\ crev[c] = rev /\ life \in {"verifying", "active"}
    /\ ~(OwnerValid /\ row[owner.node] = "serving")

\* The predicates of claim_owner's transaction.
Claimable(c) ==
    /\ NodeServing(at[c]) /\ crev[c] = rev /\ life \in {"verifying", "active"}
    /\ ~OwnerValid

TakeOwnership(c) ==
    /\ Claimable(c)
    /\ owner' = [node |-> at[c], conn |-> c, epoch |-> owner.epoch + 1]
    /\ life' = "active"

Claim(c) ==
    /\ st[c] = "reserved"
    /\ TakeOwnership(c)
    /\ ep' = [ep EXCEPT ![c] = owner.epoch + 1]
    /\ Goto(c, "claimed")
    /\ UNCHANGED <<leaseVars, rev, at, crev, registry, handles, op>>

\* A refused or failed claim; one whose commit failed may have landed, and
\* hard-fences the node.
ClaimError(c) ==
    /\ st[c] = "reserved"
    /\ \/ UNCHANGED <<leaseVars, owner, life>>
       \/ /\ TakeOwnership(c) \/ UNCHANGED <<owner, life>>
          /\ LoseAuthority(at[c])
    /\ Goto(c, "claimFailed")
    /\ UNCHANGED <<rev, at, crev, ep, registry, handles, op>>

\* finish_pending after a failed claim, and after a failed installation
FinishPending(c) ==
    /\ st[c] \in {"claimFailed", "unwound"}
    /\ pending' = [pending EXCEPT ![at[c]] = @ \ {c}]
    /\ Goto(c, "done")
    /\ UNCHANGED <<leaseVars, machine, at, crev, ep, tunnels, exits, handles, op>>

\* The conditions install_reserved checks under the registry's lock.
Installable(c) ==
    /\ authority[at[c]] = "admitting"
    /\ exits[at[c]] = NoExit /\ tunnels[at[c]] = None /\ c \in pending[at[c]]

Install(c) ==
    LET n == at[c] IN
    /\ st[c] = "claimed"
    /\ \/ /\ Installable(c)
          /\ tunnels' = [tunnels EXCEPT ![n] = c]
          /\ pending' = [pending EXCEPT ![n] = @ \ {c}]
          /\ open' = open \cup {c}
          /\ Goto(c, "running")
       \/ Goto(c, "unwinding") /\ UNCHANGED <<tunnels, pending, open>>
    /\ UNCHANGED <<leaseVars, machine, at, crev, ep, exits, busy, closers, cleaned, op>>

Unwind(c) ==
    /\ st[c] = "unwinding"
    /\ ReleaseOwner(c)
    /\ Goto(c, "unwound")
    /\ UNCHANGED <<rev, life, at, crev, ep, registry, handles, op>>

-----------------------------------------------------------------------------
(* Dispatch through an installed tunnel, and the end of the tunnel.        *)

\* RouteFence::dispatch, send_route_frame and TunnelCommand::Open look at the
\* lease and the flag with the dispatch lock held.
MayDispatch(c) == c \in open \ busy /\ Held(at[c])

BeginDispatch(c) ==
    /\ MayDispatch(c)
    /\ busy' = busy \cup {c}
    /\ UNCHANGED <<leaseVars, machine, conns, registry, open, closers, cleaned, op>>

EndDispatch(c) ==
    /\ c \in busy
    /\ busy' = busy \ {c}
    /\ UNCHANGED <<leaseVars, machine, conns, registry, open, closers, cleaned, op>>

\* run_tunnel returns: the barrier, the fence, the socket or a heartbeat.
RunEnds(c) ==
    /\ st[c] = "running"
    /\ Goto(c, "ending")
    /\ UNCHANGED <<leaseVars, machine, at, crev, ep, registry, handles, op>>

\* Mutant: the dispatch flag is cleared without waiting for its lock.
CloseDispatchUnlocked(c) == open' = open \ {c}

\* close_dispatch waits for the dispatch lock.
CloseDispatch(c) == c \notin busy /\ open' = open \ {c}

EndDispatching(c) ==
    /\ st[c] = "ending"
    /\ CloseDispatch(c)
    /\ Goto(c, "closed")
    /\ UNCHANGED <<leaseVars, machine, at, crev, ep, registry, busy, closers, cleaned, op>>

\* begin_owner_release: defer to a transition of this route, or release; the
\* third answer is an error that leaves cleanup_complete pending.
BeginOwnerRelease(c) ==
    LET n == at[c] IN
    /\ st[c] = "closed"
    /\ \/ /\ exits[n] = Exit("transitioning", c)
          /\ cleaned' = cleaned \cup {c}
          /\ Goto(c, "done")
          /\ UNCHANGED exits
       \/ /\ exits[n] = NoExit
          /\ exits' = [exits EXCEPT ![n] = Exit("releasing", c)]
          /\ Goto(c, "releasing")
          /\ UNCHANGED cleaned
       \/ /\ exits[n] \notin {NoExit, Exit("transitioning", c)}
          /\ Goto(c, "done")
          /\ UNCHANGED <<exits, cleaned>>
    /\ UNCHANGED <<leaseVars, machine, at, crev, ep, tunnels, pending, open, busy, closers, op>>

Release(c) ==
    /\ st[c] = "releasing"
    /\ ReleaseOwner(c)
    /\ Goto(c, "released")
    /\ UNCHANGED <<rev, life, at, crev, ep, registry, handles, op>>

\* Mutant: the registry keeps the entry of a route it has released.
FinishOwnerReleaseKeepingTunnel(c) ==
    /\ st[c] = "released"
    /\ cleaned' = cleaned \cup {c}
    /\ exits' = [exits EXCEPT ![at[c]] = NoExit]
    /\ Goto(c, "done")
    /\ UNCHANGED <<leaseVars, machine, at, crev, ep, tunnels, pending, open, busy, closers, op>>

\* cleanup_complete, then finish_owner_release
FinishOwnerRelease(c) ==
    LET n == at[c] IN
    /\ st[c] = "released"
    /\ cleaned' = cleaned \cup {c}
    /\ tunnels' = [tunnels EXCEPT ![n] = IF @ = c THEN None ELSE @]
    /\ exits' = [exits EXCEPT ![n] = IF @ = Exit("releasing", c) THEN NoExit ELSE @]
    /\ Goto(c, "done")
    /\ UNCHANGED <<leaseVars, machine, at, crev, ep, pending, open, busy, closers, op>>

\* tunnel_upgrade drops the tunnel wherever it is when the fence token fires,
\* and a dead process takes its tunnels with it.
Dropped(c) ==
    /\ st[c] \notin {"new", "done"} /\ ~Held(at[c])
    /\ Goto(c, "done")
    /\ UNCHANGED <<leaseVars, machine, at, crev, ep, registry, handles, op>>

\* close_all, at shutdown and by the fence watcher
CloseAll(n) ==
    /\ authority[n] \in {"draining", "lost"} /\ tunnels[n] # None
    /\ closers' = closers \cup {tunnels[n]}
    /\ tunnels' = [tunnels EXCEPT ![n] = None]
    /\ UNCHANGED <<leaseVars, machine, conns, pending, exits, open, busy, cleaned, op>>

CloseAllHandle(c) ==
    /\ c \in closers
    /\ CloseDispatch(c)
    /\ closers' = closers \ {c}
    /\ UNCHANGED <<leaseVars, machine, conns, registry, busy, cleaned, op>>

-----------------------------------------------------------------------------
(* transition_active_machine, at API node a; begin_machine_transition runs *)
(* on the owner, which is a itself or is reached over the internal socket. *)

Set(o, r) == op' = [op EXCEPT ![o] = r]

\* owner::resolve
Resolve(o, a) ==
    /\ op[o].ph = "idle" /\ Held(a) /\ life = "active" /\ rev < MaxRev
    /\ Set(o, [ph |-> "resolved", api |-> a, rev |-> rev, waits |-> {},
               target |-> IF OwnerValid THEN owner.conn ELSE None])
    /\ UNCHANGED <<leaseVars, machine, conns, registry, handles>>

\* Mutant: any installed tunnel will do.
SomeRouteInstalled(o) == tunnels[at[op[o].target]] # None

\* handle.route == expected_route
RouteInstalled(o) == tunnels[at[op[o].target]] = op[o].target

\* The first, locked part of begin_machine_transition.
BeginTransition(o) ==
    LET c == op[o].target
        n == at[c] IN
    /\ op[o].ph = "resolved" /\ c # None
    /\ RouteInstalled(o) /\ exits[n] = NoExit
    /\ exits' = [exits EXCEPT ![n] = Exit("transitioning", c)]
    /\ tunnels' = [tunnels EXCEPT ![n] = None]
    /\ Set(o, [op[o] EXCEPT !.ph = "closing", !.waits = pending[n]])
    /\ UNCHANGED <<leaseVars, machine, conns, pending, handles>>

\* The owner's registry has another route, is busy, or cannot be reached.
TransitionRefused(o) ==
    /\ op[o].ph = "resolved" /\ op[o].target # None
    /\ Set(o, IdleOp)
    /\ UNCHANGED <<leaseVars, machine, conns, registry, handles>>

TransitionCloses(o) ==
    /\ op[o].ph = "closing"
    /\ CloseDispatch(op[o].target)
    /\ Set(o, [op[o] EXCEPT !.ph = "waiting"])
    /\ UNCHANGED <<leaseVars, machine, conns, registry, busy, closers, cleaned>>

\* Mutant: the transition does not wait for the tunnel's own cleanup.
CleanupCompleteAtOnce(o) == op[o].waits \cap pending[at[op[o].target]] = {}

\* cleanup_complete and the claims that were pending when it began
CleanupComplete(o) ==
    /\ op[o].target \in cleaned
    /\ op[o].waits \cap pending[at[op[o].target]] = {}

TransitionReady(o) ==
    /\ op[o].ph = "waiting"
    /\ CleanupComplete(o) /\ Held(at[op[o].target])
    /\ Set(o, [op[o] EXCEPT !.ph = "ready"])
    /\ UNCHANGED <<leaseVars, machine, conns, registry, handles>>

\* Mutant: a transition that is given up is only logged.
TransitionForgotten(o) ==
    /\ op[o].ph \in {"closing", "waiting", "ready", "settling", "aborted"}
    /\ op[o].target # None
    /\ Set(o, IdleOp)
    /\ UNCHANGED <<leaseVars, machine, conns, registry, handles>>

\* OWNER_CLEANUP_TIMEOUT, a lost or late message of the internal socket, the
\* death of either task or an indeterminate outcome: the armed
\* MachineTransition hard-fences the owner.
TransitionAbandoned(o) ==
    /\ op[o].ph \in {"closing", "waiting", "ready", "settling", "aborted"}
    /\ op[o].target # None
    /\ LoseAuthority(at[op[o].target])
    /\ Set(o, IdleOp)
    /\ UNCHANGED <<machine, conns, registry, handles>>

\* The owner_matches predicate of commit_active_machine_transition.
OwnerMatches(o) ==
    IF op[o].target = None THEN ~OwnerValid
    ELSE /\ owner.node = at[op[o].target] /\ owner.conn = op[o].target
         /\ owner.epoch = ep[op[o].target]

Committable(o) ==
    /\ op[o].ph = IF op[o].target = None THEN "resolved" ELSE "ready"
    /\ NodeServing(op[o].api) /\ life = "active" /\ rev = op[o].rev
    /\ OwnerMatches(o)

TakeRouteAway(o) ==
    /\ Committable(o)
    /\ rev' = rev + 1
    /\ life' = "inactive"
    /\ owner' = Vacant

\* A known commit; or an ambiguous one that the observation still finds, or
\* misses because it is in flight.
CommitTransition(o) ==
    /\ TakeRouteAway(o)
    /\ \E ph \in {"settling", "aborted"} : Set(o, [op[o] EXCEPT !.ph = ph])
    /\ UNCHANGED <<leaseVars, conns, registry, handles>>

AbortTransition(o) ==
    /\ op[o].ph = IF op[o].target = None THEN "resolved" ELSE "ready"
    /\ Set(o, [op[o] EXCEPT !.ph = "aborted"])
    /\ UNCHANGED <<leaseVars, machine, conns, registry, handles>>

\* MachineTransition::finish of an aborted transition first releases the exact owner.
ReleaseAborted(o) ==
    /\ op[o].ph = "aborted" /\ op[o].target # None
    /\ \/ ReleaseSucceeds(op[o].target) /\ Set(o, [op[o] EXCEPT !.ph = "settling"])
       \/ ReleaseFails(op[o].target) /\ Set(o, IdleOp)
    /\ UNCHANGED <<rev, life, conns, registry, handles>>

\* finish_machine_transition
SettleTransition(o) ==
    LET c == op[o].target
        n == at[c] IN
    /\ op[o].ph = "settling" /\ c # None
    /\ exits' = [exits EXCEPT ![n] = IF @ = Exit("transitioning", c) THEN NoExit ELSE @]
    /\ tunnels' = [tunnels EXCEPT ![n] = None]
    /\ closers' = closers \cup ({tunnels[n]} \ {None})
    /\ Set(o, IdleOp)
    /\ UNCHANGED <<leaseVars, machine, conns, pending, open, busy, cleaned>>

\* Without a valid owner there is nothing to finish.
AnswerTransition(o) ==
    /\ op[o].ph \in {"settling", "aborted"} /\ op[o].target = None
    /\ Set(o, IdleOp)
    /\ UNCHANGED <<leaseVars, machine, conns, registry, handles>>

\* Re-enrollment and the activation of a new Relay binding.
Rebind ==
    /\ life = "inactive"
    /\ life' = "verifying"
    /\ UNCHANGED <<leaseVars, rev, owner, conns, registry, handles, op>>

-----------------------------------------------------------------------------
ConnStep(c) ==
    \/ \E n \in Node : Hello(c, n)
    \/ Reserve(c) \/ Claim(c) \/ ClaimError(c) \/ FinishPending(c) \/ Install(c) \/ Unwind(c)
    \/ BeginDispatch(c) \/ EndDispatch(c) \/ RunEnds(c) \/ EndDispatching(c)
    \/ BeginOwnerRelease(c) \/ Release(c) \/ FinishOwnerRelease(c)
    \/ Dropped(c) \/ CloseAllHandle(c)

OpStep(o) ==
    \/ \E a \in Node : Resolve(o, a)
    \/ BeginTransition(o) \/ TransitionRefused(o) \/ TransitionCloses(o) \/ TransitionReady(o)
    \/ TransitionAbandoned(o) \/ CommitTransition(o) \/ AbortTransition(o)
    \/ ReleaseAborted(o) \/ SettleTransition(o) \/ AnswerTransition(o)

Next ==
    \/ LeaseStep
    \/ \E c \in Conn : ConnStep(c)
    \/ \E n \in Node : CloseAll(n)
    \/ \E o \in Op : OpStep(o)
    \/ Rebind

Spec == Init /\ [][Next]_vars

\* The lease of a node without authority expires: it no longer renews, and
\* the clock adjustments are bounded.
Expire(n) ==
    /\ ~Held(n) /\ leased[n]
    /\ leased' = [leased EXCEPT ![n] = FALSE]
    /\ UNCHANGED <<authority, row, machine, conns, registry, handles, op>>

\* Tasks are scheduled, transactions end, dispatched work ends by its write
\* timeout, the dispatch mutex is handed over in order, and a transition's
\* waits are bounded by timeouts.
Fairness ==
    /\ \A n \in Node : SF_vars(Expire(n))
    /\ \A c \in Conn :
          /\ SF_vars(EndDispatching(c))
          /\ WF_vars(EndDispatch(c))
          /\ WF_vars(\/ Unwind(c) \/ FinishPending(c) \/ BeginOwnerRelease(c)
                     \/ Release(c) \/ FinishOwnerRelease(c) \/ Dropped(c))
    /\ \A o \in Op :
          WF_vars(\/ TransitionCloses(o) \/ TransitionReady(o) \/ TransitionAbandoned(o)
                  \/ CommitTransition(o) \/ AbortTransition(o) \/ ReleaseAborted(o)
                  \/ SettleTransition(o) \/ AnswerTransition(o))

FairSpec == Spec /\ Fairness

-----------------------------------------------------------------------------
(* Properties.                                                             *)

Owns(c) ==
    /\ owner.node = at[c] /\ owner.conn = c /\ owner.epoch = ep[c]
    /\ life = "active" /\ rev = crev[c]

\* A handle that would let a dispatch through, or has one in flight on a node
\* with authority, is the route the database names, at the Machine's current
\* revision.  Owner authority is never released, and no transition commits,
\* while stale dispatch remains open.
DispatchIsOwned == \A c \in Conn : c \in open \cup busy /\ Held(at[c]) => Owns(c)

\* Two routes never accept dispatch at the same time, on one node or on two.
OneDispatcher ==
    \A c, d \in Conn :
        c \in open \cup busy /\ Held(at[c]) /\ d \in open \cup busy /\ Held(at[d]) => c = d

\* A cleanup on a node with authority never meets the exit of another route:
\* begin_owner_release answers Defer or Release, never its error, after which
\* the owner row would stay and nobody would be fenced.
ExitIsOurs ==
    \A c \in Conn : st[c] = "closed" /\ Held(at[c]) =>
        exits[at[c]] \in {NoExit, Exit("transitioning", c)}

\* A healthy node never fences itself by releasing a row it does not own:
\* the exact release finds its row wherever the code issues it.
ReleaseFindsItsRow ==
    \A c \in Conn : st[c] \in {"unwinding", "releasing"} /\ Held(at[c]) => OwnsExactly(c)

\* A connection that finished on a node with authority left nothing behind:
\* no owner row, no registry entry and no open dispatch, unless a transition
\* of its route is still to settle the row.
DoneLeavesNothing ==
    \A c \in Conn : st[c] = "done" /\ Held(at[c]) =>
        /\ tunnels[at[c]] # c /\ c \notin pending[at[c]] /\ c \notin open
        /\ owner.conn = c => exits[at[c]] = Exit("transitioning", c)

TunnelOver(c) ==
    st[c] \in {"claimFailed", "unwinding", "unwound", "ending", "closed", "releasing",
               "released", "done"}

\* A Machine is never stuck behind a dead route: once a tunnel is over, for
\* whatever reason and wherever its cleanup failed, the row it claimed is
\* released or stops being valid.
DeadRouteIsFreed ==
    \A c \in Conn : TunnelOver(c) ~> ~(OwnerValid /\ owner.conn = c)

=============================================================================
