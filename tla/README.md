# OwlMux: TLA+ specifications

OwlMux is a terminal gateway: a Browser attaches, through a Server node, to a
tmux session on a target host that an outbound Relay connects to the
Deployment.  One PostgreSQL database is the only durable authority.  Every
node is the same `owlmux-server` process; a node that a Relay connects to
claims the Machine and keeps everything about it in its own memory until it
releases the Machine or its lease runs out.

What is hard here is authority.  At any time at most one process may send
bytes to a Machine, although processes stall, answers arrive late, commits are
ambiguous, clocks are adjusted and operators revoke Relays on another node.
The specifications in this directory are about that, and about what is built
on it: enrolling a Relay, carrying streams over its tunnel, and keeping what a
Browser shows equal to what the target has.

## Inventory

| Part | Source | State it owns | What runs concurrently | Model |
|---|---|---|---|---|
| Node lease, configuration epoch | `deployment.rs`, `storage.rs`, `main.rs`, `clock.rs` | rows `deployment`, `server_nodes`; local deadline, fence, drain flag | nodes, the renewal task, `main`, every caller of `check()` | `NodeLease`, `LeaseAuthority` |
| Relay registry, Machine ownership | `relay/mod.rs`, `owner.rs` | row `machine_owners`; maps of tunnels, pending claims and exits; dispatch flags | one task per tunnel, dispatchers, `close_all` | `RelayOwnership` |
| Machine transitions, remote invalidation | `api/mod.rs`, `internal.rs` | rows `machines`, `relay_bindings`; an armed `MachineTransition` | API requests on any node, the owner's tunnel task | `RelayOwnership`, `Enrollment` |
| Enrollment and verification | `relay/mod.rs`, `api/mod.rs` | rows `relay_enrollments`, `relay_verification_attempts` | enrollment sockets, API requests, recovery, expiry, node loss | `Enrollment`, `Credentials` |
| Tunnel streams | `relay/mod.rs`, Relay `main.rs` | stream maps at both ends | two multiplexers, one reader task per stream and side | `TunnelStreams` |
| Relay client | `owlmux-relay` | state file, reconnect loop | the process, its restarts, `reset` by another process | `Enrollment`, `TunnelStreams` |
| Writer scope, attachments | `writer.rs`, `attachment.rs` | writer pointer, its two mutexes, directive channels | one task per attachment | `WriterScope` |
| tmux control client, projections | `tmux.rs`, `attachment.rs` | request and event queue, installed view | the target, the attachment's task | `TmuxProjection` |
| Attachment frames, web client | `attachment.rs`, `apps/web` | epochs, pending operations, sinks and render queues | the Server's loop, socket events, React commits, the renderer | `BrowserSession` |
| Credentials, Machine administration | `api/mod.rs`, `storage.rs` | rows `ssh_credentials`, `machines` | API requests, enrollments, server starts | `Credentials` |
| Source admission, limits | `service.rs` | entries per source, semaphores | every connection | not modelled |
| Internal transport (attachment proxy) | `internal.rs`, `cluster.rs` | sockets, limits | proxied attachments | not modelled |
| SSH runtime | `ssh.rs` | child processes, private files | one per attachment | only the end of its output, in `TmuxProjection` |
| Key custody, authentication | `crypto.rs`, `auth.rs` | none | nothing | not modelled |

The hazards these parts are exposed to are listed in `PROJECT.json` with the
line where each one bites and the properties that would notice.  `PROJECT.json`
also gives the source lines of every definition.

## Modules

**`LeaseAuthority`** is what the lease promises the rest of the server, with no
clock: an incarnation is `new`, then `admitting`, then perhaps `draining`, and
once `lost` stays lost; while it has authority its row is unexpired, unless it
deleted the row itself.  `Elapse` stands for time, fences, crashes, renewals
and clock adjustments.

**`NodeLease`** is the lease as the code has it.  `before`, `deadline`,
`fenced`, `draining` and `depReady` are the fields of `struct NodeLease` (and
the local of `run_renewals`); `rowState` and `leaseUntil` are the row,
`cfgEpoch` the deployment row.  `main` and `task` are the program counters of
`main()` and of registration, later the renewal loop.  A request to PostgreSQL
is three steps: the sample before it (`...Begin`), the transaction (`...Commit`)
and the arrival of the answer (`...Install`), with clock ticks, adjustments,
fences, the drain and crashes between them.  `...Error` is a request that
fails, before or after its commit.  `validate_deployment` and every other
transaction lock the deployment row, so a transaction is one step.

A member of `Node` is a process incarnation, which the code names with a fresh
UUID; a restart is another member.

**`RelayOwnership`** extends `LeaseAuthority` with one Machine: its row in
`machine_owners`, the three maps of `RegistryState` on each node, the phases of
each Relay connection (`tunnel()`), the dispatch flag and lock of each
`TunnelHandle`, and requests that take the route away.  The correspondence is
one action per piece of code between two awaits on a lock, a transaction or a
token; `PROJECT.json` gives the lines.  `owner.rs::resolve` is the first step
of a request, and what it read may be stale in all later ones.
A transition on a remote owner is the same sequence with messages between its
steps: their loss or delay is `TransitionRefused` before the owner has begun and
`TransitionAbandoned` after it.  An owner that times out while the API node
goes on to commit is a loss of authority in `LeaseStep` followed by
`CommitTransition`.

**`WriterScope`** is the Browser side of one Machine at its owner.  `cur` and
`up` are what `is_current_route` answers; `scopes` are the `WriterScope`s that
`WriterRegistry::scope` has made, the last of them registered; `pc`, `rt` and
`sc` are an attachment's place in `chooser()`, `workspace()` or a writer change,
its expected route and its scope; `mode` are the flags of its tmux client,
`inbox` its directive channel, `dirty` its unseen `watch` notification and `tr`
the locals of `change_writer_with_control` and
`change_writer_without_control`.  Nobody holds the state mutex across an await
without the dispatch mutex, so both are read off `pc`.  Awaits under the
mutexes are steps of their own when somebody else can act during them: the
target's answer, the channel of the former writer, its response.  The chooser's
own `send_writer_state` is left out, as it changes nothing and nobody waits for
a chooser.

**`TunnelStreams`** is one established tunnel: `run_tunnel` and its
`relay_reader`s on the Server, `relay_tunnel` and its target readers on the
Relay, the two bounded outbound channels and the socket, a FIFO that blocks its
sender when full.  Bytes are counted in data frames.  A handler that awaits is
one step, since its loop does nothing else meanwhile; the timeouts that end a
blocked send or write are outcomes of their own.  `server` and `relay` record
why a loop returned.  The OpenSSH bridge (`caller`) and sshd are the
environment: they write, half-close, reset, or are dropped at any time.

**`Enrollment`** is the way of a Machine from `pending` through `verifying` to
`active` and back.  Every transaction locks the Deployment row and is one step;
what happens between transactions interleaves: the two transactions of a token
request, `accept_token`, the frames of the enrollment socket, `activate`,
`fail_attempt` (once, and perhaps not at all), the recovery of expired attempts,
disable, revoke and re-enroll, the drain or loss of the node.  A commit whose
answer is lost is a choice in `AcceptToken` and `Activate`.  The Relay is a
process (`proc`, `mem`, `using`) with a state file (`file`) that survives it;
`reset` may replace the file under a running process.  The expiry of a token
and of an attempt may happen at any moment.  A `Key` is the Relay's secret and
its Relay ID together, and a new one is larger than all before it, which stands
for "never had before".

**`Credentials`** is the SSH credentials and what refers to them: the default,
the Machines, and the attempts, which read the Machine's credential twice
without a lock (to show it and to prove it) and then bind.  `Validate` is the
custody check of every start of a Server.

**`TmuxProjection`** is one control client.  The target executes commands in
order and writes one FIFO of replies, output and notifications; it is external,
and changes its windows, layout and current window, produces output and pauses
panes at will.  `stage` is the place in `hydrate_once`, `install_projection` or
the live loop, so that every command and its reply are steps between which the
target acts.  `events` and `queued` are the adapter's bounded queue, with its
overflow; `boundary` and `snap` are the cutover from capture to live output.
Output is counted in chunks and a snapshot is the number of chunks it shows.

**`BrowserSession`** is one tab and the Server's frames for it.  `client.ts` is
`attEpoch`, `wsEpoch`, `pend` and `ops`; `workspace.tsx` is `current`, the React
state before and after a commit (`state`, `ui`), the pane sinks, the list of
waiting output and the render queues.  React may commit any time after a state
change; the effects of a commit, which dispose and mount the renderers
(`mounted`), are a step of their own, before the next commit, and frames may come
in between.  The renderer drains at its own pace.  `strays` is a history variable:
the output of the installed projection that a renderer of an earlier one took.
The Server's side is as much of `attachment.rs` as decides which frames it sends,
with the two places where it waits for the mutexes of a scope between
`workspace` and the next frame (`Returning`) and before the socket is closed
(`releasing`).

**`NodeLeaseProofs`**, **`RelayOwnershipProofs`**, **`WriterScopeProofs`**,
**`CredentialsProofs`** and **`EnrollmentProofs`** hold the theorems.
`RelayOwnershipInv`, `WriterScopeInv` and `EnrollmentInv` are inductive
invariants.  `EnrollmentStepProofs` shows that two parts of the last one are
preserved; `WriterScopeStepProofs` and `WriterScopeEffectProofs` are the first
two layers of the proof about `WriterScope`.

The modules named **`MC...`** add symmetry sets, the small instances of the panes
and the constraints of `owner_cluster`, `writer` and `tunnel`.

Definitions whose comment starts with "Mutant" are variants of the definition
after them, with a plausible mistake; each property has one that breaks it.

## Runs

| Run | Checks | Instance |
|---|---|---|
| `lease` | `LeaseCovered`, `EpochCurrent`, `ReadyIsServing`, `SingleAuthority`, `AuthorityNeverReturns` | single_node, 2 incarnations, 2 epochs |
| `owner_cluster` | `DispatchIsOwned`, `OneDispatcher` | 2 nodes, 2 connections, 1 request |
| `owner_local` | `ExitIsOurs`, `ReleaseFindsItsRow`, `DoneLeavesNothing`, `DeadRouteIsFreed` | 1 node, 2 connections, 1 request, fair |
| `writer` | `TypeOK`, `ControlIsLive`, `GoneIsNotWriter`, `WritableIsFenced`, `WriterCanWrite`, `DemotedFirst` | 3 attachments, 2 routes, 2 scopes, channel of 2 |
| `writer_scopes` | `OneMutator`: violated | 3 attachments, 2 routes, 3 scopes, channel of 2 |
| `writer_close` | `FailureClosesWorkspace`: violated | 2 attachments, channel of 4, fair |
| `tunnel` | `TypeOK`, `NothingLost`, `EndIsLast`, `ServerNeverRefuses`, `RelayNeverRefuses`, `SlotsReturn` | 3 streams in 2 slots, queues of 1 and sockets of 2, 2 pings |
| `tunnel_drop` | `DropIsLocal`: violated | 2 streams |
| `enroll` | `PendingIsClean`, `VerifyingHasReason`, `BoundIsCurrent`, `BindingIsClaimable`, `VerifyingEnds` | 1 Machine, 1 Relay, 2 nodes, 2 tokens, 2 identities, 2 revisions, fair |
| `tmux` | `TypeOK`, `ContinuousView`, `StaleIsFlagged`, `ConvergesToTarget` | 2 windows of 1 pane, 2 attempts, queue of 2, 3 turns and chunks, fair |
| `browser` | `TypeOK`, `ExactPicture`, `RoleAgrees`, `NoneForgotten`, `ConnectingEnds` | 1 pane, 1 pending operation, 4 requests, turns and chunks, fair |
| `credentials` | `StartupAccepts`, `ProofStands`, `InUseIsActive` | 4 credentials with a limit of 3, 2 Machines, 3 attempts |

What the properties say is written above each of them.  In short: `lease` shows
who may act at all, `owner_*` who may send to a Machine, `writer*` who may type,
`tunnel*` that streams carry what they are given, `enroll` and `credentials`
that the rows, the Relay's file and the keys agree whatever fails, `tmux` and
`browser` that the picture is the target's.

*Bounds of the lease.*  `TTL = 3`, `Margin = 1`, `MaxSkew = 1` are the smallest
durations with a TTL of more than a tick beyond the margin and an adjustment as
large as the margin allows.  `MaxTime = 4` lets a lease granted at time 1 expire
on both clocks, a second incarnation register, and a renewal that started before
the expiry commit and be answered after it.  `MaxEpoch = 2` is one configuration
transition.  The proofs remove all of these bounds, and cover the clustered
profile too.

*Bounds of ownership.*  Two connections on two nodes give every pair of claim,
cleanup and transition.  `MaxRev` bounds the number of committed transitions.
Connections are used once, as their identifiers are.  `owner_cluster` stops at
states in which every incarnation has lost its authority (`SomeNodeLives`):
nothing can be dispatched, claimed or installed after that.

*Bounds of the writer.*  Three attachments are an old writer, a claimant and a
third that claims while the two are busy.  A `Capacity` of 2 lets a `Demote` that
timed out stay in the channel behind the `Close` that follows it, and a full
channel is reached, on the first route (`FullOnFirstRoute`); `writer_close` has the
4 of the code.  Two
routes and three scopes are the least with which a late lookup replaces the
scope of a current route.  Attachments are used once, as their identifiers are.

*Bounds of the tunnel.*  With two slots two streams send at once, in either
direction, and a third is opened in the slot of the first while frames of it may
be anywhere; the limit on streams is reached.  Queues of one frame make every send
block that can, and a socket of two holds frames of both streams.
`TwoStreamsFewChunks` divides the rest: one stream alone has two chunks in each
direction, the pings and a tunnel that ends; two streams have a chunk each, in
either direction; the third meets streams that carry nothing.  Two pings reach
the limit of unanswered ones.

*Bounds of enrollment.*  Two tokens are an attempt and its successor; two
identities are one reset or one re-enrolled Relay; two revisions are one
transition of an active Machine; the second node serves after the first was
drained or lost.  `EnrollmentProofs` removes these bounds from the invariants.

*Bounds of the view.*  Two windows give a current one that changes; `MaxTurns`
counts changes of the target, pauses and refreshes together, and two of them
are a change during the hydration that another change caused.  Two chunks of
output, of one pane or of both, may be repeated or swapped, and `MaxEvents = 2`
and `MaxQueued = 1` make the queue overflow.  `MaxWork = 3` has two turns with a
chunk or two chunks with a turn; with 4 the properties hold too, in more time.  In the Browser, three requests
include an open, a claim and a refresh or detach; a limit of one pending
operation is reached by each of them.  `MaxWork = 4` allows an open, a refresh
and two chunks, or an open, a claim, a request of the writer and a chunk or a
lost control client; here too the properties hold with one more.

*Bounds of the credentials.*  Four credentials meet a limit of three, so a
creation is refused; three attempts of two Machines allow an expired one to be
carried on after its successor.

*Deadlock* is checked in `credentials`.  In the other runs the incarnations,
connections, attachments, streams or turns may be used up, a tunnel, workspace or
tab may have ended, and time ends at `MaxTime`.

*Fairness* (`owner_local`).  A task that has a step to take takes it: Tokio
schedules it, transactions end (the pools have statement timeouts), dispatched
work ends by its write timeout.  `EndDispatching` is strongly fair because the
Tokio mutex it waits for is handed over in order.  `Expire` is strongly fair: a
process without authority cannot renew for ever, and clock adjustments are
bounded, so its row stays expired in the end.  No fairness is assumed of
Relays, of clients, of `close_all` or of a node that has authority.

*Fairness* (`writer_close`).  The target answers or a timeout passes, so every
step of an attachment that waits for neither a mutex nor a client is weakly
fair.  Steps that wait for a mutex are strongly fair, as Tokio hands mutexes over
in order; so are the `select!` branches of the workspace, as `select!` picks
among ready branches at random.  Nothing is assumed of clients or of the route.

*Fairness* (`enroll`).  Deadlines pass.  Somebody lists or reads the Machine
again and again, which is when expired attempts are recovered: no task of the
Server does it by itself.  An enrolled Relay is restarted by its supervisor,
and, as it retries for ever, reaches a serving node in the end, if there is one.
Nothing else of the Server or of the operator is assumed.

*Fairness* (`tmux`).  tmux executes what it is sent, the attachment's task is
scheduled and its sends complete, and the dispatch mutex goes to the attachment
when it is free.  Nothing is assumed of the others that hold it (`held`): a
claimant whose demotion failed keeps it across a send without a deadline, which
`writer_close` shows may never end.  `ConvergesToTarget` therefore speaks of
behaviours in which the mutex is free again and again.

*Fairness* (`browser`).  Probes and hydration end, under their deadlines, and the
page's event loop, React's commits and its effects are scheduled.  Nothing is
assumed of the user, of the renderer, or of the steps that wait for the mutexes
of a scope: opening the control client, returning from `workspace` and
`release_attachment`.  An Attachment that stays in one of the last two for ever
is the exception in `ConnectingEnds`.

## Findings

`writer_close` shows two attachments that wait for each other for ever.  A
takeover whose demotion timed out sends `Close` to the former writer with no
timeout and with both mutexes held.  When the former writer's channel is full and
the former writer is in `send_writer_state`, it waits for the state mutex and
never reads the channel.  The channel of 4 fills with the `Demote` and `Close` of
two changes that time out while the former writer is busy, if in between it takes
a claim of its client before the directives.  From then on nobody can claim,
write or detach on that route.  The attachment chapter says that a failed change
closes the affected workspaces.

`writer_scopes` shows two writers on the current route.  An attachment whose
route has ended can still be between its probe and `WriterRegistry::scope`,
writing an audit row; its lookup then replaces the newer route's scope, since
`scope` compares routes for equality only.  The next attachment on the current
route gets a fresh scope, with a pointer of its own, while an earlier one still
writes under the old one.  The README of the repository promises exactly one
writer per route.  Within one scope the promise holds, by construction of the
mutexes; that the pointer moves in the right order is `DemotedFirst`.

`tunnel_drop` shows that closing one attachment can end the tunnel of all.  When
the caller of a stream is dropped with output of sshd still under way, the next
data frame for it makes `write_data` fail, and `run_tunnel` returns.  The product
chapter says that closing one tab disposes only its Attachment.  The Relay
reconnects, but every other attachment of the Machine has to be opened again.

Some limits that the code or its documentation states are exceptions written
into the properties, not findings:

- a Relay process ends, and is not retried by `run_forever`, when a frame arrives
  for a stream whose connect sshd refused, and returns `limit` when it has no room
  for a stream (`RelayNeverRefuses`);
- a Machine stays `verifying` when its Relay is reset after the activation and
  before the first claim: the identity it is bound to exists no more
  (`Orphaned` in `VerifyingEnds`);
- a frame that crosses the loss of its control client ends the Attachment;
- effects that run after the frames of a refresh have reset the projection mount
  the old projection's renderers, and `registerSink` does not look at the epoch:
  they take what waits and what comes next of the new projection until React
  disposes them.  `ExactPicture` says that nothing else is missing; the attachment
  chapter has the renderers of the prior epoch discarded
  (`spec/04`, "Renderers and pane IDs from the prior epoch are discarded.");
- a tab stays connecting while its Attachment waits for the mutexes of its scope
  (`ConnectingEnds`), and a view stays outdated while another attachment keeps the
  dispatch mutex (`ConvergesToTarget`);
- in the moment between the deletion of its row and its fence, a process that
  releases its lease still passes `check()`; `SingleAuthority` counts the processes
  that have a row;
- a renewal that commits after the expiry of its row makes the row valid again,
  as the `UPDATE` of `renew_database` has no predicate on `lease_until`.
  `install_deadline` fences the process whose answer is late, so no authority
  comes back (`AuthorityNeverReturns`, `SingleAuthority`); the Machine it owned
  is unavailable for one more TTL.

## Proofs

The type invariants of `NodeLease`, `RelayOwnership`, `Enrollment` and
`Credentials` are proved and not run.

`NodeLeaseProofs` proves, for every set of incarnations, every TTL, margin,
adjustment bound and epoch that satisfy `LeaseAssumption`:

- `TypeCorrect`: the type invariant;
- `AuthorityIsLeased`, `AuthorityHasCurrentEpoch`, `ReadinessIsDurable`,
  `AuthorityIsUnique`: the four invariants of the run `lease`;
- `LostAuthorityStaysLost`: the action property;
- `LeaseKeepsItsPromise`: `NodeLease` implements `LeaseAuthority`, which is what
  `RelayOwnership` is built on.  No run repeats this one.

The assumption that carries the argument is `MaxSkew <= Margin`: the code
cannot check it and the storage chapter makes it the operator's duty.

None of the invariants is inductive.  `IInv` adds: what each program counter
says about the row, the flags and the sample (`Phases`); that the deadline and
the deadline about to be installed lie `Margin` before the end of the row's
lease, counted from the sample (`Bounds`), which is where
`before + TTL - Margin <= now + TTL - Margin` meets `skew <= MaxSkew`; and two
facts about the incarnations that have authority or may still get it.  Such an
incarnation is `Live`: authority begins, for this purpose, when the row is
committed and its answer is still on the way.  A live incarnation has the stored
epoch (`LiveEpoch`), and in the single_node profile there is one (`OneLive`).
The proof has one step per action; most of them follow from the lemma
`NobodyBecomesLive`, as only the commit of a registration makes anybody live.

`RelayOwnershipProofs` proves the five invariants of the `owner_*` runs for any
sets of nodes, connections and requests and any number of transitions
(`OpenDispatchIsOwned`, `DispatcherIsUnique`, `CleanupMeetsItsOwnExit`,
`ExactReleaseFindsItsRow`, `FinishedTunnelLeftNothing`), also where
`SomeNodeLives` stops the run.  The only assumption is that NULL names no node
and no connection.  None of the five is inductive.  `IInv` in
`RelayOwnershipInv` adds, for a node that has authority:

- `ConnInv`: from the commit of its claim to the commit of its release a
  connection is the one in the owner row, before and after it is not, and a
  handle is open only in between;
- `EntryInv`, `PendingInv`: what the registry's maps hold belongs to the node
  and is in the matching phase;
- `ExitInv`: an installed tunnel meets no exit but a transition of its own, and
  a row that outlives its tunnel is kept by such a transition;
- `OpInv`: a request goes on to its commit only after the target's cleanup.

Two conjuncts are about the lease: authority is covered by the node's row
(`Covered`), and the owner's node has one (`OwnerHasRow`, the foreign key).  They
are what makes a takeover harmless: a claim replaces only a row whose node is
expired, hence without authority, so `ConnInv` says nothing of its connections
any more.  `OwnershipRespectsTheLease` shows the converse, that ownership takes
only steps `LeaseAuthority` allows, its hard fences included.  With
`LeaseKeepsItsPromise` this closes the composition.

`WriterScopeProofs` proves `TypeOK`, the four other invariants and the action
property of the run `writer` for any set of attachments, any number of routes and
scopes and any channel capacity (`WriterScopeTypeOK`,
`TakeoverFindsALiveWorkspace`, `ReleasedIsForgotten`, `NoStrayWriter`,
`WriterIsNotStuck`, `WriterIsDemotedFirst`).  The only assumption is that no
attachment is the empty `Option`.  `IInv` in `WriterScopeInv` adds:

- `PhaseInv`, `ChangeInv`: which phases have a scope, a tmux client and a
  channel, and what the locals of a writer change hold in each of its steps;
- `OneHolder`, `HolderInv`: the state mutex of a scope has one holder, and what
  it read from the pointer is still there, because nobody else may assign it;
- `DemotedInv`, `ControlInv`: a change that is about to assign the pointer has a
  former writer that is not writable; a writable one has its control there;
- `FencedInv`, `WriterInv`: who is writable and not the writer, or the writer and
  not writable, is explained by a directive in its channel, by a change in
  progress or by a failed one that still has to send `Close`;
- `DemoteInv`: each `Demote` in a channel has a sender that still waits, or one
  that gave up and whose `Close` is there or will be.

`DemoteInv` is the reason why a late demotion does no harm: a `Demote` whose
sender timed out is never the last word, so `WriterInv` survives its being read
by an attachment that has become the writer again.

An attachment has 28 steps and `IInv` a dozen parts.  Rather than a case for
each pair, the proof has three layers.  `EffectStep` reduces every action to one
of the effects of `WriterScopeStepProofs`: what changes of one attachment, of
its scope and of at most one other channel.  `WriterScopeEffectProofs` shows once
what an effect leaves of the other attachments (`Others`), of the pointers
(`PointerStep`) and of the channels (`BoxStep`), and what it makes of the
attachment that acts.  `WriterScopeProofs` puts these together, one lemma per
part of `IInv`.

`CredentialsProofs` proves `TypeOK`, `InUseIsActive`, `StartupAccepts` and
`ProofStands` for any finite sets of credentials and Machines, any set of
attempts and any limits (`CredentialsTypeOK`, `ReferencedIsActive`,
`EveryStartAccepts`, `ActivationRestsOnProof`).  The first two support each
other: no reference goes to a credential that is not there, and retirement sees
all references.  `StartupAccepts` needs that the number of rows stays within the
limit (`CountInv`), which is a fact about cardinalities and the one place where
the sets must be finite.  `ProofStands` speaks of three reads at three times;
`AttemptInv` is what holds in between: as long as an attempt could still
activate, its Machine is `verifying` at the attempt's revision, every API call
that rebinds a Machine is refused in that state, and so what was read is still
the Machine's credential.

`EnrollmentProofs` proves `TypeOK`, `PendingIsClean`, `VerifyingHasReason`,
`BoundIsCurrent` and `BindingIsClaimable` for any sets of Machines, Relays and
nodes and any number of tokens, identities and revisions (`EnrollmentTypeOK`,
`PendingStaysClean`, `VerifyingAlwaysHasReason`, `BindingStaysCurrent`,
`BoundRelayCanClaim`).  The assumption is only that the bounds are positive.
The inductive invariant adds four parts:

- `LinkInv`: token, attempt and connection belong together;
- `RelayInv`: a Relay process has loaded what its phase needs, and names the
  attempt's Machine and revision from the `Accepted` frame on;
- `LedgerInv`: a live attempt means a `verifying` Machine at the attempt's
  revision without a binding, and there is one of them;
- `KeyInv`: identities are not shared, and whichever file or process still has
  an identity that was proposed in an attempt gives that attempt's Machine and
  revision.

`KeyInv` carries `BindingIsClaimable`.  The case that needs care is a `reset`
under a running enrollment, after which the process writes its own, older state
over the new one: the proof shows that an identity is proposed to a Server only
after it is in the file together with its Machine, so the old state is the right
one again.

What stays with TLC: all liveness (`DeadRouteIsFreed`, `FailureClosesWorkspace`,
`VerifyingEnds`, `ConvergesToTarget`, `ConnectingEnds`), which is out of the
prover's reach, and the safety properties of `TunnelStreams`, `TmuxProjection`
and `BrowserSession`, for which no inductive invariant has been worked out.  The
two violations of `WriterScope` (`OneMutator`, `FailureClosesWorkspace`) are
counterexamples; the theorems above hold together with them, as they speak of one
scope at a time and of safety.

## Not modelled

- *Source admission and limits* (`service.rs`): counters behind one mutex with a
  time window.  No documentation says what a source is owed beyond the constants,
  so there is nothing to check the code against.
- *The attachment proxy* (`internal.rs`, `cluster.rs`): it copies frames between two
  sockets and ends both when one ends.  The internal requests that change state
  (remote invalidation) are in `RelayOwnership`.
- *The SSH runtime*: OpenSSH children and files of a private directory are I/O.
- *Key custody and authentication*: pure functions of keys and bytes.
  Cryptography is taken to work.
- *The administration pages, the saved key and the rendering* of the web client,
  and the renaming of credentials and Machines: no property speaks about them.
- Terminal bytes, pane titles, audit rows, metrics and HTTP routing change no
  state a property speaks about.  The configuration proof, the build identifier
  and the profile are compared together with the epoch everywhere and are
  represented by it.
- PostgreSQL is taken to be what the documentation requires of it: linearizable,
  one writer, no rollback.
- The models are composed where one relies on another (`RelayOwnership` on
  `LeaseAuthority`).  `WriterScope` has two steps for the route of
  `RelayOwnership`, `Enrollment` abstracts the claim to the activation of the
  Machine, and `BrowserSession` abstracts hydration to its outcomes.
