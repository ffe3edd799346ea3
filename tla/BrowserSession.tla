--------------------------- MODULE BrowserSession ---------------------------
(***************************************************************************)
(* The Browser's end of one Attachment and the frames it exchanges with    *)
(* the Server: openAttachment of client.ts (sequence validation, pending   *)
(* operations), InteractiveWorkspace and PaneTerminal of workspace.tsx     *)
(* (projection, sinks, render queues, React commits), and the frame loop   *)
(* of attachment.rs (authenticated_session, chooser, workspace,            *)
(* handle_workspace_frame) as far as it decides which frames are sent.     *)
(*                                                                         *)
(* Epochs are numbers: each chooser and each projection takes the next     *)
(* one.  All panes are visible in every projection, and a pane's snapshot  *)
(* is one chunk, number 0; live output of an epoch is numbered from 1.     *)
(***************************************************************************)
EXTENDS Naturals, Sequences, FiniteSets, SequencesExt

CONSTANTS Pane,
          RenderCap,   \* MAX_RENDER_QUEUE_BYTES, in chunks
          MaxPending,  \* ATTACHMENT_MAX_PENDING_OPERATIONS
          MaxOutput,   \* bound on the output of the panes, in chunks
          MaxRequests, \* bound on the frames the user causes to be sent
          MaxTurns,    \* bound on the refreshes and losses of the control client,
                       \* the writer changes made elsewhere and the reconnects,
                       \* all together
          MaxWork      \* bound on the output, the requests and the turns together

ASSUME BrowserAssumption ==
    /\ {RenderCap, MaxPending} \subseteq Nat \ {0}
    /\ {MaxOutput, MaxRequests, MaxTurns, MaxWork} \subseteq Nat

(* A chooser or projection follows a connection, a request or a loss. *)
MaxEpoch == 1 + MaxRequests + MaxTurns

VARIABLES
    server,              \* where authenticated_session is
    epoch,               \* the selection or workspace epoch it serves
    writer, changed,     \* it holds the writer pointer; writer_changed is due
    answer,              \* the request a refresh answers when it is done
    out,                 \* output of each pane sent in this epoch
    toBrowser, toServer, \* the WebSocket
    attEpoch, wsEpoch,   \* currentAttachmentEpoch, currentWorkspaceEpoch of client.ts
    pend,                \* the pendingProjection of client.ts and of workspace.tsx
    ops,                 \* pendingOperations
    current,             \* currentWorkspaceEpoch of workspace.tsx
    attached,            \* its attachment.current is not null
    state, ui,           \* React state: set, and committed
    sinks,               \* the projection whose renderer is each pane's sink
    waiting,             \* pendingOutput
    mounted,             \* the projection whose renderers exist
    term, backlog,       \* chunks given to each renderer; those not yet written
    strays,              \* history: output of the installed projection that a
                         \* renderer of an earlier one took
    requests, turns, sent  \* what MaxRequests, MaxTurns and MaxOutput bound

serverVars == <<server, epoch, writer, changed, answer, out>>
clientVars == <<attEpoch, wsEpoch, pend, ops>>
renderers == <<mounted, term, backlog>>
paneVars == <<sinks, waiting, strays, renderers>>
bounds == <<requests, turns, sent>>
vars == <<serverVars, toBrowser, toServer, clientVars, current, attached, state, ui, paneVars, bounds>>

F(t, e, p, n) == [type |-> t, epoch |-> e, pane |-> p, n |-> n]
Phase(t) == F(t, 0, "none", 0)
Result(i) == F("result", 0, "none", i)
WriterState(e) == F(IF writer THEN "writer" ELSE "observer", e, "none", 0)

Failed == <<Phase("failed"), Phase("error")>>

Request(t, e, i) == [type |-> t, epoch |-> e, id |-> i]

Blank == [phase |-> "connecting", projection |-> 0, selection |-> 0, role |-> "observer"]
NoProjection == [epoch |-> 0, done |-> {}]
InBudget == requests + turns + sent < MaxWork
Sum(f) == FoldFunction(LAMBDA a, b : a + b, 0, f)

(* Where workspace() runs, and where it has returned and the dispatch and  *)
(* the state mutex of the scope are awaited to clear the control.          *)
InWorkspace == {"opening", "installing", "ready", "refreshing", "claiming"}
Returning == {"toChooser", "toDetach", "toFailure"}

TypeOK ==
    /\ server \in {"probing", "choosing", "releasing", "ended"} \cup InWorkspace \cup Returning
    /\ {epoch, attEpoch, wsEpoch, current, mounted} \subseteq 0..MaxEpoch
    /\ {writer, changed, attached} \subseteq BOOLEAN /\ answer \in 0..MaxRequests
    /\ out \in [Pane -> 0..MaxOutput]
    /\ pend.epoch \in 0..MaxEpoch /\ pend.done \subseteq Pane
    /\ ops \subseteq 1..MaxRequests /\ Cardinality(ops) <= MaxPending
    /\ \A s \in {state, ui} :
          /\ s.phase \in {"connecting", "selecting", "ready", "failed", "closed"}
          /\ {s.projection, s.selection} \subseteq 0..MaxEpoch
          /\ s.role \in {"observer", "writer"}
    /\ sinks \in [Pane -> 0..MaxEpoch]
    /\ \A p \in Pane : Len(waiting[p]) <= RenderCap /\ backlog[p] <= Len(term[p])
    /\ backlog \in [Pane -> 0..RenderCap]

Fresh ==
    /\ server' = "probing" /\ epoch' = 0 /\ changed' = FALSE /\ answer' = 0
    /\ out' = [p \in Pane |-> 0]
    /\ toBrowser' = <<Phase("connecting")>> /\ toServer' = <<>>
    /\ attEpoch' = 0 /\ wsEpoch' = 0 /\ pend' = NoProjection /\ ops' = {}

Init ==
    /\ server = "probing" /\ epoch = 0 /\ writer = FALSE /\ changed = FALSE /\ answer = 0
    /\ out = [p \in Pane |-> 0]
    /\ toBrowser = <<Phase("connecting")>> /\ toServer = <<>>
    /\ attEpoch = 0 /\ wsEpoch = 0 /\ pend = NoProjection /\ ops = {}
    /\ current = 0 /\ attached = TRUE /\ state = Blank /\ ui = Blank
    /\ sinks = [p \in Pane |-> 0] /\ waiting = [p \in Pane |-> <<>>]
    /\ mounted = 0 /\ strays = [p \in Pane |-> <<>>]
    /\ term = [p \in Pane |-> <<>>] /\ backlog = [p \in Pane |-> 0]
    /\ requests = 0 /\ turns = 0 /\ sent = 0

-----------------------------------------------------------------------------
(* The Server's frame loop.                                                *)

browserVars == <<clientVars, current, attached, state, ui, paneVars>>
(* A frame for a Browser that has closed its socket reaches nobody.        *)
Send(fs) == toBrowser' = IF attached THEN toBrowser \o fs ELSE toBrowser

(* The chooser is entered: Phase::Connecting goes out before the probe.    *)
EnterChooser(before) ==
    /\ server' = "probing" /\ changed' = FALSE /\ answer' = 0
    /\ Send(before \o <<Phase("connecting")>>)

(* workspace() returns.                                                    *)
Leave(next, before) ==
    /\ server' = next /\ changed' = FALSE /\ answer' = 0
    /\ Send(before)

ToChooser(before) == Leave("toChooser", before)

(* authenticated_session returns, after a diagnostic unless the Browser or *)
(* the route is gone; release_attachment follows.                          *)
Stop(reason) ==
    /\ server' = "releasing" /\ changed' = FALSE /\ answer' = 0
    /\ Send(IF reason = "detach" THEN <<>> ELSE Failed)

(* The mutexes, for which it waits without a deadline, are granted after   *)
(* workspace().                                                            *)
Returned ==
    /\ server \in Returning
    /\ CASE server = "toChooser" -> EnterChooser(<<>>)
         [] server = "toDetach" -> Stop("detach")
         [] server = "toFailure" -> Stop("failure")
    /\ UNCHANGED <<epoch, writer, out, toServer, browserVars, bounds>>

(* release_attachment has had the mutexes of every registered scope, again *)
(* without a deadline: the writer pointer is released, the socket closed.  *)
Released ==
    /\ server = "releasing"
    /\ server' = "ended" /\ writer' = FALSE
    /\ Send(<<Phase("eof")>>)
    /\ UNCHANGED <<epoch, changed, answer, out, toServer, browserVars, bounds>>

(* The probe succeeds: selecting, the list, and the writer's state under   *)
(* the new selection epoch, to which the loop is subscribed by then.       *)
Probed ==
    /\ server = "probing"
    /\ server' = "choosing" /\ epoch' = epoch + 1 /\ changed' = FALSE
    /\ Send(<<Phase("selecting"), F("list", epoch + 1, "none", 0), WriterState(epoch + 1)>>)
    /\ UNCHANGED <<writer, answer, out, toServer, browserVars, bounds>>

(* SSH, the probe or the control client fails, or the route ends: then     *)
(* the socket closes without a diagnostic.                                 *)
ServerFails ==
    /\ \/ /\ server \in {"probing", "choosing"}
          /\ \E reason \in {"failure", "detach"} : Stop(reason)
          /\ UNCHANGED writer
       \/ /\ server \in InWorkspace
          /\ \E next \in {"toFailure", "toDetach"} : Leave(next, <<>>)
          /\ writer' \in {writer, FALSE}
    /\ UNCHANGED <<epoch, out, toServer, browserVars, bounds>>

(* The control client is open and the dispatch mutex granted, for which    *)
(* there is no deadline: install_projection starts.                        *)
OpenControl ==
    /\ server = "opening"
    /\ server' = "installing"
    /\ Send(<<Phase("connecting")>>)
    /\ UNCHANGED <<epoch, writer, changed, answer, out, toServer, browserVars, bounds>>

Frames(e) ==
    <<F("projection", e, "none", 0)>>
        \o [i \in 1..Cardinality(Pane) |-> F("snapshot", e, SetToSeq(Pane)[i], 0)]
        \o <<Phase("ready")>>

\* Mutant: the first projection is not followed by the writer's state.
AfterRefreshOnly ==
    IF server = "installing" THEN <<>> ELSE IF answer # 0 THEN <<Result(answer)>> ELSE <<>>

(* What follows the frames of a projection: the writer's state on the      *)
(* first, the result of the request that asked for it on a refresh.        *)
AfterInstall ==
    IF server = "installing" THEN <<WriterState(epoch + 1)>>
    ELSE IF answer # 0 THEN <<Result(answer)>> ELSE <<>>

Hydrated ==
    /\ server \in {"installing", "refreshing", "claiming"}
    /\ server' = "ready" /\ epoch' = epoch + 1 /\ answer' = 0
    /\ changed' = (changed /\ server # "installing")
    /\ out' = [p \in Pane |-> 0]
    /\ Send(Frames(epoch + 1) \o AfterInstall)
    /\ UNCHANGED <<writer, toServer, browserVars, bounds>>

(* Hydration fails, the control client exits or the session ends.  A claim *)
(* in progress is undone, and so is a role the control client refused.     *)
ControlLost ==
    /\ server \in InWorkspace
    /\ InBudget /\ turns < MaxTurns /\ turns' = turns + 1
    /\ ToChooser(<<>>)
    /\ writer' \in (CASE server = "claiming" -> {FALSE}
                      [] server = "opening" -> {writer, FALSE}
                      [] OTHER -> {writer})
    /\ UNCHANGED <<epoch, out, toServer, browserVars, requests, sent>>

SendOutput(p) ==
    /\ server = "ready"
    /\ InBudget /\ sent < MaxOutput /\ sent' = sent + 1
    /\ out' = [out EXCEPT ![p] = @ + 1]
    /\ Send(<<F("output", epoch, p, out[p] + 1)>>)
    /\ UNCHANGED <<server, epoch, writer, changed, answer, toServer, browserVars, requests, turns>>

(* ControlEvent::Refresh, once the dispatch lock is granted.               *)
RefreshEvent ==
    /\ server = "ready"
    /\ InBudget /\ turns < MaxTurns /\ turns' = turns + 1
    /\ server' = "refreshing"
    /\ Send(<<Phase("connecting")>>)
    /\ UNCHANGED <<epoch, writer, changed, answer, out, toServer, browserVars,
                   requests, sent>>

(* Another Attachment takes the writer pointer, which needs the dispatch   *)
(* lock that an installation holds.                                        *)
LoseWriter ==
    /\ writer /\ InBudget /\ turns < MaxTurns
    /\ server \in {"probing", "choosing", "opening", "ready", "releasing"} \cup Returning
    /\ turns' = turns + 1
    /\ writer' = FALSE
    /\ changed' = (server \in {"choosing", "ready"})
    /\ UNCHANGED <<server, epoch, answer, out, toBrowser, toServer, browserVars, requests, sent>>

WriterChanged ==
    /\ server \in {"choosing", "ready"} /\ changed
    /\ changed' = FALSE
    /\ Send(<<WriterState(epoch)>>)
    /\ UNCHANGED <<server, epoch, writer, answer, out, toServer, browserVars, bounds>>

(* A claim in the chooser is answered; it may succeed when its epoch is    *)
(* current.                                                                *)
Claim(f) ==
    /\ Send(<<Result(f.id)>>)
    /\ \/ UNCHANGED <<writer, changed>>
       \/ /\ f.epoch = epoch /\ ~writer
          /\ writer' = TRUE /\ changed' = TRUE
    /\ UNCHANGED <<server, epoch, answer, out>>

ChooserFrame(f) ==
    CASE f.type = "select" ->
            /\ IF f.epoch = epoch
               THEN server' = "opening" /\ changed' = FALSE /\ UNCHANGED toBrowser
               ELSE Send(<<Phase("error")>>) /\ UNCHANGED <<server, changed>>
            /\ UNCHANGED <<epoch, writer, answer, out>>
      [] f.type = "claim" -> Claim(f)
      [] f.type = "list" ->
            /\ IF f.epoch = epoch
               THEN EnterChooser(<<Result(f.id)>>)
               ELSE Send(<<Result(f.id)>>) /\ UNCHANGED <<server, changed, answer>>
            /\ UNCHANGED <<epoch, writer, out>>
      [] f.type = "detach" -> Stop("detach") /\ UNCHANGED <<epoch, writer, out>>
      [] OTHER -> Stop("protocol") /\ UNCHANGED <<epoch, writer, out>>

(* Stale, the dispatch lock is busy, not the writer, or the target failed. *)
Rejected(f) == Send(<<Result(f.id)>>) /\ UNCHANGED <<server, answer>>

(* A window or pane selection is answered and then refreshes the           *)
(* projection; workspace.refresh is answered after it.                     *)
Operated(f) ==
    /\ f.epoch = epoch /\ writer
    /\ CASE f.type = "input" -> Send(<<Result(f.id)>>) /\ UNCHANGED <<server, answer>>
         [] f.type = "pick" ->
               /\ server' = "refreshing" /\ UNCHANGED answer
               /\ Send(<<Result(f.id), Phase("connecting")>>)
         [] f.type = "refresh" ->
               /\ server' = "refreshing" /\ answer' = f.id
               /\ Send(<<Phase("connecting")>>)

(* The target's answer is unknown: the role is given up.                   *)
Ambiguous(f) ==
    /\ f.epoch = epoch /\ writer /\ f.type # "refresh"
    /\ writer' = FALSE
    /\ ToChooser(<<Result(f.id)>>)

(* A claim in the workspace is refused, or answered after a fresh          *)
(* projection, or the change of the control client fails.                  *)
WorkspaceClaim(f) ==
    /\ \/ Rejected(f) /\ UNCHANGED <<writer, changed>>
       \/ /\ f.epoch = epoch
          /\ server' = "claiming" /\ answer' = f.id
          /\ writer' = TRUE /\ changed' = (changed \/ ~writer)
          /\ Send(<<Phase("connecting")>>)
       \/ f.epoch = epoch /\ writer' = FALSE /\ ToChooser(<<Result(f.id)>>)
    /\ UNCHANGED <<epoch, out>>

WorkspaceFrame(f) ==
    CASE f.type = "return" ->
            /\ IF f.epoch = epoch
               THEN ToChooser(<<>>)
               ELSE Send(<<Phase("error")>>) /\ UNCHANGED <<server, changed, answer>>
            /\ UNCHANGED <<epoch, writer, out>>
      [] f.type = "claim" -> WorkspaceClaim(f)
      [] f.type \in {"input", "pick", "refresh"} ->
            /\ \/ (Rejected(f) \/ Operated(f)) /\ UNCHANGED <<writer, changed>>
               \/ Ambiguous(f)
            /\ UNCHANGED <<epoch, out>>
      [] f.type = "detach" -> Leave("toDetach", <<>>) /\ UNCHANGED <<epoch, writer, out>>
      [] OTHER -> Leave("toFailure", <<>>) /\ UNCHANGED <<epoch, writer, out>>

Receive ==
    /\ server \in {"choosing", "ready"} /\ toServer # <<>>
    /\ toServer' = Tail(toServer)
    /\ IF server = "choosing" THEN ChooserFrame(Head(toServer)) ELSE WorkspaceFrame(Head(toServer))
    /\ UNCHANGED <<browserVars, bounds>>

-----------------------------------------------------------------------------
(* A frame reaches the Browser.                                            *)

(* resetProjection: the refs are cleared at once, the state when React     *)
(* commits.                                                                *)
ClearSinks == sinks' = [p \in Pane |-> 0]

Reset(next) ==
    /\ pend' = NoProjection /\ current' = 0
    /\ ClearSinks /\ waiting' = [p \in Pane |-> <<>>] /\ strays' = [p \in Pane |-> <<>>]
    /\ state' = next

\* Mutant: a request outlives the epoch it was sent in.
KeepOps == UNCHANGED ops

(* clearPendingOperations. *)
ForgetOps == ops' = {}

\* Mutant: the close of the socket leaves the phase as it is.
FailQuietly ==
    /\ Reset([state EXCEPT !.projection = 0, !.role = "observer"])
    /\ attached' = FALSE /\ toBrowser' = <<>> /\ ForgetOps

(* failRenderer, and the close of the socket: the tab shows a failure, and *)
(* what the Server sends after that reaches nobody.                        *)
Fail ==
    /\ Reset([state EXCEPT !.phase = "failed", !.projection = 0, !.role = "observer"])
    /\ attached' = FALSE /\ toBrowser' = <<>> /\ ForgetOps

Unsequenced(f) ==
    \/ f.type = "ready" /\ pend.done # Pane
    \/ f.type = "snapshot" /\ (f.epoch # pend.epoch \/ f.pane \in pend.done)

\* Mutant: the bound is looked at before the chunk is counted.
RoomForOneMore(p) == backlog[p] <= RenderCap

(* The sink refuses what would overrun its queue. *)
RoomIn(p) == backlog[p] < RenderCap

(* The sink of the pane takes a chunk while its queue has room. *)
Enqueue(p, chunk) ==
    /\ strays' = IF sinks[p] = current THEN strays ELSE [strays EXCEPT ![p] = Append(@, chunk)]
    /\ term' = [term EXCEPT ![p] = Append(@, chunk)]
    /\ backlog' = [backlog EXCEPT ![p] = @ + 1]

(* Output of an epoch that is not the installed one is dropped, by         *)
(* validateSequence and again by onFrame; without a sink it waits.         *)
OnOutput(f) ==
    IF f.epoch # wsEpoch \/ f.epoch # current
    THEN UNCHANGED <<pend, current, attached, state, paneVars, ops>> /\ toBrowser' = Tail(toBrowser)
    ELSE IF sinks[f.pane] # 0
    THEN IF RoomIn(f.pane)
         THEN /\ Enqueue(f.pane, <<f.epoch, f.n>>)
              /\ UNCHANGED <<pend, current, attached, state, sinks, waiting, mounted, ops>>
              /\ toBrowser' = Tail(toBrowser)
         ELSE Fail /\ UNCHANGED renderers
    ELSE IF Sum([p \in Pane |-> Len(waiting[p])]) < RenderCap
    THEN /\ waiting' = [waiting EXCEPT ![f.pane] = Append(@, <<f.epoch, f.n>>)]
         /\ UNCHANGED <<pend, current, attached, state, sinks, strays, renderers, ops>>
         /\ toBrowser' = Tail(toBrowser)
    ELSE Fail /\ UNCHANGED renderers

OnPhase(f) ==
    /\ Reset([state EXCEPT !.phase = f.type, !.projection = 0])
    /\ wsEpoch' = 0 /\ ForgetOps
    /\ UNCHANGED <<attEpoch, attached, renderers>>

OnReady ==
    /\ wsEpoch' = pend.epoch /\ current' = pend.epoch /\ pend' = NoProjection
    /\ state' = [state EXCEPT !.phase = "ready", !.projection = pend.epoch]
    /\ UNCHANGED <<attEpoch, attached, paneVars, ops>>

OnList(f) ==
    /\ attEpoch' = f.epoch /\ wsEpoch' = 0 /\ pend' = NoProjection /\ ForgetOps
    /\ state' = [state EXCEPT !.selection = f.epoch]
    /\ UNCHANGED <<current, attached, paneVars>>

OnProjection(f) ==
    /\ attEpoch' = f.epoch /\ wsEpoch' = 0
    /\ pend' = [epoch |-> f.epoch, done |-> {}]
    /\ UNCHANGED <<current, attached, state, paneVars, ops>>

OnSnapshot(f) ==
    /\ pend' = [pend EXCEPT !.done = @ \cup {f.pane}]
    /\ UNCHANGED <<attEpoch, wsEpoch, current, attached, state, paneVars, ops>>

(* A writer.state under another epoch is dropped. *)
OnWriter(f) ==
    /\ state' = IF f.epoch = attEpoch THEN [state EXCEPT !.role = f.type] ELSE state
    /\ UNCHANGED <<attEpoch, wsEpoch, pend, current, attached, paneVars, ops>>

OnResult(f) ==
    /\ ops' = ops \ {f.n}
    /\ UNCHANGED <<attEpoch, wsEpoch, pend, current, attached, state, paneVars>>

Ignore == UNCHANGED <<clientVars, current, attached, state, paneVars>>

OnFrame(f) ==
    CASE f.type \in {"connecting", "selecting", "failed"} -> OnPhase(f)
      [] f.type = "ready" -> OnReady
      [] f.type = "list" -> OnList(f)
      [] f.type = "projection" -> OnProjection(f)
      [] f.type = "snapshot" -> OnSnapshot(f)
      [] f.type \in {"writer", "observer"} -> OnWriter(f)
      [] f.type = "result" -> OnResult(f)
      [] f.type = "error" -> Ignore

Open == attached /\ toBrowser # <<>>

(* The message handler of the socket.                                      *)
Message ==
    /\ Open /\ Head(toBrowser).type # "eof"
    /\ LET f == Head(toBrowser)
       IN IF Unsequenced(f) THEN Fail /\ UNCHANGED <<attEpoch, wsEpoch, renderers>>
          ELSE IF f.type = "output" THEN OnOutput(f) /\ UNCHANGED <<attEpoch, wsEpoch>>
          ELSE toBrowser' = Tail(toBrowser) /\ OnFrame(f)
    /\ UNCHANGED <<serverVars, toServer, ui, bounds>>

SocketClosed ==
    /\ Open /\ Head(toBrowser).type = "eof"
    /\ Fail
    /\ UNCHANGED <<serverVars, toServer, attEpoch, wsEpoch, renderers, ui, bounds>>

-----------------------------------------------------------------------------
(* React and the renderers.                                                *)

Numbered(e) == <<<<e, 0>>>>

\* Mutant: the output that came before the renderer is not handed over.
SnapshotOnly(p) == Numbered(ui.projection)

(* What a new renderer starts with: its snapshot, then, when it registers  *)
(* as the pane's sink, the output that came before it.                     *)
FirstChunks(p) == Numbered(ui.projection) \o waiting[p]

Fitting(chunks) == SubSeq(chunks, 1, IF Len(chunks) < RenderCap THEN Len(chunks) ELSE RenderCap)

(* A commit.  React runs the effects of the last one before it renders.    *)
Commit ==
    /\ ui # state /\ mounted = ui.projection
    /\ ui' = state
    /\ UNCHANGED <<serverVars, toBrowser, toServer, clientVars, current, attached, state, paneVars,
                   bounds>>

(* The passive effects of a commit, in a task of their own: the renderers  *)
(* of another projection are disposed and those of the committed one are   *)
(* mounted and registered, also when frames that came after the commit     *)
(* have reset or replaced the projection.                                  *)
Effects ==
    /\ mounted # ui.projection
    /\ mounted' = ui.projection
    /\ IF ui.projection = 0
       THEN /\ term' = [p \in Pane |-> <<>>] /\ backlog' = [p \in Pane |-> 0]
            /\ ClearSinks
            /\ UNCHANGED <<state, current, attached, pend, ops, waiting, strays, toBrowser>>
       ELSE /\ term' = [p \in Pane |-> Fitting(FirstChunks(p))]
            /\ backlog' = [p \in Pane |-> Len(Fitting(FirstChunks(p)))]
            /\ IF \A p \in Pane : Fitting(FirstChunks(p)) = FirstChunks(p)
               THEN /\ sinks' = [p \in Pane |-> ui.projection]
                    /\ waiting' = [p \in Pane |-> <<>>]
                    /\ strays' = IF ui.projection = current THEN strays
                                 ELSE [p \in Pane |-> strays[p] \o waiting[p]]
                    /\ UNCHANGED <<state, current, attached, pend, ops, toBrowser>>
               ELSE Fail
    /\ UNCHANGED <<serverVars, toServer, attEpoch, wsEpoch, ui, bounds>>

(* xterm has written a chunk and calls back. *)
Drain(p) ==
    /\ backlog[p] > 0
    /\ backlog' = [backlog EXCEPT ![p] = @ - 1]
    /\ UNCHANGED <<serverVars, toBrowser, toServer, clientVars, current, attached, state, ui,
                   sinks, waiting, strays, mounted, term, bounds>>

-----------------------------------------------------------------------------
(* The user, acting on what the last commit shows.                         *)

Emit(t, e, i) ==
    /\ InBudget /\ requests < MaxRequests /\ requests' = requests + 1
    /\ server # "ended" /\ attached
    /\ toServer' = Append(toServer, Request(t, e, i))
    /\ UNCHANGED <<serverVars, toBrowser, attEpoch, wsEpoch, pend, current, ui, paneVars, turns,
                   sent>>

(* send: no result is expected. *)
Tell(t, e) == Emit(t, e, 0) /\ UNCHANGED <<ops, attached, state>>

(* request: refused at the limit, else pending until its result. *)
AskFor(t, e) ==
    /\ Cardinality(ops) < MaxPending
    /\ Emit(t, e, requests + 1)
    /\ ops' = ops \cup {requests + 1}
    /\ UNCHANGED <<attached, state>>

SelectSession == ui.phase = "selecting" /\ ui.selection # 0 /\ Tell("select", ui.selection)
RefreshSessions == ui.phase = "selecting" /\ ui.selection # 0 /\ AskFor("list", ui.selection)
ChangeWriter ==
    /\ ui.role = "observer" /\ ui.phase \in {"selecting", "ready"}
    /\ LET e == IF ui.projection # 0 THEN ui.projection ELSE ui.selection
       IN e # 0 /\ AskFor("claim", e)
SendInput ==
    /\ mounted = ui.projection /\ ui.projection # 0 /\ ui.role = "writer"
    /\ AskFor("input", ui.projection)
SelectWindowOrPane == ui.projection # 0 /\ ui.role = "writer" /\ AskFor("pick", ui.projection)
AskRefresh == ui.projection # 0 /\ ui.role = "writer" /\ AskFor("refresh", ui.projection)
ReturnToChooser == ui.projection # 0 /\ Tell("return", ui.projection)
Detach ==
    /\ Emit("detach", 0, 0)
    /\ attached' = FALSE /\ state' = [state EXCEPT !.phase = "closed"]
    /\ UNCHANGED ops

(* Reconnect replaces the Attachment; the old one's callbacks are no       *)
(* longer current and its writer pointer is released.                      *)
Reconnect ==
    /\ ui.phase = "failed" /\ InBudget /\ turns < MaxTurns
    /\ turns' = turns + 1
    /\ Fresh /\ writer' = FALSE
    /\ current' = 0 /\ attached' = TRUE /\ state' = Blank
    /\ ClearSinks /\ waiting' = [p \in Pane |-> <<>>] /\ strays' = [p \in Pane |-> <<>>]
    /\ UNCHANGED <<ui, renderers, requests, sent>>

User ==
    \/ SelectSession \/ RefreshSessions \/ ChangeWriter \/ SendInput
    \/ SelectWindowOrPane \/ AskRefresh \/ ReturnToChooser \/ Detach \/ Reconnect

Next ==
    \/ Probed \/ OpenControl \/ Hydrated \/ WriterChanged \/ Receive \/ Returned \/ Released
    \/ ServerFails \/ ControlLost \/ RefreshEvent \/ LoseWriter
    \/ \E p \in Pane : SendOutput(p) \/ Drain(p)
    \/ Message \/ SocketClosed \/ Commit \/ Effects \/ User

Spec == Init /\ [][Next]_vars

(* Probes and hydration end, under their deadlines, and the page's event   *)
(* loop is scheduled.  Nothing is assumed of what waits for the mutexes of *)
(* a scope, which another attachment may hold without a deadline.          *)
FairSpec ==
    /\ Spec
    /\ WF_vars(Probed \/ Hydrated) /\ WF_vars(Message \/ SocketClosed)
    /\ WF_vars(Commit) /\ WF_vars(Effects)

-----------------------------------------------------------------------------
OutputsTo(p) == SelectSeq(toBrowser, LAMBDA f : f.type = "output" /\ f.pane = p /\ f.epoch = epoch)

(* A renderer starts with the snapshot of its own projection, and nothing  *)
(* the Server sent for the installed projection is missing, repeated or    *)
(* out of order in what its renderer was given, what waits for it and what *)
(* is in the socket, whether it came before or after the renderer was      *)
(* mounted; except for a first part of it that a renderer of an earlier    *)
(* projection took, which registerSink admits until it is disposed.        *)
ExactPicture ==
    \A p \in Pane :
        LET given == term[p]
            own == IF mounted = current /\ given # <<>> THEN Tail(given) ELSE <<>>
            live == strays[p] \o own \o waiting[p]
        IN /\ given # <<>> => Head(given) = <<mounted, 0>>
           /\ current # 0 =>
                 /\ \A i \in DOMAIN live : live[i] = <<current, i>>
                 /\ (attached /\ server = "ready" /\ current = epoch) =>
                       Len(live) + Len(OutputsTo(p)) = out[p]

Quiet == toBrowser = <<>> /\ toServer = <<>> /\ server \in {"choosing", "ready"} /\ ~changed
         /\ attached

(* The role the Browser shows is the one the Server grants, once no frame  *)
(* is under way: a writer.state dropped for its epoch is always followed   *)
(* by one the Browser accepts.                                             *)
RoleAgrees == Quiet => (state.role = "writer" <=> writer)

(* No request stays pending: each is answered or forgotten with its epoch, *)
(* so the limit on pending operations never locks the user out.            *)
NoneForgotten == Quiet => ops = {}

(* A tab that says it is connecting ends up choosing, ready or failed,     *)
(* unless its Attachment waits for ever for the mutexes of a scope, after  *)
(* workspace() or in release_attachment.                                   *)
ConnectingEnds ==
    <>[](server \in Returning \cup {"releasing"}) \/ []<>(state.phase # "connecting")

=============================================================================
