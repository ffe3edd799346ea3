--------------------------- MODULE TmuxProjection ---------------------------
(***************************************************************************)
(* How one Attachment turns a tmux control client into a current view: the *)
(* ControlAdapter of tmux.rs (commands, guarded replies, the bounded event *)
(* queue, hydrate_once with its capture-to-live cutover) and the part of   *)
(* attachment.rs that installs a projection and follows the live events    *)
(* (workspace, install_projection, send_with_control).                     *)
(*                                                                         *)
(* The target tmux is external.  It executes the commands it is sent in    *)
(* order, and writes one FIFO of lines: replies, output of panes that are  *)
(* not paused for this client, and a notification for every change of the  *)
(* window list, the current window or a layout.  Output is counted in      *)
(* chunks; a capture of a pane shows every chunk it has produced.  Titles  *)
(* and commands of panes (observe_pane_labels) change no state here.       *)
(***************************************************************************)
EXTENDS Naturals, Sequences, FiniteSets, SequencesExt

CONSTANTS Window,
          PanesOf,       \* the panes of each window, in list-panes order
          Start,         \* the current window when the client attaches
          MaxAttempts,   \* MAX_HYDRATION_ATTEMPTS
          MaxEvents,     \* MAX_QUEUED_EVENTS
          MaxQueued,     \* MAX_QUEUED_OUTPUT_BYTES, in chunks
          MaxOutput,     \* bound on the chunks the panes produce, all together
          MaxTurns,      \* bound on the changes of the target's structure, the
                         \* pauses for a client that falls behind, and the
                         \* refreshes the Browser asks for, all together
          MaxWork        \* bound on the chunks and the turns together

Pane == UNION {Range(PanesOf[w]) : w \in Window}
WindowOf(p) == CHOOSE w \in Window : p \in Range(PanesOf[w])

ASSUME ProjectionAssumption ==
    /\ {MaxAttempts, MaxEvents, MaxQueued} \subseteq Nat \ {0}
    /\ {MaxOutput, MaxTurns, MaxWork} \subseteq Nat
    /\ Start \in Window /\ \A w \in Window : Len(PanesOf[w]) > 0
    /\ \A v, w \in Window : v # w => Range(PanesOf[v]) \cap Range(PanesOf[w]) = {}

VARIABLES
    window, layout, open,  \* the target's current window, layouts, windows
    produced, paused,      \* chunks each pane produced; panes paused for us
    request, wire,         \* the control client's stdin and stdout
    events, queued,        \* events and queued_output_bytes of the adapter
    stage, todo, attempt,  \* where hydrate_once is, and its panes left
    seen, boundary, snap,  \* what it observed, event_boundary, snapshots
    dirty, dispatch,       \* projection_dirty, pending_dispatch
    held,                  \* others have, or are to have first, the dispatch mutex it awaits
    view, shown,           \* the installed WorkspaceState; the chunk each pane shows
    turns                  \* what MaxTurns bounds

structure == <<window, layout, open>>
target == <<structure, produced, paused>>
queue == <<events, queued>>
observed == <<seen, boundary, snap>>
workspace == <<dirty, dispatch, view, shown>>
vars == <<target, request, wire, queue, stage, todo, attempt, observed, workspace, held, turns>>

Output(p, n) == [kind |-> "output", pane |-> p, n |-> n]
Refresh == [kind |-> "refresh"]
Exit == [kind |-> "exit"]
Eof == [kind |-> "eof"]
Reply(v) == [kind |-> "reply", value |-> v]
Error == [kind |-> "error"]
Command(c, a) == [command |-> c, of |-> a]

(* The stages in which a command is outstanding, and the ends of workspace. *)
Asking == {"start", "windows", "window", "panes", "pause", "continue", "capture",
           "metadata", "rewindows", "rewindow", "repanes"}
Ended == {"chooser", "failed"}

IsOutput(e) == e.kind = "output"
IsOutputOf(p, e) == e.kind = "output" /\ e.pane = p
OutputsOf(p, q) ==
    LET mine == SelectSeq(q, LAMBDA e : IsOutputOf(p, e))
    IN [i \in DOMAIN mine |-> mine[i].n]
Has(kind, q) == \E i \in DOMAIN q : q[i].kind = kind

NothingSeen == [open |-> {}, active |-> "none", window |-> "none", layout |-> 0, panes |-> 0]
NoView == [open |-> {}, window |-> "none", layout |-> 0, panes |-> {}]

(* The adapter's byte counter is exact: pop_event and                      *)
(* discard_pre_capture_output keep it equal to what is queued, which a     *)
(* saturating subtraction would otherwise hide.                            *)
TypeOK ==
    /\ window \in open /\ open \subseteq Window
    /\ layout \in [Window -> 0..MaxTurns]
    /\ produced \in [Pane -> 0..MaxOutput] /\ paused \subseteq Pane
    /\ Len(request) <= 2
    /\ stage \in Asking \cup {"sending", "ready"} \cup Ended
    /\ Range(todo) \subseteq Pane /\ attempt \in 0..MaxAttempts
    /\ Len(events) <= MaxEvents
    /\ queued = Len(SelectSeq(events, IsOutput)) /\ queued <= MaxQueued
    /\ boundary \in 0..MaxEvents
    /\ DOMAIN snap \subseteq Pane
    /\ {dirty, dispatch, held} \subseteq BOOLEAN
    /\ view.panes \subseteq Pane
    /\ shown \in [Pane -> 0..MaxOutput]

(* ControlAdapter::start has read the opening reply and sent its flags.    *)
Init ==
    /\ window = Start /\ open = Window /\ layout = [w \in Window |-> 0]
    /\ produced = [p \in Pane |-> 0] /\ paused = {}
    /\ request = <<Command("flags", "client")>> /\ wire = <<>>
    /\ events = <<>> /\ queued = 0
    /\ stage = "start" /\ todo = <<>> /\ attempt = 0
    /\ seen = NothingSeen /\ boundary = 0 /\ snap = <<>>
    /\ dirty = FALSE /\ dispatch = FALSE /\ held \in BOOLEAN
    /\ view = NoView /\ shown = [p \in Pane |-> 0]
    /\ turns = 0

-----------------------------------------------------------------------------
(* The target.                                                             *)

InBudget == FoldFunction(+, 0, produced) + turns < MaxWork

Alive == ~Has("eof", wire) /\ stage \notin Ended

Produce(p) ==
    /\ Alive /\ WindowOf(p) \in open
    /\ InBudget /\ FoldFunction(+, 0, produced) < MaxOutput
    /\ produced' = [produced EXCEPT ![p] = @ + 1]
    /\ wire' = IF p \in paused THEN wire ELSE Append(wire, Output(p, produced[p] + 1))
    /\ UNCHANGED <<structure, paused, request, queue, stage, todo, attempt, observed,
                   workspace, held, turns>>

(* A window is selected, closed or resized, by any client of the target.   *)
Change ==
    /\ Alive /\ InBudget /\ turns < MaxTurns
    /\ turns' = turns + 1
    /\ \/ /\ window' \in open \ {window} /\ open' \in {open, open \ {window}}
          /\ UNCHANGED layout
       \/ /\ \E w \in open \ {window} : open' = open \ {w}
          /\ UNCHANGED <<window, layout>>
       \/ /\ \E w \in open : layout' = [layout EXCEPT ![w] = @ + 1]
          /\ UNCHANGED <<window, open>>
    /\ wire' = Append(wire, Refresh)
    /\ UNCHANGED <<produced, paused, request, queue, stage, todo, attempt, observed,
                   workspace, held>>

(* What a pane paused for this client still has queued is discarded: any   *)
(* chunks of it after the k-th that have not left the target.              *)
Discarded(q, p, k) == SelectSeq(q, LAMBDA e : ~(IsOutputOf(p, e) /\ e.n > k))

(* pause-after=1: a client that falls behind is paused, and told so.       *)
FallBehind(p) ==
    /\ Alive /\ p \notin paused /\ WindowOf(p) \in open /\ InBudget /\ turns < MaxTurns
    /\ turns' = turns + 1
    /\ paused' = paused \cup {p}
    /\ \E k \in 0..produced[p] : wire' = Append(Discarded(wire, p, k), Refresh)
    /\ UNCHANGED <<structure, produced, request, queue, stage, todo, attempt, observed,
                   workspace, held>>

(* The session ends or the target drops this client.                       *)
TargetExits ==
    /\ Alive
    /\ wire' \in {wire \o <<Exit, Eof>>, wire \o <<Eof>>}
    /\ UNCHANGED <<target, request, queue, stage, todo, attempt, observed, workspace, held, turns>>

Answer(c) ==
    CASE c.command \in {"windows", "rewindows"} -> Reply([open |-> open, active |-> window])
      [] c.command \in {"window", "rewindow"} ->
            Reply([window |-> window, layout |-> layout[window]])
      [] c.command \in {"panes", "repanes"} ->
            IF c.of \in open THEN Reply(layout[c.of]) ELSE Error
      [] c.command = "capture" ->
            IF WindowOf(c.of) \in open THEN Reply(produced[c.of]) ELSE Error
      [] c.command = "metadata" ->
            IF WindowOf(c.of) \in open THEN Reply(layout[WindowOf(c.of)]) ELSE Error
      [] OTHER -> Reply(0)

(* The explicit pause and continue keep their own notification inside the  *)
(* guard of their reply, where the adapter does not look at it.            *)
Execute ==
    /\ Alive /\ request # <<>>
    /\ LET c == Head(request)
       IN /\ request' = Tail(request)
          /\ \/ /\ c.command = "pause"
                /\ paused' = paused \cup {c.of}
                /\ \E k \in 0..produced[c.of] :
                      wire' = Append(Discarded(wire, c.of, k), Answer(c))
             \/ /\ c.command # "pause"
                /\ paused' = IF c.command = "continue" THEN paused \ {c.of} ELSE paused
                /\ wire' = Append(wire, Answer(c))
    /\ UNCHANGED <<structure, produced, queue, stage, todo, attempt, observed, workspace, held, turns>>

-----------------------------------------------------------------------------
(* The event queue.                                                        *)

ClearEvents == events' = <<>> /\ queued' = 0

(* queue_output, then queue_event; an overrun of either bound is an error. *)
Fits(e) ==
    /\ Len(events) < MaxEvents
    /\ IsOutput(e) => queued < MaxQueued

QueueEvent(e) ==
    /\ events' = Append(events, e)
    /\ queued' = IF IsOutput(e) THEN queued + 1 ELSE queued

PopEvent ==
    /\ events' = Tail(events)
    /\ queued' = IF IsOutput(Head(events)) THEN queued - 1 ELSE queued

\* Mutant: the counter is left alone.
StaleCount(q) == queued

(* The counter is recomputed from what is left. *)
Recount(q) == Len(SelectSeq(q, IsOutput))

(* Drop what the capture already shows of the pane. *)
Uncaptured(p) == SelectSeq(events, LAMBDA e : ~IsOutputOf(p, e))

DiscardCapturedOutput(p) ==
    LET left == Uncaptured(p)
    IN events' = left /\ queued' = Recount(left)

-----------------------------------------------------------------------------
(* hydrate.                                                                *)

Ask(s, c) == stage' = s /\ request' = <<c>>

(* The workspace is over; the adapter and its control child are dropped.   *)
End(s) ==
    /\ stage' = s /\ request' = <<>>
    /\ ClearEvents /\ todo' = <<>> /\ attempt' = 0
    /\ seen' = NothingSeen /\ boundary' = 0 /\ snap' = <<>>

Attempt ==
    /\ ClearEvents
    /\ Ask("windows", Command("windows", "session"))
    /\ todo' = <<>>
    /\ seen' = NothingSeen /\ boundary' = 0 /\ snap' = <<>>

(* Err(Changed): hydrate retries, and its caller returns to the chooser    *)
(* when the attempts are used up.                                          *)
Changed ==
    IF attempt < MaxAttempts
    THEN Attempt /\ attempt' = attempt + 1
    ELSE End("chooser")

(* install_projection: the Browser drops its view, then hydrate.           *)
Install ==
    /\ Attempt /\ attempt' = 1
    /\ view' = NoView

(* The next command of the stage, for the next pane left to do. *)
AskPane(s, left) ==
    /\ todo' = left
    /\ stage' = s
    /\ request' = IF s = "capture"
                  THEN <<Command("capture", Head(left)), Command("metadata", Head(left))>>
                  ELSE <<Command(s, Head(left))>>

\* Mutant: the revalidation that follows is relied on.
AnyCutover(q) == IF Has("exit", q) THEN "target" ELSE "ok"

(* require_stable_cutover and require_live_cutover, on the queued events. *)
Cutover(q) == IF Has("exit", q) THEN "target" ELSE IF Has("refresh", q) THEN "changed" ELSE "ok"

StableCutover ==
    CASE Cutover(events) = "ok" ->
            /\ ClearEvents
            /\ AskPane("continue", PanesOf[seen.window])
            /\ UNCHANGED <<attempt, observed>>
      [] Cutover(events) = "changed" -> Changed
      [] Cutover(events) = "target" -> End("chooser")

LiveCutover ==
    CASE Cutover(events) = "ok" ->
            /\ stage' = "sending" /\ request' = <<>>
            /\ UNCHANGED <<queue, todo, attempt, observed>>
      [] Cutover(events) = "changed" -> Changed
      [] Cutover(events) = "target" -> End("chooser")

\* Mutant: output that arrives after the capture is taken to be in it.
Disregarded(p) == TRUE

(* No output of the pane between the capture and its metadata. *)
Undisturbed(p) == OutputsOf(p, SubSeq(events, boundary + 1, Len(events))) = <<>>

(* What hydrate_once does with the reply to its command. *)
Proceed(v) ==
    CASE stage = "start" ->
            Attempt /\ attempt' = 1
      [] stage = "windows" ->
            /\ seen' = [seen EXCEPT !.open = v.open, !.active = v.active]
            /\ Ask("window", Command("window", "session"))
            /\ UNCHANGED <<queue, todo, attempt, boundary, snap>>
      [] stage = "window" ->
            IF v.window # seen.active THEN Changed
            ELSE /\ seen' = [seen EXCEPT !.window = v.window, !.layout = v.layout]
                 /\ Ask("panes", Command("panes", v.window))
                 /\ UNCHANGED <<queue, todo, attempt, boundary, snap>>
      [] stage = "panes" ->
            /\ seen' = [seen EXCEPT !.panes = v]
            /\ AskPane("pause", PanesOf[seen.window])
            /\ UNCHANGED <<queue, attempt, boundary, snap>>
      [] stage = "pause" ->
            IF Len(todo) > 1
            THEN AskPane("pause", Tail(todo)) /\ UNCHANGED <<queue, attempt, observed>>
            ELSE StableCutover
      [] stage = "continue" ->
            /\ IF Len(todo) > 1
               THEN AskPane("continue", Tail(todo))
               ELSE AskPane("capture", PanesOf[seen.window])
            /\ UNCHANGED <<queue, attempt, observed>>
      [] stage = "capture" ->
            /\ snap' = [p \in DOMAIN snap \cup {Head(todo)} |->
                           IF p = Head(todo) THEN v ELSE snap[p]]
            /\ boundary' = Len(events)
            /\ stage' = "metadata"
            /\ UNCHANGED <<request, queue, todo, attempt, seen>>
      [] stage = "metadata" ->
            IF ~Undisturbed(Head(todo)) \/ v # seen.panes THEN Changed
            ELSE /\ DiscardCapturedOutput(Head(todo))
                 /\ boundary' = 0
                 /\ IF Len(todo) > 1
                    THEN AskPane("capture", Tail(todo))
                    ELSE Ask("rewindows", Command("rewindows", "session")) /\ todo' = <<>>
                 /\ UNCHANGED <<attempt, seen, snap>>
      [] stage = "rewindows" ->
            /\ seen' = [seen EXCEPT !.active = v.active]
            /\ Ask("rewindow", Command("rewindow", "session"))
            /\ UNCHANGED <<queue, todo, attempt, boundary, snap>>
      [] stage = "rewindow" ->
            IF v.window # seen.window \/ v.layout # seen.layout \/ v.window # seen.active
            THEN Changed
            ELSE /\ Ask("repanes", Command("repanes", v.window))
                 /\ UNCHANGED <<queue, todo, attempt, observed>>
      [] stage = "repanes" ->
            IF v # seen.panes THEN Changed ELSE LiveCutover

(* read_response_with_limit_inner reaches the guard of its reply.  After   *)
(* the first one, workspace() waits for the dispatch mutex before it       *)
(* installs a projection.                                                  *)
ReadReply ==
    /\ stage \in Asking /\ wire # <<>> /\ Head(wire).kind = "reply"
    /\ stage = "start" => ~held
    /\ wire' = Tail(wire)
    /\ Proceed(Head(wire).value)
    /\ UNCHANGED <<target, workspace, held, turns>>

(* %error is Err(Target), which sends install_projection's caller back to  *)
(* the chooser.                                                            *)
ReadError ==
    /\ stage \in Asking /\ wire # <<>> /\ Head(wire).kind = "error"
    /\ wire' = Tail(wire)
    /\ End("chooser")
    /\ UNCHANGED <<target, workspace, held, turns>>

(* A line outside a guard, read by the response reader, by pump_event      *)
(* while a frame is being written, or by next_event once none is queued.   *)
ReadNotification ==
    /\ stage \notin Ended /\ (stage = "ready" => events = <<>>)
    /\ wire # <<>> /\ Head(wire).kind \in {"output", "refresh", "exit"}
    /\ wire' = Tail(wire)
    /\ IF Fits(Head(wire))
       THEN QueueEvent(Head(wire)) /\ UNCHANGED <<stage, request, todo, attempt, observed>>
       ELSE End("failed")
    /\ UNCHANGED <<target, workspace, held, turns>>

(* EOF is Unavailable: the chooser from hydrate and from next_event, the   *)
(* end of the Attachment from start and from pump_event.                   *)
ReadEof ==
    /\ stage \notin Ended /\ (stage = "ready" => events = <<>>)
    /\ wire # <<>> /\ Head(wire).kind = "eof"
    /\ End(IF stage \in {"start", "sending"} THEN "failed" ELSE "chooser")
    /\ UNCHANGED <<target, wire, workspace, held, turns>>

(* RESPONSE_TIMEOUT, PROJECTION_INSTALL_TIMEOUT or CLIENT_WRITE_TIMEOUT.   *)
Timeout ==
    /\ stage \notin Ended
    /\ stage # "ready"
    /\ End("failed")
    /\ UNCHANGED <<target, wire, workspace, held, turns>>

-----------------------------------------------------------------------------
(* workspace: the frames of a projection are written, then live events.    *)

(* Projection, the PaneSnapshots and Phase::Ready have been written.       *)
FinishInstall ==
    /\ stage = "sending"
    /\ stage' = "ready"
    /\ view' = [open |-> seen.open, window |-> seen.window, layout |-> seen.layout,
                panes |-> Range(PanesOf[seen.window])]
    /\ shown' = [p \in Pane |-> IF p \in DOMAIN snap THEN snap[p] ELSE shown[p]]
    /\ seen' = NothingSeen /\ boundary' = 0 /\ snap' = <<>>
    /\ UNCHANGED <<target, request, wire, queue, todo, attempt, dirty, dispatch, held, turns>>

(* Output of a pane that is not visible is dropped. *)
LiveOutput(e) ==
    /\ IsOutput(e)
    /\ shown' = IF e.pane \in view.panes THEN [shown EXCEPT ![e.pane] = e.n] ELSE shown
    /\ UNCHANGED <<dirty, dispatch, held, stage>>

(* The scope's dispatch mutex is awaited from now on.  It is a FIFO mutex: *)
(* other attachments of the Machine may come before, none overtakes.       *)
LiveRefresh(e) ==
    /\ e.kind = "refresh"
    /\ dirty' = TRUE /\ dispatch' = TRUE
    /\ held' \in (IF dispatch THEN {held} ELSE BOOLEAN)
    /\ UNCHANGED <<shown, stage>>

LiveExit(e) ==
    /\ e.kind = "exit"
    /\ stage' = "chooser"
    /\ UNCHANGED <<shown, dirty, dispatch, held>>

NextEvent ==
    /\ stage = "ready" /\ events # <<>>
    /\ PopEvent
    /\ LiveOutput(Head(events)) \/ LiveRefresh(Head(events)) \/ LiveExit(Head(events))
    /\ UNCHANGED <<target, request, wire, todo, attempt, observed, view, turns>>

\* Mutant: neither the wait nor the flag is reset.
DispatchGrantedAgain ==
    /\ stage = "ready" /\ dispatch /\ ~held
    /\ Install
    /\ UNCHANGED <<target, wire, dirty, dispatch, shown, held, turns>>

(* The other attachments have given the mutex up.                          *)
OthersRelease ==
    /\ held /\ stage \notin Ended
    /\ held' = FALSE
    /\ UNCHANGED <<target, request, wire, queue, stage, todo, attempt, observed, workspace, turns>>

(* The scope's dispatch lock is granted and the view is replaced; the lock *)
(* is only ever asked for when a Refresh made the projection dirty.        *)
DispatchGranted ==
    /\ stage = "ready" /\ dispatch /\ ~held
    /\ dispatch' = FALSE /\ dirty' = FALSE
    /\ IF dirty
       THEN Install
       ELSE UNCHANGED <<request, queue, stage, todo, attempt, observed, view>>
    /\ UNCHANGED <<target, wire, shown, held, turns>>

(* A Browser frame that ends in refresh_after_mutation: it is refused when *)
(* the mutex is held.                                                      *)
RefreshAfterMutation ==
    /\ stage = "ready" /\ ~held /\ InBudget /\ turns < MaxTurns
    /\ turns' = turns + 1
    /\ Install
    /\ UNCHANGED <<target, wire, dirty, dispatch, shown, held>>

Next ==
    \/ \E p \in Pane : Produce(p) \/ FallBehind(p)
    \/ Change \/ TargetExits \/ Execute
    \/ ReadReply \/ ReadError \/ ReadNotification \/ ReadEof \/ Timeout
    \/ FinishInstall \/ NextEvent \/ DispatchGranted \/ RefreshAfterMutation
    \/ OthersRelease

Spec == Init /\ [][Next]_vars

(* tmux answers its commands, the Server's task is scheduled, a Browser    *)
(* that takes frames lets them be written, and the dispatch mutex goes to  *)
(* the attachment that waits for it when it is free.  Nothing is assumed   *)
(* of its other holders: a claimant whose demotion failed keeps it across  *)
(* a send to a channel without a deadline.                                 *)
FairSpec ==
    /\ Spec
    /\ WF_vars(Execute)
    /\ WF_vars(ReadReply \/ ReadError \/ ReadNotification \/ ReadEof)
    /\ WF_vars(FinishInstall) /\ WF_vars(NextEvent) /\ WF_vars(DispatchGranted)

-----------------------------------------------------------------------------
(* What the Browser has been sent, or is about to be sent, of a pane. *)
Displayed(p) == IF stage = "sending" THEN snap[p] ELSE shown[p]
Viewed == IF stage = "sending" THEN Range(PanesOf[seen.window]) ELSE view.panes
InFlight == events \o wire

(* The capture-to-live cutover neither loses nor repeats output: in an     *)
(* installed view, what is still to come of a visible pane starts with the *)
(* chunk after the ones it shows, has no gap, and for a pane that is not   *)
(* paused reaches the last chunk produced.                                 *)
ContinuousView ==
    stage \in {"sending", "ready"} =>
        \A p \in Viewed :
            LET coming == OutputsOf(p, InFlight)
            IN /\ \A i \in DOMAIN coming : coming[i] = Displayed(p) + i
               /\ p \notin paused => Displayed(p) + Len(coming) = produced[p]

Current ==
    /\ view.open = open /\ view.window = window /\ view.layout = layout[window]
    /\ view.panes \cap paused = {}

(* A view that no longer matches the target (another current window, a new *)
(* layout, a changed window list, a visible pane paused) is never shown    *)
(* without a refresh being on its way: revalidation alone would miss a     *)
(* change of the window list, and hydrate clears the queue it reads from.  *)
StaleIsFlagged ==
    stage = "ready" /\ ~Current =>
        (dirty /\ dispatch) \/ Has("refresh", InFlight) \/ Has("exit", InFlight)
                            \/ Has("eof", InFlight)

(* Once the target is quiet, the workspace shows its current state and all *)
(* its output for good, or has ended, unless another attachment keeps the  *)
(* dispatch mutex for ever: no event that hydration consumed, and no       *)
(* change while the mutex was awaited, is left without a refresh.          *)
ConvergesToTarget ==
    []<>~held =>
        <>[]( \/ stage \in Ended
              \/ stage = "ready" /\ Current /\ \A p \in view.panes : shown[p] = produced[p])

=============================================================================
