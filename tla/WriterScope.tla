----------------------------- MODULE WriterScope -----------------------------
(***************************************************************************)
(* Browser attachments of one Machine at its owner, and the pointer to the *)
(* one that may write: the scopes of WriterRegistry (writer.rs) and the    *)
(* phases of an attachment, from its session chooser through its workspace *)
(* to its release (attachment.rs).  WriterRegistry is keyed by Machine, so *)
(* one Machine is enough.                                                  *)
(*                                                                         *)
(* A scope has two mutexes.  Whoever holds the state mutex across an await *)
(* holds the dispatch mutex as well; only a projection refresh holds the   *)
(* dispatch mutex alone.  A critical section that waits for nobody's       *)
(* progress and for no answer of the target is one step.  Client sizes,    *)
(* projections and answers to the Browser are left out: the failure of a   *)
(* send is one of the reasons for which an attachment may always leave.    *)
(***************************************************************************)
EXTENDS Naturals, Sequences

CONSTANTS Attachment,  \* attachment_id
          None,        \* an empty Option
          Capacity,    \* slots of a workspace's directive channel (4 in the code)
          MaxRoute,    \* bound on the number of routes
          MaxScope     \* bound on the number of scopes

ASSUME BoundsAssumption == Capacity \in Nat \ {0} /\ MaxRoute \in Nat /\ MaxScope \in Nat

\* No attachment_id is the empty Option.
ASSUME NoneAssumption == None \notin Attachment

VARIABLES
    cur, up,   \* the newest route and whether it is current (is_current_route)
    scopes,    \* every WriterScope made: route, current attachment, has it a control
    pc,        \* the phase of an attachment
    rt, sc,    \* its expected_route, and the scope it works with
    mode,      \* its tmux client: none, "ro" (read-only, ignore-size) or "rw"
    inbox,     \* the directives in its workspace's channel
    dirty,     \* attachments whose workspace has a change of the pointer to see
    tr         \* a writer change: old writer, where it came from, answer, next phase

route == <<cur, up>>
vars == <<route, scopes, pc, rt, sc, mode, inbox, dirty, tr>>

Transition == {"demoting", "awaiting", "promoting", "resizing", "failing"}
Phase == {"off", "opening", "probed", "choosing", "creating", "starting", "started", "entering",
          "viewing", "loop", "mutating", "refreshing", "toChooser", "toLeave", "leaving",
          "releasing", "gone"} \cup Transition
Outcome == {"succeeded", "failed", "ambiguous"}

NoChange == [victim |-> None, from |-> "none", answer |-> "none", then |-> "none"]
Demote(b) == [kind |-> "demote", from |-> b]
Close == [kind |-> "close", from |-> None]

Scope == [route : 1..MaxRoute, att : Attachment \cup {None}, ctl : BOOLEAN]
ControlDirective == [kind : {"demote", "close"}, from : Attachment \cup {None}]
Change == [victim : Attachment \cup {None}, from : {"none", "choosing", "loop"},
           answer : Outcome \cup {"none"},
           then : {"none", "choosing", "toChooser", "toLeave", "leaving"}]

TypeOK ==
    /\ cur \in 0..MaxRoute /\ up \in BOOLEAN
    /\ scopes \in Seq(Scope)
    /\ Len(scopes) <= MaxScope
    /\ pc \in [Attachment -> Phase]
    /\ rt \in [Attachment -> 0..MaxRoute]
    /\ sc \in [Attachment -> 0..Len(scopes)]
    /\ mode \in [Attachment -> {"none", "ro", "rw"}]
    /\ inbox \in [Attachment -> Seq(ControlDirective)]
    /\ \A a \in Attachment : Len(inbox[a]) <= Capacity
    /\ dirty \in SUBSET Attachment
    /\ tr \in [Attachment -> Change]

Init ==
    /\ cur = 0 /\ up = FALSE
    /\ scopes = <<>>
    /\ pc = [a \in Attachment |-> "off"]
    /\ rt = [a \in Attachment |-> 0] /\ sc = [a \in Attachment |-> 0]
    /\ mode = [a \in Attachment |-> "none"] /\ inbox = [a \in Attachment |-> <<>>]
    /\ dirty = {}
    /\ tr = [a \in Attachment |-> NoChange]

\* current_route; a scope's route is the expected route of all who use it
Current(a) == up /\ rt[a] = cur

\* the attachment's workspace() runs, and its directive channel is open
InWorkspace(a) ==
    \/ pc[a] \in {"entering", "viewing", "loop", "mutating", "refreshing"}
    \/ pc[a] \in Transition /\ tr[a].from = "loop"

\* the state mutex of the scope is held across an await
StateHeld(s) ==
    \E b \in Attachment : sc[b] = s /\ pc[b] \in Transition \cup {"creating", "entering", "mutating"}

\* its dispatch mutex is held
DispatchHeld(s) == StateHeld(s) \/ \E b \in Attachment : sc[b] = s /\ pc[b] = "refreshing"

Writer(a) == scopes[sc[a]].att
Goto(a, p) == pc' = [pc EXCEPT ![a] = p]

\* WriterGuard: set_current, clear and clear_if_current.  The pointer's
\* subscribers are notified when it changes.
Point(s, w) ==
    /\ scopes' = [scopes EXCEPT ![s].att = w.att, ![s].ctl = w.ctl]
    /\ dirty' = IF w.att = scopes[s].att THEN dirty
                ELSE dirty \cup {b \in Attachment : sc[b] = s /\ InWorkspace(b)}

SetCurrent(a, control) == Point(sc[a], [att |-> a, ctl |-> control])
Clear(a) == Point(sc[a], [att |-> None, ctl |-> FALSE])
ClearIfCurrent(a) == IF Writer(a) = a THEN Clear(a) ELSE UNCHANGED <<scopes, dirty>>
KeepPointer == UNCHANGED <<scopes, dirty>>

\* Mutant: a takeover replaces a writer that has a workspace without demoting it.
ClaimableOverControl(a, takeover) ==
    \/ Writer(a) = None
    \/ takeover /\ Writer(a) # a

\* The pointer is free, or its attachment has no workspace to demote.
Claimable(a, takeover) ==
    \/ Writer(a) = None
    \/ takeover /\ Writer(a) # a /\ ~scopes[sc[a]].ctl

MustDemote(a) == Writer(a) \notin {None, a} /\ scopes[sc[a]].ctl

\* workspace() returns: its tmux client is closed, and dropping its channel
\* drops the response senders of the demotions still in it.
EndWorkspace(a, next) ==
    /\ Goto(a, next)
    /\ mode' = [mode EXCEPT ![a] = "none"]
    /\ inbox' = [inbox EXCEPT ![a] = <<>>]
    /\ tr' = [b \in Attachment |->
                IF b = a THEN NoChange
                ELSE IF pc[b] = "awaiting" /\ tr[b].victim = a /\ tr[b].answer = "none"
                THEN [tr[b] EXCEPT !.answer = "ambiguous"] ELSE tr[b]]

Stay(a, next) == Goto(a, next) /\ UNCHANGED <<mode, inbox, tr>>

-----------------------------------------------------------------------------
(* The route, as RelayOwnership has it: a tunnel ends, a later one is      *)
(* installed.                                                              *)

RouteEnds ==
    /\ up /\ up' = FALSE
    /\ UNCHANGED <<cur, scopes, pc, rt, sc, mode, inbox, dirty, tr>>

RouteInstalled ==
    /\ ~up /\ cur < MaxRoute
    /\ cur' = cur + 1 /\ up' = TRUE
    /\ UNCHANGED <<scopes, pc, rt, sc, mode, inbox, dirty, tr>>

-----------------------------------------------------------------------------
(* The chooser.                                                            *)

\* run_owner_attachment, with the route that owner::resolve named
Start(a) ==
    /\ pc[a] = "off" /\ up
    /\ rt' = [rt EXCEPT ![a] = cur]
    /\ Goto(a, "opening")
    /\ UNCHANGED <<route, scopes, sc, mode, inbox, dirty, tr>>

\* The stream is on the expected route and the probe succeeds, or not.
Probe(a) ==
    /\ pc[a] = "opening"
    /\ \/ Current(a) /\ Goto(a, "probed")
       \/ Goto(a, "leaving")
    /\ UNCHANGED <<route, scopes, rt, sc, mode, inbox, dirty, tr>>

\* WriterRegistry::scope, after the probe has been audited
Lookup(a) ==
    LET newest == Len(scopes)
        known == newest > 0 /\ scopes[newest].route = rt[a] IN
    /\ pc[a] = "probed" /\ (known \/ newest < MaxScope)
    /\ scopes' = IF known THEN scopes
                 ELSE Append(scopes, [route |-> rt[a], att |-> None, ctl |-> FALSE])
    /\ sc' = [sc EXCEPT ![a] = Len(scopes')]
    /\ Goto(a, "choosing")
    /\ UNCHANGED <<route, rt, mode, inbox, dirty, tr>>

\* The client selects a session, refreshes or goes away; the route closes.
Choose(a) ==
    /\ pc[a] = "choosing"
    /\ \E next \in {"starting", "opening", "leaving"} : Goto(a, next)
    /\ UNCHANGED <<route, scopes, rt, sc, mode, inbox, dirty, tr>>

\* SessionCreate by the writer
Create(a) ==
    /\ pc[a] = "choosing" /\ ~DispatchHeld(sc[a]) /\ Writer(a) = a /\ Current(a)
    /\ Goto(a, "creating")
    /\ UNCHANGED <<route, scopes, rt, sc, mode, inbox, dirty, tr>>

Created(a) ==
    /\ pc[a] = "creating"
    /\ \/ ~Current(a) /\ ClearIfCurrent(a) /\ Goto(a, "leaving")
       \/ KeepPointer /\ Goto(a, "leaving")
       \/ Current(a) /\ (KeepPointer \/ Clear(a)) /\ Goto(a, "opening")
    /\ UNCHANGED <<route, rt, sc, mode, inbox, tr>>

\* change_writer_without_control; a busy or an already current writer changes nothing.
ChooserClaim(a, takeover) ==
    /\ pc[a] = "choosing" /\ ~DispatchHeld(sc[a])
    /\ \/ /\ ~Current(a)
          /\ KeepPointer /\ Stay(a, "leaving")
       \/ /\ Current(a) /\ Claimable(a, takeover)
          /\ SetCurrent(a, FALSE) /\ Stay(a, "choosing")
       \/ /\ Current(a) /\ takeover /\ MustDemote(a)
          /\ tr' = [tr EXCEPT ![a] = [NoChange EXCEPT !.victim = Writer(a), !.from = "choosing"]]
          /\ Goto(a, "demoting")
          /\ KeepPointer /\ UNCHANGED <<mode, inbox>>
    /\ UNCHANGED <<route, rt, sc>>

-----------------------------------------------------------------------------
(* The workspace.                                                          *)

\* start_tmux_control: the client starts read-only.
StartControl(a) ==
    /\ pc[a] = "starting"
    /\ \/ Current(a) /\ Goto(a, "started") /\ mode' = [mode EXCEPT ![a] = "ro"]
       \/ Goto(a, "toLeave") /\ UNCHANGED mode
    /\ UNCHANGED <<route, scopes, rt, sc, inbox, dirty, tr>>

\* The first critical section of workspace(): a current writer's client
\* becomes writable and its channel known; a failure ends the workspace.
Enter(a) ==
    /\ pc[a] = "started" /\ ~DispatchHeld(sc[a])
    /\ \/ ~Current(a) /\ KeepPointer /\ EndWorkspace(a, "toLeave")
       \/ Current(a) /\ Writer(a) # a /\ KeepPointer /\ Stay(a, "entering")
       \/ /\ Current(a) /\ Writer(a) = a
          /\ \/ /\ SetCurrent(a, TRUE)
                /\ mode' = [mode EXCEPT ![a] = "rw"]
                /\ Goto(a, "entering") /\ UNCHANGED <<inbox, tr>>
             \/ Clear(a) /\ EndWorkspace(a, "toChooser")
             \/ SetCurrent(a, TRUE) /\ EndWorkspace(a, "toLeave")
    /\ UNCHANGED <<route, rt, sc>>

\* The first projection; then the pointer is subscribed to and shown.
Entered(a) ==
    /\ pc[a] = "entering"
    /\ \/ ~Current(a) /\ ClearIfCurrent(a) /\ EndWorkspace(a, "toLeave")
       \/ KeepPointer /\ \E next \in {"toChooser", "toLeave"} : EndWorkspace(a, next)
       \/ /\ Current(a)
          /\ dirty' = dirty \ {a}
          /\ Stay(a, "viewing") /\ UNCHANGED scopes
    /\ UNCHANGED <<route, rt, sc>>

\* writer_changed fires: send_writer_state waits for the state mutex.
SeeChange(a) ==
    /\ pc[a] = "loop" /\ a \in dirty
    /\ dirty' = dirty \ {a}
    /\ Goto(a, "viewing")
    /\ UNCHANGED <<route, scopes, rt, sc, mode, inbox, tr>>

View(a) ==
    /\ pc[a] = "viewing" /\ ~StateHeld(sc[a])
    /\ Stay(a, "loop") \/ EndWorkspace(a, "toLeave")
    /\ UNCHANGED <<route, scopes, rt, sc, dirty>>

\* The client, the target or the end of the route leaves the workspace.
Leave(a) ==
    /\ pc[a] = "loop"
    /\ \E next \in {"toChooser", "toLeave"} : EndWorkspace(a, next)
    /\ UNCHANGED <<route, scopes, rt, sc, dirty>>

\* Input, resize, selection and refresh by the writer
Mutate(a) ==
    /\ pc[a] = "loop" /\ ~DispatchHeld(sc[a]) /\ Writer(a) = a
    /\ \/ Current(a) /\ Stay(a, "mutating")
       \/ ~Current(a) /\ EndWorkspace(a, "toLeave")
    /\ UNCHANGED <<route, scopes, rt, sc, dirty>>

\* mutation_result and refresh_after_mutation
Mutated(a) ==
    /\ pc[a] = "mutating"
    /\ \/ ~Current(a) /\ ClearIfCurrent(a) /\ EndWorkspace(a, "toLeave")
       \/ KeepPointer /\ \E next \in {"toChooser", "toLeave"} : EndWorkspace(a, next)
       \/ Current(a) /\ ClearIfCurrent(a) /\ EndWorkspace(a, "toChooser")
       \/ Current(a) /\ KeepPointer /\ Stay(a, "loop")
    /\ UNCHANGED <<route, rt, sc>>

\* The branch of pending_dispatch: a projection under the dispatch mutex alone
Refresh(a) ==
    /\ pc[a] = "loop" /\ ~DispatchHeld(sc[a])
    /\ Goto(a, "refreshing")
    /\ UNCHANGED <<route, scopes, rt, sc, mode, inbox, dirty, tr>>

Refreshed(a) ==
    /\ pc[a] = "refreshing"
    /\ Stay(a, "loop") \/ \E next \in {"toChooser", "toLeave"} : EndWorkspace(a, next)
    /\ UNCHANGED <<route, scopes, rt, sc, dirty>>

\* The response of a demotion reaches the attachment that still waits for it.
Answer(b, o) == IF b = None THEN tr ELSE [tr EXCEPT ![b].answer = o]

\* control_rx
Directive(a) ==
    /\ pc[a] = "loop" /\ inbox[a] # <<>>
    /\ LET d == Head(inbox[a]) IN
       \/ /\ d.kind = "demote"
          /\ mode' = [mode EXCEPT ![a] = "ro"]
          /\ inbox' = [inbox EXCEPT ![a] = Tail(@)]
          /\ tr' = Answer(d.from, "succeeded")
          /\ UNCHANGED pc
       \/ /\ d.kind = "demote" /\ d.from # None
          /\ \E o \in {"failed", "ambiguous"} : tr' = Answer(d.from, o)
          /\ Goto(a, "toChooser")
          /\ mode' = [mode EXCEPT ![a] = "none"] /\ inbox' = [inbox EXCEPT ![a] = <<>>]
       \/ /\ d.kind = "close" \/ d.from = None
          /\ EndWorkspace(a, "toChooser")
    /\ UNCHANGED <<route, scopes, rt, sc, dirty>>

-----------------------------------------------------------------------------
(* change_writer_with_control and demote_writer.                           *)

WorkspaceClaim(a, takeover) ==
    LET change == [NoChange EXCEPT !.from = "loop"] IN
    /\ pc[a] = "loop" /\ ~DispatchHeld(sc[a])
    /\ \/ ~Current(a) /\ KeepPointer /\ EndWorkspace(a, "toLeave")
       \/ /\ Current(a) /\ Writer(a) = a
          /\ SetCurrent(a, TRUE)
          /\ Goto(a, "resizing") /\ tr' = [tr EXCEPT ![a] = change]
          /\ UNCHANGED <<mode, inbox>>
       \/ /\ Current(a) /\ Claimable(a, takeover)
          /\ Goto(a, "promoting") /\ tr' = [tr EXCEPT ![a] = change]
          /\ KeepPointer /\ UNCHANGED <<mode, inbox>>
       \/ /\ Current(a) /\ takeover /\ MustDemote(a)
          /\ Goto(a, "demoting") /\ tr' = [tr EXCEPT ![a] = [change EXCEPT !.victim = Writer(a)]]
          /\ KeepPointer /\ UNCHANGED <<mode, inbox>>
    /\ UNCHANGED <<route, rt, sc>>

SendDemote(b) ==
    LET v == tr[b].victim IN
    /\ pc[b] = "demoting" /\ InWorkspace(v) /\ Len(inbox[v]) < Capacity
    /\ inbox' = [inbox EXCEPT ![v] = Append(@, Demote(b))]
    /\ Goto(b, "awaiting")
    /\ UNCHANGED <<route, scopes, rt, sc, mode, dirty, tr>>

\* The channel is closed; or WRITER_TRANSITION_TIMEOUT passes before it has a
\* slot, or before the answer, whose receiver is then dropped.
DemoteFails(b) ==
    LET v == tr[b].victim IN
    /\ \/ pc[b] = "demoting" /\ (InWorkspace(v) => Len(inbox[v]) = Capacity)
       \/ pc[b] = "awaiting" /\ tr[b].answer = "none"
    /\ tr' = [tr EXCEPT ![b].answer = "ambiguous"]
    /\ inbox' = [inbox EXCEPT ![v] =
                    [i \in DOMAIN @ |-> IF @[i] = Demote(b) THEN Demote(None) ELSE @[i]]]
    /\ Goto(b, "awaiting")
    /\ UNCHANGED <<route, scopes, rt, sc, mode, dirty>>

\* The change fails: the old workspace is to be closed, if there is one.
Fail(b, next) ==
    /\ Goto(b, "failing")
    /\ tr' = [tr EXCEPT ![b].then = next]
    /\ UNCHANGED <<mode, inbox>>

\* Mutant: any answer, and a timeout, counts as a demotion.
AfterAnyAnswer(b) ==
    LET fromLoop == tr[b].from = "loop" IN
    /\ pc[b] = "awaiting" /\ tr[b].answer # "none"
    /\ \/ ~Current(b) /\ Clear(b) /\ Fail(b, IF fromLoop THEN "toLeave" ELSE "leaving")
       \/ /\ Current(b) /\ ~fromLoop
          /\ SetCurrent(b, FALSE)
          /\ Goto(b, "choosing") /\ tr' = [tr EXCEPT ![b] = NoChange]
          /\ UNCHANGED <<mode, inbox>>
       \/ Current(b) /\ fromLoop /\ KeepPointer /\ Stay(b, "promoting")
    /\ UNCHANGED <<route, rt, sc>>

AfterDemotion(b) ==
    LET fromLoop == tr[b].from = "loop" IN
    /\ pc[b] = "awaiting" /\ tr[b].answer # "none"
    /\ \/ ~Current(b) /\ Clear(b) /\ Fail(b, IF fromLoop THEN "toLeave" ELSE "leaving")
       \/ /\ Current(b) /\ tr[b].answer # "succeeded"
          /\ Clear(b) /\ Fail(b, IF fromLoop THEN "toChooser" ELSE "choosing")
       \/ /\ Current(b) /\ tr[b].answer = "succeeded" /\ ~fromLoop
          /\ SetCurrent(b, FALSE)
          /\ Goto(b, "choosing") /\ tr' = [tr EXCEPT ![b] = NoChange]
          /\ UNCHANGED <<mode, inbox>>
       \/ /\ Current(b) /\ tr[b].answer = "succeeded" /\ fromLoop
          /\ KeepPointer /\ Stay(b, "promoting")
    /\ UNCHANGED <<route, rt, sc>>

\* set_writer(true)
Promote(b) ==
    /\ pc[b] = "promoting"
    /\ \/ ~Current(b) /\ Clear(b) /\ Fail(b, "toLeave")
       \/ Current(b) /\ Clear(b) /\ Fail(b, "toChooser")
       \/ /\ Current(b) /\ SetCurrent(b, TRUE)
          /\ mode' = [mode EXCEPT ![b] = "rw"]
          /\ Goto(b, "resizing") /\ UNCHANGED <<inbox, tr>>
    /\ UNCHANGED <<route, rt, sc>>

\* The resize and the fresh projection
Resized(b) ==
    /\ pc[b] = "resizing"
    /\ \/ ~Current(b) /\ ClearIfCurrent(b) /\ Fail(b, "toLeave")
       \/ Current(b) /\ ClearIfCurrent(b) /\ Fail(b, "toChooser")
       \/ KeepPointer /\ EndWorkspace(b, "toLeave")
       \/ ClearIfCurrent(b) /\ EndWorkspace(b, "toChooser")
       \/ ~Current(b) /\ ClearIfCurrent(b) /\ EndWorkspace(b, "toLeave")
       \/ /\ Current(b) /\ KeepPointer
          /\ Goto(b, "loop") /\ tr' = [tr EXCEPT ![b] = NoChange]
          /\ UNCHANGED <<mode, inbox>>
    /\ UNCHANGED <<route, rt, sc>>

\* Mutant: the channel has no bound.
CloseOldUnbounded(b) ==
    LET v == tr[b].victim
        box == IF v # None /\ InWorkspace(v) THEN [inbox EXCEPT ![v] = Append(@, Close)] ELSE inbox IN
    /\ pc[b] = "failing"
    /\ Goto(b, tr[b].then)
    /\ inbox' = IF tr[b].from = "loop" THEN [box EXCEPT ![b] = <<>>] ELSE box
    /\ mode' = IF tr[b].from = "loop" THEN [mode EXCEPT ![b] = "none"] ELSE mode
    /\ tr' = [tr EXCEPT ![b] = NoChange]
    /\ UNCHANGED <<route, scopes, rt, sc, dirty>>

\* Mutant: a workspace whose demotion failed is not told to close.
CloseOldSilently(b) ==
    /\ pc[b] = "failing"
    /\ Goto(b, tr[b].then)
    /\ inbox' = IF tr[b].from = "loop" THEN [inbox EXCEPT ![b] = <<>>] ELSE inbox
    /\ mode' = IF tr[b].from = "loop" THEN [mode EXCEPT ![b] = "none"] ELSE mode
    /\ tr' = [tr EXCEPT ![b] = NoChange]
    /\ UNCHANGED <<route, scopes, rt, sc, dirty>>

\* control.send(Close) waits for a slot, without a timeout and with both
\* mutexes held; the channel of a workspace that has ended is closed.
CloseOld(b) ==
    LET v == tr[b].victim
        next == tr[b].then
        told == v # None /\ InWorkspace(v)
        box == IF told THEN [inbox EXCEPT ![v] = Append(@, Close)] ELSE inbox IN
    /\ pc[b] = "failing" /\ (told => Len(inbox[v]) < Capacity)
    /\ Goto(b, next)
    /\ inbox' = IF tr[b].from = "loop" THEN [box EXCEPT ![b] = <<>>] ELSE box
    /\ mode' = IF tr[b].from = "loop" THEN [mode EXCEPT ![b] = "none"] ELSE mode
    /\ tr' = [tr EXCEPT ![b] = NoChange]
    /\ UNCHANGED <<route, scopes, rt, sc, dirty>>

-----------------------------------------------------------------------------
(* The end of a workspace and of an attachment.                            *)

\* Mutant: the control of a workspace that has ended stays in the pointer.
ReturnKeepingControl(a) ==
    /\ pc[a] \in {"toChooser", "toLeave"} /\ ~DispatchHeld(sc[a])
    /\ Goto(a, IF pc[a] = "toChooser" THEN "opening" ELSE "leaving")
    /\ UNCHANGED <<route, scopes, rt, sc, mode, inbox, dirty, tr>>

\* authenticated_session after workspace(): clear_control
Return(a) ==
    /\ pc[a] \in {"toChooser", "toLeave"} /\ ~DispatchHeld(sc[a])
    /\ scopes' = IF Writer(a) = a THEN [scopes EXCEPT ![sc[a]].ctl = FALSE] ELSE scopes
    /\ Goto(a, IF pc[a] = "toChooser" THEN "opening" ELSE "leaving")
    /\ UNCHANGED <<route, rt, sc, mode, inbox, dirty, tr>>

\* release_attachment: the scopes registered now, one after the other
BeginRelease(a) ==
    /\ pc[a] = "leaving"
    /\ sc' = [sc EXCEPT ![a] = Len(scopes)]
    /\ Goto(a, IF scopes = <<>> THEN "gone" ELSE "releasing")
    /\ UNCHANGED <<route, scopes, rt, mode, inbox, dirty, tr>>

\* Mutant: the pointer outlives its attachment.
ReleaseWithoutClear(a) ==
    /\ pc[a] = "releasing" /\ ~DispatchHeld(sc[a])
    /\ Goto(a, "gone")
    /\ UNCHANGED <<route, scopes, rt, sc, mode, inbox, dirty, tr>>

Release(a) ==
    /\ pc[a] = "releasing" /\ ~DispatchHeld(sc[a])
    /\ ClearIfCurrent(a)
    /\ Goto(a, "gone")
    /\ UNCHANGED <<route, rt, sc, mode, inbox, tr>>

-----------------------------------------------------------------------------
ChooserStep(a) ==
    \/ Start(a) \/ Probe(a) \/ Lookup(a) \/ Choose(a) \/ Create(a) \/ Created(a)
    \/ \E takeover \in BOOLEAN : ChooserClaim(a, takeover)

WorkspaceStep(a) ==
    \/ StartControl(a) \/ Enter(a) \/ Entered(a) \/ SeeChange(a) \/ View(a) \/ Leave(a)
    \/ Mutate(a) \/ Mutated(a) \/ Refresh(a) \/ Refreshed(a) \/ Directive(a)
    \/ \E takeover \in BOOLEAN : WorkspaceClaim(a, takeover)

ChangeStep(b) ==
    \/ SendDemote(b) \/ DemoteFails(b) \/ AfterDemotion(b)
    \/ Promote(b) \/ Resized(b) \/ CloseOld(b)

EndStep(a) == Return(a) \/ BeginRelease(a) \/ Release(a)

Next ==
    \/ RouteEnds \/ RouteInstalled
    \/ \E a \in Attachment : ChooserStep(a) \/ WorkspaceStep(a) \/ ChangeStep(a) \/ EndStep(a)

Spec == Init /\ [][Next]_vars

\* Waits for the target, for a mutex and for a timeout end, mutexes are handed
\* over in order, and select! picks among its ready branches at random.
Fairness ==
    \A a \in Attachment :
        /\ WF_vars(\/ Probe(a) \/ Lookup(a) \/ Created(a) \/ StartControl(a) \/ Entered(a)
                   \/ Mutated(a) \/ Refreshed(a) \/ ChangeStep(a) \/ BeginRelease(a))
        /\ SF_vars(Enter(a)) /\ SF_vars(View(a)) /\ SF_vars(Directive(a)) /\ SF_vars(SeeChange(a))
        /\ SF_vars(Return(a)) /\ SF_vars(Release(a))

FairSpec == Spec /\ Fairness

-----------------------------------------------------------------------------
(* Properties.                                                             *)

\* A tmux client that could still change the target belongs to the pointer's
\* attachment, or a directive of demote_writer or of a failed change is in its
\* channel, or a change of the pointer is under way: an observer never keeps a
\* writable client that nobody will take from it.
WritableIsFenced ==
    \A a \in Attachment : mode[a] = "rw" =>
        \/ Writer(a) = a
        \/ inbox[a] # <<>>
        \/ StateHeld(sc[a])

\* The pointer's attachment, while its workspace runs, is known with its
\* control and has a writable client, unless Close is in its channel: a Demote
\* that timed out and is read after the attachment has claimed again does not
\* leave a writer that cannot write.
WriterCanWrite ==
    \A a \in Attachment :
        pc[a] \in {"viewing", "loop", "refreshing"} /\ Writer(a) = a /\ ~StateHeld(sc[a]) =>
            /\ scopes[sc[a]].ctl
            /\ mode[a] = "rw" \/ \E i \in DOMAIN inbox[a] : inbox[a][i].kind = "close"

\* The control in a WriterHandle is that of a running workspace, or of one
\* whose attachment is about to call clear_control: a takeover never sends a
\* Demote into the channel of an earlier workspace.
ControlIsLive ==
    \A s \in DOMAIN scopes : scopes[s].ctl =>
        LET a == scopes[s].att IN
        a # None /\ sc[a] = s /\ (InWorkspace(a) \/ pc[a] \in {"toChooser", "toLeave"})

\* After release_attachment an attachment is not the writer of the scope that
\* WriterRegistry::scope gives to new attachments.
GoneIsNotWriter ==
    scopes # <<>> => LET a == scopes[Len(scopes)].att IN a # None => pc[a] # "gone"

\* set_current passes the pointer from one attachment to another only when the
\* former one's tmux client is read-only or closed.
DemotedFirst ==
    [][\A s \in DOMAIN scopes :
          LET a == scopes[s].att
              b == scopes'[s].att IN
          a # None /\ b \notin {a, None} /\ sc[a] = s => mode[a] # "rw"]_vars

\* A takeover that fails closes the workspace of the former writer in the end
\* ("Any unknown flag/resize outcome closes the affected workspaces").  It does
\* not: control.send(Close) may wait for the former writer for ever.
FailureClosesWorkspace ==
    \A a, b \in Attachment :
        pc[b] = "failing" /\ tr[b].victim = a ~> ~InWorkspace(a)

\* No two attachments are in a mutation of the target on the current route at
\* the same time ("Exactly one Attachment per Machine route is the owner-local
\* writer").  They can be, when a late lookup has replaced the route's scope.
OneMutator ==
    \A a, b \in Attachment :
        /\ pc[a] \in {"mutating", "creating"} /\ Current(a)
        /\ pc[b] \in {"mutating", "creating"} /\ Current(b)
        => a = b

=============================================================================
