----------------------- MODULE WriterScopeEffectProofs -----------------------
(***************************************************************************)
(* What each effect of a step of WriterScope does: to the pointers and     *)
(* channels of others, and to each part of the invariant for the actor.   *)
(***************************************************************************)
EXTENDS WriterScopeStepProofs

USE BoundsAssumption, NoneAssumption

-----------------------------------------------------------------------------
(* The types, the phases, and the attachments that take no step.           *)

\* The types of the variables that the parts speak of.
LEMMA VarTypes ==
    ASSUME IInv
    PROVE  /\ pc \in [Attachment -> Phase] /\ mode \in [Attachment -> {"none", "ro", "rw"}]
           /\ rt \in [Attachment -> Nat] /\ sc \in [Attachment -> Nat]
           /\ inbox \in [Attachment -> Seq(ControlDirective)] /\ tr \in [Attachment -> Change]
           /\ scopes \in Seq(Scope) /\ Len(scopes) \in Nat
           /\ \A a \in Attachment : pc[a] \in Scoped => sc[a] \in 1..Len(scopes)
<1>1. TypeOK
  BY Zenon DEF IInv
<1>2. scopes \in Seq(Scope) /\ Len(scopes) \in Nat
  BY <1>1, SeqShape, Zenon DEF TypeOK
<1>3. rt \in [Attachment -> Nat] /\ sc \in [Attachment -> Nat]
  BY <1>1, <1>2 DEF TypeOK
<1>4. \A a \in Attachment : pc[a] \in Scoped => sc[a] \in 1..Len(scopes)
  BY WriterType, Zenon
<1> QED
  BY <1>1, <1>2, <1>3, <1>4, Zenon DEF TypeOK

\* A channel that a sender has given up on is as long as before.
LEMMA AbandonedBox ==
    ASSUME IInv, NEW a \in Attachment, NEW v \in Attachment, GivesUp(a, v), NEW x \in Attachment
    PROVE  /\ inbox'[x] # <<>> <=> inbox[x] # <<>>
           /\ DOMAIN inbox'[x] = DOMAIN inbox[x]
           /\ \A i \in DOMAIN inbox[x] :
                inbox'[x][i] = IF x = v /\ inbox[x][i] = Demote(a) THEN Demote(None)
                               ELSE inbox[x][i]
<1>1. inbox \in [Attachment -> Seq(ControlDirective)]
  BY VarTypes, Zenon
<1>2. CASE x = v
  <2>1. inbox'[x] = Abandon(inbox[x], a) /\ inbox[x] \in Seq(ControlDirective)
    BY <1>1, <1>2, Zenon DEF GivesUp
  <2>2. /\ inbox'[x] \in Seq(ControlDirective) /\ Len(inbox'[x]) = Len(inbox[x])
        /\ DOMAIN inbox'[x] = DOMAIN inbox[x]
    BY <2>1, AbandonEffect, Zenon
  <2>3. inbox'[x] # <<>> <=> inbox[x] # <<>>
    BY <2>1, <2>2, SeqEmpty, Zenon
  <2> QED
    BY <1>2, <2>1, <2>2, <2>3, Zenon DEF Abandon
<1>3. CASE x # v
  BY <1>3, Zenon DEF GivesUp, OnlyBox
<1> QED
  BY <1>2, <1>3, Zenon

\* What an attachment has in each phase.
LEMMA PhaseStepInv ==
    ASSUME IInv, TypeOK', NEW a \in Attachment, Effect(a), NEW x \in Attachment
    PROVE  PhaseInv(x)'
<1> USE DEF PhaseInv, InWorkspace, Transition, Scoped, Phase
<1>t. /\ pc \in [Attachment -> Phase] /\ mode \in [Attachment -> {"none", "ro", "rw"}]
      /\ rt \in [Attachment -> Nat] /\ sc \in [Attachment -> Nat]
      /\ inbox \in [Attachment -> Seq(ControlDirective)] /\ tr \in [Attachment -> Change]
  BY VarTypes, Zenon
<1>i. PhaseInv(x) /\ ChangeInv(x)
  BY Zenon DEF IInv
<1>n. NoChange.from = "none"
  BY Zenon DEF NoChange
<1>1. CASE Opens(a) \/ Departs(a) \/ Attaches(a) \/ Takes(a)
  BY <1>t, <1>i, <1>n, <1>1 DEF Opens, Kept, Still, Departs, Attaches, Goes, Takes, Moved,
     ChangeInv
<1>2. CASE Enters(a) \/ Reclaims(a) \/ Finishes(a) \/ Proceeds(a)
  BY <1>t, <1>i, <1>n, <1>2 DEF Enters, Goes, Moved, Reclaims, Begun, Finishes, Dropped,
     Proceeds, Kept, Still, ChangeInv
<1>3. CASE Promotes(a) \/ Fails(a) \/ Settles(a) \/ Quits(a)
  BY <1>t, <1>i, <1>n, <1>3 DEF Promotes, Goes, Moved, Fails, Updated, Settles, Kept,
     Dropped, Quits, Still, ChangeInv
<1>4. ASSUME NEW p \in Phase,
             \/ Outside(a, p) \/ Inside(a, p) \/ Locks(a, p) \/ Clears(a, p)
      PROVE  PhaseInv(x)'
  BY <1>t, <1>i, <1>n, <1>4, ZenonT(30) DEF Outside, Goes, Kept, Still, Inside, Locks, Clears,
     Moved, ChangeInv
<1>5. CASE Looks(a)
  BY <1>t, <1>i, <1>n, <1>5 DEF Looks, Still, Kept, ChangeInv
<1>6. CASE Hears(a)
  <2>1. tr'[x].from = tr[x].from
    BY <1>6, Zenon DEF Hears, Updated
  <2>2. CASE x = a
    BY <1>t, <1>i, <1>6, <2>1, <2>2, Zenon DEF Hears
  <2>3. CASE x # a
    BY <1>t, <1>i, <1>6, <2>1, <2>3, Zenon DEF Hears, OnlyBox
  <2> QED
    BY <2>2, <2>3, Zenon
<1>7. CASE Closes(a)
  BY <1>t, <1>i, <1>n, <1>7, Zenon DEF Closes, Goes, Kept, ChangeInv
<1>8. ASSUME NEW p \in Phase, Ends(a, p)
      PROVE  PhaseInv(x)'
  BY <1>t, <1>i, <1>n, <1>8 DEF Ends, Ended, Kept, Moved, ChangeInv
<1>9. ASSUME NEW p \in Phase, Returns(a, p)
      PROVE  PhaseInv(x)'
  BY <1>t, <1>i, <1>n, <1>9, Zenon DEF Returns, Goes, Moved, Kept, Still, ChangeInv
<1>10. ASSUME NEW v \in Attachment \cup {None}, NEW p \in Phase,
              Begins(a, v, p)
      PROVE  PhaseInv(x)'
  BY <1>t, <1>i, <1>n, <1>10, Zenon DEF Begins, Goes, Kept, Begun, ChangeInv
<1>11. ASSUME NEW v \in Attachment, Sends(a, v)
      PROVE  PhaseInv(x)'
  BY <1>t, <1>i, <1>n, <1>11, Zenon DEF Sends, Goes, Kept, OnlyBox, ChangeInv
<1>12. ASSUME NEW v \in Attachment, GivesUp(a, v)
      PROVE  PhaseInv(x)'
  <2>1. inbox'[x] # <<>> => inbox[x] # <<>>
    BY <1>12, AbandonedBox, Zenon
  <2> QED
    BY <1>t, <1>i, <1>12, <2>1, Zenon DEF GivesUp, Goes, Updated
<1>13. ASSUME NEW v \in Attachment, Dies(a, v)
      PROVE  PhaseInv(x)'
  BY <1>t, <1>i, <1>n, <1>13 DEF Dies, Goes, Kept, OnlyBox, Updated, ChangeInv
<1> QED
  BY <1>1, <1>2, <1>3, <1>4, <1>5, <1>6, <1>7, <1>8, <1>9, <1>10, <1>11, <1>12, <1>13 DEF
     Effect

\* A step of a changes nobody else's phase, scope or client.  It may answer a
\* change that waits for a.
Unmoved(a, x) ==
    /\ pc'[x] = pc[x] /\ sc'[x] = sc[x] /\ rt'[x] = rt[x] /\ mode'[x] = mode[x]
    /\ tr'[x].victim = tr[x].victim /\ tr'[x].from = tr[x].from /\ tr'[x].then = tr[x].then
    /\ \/ tr'[x].answer = tr[x].answer
       \/ /\ pc[x] = "awaiting" /\ tr[x].answer = "none" /\ tr[x].victim = a
          /\ tr'[x].answer # "none" /\ mode'[a] # "rw"

\* A step leaves everybody but its actor alone.
LEMMA Others ==
    ASSUME IInv, TypeOK', NEW a \in Attachment, Effect(a), NEW x \in Attachment \ {a}
    PROVE  Unmoved(a, x)
<1>t. /\ pc \in [Attachment -> Phase] /\ mode \in [Attachment -> {"none", "ro", "rw"}]
      /\ rt \in [Attachment -> Nat] /\ sc \in [Attachment -> Nat]
      /\ inbox \in [Attachment -> Seq(ControlDirective)] /\ tr \in [Attachment -> Change]
  BY VarTypes, Zenon
<1>1. CASE \/ Opens(a) \/ Looks(a) \/ Departs(a) \/ Attaches(a) \/ Takes(a)
          \/ Enters(a) \/ Proceeds(a) \/ Promotes(a) \/ Quits(a)
  BY <1>t, <1>1, Zenon DEF Opens, Kept, Still, Looks, Departs, Attaches, Goes, Takes, Moved,
     Enters, Proceeds, Promotes, Quits, Unmoved
<1>2. ASSUME NEW p \in Phase,
             \/ Outside(a, p) \/ Inside(a, p) \/ Locks(a, p) \/ Clears(a, p)
             \/ Returns(a, p)
      PROVE  Unmoved(a, x)
  BY <1>t, <1>2, Zenon DEF Outside, Goes, Kept, Still, Inside, Locks, Clears, Moved, Returns,
     Unmoved
<1>3. ASSUME NEW v \in Attachment,
             \/ Sends(a, v)
      PROVE  Unmoved(a, x)
  BY <1>t, <1>3, Zenon DEF Sends, Goes, Kept, OnlyBox, Unmoved
<1>4. CASE Reclaims(a) \/ Finishes(a) \/ Fails(a) \/ Settles(a)
  BY <1>t, <1>4, Zenon DEF Reclaims, Goes, Moved, Begun, Finishes, Dropped, Fails, Updated,
     Settles, Kept, Unmoved
<1>5. CASE Hears(a)
  <2>1. \A b \in Attachment \ {a} : b = inbox[a][1].from =>
           pc[b] = "awaiting" /\ tr[b].answer = "none" /\ tr[b].victim = a
    <3>1. inbox[a] \in Seq(ControlDirective) /\ inbox[a] # <<>> /\ inbox[a][1].kind = "demote"
      BY <1>t, <1>5, Zenon DEF Hears
    <3>2. 1 \in DOMAIN inbox[a]
      BY <3>1, ChannelEffect, RecordTypes, Zenon
    <3> QED
      BY <3>1, <3>2, AddressOf
  <2> QED
    BY <1>t, <1>5, <2>1, ZenonT(30) DEF Hears, Updated, Unmoved
<1>6. CASE Closes(a)
  BY <1>t, <1>6, Zenon DEF Closes, Goes, Kept, Unmoved
<1>7. ASSUME NEW p \in Phase, Ends(a, p)
      PROVE  Unmoved(a, x)
  BY <1>t, <1>7, Zenon DEF Ends, Ended, Kept, Moved, Unmoved
<1>8. ASSUME NEW v \in Attachment \cup {None}, NEW p \in Phase,
              Begins(a, v, p)
      PROVE  Unmoved(a, x)
  BY <1>t, <1>8, Zenon DEF Begins, Goes, Kept, Begun, Unmoved
<1>9. ASSUME NEW v \in Attachment, GivesUp(a, v)
      PROVE  Unmoved(a, x)
  BY <1>t, <1>9, Zenon DEF GivesUp, Goes, Kept, OnlyBox, Updated, Unmoved
<1>10. ASSUME NEW v \in Attachment, Dies(a, v)
      PROVE  Unmoved(a, x)
  <2>1. \A b \in Attachment \ {a} : b = inbox[a][1].from =>
           pc[b] = "awaiting" /\ tr[b].answer = "none" /\ tr[b].victim = a
    <3>1. inbox[a] \in Seq(ControlDirective) /\ inbox[a] # <<>> /\ inbox[a][1].kind = "demote"
      BY <1>t, <1>10, Zenon DEF Dies
    <3>2. 1 \in DOMAIN inbox[a]
      BY <3>1, ChannelEffect, RecordTypes, Zenon
    <3> QED
      BY <3>1, <3>2, AddressOf
  <2> QED
    BY <1>t, <1>10, <2>1, ZenonT(30) DEF Dies, Goes, Updated, Unmoved
<1> QED
  BY <1>1, <1>2, <1>3, <1>4, <1>5, <1>6, <1>7, <1>8, <1>9, <1>10, Zenon DEF Effect

-----------------------------------------------------------------------------
(* The pointers and the channels that a step of a may change.               *)

\* a may take the pointer: its attachment is a itself or cannot write, or the
\* change fails and the pointer is cleared.
Passes(a) ==
    \/ Writer(a) \in {None, a}
    \/ ~scopes[sc[a]].ctl
    \/ Demoted(a)
    \/ pc[a] = "awaiting" /\ pc'[a] = "failing" /\ tr'[a].victim = tr[a].victim

PointerChange(a, s) ==
    \/ scopes'[s] = scopes[s]
    \/ s = sc[a] /\ Exclusive(a) /\ Passes(a)
       /\ \/ scopes'[s].att = a
          \/ scopes'[s].att = None /\ scopes'[s].ctl = FALSE

NewScope ==
    /\ Len(scopes') = Len(scopes) + 1
    /\ scopes'[Len(scopes')].att = None /\ scopes'[Len(scopes')].ctl = FALSE

\* A step of a moves at most the pointer of its own scope.
LEMMA PointerStep ==
    ASSUME IInv, TypeOK', NEW a \in Attachment, Effect(a)
    PROVE  /\ Len(scopes') = Len(scopes) \/ NewScope
           /\ \A s \in 1..Len(scopes) : PointerChange(a, s)
<1> DEFINE Claim ==
      /\ Len(scopes') = Len(scopes) \/ NewScope
      /\ \A s \in 1..Len(scopes) : PointerChange(a, s)
<1> USE DEF PointerChange, Passes, NewScope, Locked, Transition
<1>t. /\ pc \in [Attachment -> Phase] /\ tr \in [Attachment -> Change]
      /\ sc \in [Attachment -> Nat]
  BY VarTypes, Zenon
<1>h. HolderInv(a)
  BY Zenon DEF IInv
<1>1. CASE \/ Opens(a) \/ Departs(a) \/ Attaches(a) \/ Hears(a) \/ Proceeds(a)
          \/ Settles(a) \/ Closes(a) \/ Quits(a)
  BY <1>t, <1>h, <1>1, Zenon DEF Opens, Kept, Still, Departs, Attaches, Goes, Hears, OnlyBox,
     Updated, Proceeds, Settles, Dropped, Closes, Quits, Exclusive
<1>2. ASSUME NEW p \in Phase,
             \/ Outside(a, p) \/ Inside(a, p) \/ Locks(a, p)
      PROVE  Claim
  BY <1>t, <1>h, <1>2, Zenon DEF Outside, Goes, Kept, Still, Inside, Locks, Exclusive
<1>3. ASSUME NEW v \in Attachment,
             \/ Sends(a, v) \/ GivesUp(a, v) \/ Dies(a, v)
      PROVE  Claim
  BY <1>t, <1>h, <1>3, Zenon DEF Sends, Goes, Kept, OnlyBox, GivesUp, Updated, Dies, Exclusive
<1>4. CASE Looks(a) \/ Takes(a) \/ Enters(a) \/ Reclaims(a)
  BY <1>t, <1>h, <1>4, Zenon DEF Looks, Still, Kept, Takes, Goes, Moved, Enters, Reclaims,
     Begun, Exclusive, Free
<1>5. CASE Finishes(a) \/ Promotes(a) \/ Fails(a)
  BY <1>t, <1>h, <1>5, Zenon DEF Finishes, Goes, Moved, Dropped, Promotes, Fails, Updated,
     Demoted, Exclusive, Updated, HolderInv
<1>6. ASSUME NEW p \in Phase,
             \/ Ends(a, p) \/ Clears(a, p) \/ Returns(a, p)
      PROVE  Claim
  BY <1>t, <1>h, <1>6, Zenon DEF Ends, Ended, Kept, Moved, Clears, Goes, Still, Returns,
     Exclusive
<1>7. ASSUME NEW v \in Attachment \cup {None}, NEW p \in Phase,
              Begins(a, v, p)
      PROVE  Claim
  BY <1>t, <1>h, <1>7, Zenon DEF Begins, Goes, Kept, Begun, Exclusive
<1> QED
  BY <1>1, <1>2, <1>3, <1>4, <1>5, <1>6, <1>7, Zenon DEF Effect

\* What a step of a may do to the pointer of another attachment's scope.
LEMMA OtherPointer ==
    ASSUME IInv, TypeOK', NEW a \in Attachment, Effect(a), NEW x \in Attachment \ {a},
           sc[x] \in 1..Len(scopes)
    PROVE  \/ scopes'[sc'[x]] = scopes[sc[x]]
           \/ /\ sc[a] = sc[x] /\ pc[x] \notin Locked /\ Writer(x)' \in {a, None}
              /\ Writer(x) = x => \/ mode[x] # "rw"
                                  \/ pc'[a] = "failing" /\ tr'[a].victim = x
<1>1. sc'[x] = sc[x]
  BY Others DEF Unmoved
<1>2. PointerChange(a, sc[x])
  BY PointerStep, Zenon
<1>3. SUFFICES ASSUME sc[a] = sc[x], Exclusive(a), scopes'[sc[x]].att \in {a, None}, Passes(a)
               PROVE  /\ pc[x] \notin Locked
                      /\ Writer(x) = x => \/ mode[x] # "rw"
                                          \/ pc'[a] = "failing" /\ tr'[a].victim = x
  BY <1>1, <1>2, Zenon DEF PointerChange, Writer
<1>4. pc[x] \notin Locked
  BY <1>3, Zenon DEF Exclusive, IInv, OneHolder, StateHeld, Locked
<1>5. ASSUME Writer(x) = x, mode[x] = "rw"
      PROVE  pc'[a] = "failing" /\ tr'[a].victim = x
  <2>1. Writer(a) = x /\ scopes[sc[a]].ctl
    BY <1>3, <1>5, Zenon DEF IInv, ControlInv, Writer
  <2>2. ~Demoted(a)
    BY <1>3, <1>5, <2>1, Zenon DEF IInv, DemotedInv
  <2>3. x \notin {None, a}
    OBVIOUS
  <2>4. pc[a] = "awaiting" => tr[a].victim = Writer(a)
    BY Zenon DEF IInv, HolderInv
  <2> QED
    BY <1>3, <2>1, <2>2, <2>3, <2>4, Zenon DEF Passes
<1> QED
  BY <1>4, <1>5, Zenon

\* What a step of a may do to the channel of another attachment.
OtherBox(a, x) ==
    \/ inbox'[x] = inbox[x]
    \/ /\ inbox'[x] = Append(inbox[x], Demote(a)) /\ tr[a].victim = x
       /\ pc[a] = "demoting" /\ pc'[a] = "awaiting" /\ tr'[a] = tr[a] /\ sc'[a] = sc[a]
    \/ /\ inbox'[x] = Abandon(inbox[x], a) /\ tr[a].victim = x /\ tr'[a].victim = x
       /\ pc'[a] = "awaiting" /\ tr'[a].answer = "ambiguous" /\ sc'[a] = sc[a]
       /\ pc[a] \in {"demoting", "awaiting"}
    \/ inbox'[x] = Append(inbox[x], Close) /\ tr[a].victim = x /\ pc[a] = "failing"

\* A step of a changes another channel only where a writer change asks for it.
LEMMA BoxStep ==
    ASSUME IInv, TypeOK', NEW a \in Attachment, Effect(a), NEW x \in Attachment \ {a}
    PROVE  OtherBox(a, x)
<1> USE DEF OtherBox
<1>t. /\ pc \in [Attachment -> Phase] /\ inbox \in [Attachment -> Seq(ControlDirective)]
  BY VarTypes, Zenon
<1>1. CASE \/ Opens(a) \/ Departs(a) \/ Attaches(a) \/ Proceeds(a) \/ Settles(a)
          \/ Looks(a) \/ Takes(a) \/ Enters(a) \/ Reclaims(a) \/ Finishes(a)
          \/ Promotes(a) \/ Fails(a) \/ Quits(a)
  BY <1>t, <1>1, Zenon DEF Opens, Kept, Still, Departs, Attaches, Goes, Proceeds, Settles,
     Dropped, Looks, Takes, Moved, Enters, Reclaims, Begun, Finishes, Promotes, Fails,
     Updated, Quits
<1>2. ASSUME NEW p \in Phase,
             \/ Outside(a, p) \/ Inside(a, p) \/ Locks(a, p) \/ Clears(a, p)
             \/ Returns(a, p)
      PROVE  OtherBox(a, x)
  BY <1>t, <1>2, Zenon DEF Outside, Goes, Kept, Still, Inside, Locks, Clears, Moved, Returns
<1>3. CASE Hears(a) \/ Closes(a)
  BY <1>t, <1>3, Zenon DEF Hears, Kept, OnlyBox, Updated, Closes, Goes
<1>4. ASSUME NEW v \in Attachment,
             \/ Sends(a, v) \/ GivesUp(a, v) \/ Dies(a, v)
      PROVE  OtherBox(a, x)
  BY <1>t, <1>4, Zenon DEF Sends, Goes, Kept, OnlyBox, GivesUp, Updated, Dies, Goes, Still,
     OnlyBox
<1>5. ASSUME NEW p \in Phase, Ends(a, p)
      PROVE  OtherBox(a, x)
  BY <1>t, <1>5, Zenon DEF Ends, Ended, Kept, Moved
<1>6. ASSUME NEW v \in Attachment \cup {None}, NEW p \in Phase,
              Begins(a, v, p)
      PROVE  OtherBox(a, x)
  BY <1>t, <1>6, Zenon DEF Begins, Goes, Kept, Begun
<1> QED
  BY <1>1, <1>2, <1>3, <1>4, <1>5, <1>6, Zenon DEF Effect

\* From failing there is only the Close to be sent.
LEMMA FailingOwn ==
    ASSUME IInv, TypeOK', NEW a \in Attachment, Effect(a)
    PROVE  pc[a] = "failing" => Closes(a)
<1>t. pc \in [Attachment -> Phase]
  BY VarTypes, Zenon
<1>1. CASE \/ Opens(a) \/ Departs(a) \/ Attaches(a) \/ Proceeds(a) \/ Settles(a)
          \/ Looks(a) \/ Takes(a) \/ Enters(a) \/ Reclaims(a) \/ Finishes(a)
          \/ Promotes(a) \/ Fails(a) \/ Quits(a) \/ Hears(a) \/ Closes(a)
  BY <1>t, <1>1, Zenon DEF Opens, Kept, Still, Departs, Attaches, Goes, Proceeds, Settles,
     Dropped, Looks, Takes, Moved, Enters, Reclaims, Begun, Finishes, Promotes, Fails,
     Updated, Quits, Hears, OnlyBox, Closes
<1>2. ASSUME NEW p \in Phase,
             \/ Outside(a, p) \/ Inside(a, p) \/ Locks(a, p) \/ Clears(a, p)
             \/ Returns(a, p) \/ Ends(a, p)
      PROVE  pc[a] = "failing" => Closes(a)
  BY <1>t, <1>2, Zenon DEF Outside, Goes, Kept, Still, Inside, Locks, Clears, Moved, Returns,
     Ends, Ended
<1>3. ASSUME NEW v \in Attachment,
             \/ Sends(a, v) \/ GivesUp(a, v) \/ Dies(a, v)
      PROVE  pc[a] = "failing" => Closes(a)
  BY <1>t, <1>3, Zenon DEF Sends, Goes, Kept, OnlyBox, GivesUp, Updated, Dies
<1>4. ASSUME NEW v \in Attachment \cup {None}, NEW p \in Phase,
              Begins(a, v, p)
      PROVE  pc[a] = "failing" => Closes(a)
  BY <1>t, <1>4, Zenon DEF Begins, Goes, Kept, Begun
<1> QED
  BY <1>1, <1>2, <1>3, <1>4, Zenon DEF Effect

-----------------------------------------------------------------------------
(* The parts of the invariant for the attachment that takes the step.       *)

\* The locals of a writer change.
LEMMA ChangeOwn ==
    ASSUME IInv, TypeOK', NEW a \in Attachment, Effect(a)
    PROVE  ChangeInv(a)'
<1> USE DEF ChangeInv, Transition
<1>t. /\ pc \in [Attachment -> Phase] /\ mode \in [Attachment -> {"none", "ro", "rw"}]
      /\ rt \in [Attachment -> Nat] /\ sc \in [Attachment -> Nat]
      /\ inbox \in [Attachment -> Seq(ControlDirective)] /\ tr \in [Attachment -> Change]
      /\ scopes \in Seq(Scope) /\ Len(scopes) \in Nat
  BY VarTypes, Zenon
<1>i. ChangeInv(a)
  BY Zenon DEF IInv
<1>n. NoChange.victim = None /\ NoChange.from = "none" /\ NoChange.answer = "none"
  BY Zenon DEF NoChange
<1>1. CASE \/ Opens(a) \/ Departs(a) \/ Attaches(a) \/ Proceeds(a) \/ Looks(a)
          \/ Takes(a) \/ Enters(a) \/ Quits(a)
  BY <1>t, <1>i, <1>n, <1>1, ZenonT(30) DEF Opens, Kept, Still, Departs, Attaches, Goes,
     Proceeds, Looks, Takes, Moved, Enters, Quits
<1>2. ASSUME NEW p \in Phase,
             \/ Outside(a, p) \/ Inside(a, p) \/ Locks(a, p) \/ Clears(a, p)
             \/ Returns(a, p)
      PROVE  ChangeInv(a)'
  BY <1>t, <1>i, <1>n, <1>2, Zenon DEF Outside, Goes, Kept, Still, Inside, Locks, Clears,
     Moved, Returns
<1>3. CASE Reclaims(a) \/ Hears(a) \/ Finishes(a) \/ Promotes(a)
  BY <1>t, <1>i, <1>n, <1>3, Zenon DEF Reclaims, Goes, Moved, Begun, Hears, Kept, OnlyBox,
     Updated, Finishes, Dropped, Promotes
<1>4. CASE Fails(a) \/ Settles(a) \/ Closes(a)
  BY <1>t, <1>i, <1>n, <1>4, Zenon DEF Fails, Goes, Moved, Updated, Settles, Kept, Dropped,
     Closes
<1>5. ASSUME NEW v \in Attachment,
             \/ Sends(a, v) \/ GivesUp(a, v) \/ Dies(a, v)
      PROVE  ChangeInv(a)'
  BY <1>t, <1>i, <1>n, <1>5, ZenonT(30) DEF Sends, Goes, Kept, OnlyBox, GivesUp, Updated, Dies
<1>6. ASSUME NEW p \in Phase, Ends(a, p)
      PROVE  ChangeInv(a)'
  BY <1>t, <1>i, <1>n, <1>6, Zenon DEF Ends, Ended, Kept, Moved
<1>7. ASSUME NEW v \in Attachment \cup {None}, NEW p \in Phase,
              Begins(a, v, p)
      PROVE  ChangeInv(a)'
  BY <1>t, <1>i, <1>n, <1>7, Zenon DEF Begins, Goes, Kept, Begun
<1> QED
  BY <1>1, <1>2, <1>3, <1>4, <1>5, <1>6, <1>7, Zenon DEF Effect

\* Who gets the state mutex of a scope found it free.
LEMMA LockOwn ==
    ASSUME IInv, TypeOK', NEW a \in Attachment, Effect(a)
    PROVE  pc'[a] \in Locked => sc'[a] = sc[a] /\ Exclusive(a)
<1> USE DEF Locked, Transition, Exclusive
<1>t. /\ pc \in [Attachment -> Phase] /\ mode \in [Attachment -> {"none", "ro", "rw"}]
      /\ rt \in [Attachment -> Nat] /\ sc \in [Attachment -> Nat]
      /\ inbox \in [Attachment -> Seq(ControlDirective)] /\ tr \in [Attachment -> Change]
      /\ scopes \in Seq(Scope) /\ Len(scopes) \in Nat
  BY VarTypes, Zenon
<1>i. ChangeInv(a)
  BY Zenon DEF IInv
<1>1. CASE \/ Opens(a) \/ Departs(a) \/ Attaches(a) \/ Proceeds(a) \/ Looks(a)
          \/ Takes(a) \/ Enters(a) \/ Quits(a) \/ Settles(a)
  BY <1>t, <1>i, <1>1, Zenon DEF Opens, Kept, Still, Departs, Attaches, Goes, Proceeds, Looks,
     Takes, Moved, Enters, Quits, Settles, Dropped
<1>2. ASSUME NEW p \in Phase,
             \/ Outside(a, p) \/ Inside(a, p) \/ Locks(a, p) \/ Clears(a, p)
             \/ Returns(a, p)
      PROVE  pc'[a] \in Locked => sc'[a] = sc[a] /\ Exclusive(a)
  BY <1>t, <1>i, <1>2, Zenon DEF Outside, Goes, Kept, Still, Inside, Locks, Clears, Moved,
     Returns
<1>3. CASE Reclaims(a) \/ Hears(a) \/ Finishes(a) \/ Promotes(a)
  BY <1>t, <1>i, <1>3, Zenon DEF Reclaims, Goes, Moved, Begun, Hears, Kept, OnlyBox, Updated,
     Finishes, Dropped, Promotes
<1>4. CASE Fails(a) \/ Closes(a)
  BY <1>t, <1>i, <1>4, Zenon DEF Fails, Goes, Moved, Updated, Closes, Kept, ChangeInv
<1>5. ASSUME NEW v \in Attachment,
             \/ Sends(a, v) \/ GivesUp(a, v) \/ Dies(a, v)
      PROVE  pc'[a] \in Locked => sc'[a] = sc[a] /\ Exclusive(a)
  BY <1>t, <1>i, <1>5, Zenon DEF Sends, Goes, Kept, OnlyBox, GivesUp, Updated, Dies
<1>6. ASSUME NEW p \in Phase, Ends(a, p)
      PROVE  pc'[a] \in Locked => sc'[a] = sc[a] /\ Exclusive(a)
  BY <1>t, <1>i, <1>6, Zenon DEF Ends, Ended, Kept, Moved
<1>7. ASSUME NEW v \in Attachment \cup {None}, NEW p \in Phase,
              Begins(a, v, p)
      PROVE  pc'[a] \in Locked => sc'[a] = sc[a] /\ Exclusive(a)
  BY <1>t, <1>i, <1>7, Zenon DEF Begins, Goes, Kept, Begun
<1> QED
  BY <1>1, <1>2, <1>3, <1>4, <1>5, <1>6, <1>7, Zenon DEF Effect

\* What the holder of the state mutex knows of the pointer.
LEMMA HolderOwn ==
    ASSUME IInv, TypeOK', NEW a \in Attachment, Effect(a)
    PROVE  HolderInv(a)'
<1> USE DEF HolderInv, Transition, Writer
<1>t. /\ pc \in [Attachment -> Phase] /\ mode \in [Attachment -> {"none", "ro", "rw"}]
      /\ rt \in [Attachment -> Nat] /\ sc \in [Attachment -> Nat]
      /\ inbox \in [Attachment -> Seq(ControlDirective)] /\ tr \in [Attachment -> Change]
      /\ scopes \in Seq(Scope) /\ Len(scopes) \in Nat
  BY VarTypes, Zenon
<1>w. pc[a] \in Scoped => sc[a] \in 1..Len(scopes)
  BY VarTypes, Zenon
<1>i. HolderInv(a) /\ ChangeInv(a)
  BY Zenon DEF IInv
<1>n. NoChange.victim = None /\ NoChange.from = "none" /\ NoChange.answer = "none"
  BY Zenon DEF NoChange
<1>1. CASE \/ Opens(a) \/ Departs(a) \/ Attaches(a) \/ Proceeds(a) \/ Looks(a)
          \/ Quits(a)
  BY <1>t, <1>w, <1>i, <1>n, <1>1, ZenonT(30) DEF Opens, Kept, Still, Departs, Attaches, Goes,
     Proceeds, Looks, Quits, ChangeInv, Scoped, Phase
<1>2. ASSUME NEW p \in Phase,
             \/ Outside(a, p) \/ Inside(a, p) \/ Locks(a, p)
      PROVE  HolderInv(a)'
  BY <1>t, <1>w, <1>i, <1>n, <1>2, Zenon DEF Outside, Goes, Kept, Still, Inside, Locks,
     ChangeInv, Scoped, Phase
<1>3. CASE Takes(a) \/ Enters(a) \/ Reclaims(a) \/ Hears(a)
  BY <1>t, <1>w, <1>i, <1>n, <1>3, Zenon DEF Takes, Goes, Moved, Still, Enters, Reclaims,
     Begun, Hears, Kept, OnlyBox, Updated, ChangeInv, Scoped, Phase
<1>4. CASE Finishes(a) \/ Promotes(a) \/ Fails(a) \/ Settles(a)
  BY <1>t, <1>w, <1>i, <1>n, <1>4, ZenonT(30) DEF Finishes, Goes, Moved, Dropped, Promotes,
     Fails, Updated, Settles, Kept, ChangeInv, Scoped, Phase, Updated
<1>5. ASSUME NEW p \in Phase,
             \/ Ends(a, p) \/ Clears(a, p) \/ Returns(a, p)
      PROVE  HolderInv(a)'
  BY <1>t, <1>w, <1>i, <1>n, <1>5, Zenon DEF Ends, Ended, Kept, Moved, Clears, Goes, Still,
     Returns, ChangeInv, Scoped, Phase
<1>6. ASSUME NEW v \in Attachment,
             \/ Sends(a, v) \/ GivesUp(a, v) \/ Dies(a, v)
      PROVE  HolderInv(a)'
  BY <1>t, <1>w, <1>i, <1>n, <1>6, ZenonT(30) DEF Sends, Goes, Kept, OnlyBox, GivesUp,
     Updated, Dies, ChangeInv, Scoped, Phase
<1>7. CASE Closes(a)
  BY <1>t, <1>w, <1>i, <1>n, <1>7, Zenon DEF Closes, Goes, Kept, ChangeInv, Scoped, Phase
<1>8. ASSUME NEW v \in Attachment \cup {None}, NEW p \in Phase,
              Begins(a, v, p)
      PROVE  HolderInv(a)'
  BY <1>t, <1>w, <1>i, <1>n, <1>8, Zenon DEF Begins, Goes, Kept, Begun, ChangeInv, Scoped,
     Phase
<1> QED
  BY <1>1, <1>2, <1>3, <1>4, <1>5, <1>6, <1>7, <1>8, Zenon DEF Effect

\* A client becomes writable only for the attachment of the pointer.
LEMMA ModeOwn ==
    ASSUME IInv, TypeOK', NEW a \in Attachment, Effect(a)
    PROVE  mode'[a] = "rw" =>
             /\ sc'[a] = sc[a] /\ sc[a] \in 1..Len(scopes)
             /\ \/ mode[a] = "rw"
                \/ Exclusive(a) /\ scopes'[sc[a]].att = a /\ scopes'[sc[a]].ctl
<1> DEFINE Claim ==
      mode'[a] = "rw" =>
        /\ sc'[a] = sc[a] /\ sc[a] \in 1..Len(scopes)
        /\ \/ mode[a] = "rw"
           \/ Exclusive(a) /\ scopes'[sc[a]].att = a /\ scopes'[sc[a]].ctl
<1>t. /\ pc \in [Attachment -> Phase] /\ mode \in [Attachment -> {"none", "ro", "rw"}]
      /\ rt \in [Attachment -> Nat] /\ sc \in [Attachment -> Nat]
      /\ inbox \in [Attachment -> Seq(ControlDirective)] /\ tr \in [Attachment -> Change]
      /\ scopes \in Seq(Scope) /\ Len(scopes) \in Nat
  BY VarTypes, Zenon
<1>w. pc[a] \in Scoped => sc[a] \in 1..Len(scopes)
  BY VarTypes, Zenon
<1>p. mode[a] = "rw" => pc[a] \in Scoped \ {"off", "probed", "leaving"}
  BY Zenon DEF IInv, PhaseInv, InWorkspace, Transition, Scoped, Phase
<1>1. CASE Attaches(a) \/ Proceeds(a) \/ Takes(a) \/ Quits(a)
  BY <1>t, <1>w, <1>p, <1>1, Zenon DEF Attaches, Goes, Kept, Proceeds, Still, Takes, Moved,
     Quits, Scoped, Phase, Transition
<1>2. ASSUME NEW p \in Phase,
             \/ Outside(a, p) \/ Inside(a, p) \/ Locks(a, p) \/ Clears(a, p)
             \/ Returns(a, p)
      PROVE  Claim
  BY <1>t, <1>w, <1>p, <1>2, Zenon DEF Outside, Goes, Kept, Still, Inside, Locks, Clears,
     Moved, Returns, Scoped, Phase, Transition
<1>3. CASE Opens(a) \/ Looks(a) \/ Departs(a) \/ Enters(a)
  BY <1>t, <1>w, <1>p, <1>3, Zenon DEF Opens, Kept, Still, Looks, Departs, Enters, Goes,
     Moved, Scoped, Phase, Transition, Exclusive
<1>4. CASE Reclaims(a) \/ Hears(a) \/ Finishes(a) \/ Promotes(a)
  BY <1>t, <1>w, <1>p, <1>4, Zenon DEF Reclaims, Goes, Moved, Begun, Hears, Kept, OnlyBox,
     Updated, Finishes, Dropped, Promotes, Scoped, Phase, Transition, Exclusive, Locked
<1>5. CASE Fails(a) \/ Settles(a) \/ Closes(a)
  BY <1>t, <1>w, <1>p, <1>5, Zenon DEF Fails, Goes, Moved, Updated, Settles, Kept, Dropped,
     Closes, Scoped, Phase, Transition
<1>6. ASSUME NEW v \in Attachment,
             \/ Sends(a, v) \/ GivesUp(a, v) \/ Dies(a, v)
      PROVE  Claim
  BY <1>t, <1>w, <1>p, <1>6, Zenon DEF Sends, Goes, Kept, OnlyBox, GivesUp, Updated, Dies,
     Scoped, Phase, Transition
<1>7. ASSUME NEW p \in Phase, Ends(a, p)
      PROVE  Claim
  BY <1>t, <1>w, <1>p, <1>7, Zenon DEF Ends, Ended, Kept, Moved, Scoped, Phase, Transition
<1>8. ASSUME NEW v \in Attachment \cup {None}, NEW p \in Phase,
              Begins(a, v, p)
      PROVE  Claim
  BY <1>t, <1>w, <1>p, <1>8, Zenon DEF Begins, Goes, Kept, Begun, Scoped, Phase, Transition
<1> QED
  BY <1>1, <1>2, <1>3, <1>4, <1>5, <1>6, <1>7, <1>8, Zenon DEF Effect

\* A writable client of the pointer's attachment has its control there.
LEMMA ControlOwn ==
    ASSUME IInv, TypeOK', NEW a \in Attachment, Effect(a)
    PROVE  ControlInv(a)'
<1> USE DEF ControlInv, Writer
<1>t. /\ pc \in [Attachment -> Phase] /\ mode \in [Attachment -> {"none", "ro", "rw"}]
      /\ rt \in [Attachment -> Nat] /\ sc \in [Attachment -> Nat]
      /\ inbox \in [Attachment -> Seq(ControlDirective)] /\ tr \in [Attachment -> Change]
      /\ scopes \in Seq(Scope) /\ Len(scopes) \in Nat
  BY VarTypes, Zenon
<1>w. pc[a] \in Scoped => sc[a] \in 1..Len(scopes)
  BY VarTypes, Zenon
<1>i. ControlInv(a) /\ PhaseInv(a)
  BY Zenon DEF IInv
<1>p. mode[a] = "rw" => InWorkspace(a) /\ pc[a] \in Scoped
  BY Zenon DEF IInv, PhaseInv, InWorkspace, Transition, Scoped, Phase
<1>1. CASE Attaches(a) \/ Proceeds(a)
  BY <1>t, <1>w, <1>i, <1>p, <1>1, Zenon DEF Attaches, Goes, Kept, Proceeds, Still,
     InWorkspace, Transition
<1>2. ASSUME NEW p \in Phase,
             \/ Outside(a, p) \/ Inside(a, p) \/ Locks(a, p)
      PROVE  ControlInv(a)'
  BY <1>t, <1>w, <1>i, <1>p, <1>2, Zenon DEF Outside, Goes, Kept, Still, Inside, Locks,
     InWorkspace, Transition
<1>3. CASE Opens(a) \/ Looks(a) \/ Departs(a) \/ Takes(a)
  BY <1>t, <1>w, <1>i, <1>p, <1>3, Zenon DEF Opens, Kept, Still, Looks, Departs, Takes, Goes,
     Moved, InWorkspace, Transition
<1>4. CASE Enters(a) \/ Reclaims(a) \/ Hears(a) \/ Finishes(a)
  BY <1>t, <1>w, <1>i, <1>p, <1>4, Zenon DEF Enters, Goes, Moved, Reclaims, Begun, Hears,
     Kept, OnlyBox, Updated, Finishes, Dropped, InWorkspace, Transition
<1>5. CASE Promotes(a) \/ Fails(a) \/ Settles(a) \/ Closes(a)
  BY <1>t, <1>w, <1>i, <1>p, <1>5 DEF Promotes, Goes, Moved, Fails, Updated, Settles, Kept,
     Dropped, Closes, InWorkspace, Transition
<1>6. ASSUME NEW p \in Phase,
             \/ Ends(a, p) \/ Clears(a, p) \/ Returns(a, p)
      PROVE  ControlInv(a)'
  BY <1>t, <1>w, <1>i, <1>p, <1>6, Zenon DEF Ends, Ended, Kept, Moved, Clears, Goes, Still,
     Returns, InWorkspace, Transition
<1>7. ASSUME NEW v \in Attachment,
             \/ Sends(a, v) \/ GivesUp(a, v) \/ Dies(a, v)
      PROVE  ControlInv(a)'
  BY <1>t, <1>w, <1>i, <1>p, <1>7, Zenon DEF Sends, Goes, Kept, OnlyBox, GivesUp, Updated,
     Dies, InWorkspace, Transition
<1>8. CASE Quits(a)
  BY <1>t, <1>w, <1>i, <1>p, <1>8, Zenon DEF Quits, Goes, Kept, Still, InWorkspace, Transition
<1>9. ASSUME NEW v \in Attachment \cup {None}, NEW p \in Phase,
              Begins(a, v, p)
      PROVE  ControlInv(a)'
  BY <1>t, <1>w, <1>i, <1>p, <1>9, Zenon DEF Begins, Goes, Kept, Begun, InWorkspace,
     Transition
<1> QED
  BY <1>1, <1>2, <1>3, <1>4, <1>5, <1>6, <1>7, <1>8, <1>9, Zenon DEF Effect

\* How a change comes to be about to set the pointer.
LEMMA DemotedFrom ==
    ASSUME IInv, TypeOK', NEW a \in Attachment, Effect(a)
    PROVE  Demoted(a)' =>
             /\ sc'[a] = sc[a] /\ scopes' = scopes /\ mode' = mode /\ pc[a] \in Scoped
             /\ Demoted(a) \/ Free(a)
<1> DEFINE Claim ==
      Demoted(a)' =>
        /\ sc'[a] = sc[a] /\ scopes' = scopes /\ mode' = mode /\ pc[a] \in Scoped
        /\ Demoted(a) \/ Free(a)
<1> USE DEF Demoted, Scoped, Phase, Transition
<1>t. /\ pc \in [Attachment -> Phase] /\ mode \in [Attachment -> {"none", "ro", "rw"}]
      /\ rt \in [Attachment -> Nat] /\ sc \in [Attachment -> Nat]
      /\ inbox \in [Attachment -> Seq(ControlDirective)] /\ tr \in [Attachment -> Change]
      /\ scopes \in Seq(Scope) /\ Len(scopes) \in Nat
  BY VarTypes, Zenon
<1>i. ChangeInv(a)
  BY Zenon DEF IInv
<1>n. NoChange.victim = None /\ NoChange.from = "none" /\ NoChange.answer = "none"
  BY Zenon DEF NoChange
<1>1. CASE \/ Opens(a) \/ Departs(a) \/ Attaches(a) \/ Proceeds(a) \/ Looks(a)
          \/ Quits(a) \/ Takes(a) \/ Enters(a) \/ Finishes(a) \/ Promotes(a)
          \/ Settles(a)
  BY <1>t, <1>i, <1>n, <1>1, Zenon DEF Opens, Kept, Still, Departs, Attaches, Goes, Proceeds,
     Looks, Quits, Takes, Moved, Enters, Finishes, Dropped, Promotes, Settles, ChangeInv
<1>2. ASSUME NEW p \in Phase,
             \/ Outside(a, p) \/ Inside(a, p) \/ Locks(a, p) \/ Clears(a, p)
             \/ Returns(a, p)
      PROVE  Claim
  BY <1>t, <1>i, <1>n, <1>2, Zenon DEF Outside, Goes, Kept, Still, Inside, Locks, Clears,
     Moved, Returns, ChangeInv
<1>3. CASE Reclaims(a) \/ Hears(a) \/ Fails(a) \/ Closes(a)
  BY <1>t, <1>i, <1>n, <1>3, Zenon DEF Reclaims, Goes, Moved, Begun, Hears, Kept, OnlyBox,
     Updated, Fails, Closes, ChangeInv
<1>4. ASSUME NEW v \in Attachment,
             \/ Sends(a, v) \/ GivesUp(a, v) \/ Dies(a, v)
      PROVE  Claim
  BY <1>t, <1>i, <1>n, <1>4, Zenon DEF Sends, Goes, Kept, OnlyBox, GivesUp, Updated, Dies,
     ChangeInv
<1>5. ASSUME NEW p \in Phase, Ends(a, p)
      PROVE  Claim
  BY <1>t, <1>i, <1>n, <1>5, Zenon DEF Ends, Ended, Kept, Moved, ChangeInv
<1>6. ASSUME NEW v \in Attachment \cup {None}, NEW p \in Phase,
              Begins(a, v, p)
      PROVE  Claim
  BY <1>t, <1>i, <1>n, <1>6, Zenon DEF Begins, Goes, Kept, Begun, ChangeInv
<1> QED
  BY <1>1, <1>2, <1>3, <1>4, <1>5, <1>6, Zenon DEF Effect

\* What a step of a leaves of a writable client's fences.
LEMMA FencedFrom ==
    ASSUME IInv, TypeOK', NEW a \in Attachment, Effect(a)
    PROVE  mode'[a] = "rw" =>
             \/ pc'[a] = "failing"
             \/ scopes'[sc[a]].att = a
             \/ scopes'[sc[a]] = scopes[sc[a]] /\ inbox'[a] = inbox[a] /\ pc[a] # "failing"
<1> DEFINE Claim ==
      mode'[a] = "rw" =>
        \/ pc'[a] = "failing"
        \/ scopes'[sc[a]].att = a
        \/ scopes'[sc[a]] = scopes[sc[a]] /\ inbox'[a] = inbox[a] /\ pc[a] # "failing"
<1> USE DEF InWorkspace, Transition
<1>t. /\ pc \in [Attachment -> Phase] /\ mode \in [Attachment -> {"none", "ro", "rw"}]
      /\ rt \in [Attachment -> Nat] /\ sc \in [Attachment -> Nat]
      /\ inbox \in [Attachment -> Seq(ControlDirective)] /\ tr \in [Attachment -> Change]
      /\ scopes \in Seq(Scope) /\ Len(scopes) \in Nat
  BY VarTypes, Zenon
<1>w. pc[a] \in Scoped => sc[a] \in 1..Len(scopes)
  BY VarTypes, Zenon
<1>p. /\ mode[a] = "rw" => InWorkspace(a) /\ pc[a] \in Scoped
      /\ inbox[a] # <<>> => InWorkspace(a)
  BY Zenon DEF IInv, PhaseInv, InWorkspace, Transition, Scoped, Phase
<1>1. CASE \/ Attaches(a) \/ Proceeds(a) \/ Takes(a) \/ Enters(a) \/ Promotes(a)
          \/ Quits(a)
  BY <1>t, <1>w, <1>p, <1>1, Zenon DEF Attaches, Goes, Kept, Proceeds, Still, Takes, Moved,
     Enters, Promotes, Quits, Scoped, Phase
<1>2. ASSUME NEW p \in Phase,
             \/ Outside(a, p) \/ Inside(a, p) \/ Locks(a, p)
      PROVE  Claim
  BY <1>t, <1>w, <1>p, <1>2, Zenon DEF Outside, Goes, Kept, Still, Inside, Locks, Scoped,
     Phase
<1>3. CASE Opens(a) \/ Looks(a) \/ Departs(a) \/ Reclaims(a)
  BY <1>t, <1>w, <1>p, <1>3, Zenon DEF Opens, Kept, Still, Looks, Departs, Reclaims, Goes,
     Moved, Begun, Scoped, Phase
<1>4. CASE Hears(a) \/ Finishes(a) \/ Fails(a) \/ Settles(a)
  BY <1>t, <1>w, <1>p, <1>4, Zenon DEF Hears, Kept, OnlyBox, Updated, Finishes, Goes, Moved,
     Dropped, Fails, Settles, Scoped, Phase
<1>5. ASSUME NEW p \in Phase,
             \/ Ends(a, p) \/ Clears(a, p) \/ Returns(a, p)
      PROVE  Claim
  BY <1>t, <1>w, <1>p, <1>5, Zenon DEF Ends, Ended, Kept, Moved, Clears, Goes, Still, Returns,
     Scoped, Phase
<1>6. ASSUME NEW v \in Attachment,
             \/ Sends(a, v) \/ GivesUp(a, v) \/ Dies(a, v)
      PROVE  Claim
  BY <1>t, <1>w, <1>p, <1>6, Zenon DEF Sends, Goes, Kept, OnlyBox, GivesUp, Updated, Dies,
     Scoped, Phase
<1>7. CASE Closes(a)
  BY <1>t, <1>w, <1>p, <1>7, Zenon DEF Closes, Goes, Kept, Scoped, Phase
<1>8. ASSUME NEW v \in Attachment \cup {None}, NEW p \in Phase,
              Begins(a, v, p)
      PROVE  Claim
  BY <1>t, <1>w, <1>p, <1>8, Zenon DEF Begins, Goes, Kept, Begun, Scoped, Phase
<1> QED
  BY <1>1, <1>2, <1>3, <1>4, <1>5, <1>6, <1>7, <1>8, Zenon DEF Effect

\* The phases of WriterInv.
Working == {"entering", "viewing", "loop", "mutating", "refreshing", "resizing"}

\* How a comes to work as the pointer's attachment.
LEMMA WriterFrom ==
    ASSUME IInv, TypeOK', NEW a \in Attachment, Effect(a)
    PROVE  pc'[a] \in Working /\ Writer(a)' = a =>
             /\ sc'[a] = sc[a] /\ scopes'[sc[a]].ctl
             /\ \/ mode'[a] = "rw"
                \/ /\ pc[a] \in Working /\ Writer(a) = a
                   /\ Hears(a) \/ (mode'[a] = mode[a] /\ inbox'[a] = inbox[a])
<1> DEFINE Claim ==
      pc'[a] \in Working /\ Writer(a)' = a =>
        /\ sc'[a] = sc[a] /\ scopes'[sc[a]].ctl
        /\ \/ mode'[a] = "rw"
           \/ /\ pc[a] \in Working /\ Writer(a) = a
              /\ Hears(a) \/ (mode'[a] = mode[a] /\ inbox'[a] = inbox[a])
<1> USE DEF Working, Writer
<1>t. /\ pc \in [Attachment -> Phase] /\ mode \in [Attachment -> {"none", "ro", "rw"}]
      /\ rt \in [Attachment -> Nat] /\ sc \in [Attachment -> Nat]
      /\ inbox \in [Attachment -> Seq(ControlDirective)] /\ tr \in [Attachment -> Change]
      /\ scopes \in Seq(Scope) /\ Len(scopes) \in Nat
  BY VarTypes, Zenon
<1>w. pc[a] \in Scoped => sc[a] \in 1..Len(scopes)
  BY VarTypes, Zenon
<1>i. WriterInv(a) /\ ChangeInv(a) /\ HolderInv(a)
  BY Zenon DEF IInv
<1>1. CASE \/ Opens(a) \/ Departs(a) \/ Attaches(a) \/ Proceeds(a) \/ Looks(a)
          \/ Quits(a) \/ Takes(a)
  BY <1>t, <1>w, <1>i, <1>1 DEF Opens, Kept, Still, Departs, Attaches, Goes, Proceeds,
     Looks, Quits, Takes, Moved, WriterInv, ChangeInv, HolderInv, Transition, Scoped, Phase
<1>2. ASSUME NEW p \in Phase,
             \/ Clears(a, p) \/ Returns(a, p) \/ Outside(a, p) \/ Inside(a, p)
             \/ Locks(a, p)
      PROVE  Claim
  BY <1>t, <1>w, <1>i, <1>2, Zenon DEF Clears, Goes, Moved, Still, Returns, Kept, Outside,
     Inside, Locks, WriterInv, ChangeInv, HolderInv, Transition, Scoped, Phase
<1>3. CASE Enters(a) \/ Reclaims(a) \/ Hears(a) \/ Finishes(a)
  BY <1>t, <1>w, <1>i, <1>3 DEF Enters, Goes, Moved, Reclaims, Begun, Hears, Kept, OnlyBox,
     Updated, Finishes, Dropped, WriterInv, ChangeInv, HolderInv, Transition, Scoped, Phase
<1>4. CASE Promotes(a) \/ Fails(a) \/ Settles(a) \/ Closes(a)
  BY <1>t, <1>w, <1>i, <1>4 DEF Promotes, Goes, Moved, Fails, Updated, Settles, Kept,
     Dropped, Closes, WriterInv, ChangeInv, HolderInv, Transition, Scoped, Phase
<1>5. ASSUME NEW v \in Attachment,
             \/ Sends(a, v) \/ GivesUp(a, v) \/ Dies(a, v)
      PROVE  Claim
  BY <1>t, <1>w, <1>i, <1>5 DEF Sends, Goes, Kept, OnlyBox, GivesUp, Updated, Dies,
     WriterInv, ChangeInv, HolderInv, Transition, Scoped, Phase
<1>6. ASSUME NEW p \in Phase, Ends(a, p)
      PROVE  Claim
  BY <1>t, <1>w, <1>i, <1>6, Zenon DEF Ends, Ended, Kept, Moved, WriterInv, ChangeInv,
     HolderInv, Transition, Scoped, Phase
<1>7. ASSUME NEW v \in Attachment \cup {None}, NEW p \in Phase,
              Begins(a, v, p)
      PROVE  Claim
  BY <1>t, <1>w, <1>i, <1>7, Zenon DEF Begins, Goes, Kept, Begun, WriterInv, ChangeInv,
     HolderInv, Transition, Scoped, Phase
<1> QED
  BY <1>1, <1>2, <1>3, <1>4, <1>5, <1>6, <1>7, Zenon DEF Effect

\* What a step of a leaves of a's own channel.
LEMMA BoxOwn ==
    ASSUME IInv, TypeOK', NEW a \in Attachment, Effect(a)
    PROVE  \/ inbox'[a] = <<>>
           \/ Hears(a)
           \/ /\ inbox'[a] = inbox[a] /\ (inbox[a] # <<>> => sc'[a] = sc[a])
              /\ \A b \in Attachment \ {a} : tr'[b] = tr[b]
<1> DEFINE Claim ==
      \/ inbox'[a] = <<>>
      \/ Hears(a)
      \/ /\ inbox'[a] = inbox[a] /\ (inbox[a] # <<>> => sc'[a] = sc[a])
         /\ \A b \in Attachment \ {a} : tr'[b] = tr[b]
<1>t. /\ pc \in [Attachment -> Phase] /\ mode \in [Attachment -> {"none", "ro", "rw"}]
      /\ rt \in [Attachment -> Nat] /\ sc \in [Attachment -> Nat]
      /\ inbox \in [Attachment -> Seq(ControlDirective)] /\ tr \in [Attachment -> Change]
      /\ scopes \in Seq(Scope) /\ Len(scopes) \in Nat
  BY VarTypes, Zenon
<1>p. /\ mode[a] = "rw" => InWorkspace(a) /\ pc[a] \in Scoped
      /\ inbox[a] # <<>> => InWorkspace(a)
  BY Zenon DEF IInv, PhaseInv, InWorkspace, Transition, Scoped, Phase
<1>1. CASE \/ Opens(a) \/ Departs(a) \/ Attaches(a) \/ Proceeds(a) \/ Looks(a)
          \/ Quits(a) \/ Takes(a) \/ Enters(a) \/ Promotes(a) \/ Hears(a)
  BY <1>t, <1>p, <1>1, Zenon DEF Opens, Kept, Still, Departs, Attaches, Goes, Proceeds, Looks,
     Quits, Takes, Moved, Enters, Promotes, Hears, OnlyBox, Updated, InWorkspace, Transition
<1>2. ASSUME NEW p \in Phase,
             \/ Clears(a, p) \/ Returns(a, p) \/ Outside(a, p) \/ Inside(a, p)
             \/ Locks(a, p)
      PROVE  Claim
  BY <1>t, <1>p, <1>2, Zenon DEF Clears, Goes, Moved, Still, Returns, Kept, Outside, Inside,
     Locks, InWorkspace, Transition
<1>3. CASE Reclaims(a) \/ Finishes(a) \/ Fails(a) \/ Settles(a)
  BY <1>t, <1>p, <1>3, Zenon DEF Reclaims, Goes, Moved, Begun, Finishes, Dropped, Fails,
     Updated, Settles, Kept, InWorkspace, Transition
<1>4. ASSUME NEW v \in Attachment,
             \/ Sends(a, v) \/ GivesUp(a, v) \/ Dies(a, v)
      PROVE  Claim
  BY <1>t, <1>p, <1>4, Zenon DEF Sends, Goes, Kept, OnlyBox, GivesUp, Updated, Dies,
     InWorkspace, Transition
<1>5. CASE Closes(a)
  BY <1>t, <1>p, <1>5, Zenon DEF Closes, Goes, Kept, InWorkspace, Transition
<1>6. ASSUME NEW p \in Phase, Ends(a, p)
      PROVE  Claim
  BY <1>t, <1>p, <1>6, Zenon DEF Ends, Ended, Kept, Moved, InWorkspace, Transition
<1>7. ASSUME NEW v \in Attachment \cup {None}, NEW p \in Phase,
              Begins(a, v, p)
      PROVE  Claim
  BY <1>t, <1>p, <1>7, Zenon DEF Begins, Goes, Kept, Begun, InWorkspace, Transition
<1> QED
  BY <1>1, <1>2, <1>3, <1>4, <1>5, <1>6, <1>7, Zenon DEF Effect

\* A change that waits for its answer times out, or goes on when it has one.
LEMMA AwaitingOwn ==
    ASSUME IInv, TypeOK', NEW a \in Attachment, Effect(a)
    PROVE  pc[a] = "awaiting" =>
             /\ tr[a].answer = "none" => \E v \in Attachment : GivesUp(a, v)
             /\ tr[a].answer = "ambiguous" =>
                  pc'[a] = "failing" /\ tr'[a].victim = tr[a].victim /\ sc'[a] = sc[a]
             /\ tr[a].answer # "none" =>
                  \/ pc'[a] = "promoting" /\ sc'[a] = sc[a]
                  \/ scopes'[sc[a]].att \in {a, None}
<1> DEFINE Claim ==
      pc[a] = "awaiting" =>
        /\ tr[a].answer = "none" => \E v \in Attachment : GivesUp(a, v)
        /\ tr[a].answer = "ambiguous" =>
             pc'[a] = "failing" /\ tr'[a].victim = tr[a].victim /\ sc'[a] = sc[a]
        /\ tr[a].answer # "none" =>
             \/ pc'[a] = "promoting" /\ sc'[a] = sc[a]
             \/ scopes'[sc[a]].att \in {a, None}
<1>t. /\ pc \in [Attachment -> Phase] /\ mode \in [Attachment -> {"none", "ro", "rw"}]
      /\ rt \in [Attachment -> Nat] /\ sc \in [Attachment -> Nat]
      /\ inbox \in [Attachment -> Seq(ControlDirective)] /\ tr \in [Attachment -> Change]
      /\ scopes \in Seq(Scope) /\ Len(scopes) \in Nat
  BY VarTypes, Zenon
<1>1. CASE \/ Opens(a) \/ Departs(a) \/ Attaches(a) \/ Proceeds(a) \/ Looks(a)
          \/ Quits(a) \/ Takes(a) \/ Enters(a) \/ Reclaims(a) \/ Promotes(a)
          \/ Hears(a) \/ Settles(a) \/ Closes(a)
  BY <1>t, <1>1, Zenon DEF Opens, Kept, Still, Departs, Attaches, Goes, Proceeds, Looks,
     Quits, Takes, Moved, Enters, Reclaims, Begun, Promotes, Hears, OnlyBox, Updated, Settles,
     Dropped, Closes
<1>2. ASSUME NEW p \in Phase,
             \/ Clears(a, p) \/ Returns(a, p) \/ Outside(a, p) \/ Inside(a, p)
             \/ Locks(a, p) \/ Ends(a, p)
      PROVE  Claim
  BY <1>t, <1>2, Zenon DEF Clears, Goes, Moved, Still, Returns, Kept, Outside, Inside, Locks,
     Ends, Ended
<1>3. CASE Finishes(a) \/ Fails(a)
  BY <1>t, <1>3, Zenon DEF Finishes, Goes, Moved, Dropped, Fails, Updated
<1>4. ASSUME NEW v \in Attachment,
             \/ Sends(a, v) \/ GivesUp(a, v) \/ Dies(a, v)
      PROVE  Claim
  BY <1>t, <1>4, Zenon DEF Sends, Goes, Kept, OnlyBox, GivesUp, Updated, Dies
<1>5. ASSUME NEW v \in Attachment \cup {None}, NEW p \in Phase,
              Begins(a, v, p)
      PROVE  Claim
  BY <1>t, <1>5, Zenon DEF Begins, Goes, Kept, Begun
<1> QED
  BY <1>1, <1>2, <1>3, <1>4, <1>5, Zenon DEF Effect

\* A change that promotes sets the pointer or clears it.
LEMMA PromotingOwn ==
    ASSUME IInv, TypeOK', NEW a \in Attachment, Effect(a)
    PROVE  pc[a] = "promoting" => scopes'[sc[a]].att \in {a, None}
<1>t. /\ pc \in [Attachment -> Phase] /\ mode \in [Attachment -> {"none", "ro", "rw"}]
      /\ rt \in [Attachment -> Nat] /\ sc \in [Attachment -> Nat]
      /\ inbox \in [Attachment -> Seq(ControlDirective)] /\ tr \in [Attachment -> Change]
      /\ scopes \in Seq(Scope) /\ Len(scopes) \in Nat
  BY VarTypes, Zenon
<1>1. CASE \/ Opens(a) \/ Departs(a) \/ Attaches(a) \/ Proceeds(a) \/ Looks(a)
          \/ Quits(a) \/ Takes(a) \/ Enters(a) \/ Reclaims(a) \/ Finishes(a)
          \/ Promotes(a) \/ Hears(a) \/ Fails(a) \/ Settles(a) \/ Closes(a)
  BY <1>t, <1>1, Zenon DEF Opens, Kept, Still, Departs, Attaches, Goes, Proceeds, Looks,
     Quits, Takes, Moved, Enters, Reclaims, Begun, Finishes, Dropped, Promotes, Hears,
     OnlyBox, Updated, Fails, Settles, Closes
<1>2. ASSUME NEW p \in Phase,
             \/ Clears(a, p) \/ Returns(a, p) \/ Outside(a, p) \/ Inside(a, p)
             \/ Locks(a, p) \/ Ends(a, p)
      PROVE  pc[a] = "promoting" => scopes'[sc[a]].att \in {a, None}
  BY <1>t, <1>2, Zenon DEF Clears, Goes, Moved, Still, Returns, Kept, Outside, Inside, Locks,
     Ends, Ended
<1>3. ASSUME NEW v \in Attachment,
             \/ Sends(a, v) \/ GivesUp(a, v) \/ Dies(a, v)
      PROVE  pc[a] = "promoting" => scopes'[sc[a]].att \in {a, None}
  BY <1>t, <1>3, Zenon DEF Sends, Goes, Kept, OnlyBox, GivesUp, Updated, Dies
<1>4. ASSUME NEW v \in Attachment \cup {None}, NEW p \in Phase,
              Begins(a, v, p)
      PROVE  pc[a] = "promoting" => scopes'[sc[a]].att \in {a, None}
  BY <1>t, <1>4, Zenon DEF Begins, Goes, Kept, Begun
<1> QED
  BY <1>1, <1>2, <1>3, <1>4, Zenon DEF Effect

\* a's control is in the pointer of a's scope while a's workspace runs.
LEMMA LiveOwn ==
    ASSUME IInv, TypeOK', NEW a \in Attachment, Effect(a), NEW s \in 1..Len(scopes)
    PROVE  scopes'[s].ctl /\ scopes'[s].att = a =>
             sc'[a] = s /\ (InWorkspace(a)' \/ pc'[a] \in {"toChooser", "toLeave"})
<1> DEFINE Claim ==
      scopes'[s].ctl /\ scopes'[s].att = a =>
        sc'[a] = s /\ (InWorkspace(a)' \/ pc'[a] \in {"toChooser", "toLeave"})
<1> USE DEF InWorkspace, Transition
<1>t. /\ pc \in [Attachment -> Phase] /\ mode \in [Attachment -> {"none", "ro", "rw"}]
      /\ rt \in [Attachment -> Nat] /\ sc \in [Attachment -> Nat]
      /\ inbox \in [Attachment -> Seq(ControlDirective)] /\ tr \in [Attachment -> Change]
      /\ scopes \in Seq(Scope) /\ Len(scopes) \in Nat
  BY VarTypes, Zenon
<1>w. pc[a] \in Scoped => sc[a] \in 1..Len(scopes)
  BY VarTypes, Zenon
<1>i. ChangeInv(a)
  BY Zenon DEF IInv
<1>n. NoChange.victim = None /\ NoChange.from = "none" /\ NoChange.answer = "none"
  BY Zenon DEF NoChange
<1>l. scopes[s].ctl /\ scopes[s].att = a =>
        sc[a] = s /\ (InWorkspace(a) \/ pc[a] \in {"toChooser", "toLeave"})
  BY <1>t, SeqShape DEF IInv, ControlIsLive
<1>1. CASE \/ Opens(a) \/ Departs(a) \/ Attaches(a) \/ Proceeds(a) \/ Looks(a)
          \/ Quits(a)
  BY <1>t, <1>w, <1>i, <1>n, <1>l, <1>1 DEF Opens, Kept, Still, Departs, Attaches, Goes,
     Proceeds, Looks, Quits, ChangeInv, Writer, Scoped, Phase
<1>2. ASSUME NEW p \in Phase,
             \/ Outside(a, p) \/ Inside(a, p) \/ Locks(a, p)
      PROVE  Claim
  BY <1>t, <1>w, <1>i, <1>n, <1>l, <1>2, Zenon DEF Outside, Goes, Kept, Still, Inside, Locks,
     ChangeInv, Writer, Scoped, Phase
<1>3. CASE Takes(a) \/ Enters(a) \/ Reclaims(a) \/ Hears(a)
  BY <1>t, <1>w, <1>i, <1>n, <1>l, <1>3 DEF Takes, Goes, Moved, Still, Enters, Reclaims,
     Begun, Hears, Kept, OnlyBox, Updated, ChangeInv, Writer, Scoped, Phase
<1>4. CASE Finishes(a) \/ Promotes(a) \/ Fails(a) \/ Settles(a)
  BY <1>t, <1>w, <1>i, <1>n, <1>l, <1>4 DEF Finishes, Goes, Moved, Dropped, Promotes, Fails,
     Updated, Settles, Kept, ChangeInv, Writer, Scoped, Phase
<1>5. ASSUME NEW p \in Phase,
             \/ Clears(a, p) \/ Returns(a, p)
      PROVE  Claim
  BY <1>t, <1>w, <1>i, <1>n, <1>l, <1>5, Zenon DEF Clears, Goes, Moved, Still, Returns, Kept,
     ChangeInv, Writer, Scoped, Phase
<1>6. ASSUME NEW v \in Attachment,
             \/ Sends(a, v) \/ GivesUp(a, v) \/ Dies(a, v)
      PROVE  Claim
  BY <1>t, <1>w, <1>i, <1>n, <1>l, <1>6 DEF Sends, Goes, Kept, OnlyBox, GivesUp, Updated,
     Dies, ChangeInv, Writer, Scoped, Phase
<1>7. CASE Closes(a)
  BY <1>t, <1>w, <1>i, <1>n, <1>l, <1>7, Zenon DEF Closes, Goes, Kept, ChangeInv, Writer,
     Scoped, Phase
<1>8. ASSUME NEW p \in Phase, Ends(a, p)
      PROVE  Claim
  BY <1>t, <1>w, <1>i, <1>n, <1>l, <1>8 DEF Ends, Ended, Kept, Moved, ChangeInv, Writer,
     Scoped, Phase
<1>9. ASSUME NEW v \in Attachment \cup {None}, NEW p \in Phase,
              Begins(a, v, p)
      PROVE  Claim
  BY <1>t, <1>w, <1>i, <1>n, <1>l, <1>9, Zenon DEF Begins, Goes, Kept, Begun, ChangeInv,
     Writer, Scoped, Phase
<1> QED
  BY <1>1, <1>2, <1>3, <1>4, <1>5, <1>6, <1>7, <1>8, <1>9, Zenon DEF Effect

\* The pointer of the newest scope does not outlive its attachment.
LEMMA NewestOwn ==
    ASSUME IInv, TypeOK', NEW a \in Attachment, Effect(a)
    PROVE  Len(scopes') = Len(scopes) /\ scopes # <<>> /\ scopes'[Len(scopes)].att = a =>
             sc'[a] = Len(scopes) /\ pc'[a] # "gone"
<1> DEFINE Claim ==
      Len(scopes') = Len(scopes) /\ scopes # <<>> /\ scopes'[Len(scopes)].att = a =>
        sc'[a] = Len(scopes) /\ pc'[a] # "gone"
<1>t. /\ pc \in [Attachment -> Phase] /\ mode \in [Attachment -> {"none", "ro", "rw"}]
      /\ rt \in [Attachment -> Nat] /\ sc \in [Attachment -> Nat]
      /\ inbox \in [Attachment -> Seq(ControlDirective)] /\ tr \in [Attachment -> Change]
      /\ scopes \in Seq(Scope) /\ Len(scopes) \in Nat
  BY VarTypes, Zenon
<1>w. pc[a] \in Scoped => sc[a] \in 1..Len(scopes)
  BY VarTypes, Zenon
<1>i. ChangeInv(a)
  BY Zenon DEF IInv
<1>l. scopes # <<>> /\ scopes[Len(scopes)].att = a => sc[a] = Len(scopes) /\ pc[a] # "gone"
  BY Zenon DEF IInv, NewestInv
<1>e. scopes # <<>> => Len(scopes) \in 1..Len(scopes)
  BY <1>t, SeqEmpty, SeqShape
<1>1. CASE \/ Opens(a) \/ Departs(a) \/ Attaches(a) \/ Proceeds(a) \/ Looks(a)
          \/ Quits(a)
  BY <1>t, <1>w, <1>i, <1>l, <1>e, <1>1, Zenon DEF Opens, Kept, Still, Departs, Attaches,
     Goes, Proceeds, Looks, Quits, ChangeInv, Writer, Scoped, Phase
<1>2. ASSUME NEW p \in Phase,
             \/ Outside(a, p) \/ Inside(a, p) \/ Locks(a, p)
      PROVE  Claim
  BY <1>t, <1>w, <1>i, <1>l, <1>e, <1>2, Zenon DEF Outside, Goes, Kept, Still, Inside, Locks,
     ChangeInv, Writer, Scoped, Phase
<1>3. CASE Takes(a) \/ Enters(a) \/ Reclaims(a) \/ Hears(a)
  BY <1>t, <1>w, <1>i, <1>l, <1>e, <1>3, ZenonT(30) DEF Takes, Goes, Moved, Still, Enters,
     Reclaims, Begun, Hears, Kept, OnlyBox, Updated, ChangeInv, Writer, Scoped, Phase
<1>4. CASE Finishes(a) \/ Promotes(a) \/ Fails(a) \/ Settles(a)
  BY <1>t, <1>w, <1>i, <1>l, <1>e, <1>4 DEF Finishes, Goes, Moved, Dropped, Promotes, Fails,
     Updated, Settles, Kept, ChangeInv, Writer, Scoped, Phase
<1>5. ASSUME NEW p \in Phase,
             \/ Ends(a, p) \/ Clears(a, p) \/ Returns(a, p)
      PROVE  Claim
  BY <1>t, <1>w, <1>i, <1>l, <1>e, <1>5, ZenonT(30) DEF Ends, Ended, Kept, Moved, Clears,
     Goes, Still, Returns, ChangeInv, Writer, Scoped, Phase
<1>6. ASSUME NEW v \in Attachment,
             \/ Sends(a, v) \/ GivesUp(a, v) \/ Dies(a, v)
      PROVE  Claim
  BY <1>t, <1>w, <1>i, <1>l, <1>e, <1>6, Zenon DEF Sends, Goes, Kept, OnlyBox, GivesUp,
     Updated, Dies, ChangeInv, Writer, Scoped, Phase
<1>7. CASE Closes(a)
  BY <1>t, <1>w, <1>i, <1>l, <1>e, <1>7, Zenon DEF Closes, Goes, Kept, ChangeInv, Writer,
     Scoped, Phase
<1>8. ASSUME NEW v \in Attachment \cup {None}, NEW p \in Phase,
              Begins(a, v, p)
      PROVE  Claim
  BY <1>t, <1>w, <1>i, <1>l, <1>e, <1>8, Zenon DEF Begins, Goes, Kept, Begun, ChangeInv,
     Writer, Scoped, Phase
<1> QED
  BY <1>1, <1>2, <1>3, <1>4, <1>5, <1>6, <1>7, <1>8, Zenon DEF Effect

=============================================================================
