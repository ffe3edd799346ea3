-------------------------- MODULE WriterScopeProofs --------------------------
(***************************************************************************)
(* The inductive invariant of WriterScope is preserved by every step, for  *)
(* any set of attachments, any number of routes and scopes and any         *)
(* capacity of the directive channels, and the theorems that follow.       *)
(***************************************************************************)
EXTENDS WriterScopeEffectProofs

USE BoundsAssumption, NoneAssumption

-----------------------------------------------------------------------------
(* The parts of the invariant after a step of a, for every attachment x.    *)

\* The locals of a writer change.
LEMMA ChangeStepInv ==
    ASSUME IInv, TypeOK', NEW a \in Attachment, Effect(a), NEW x \in Attachment
    PROVE  ChangeInv(x)'
<1>1. CASE x = a
  BY <1>1, ChangeOwn, Zenon
<1>2. CASE x # a
  BY <1>2, Others DEF IInv, ChangeInv, Unmoved, Transition
<1> QED
  BY <1>1, <1>2, Zenon

\* The state mutex of a scope has one holder.
LEMMA HolderStep ==
    ASSUME IInv, TypeOK', NEW a \in Attachment, Effect(a)
    PROVE  OneHolder'
<1> SUFFICES ASSUME NEW x \in Attachment, NEW y \in Attachment, x # y,
                    pc'[x] \in Locked, pc'[y] \in Locked, sc'[x] = sc'[y]
             PROVE  FALSE
  BY Zenon DEF OneHolder, Locked
<1>1. \A z \in Attachment \ {a} : pc'[z] = pc[z] /\ sc'[z] = sc[z]
  BY Others DEF Unmoved
<1>2. pc'[a] \in Locked => sc'[a] = sc[a] /\ Exclusive(a)
  BY LockOwn, Zenon
<1>3. OneHolder
  BY Zenon DEF IInv
<1> QED
  BY <1>1, <1>2, <1>3, Zenon DEF OneHolder, Exclusive, StateHeld, Locked

\* What the holder of the state mutex knows of the pointer.
LEMMA PointerKnown ==
    ASSUME IInv, TypeOK', NEW a \in Attachment, Effect(a), NEW x \in Attachment
    PROVE  HolderInv(x)'
<1>1. CASE x = a
  BY <1>1, HolderOwn, Zenon
<1>2. CASE x # a
  <2>1. Unmoved(a, x) /\ HolderInv(x)
    BY <1>2, Others, Zenon DEF IInv
  <2>2. pc[x] \in Locked => scopes'[sc'[x]] = scopes[sc[x]]
    <3>1. pc[x] \in Locked => sc[x] \in 1..Len(scopes)
      BY VarTypes, Zenon DEF Locked, Scoped, Phase, Transition
    <3> QED
      BY <1>2, <3>1, OtherPointer, Zenon
  <2> QED
    BY <2>1, <2>2, Zenon DEF HolderInv, Unmoved, Locked, Transition, Writer
<1> QED
  BY <1>1, <1>2, Zenon

\* A change that is about to set the pointer has a read-only former writer.
LEMMA DemotedStep ==
    ASSUME IInv, TypeOK', NEW a \in Attachment, Effect(a), NEW x \in Attachment
    PROVE  DemotedInv(x)'
<1> SUFFICES ASSUME Demoted(x)'
             PROVE  /\ Writer(x)' # x
                    /\ \A y \in Attachment : y = Writer(x)' /\ sc'[y] = sc'[x] => mode'[y] # "rw"
  BY Zenon DEF DemotedInv
<1>1. \A z \in Attachment \ {a} : Unmoved(a, z)
  BY Others, Zenon
<1>2. CASE x = a
  <2>1. /\ sc'[a] = sc[a] /\ scopes' = scopes /\ mode' = mode /\ pc[a] \in Scoped
        /\ Demoted(a) \/ Free(a)
    BY <1>2, DemotedFrom, Zenon DEF Demoted
  <2>2. Writer(a)' = Writer(a)
    BY <2>1, Zenon DEF Writer
  <2>3. Writer(a) # a
    BY <2>1, Zenon DEF IInv, DemotedInv, Free
  <2>4. ASSUME NEW y \in Attachment, y = Writer(a), sc'[y] = sc'[a]
        PROVE  mode[y] # "rw"
    <3>1. y # a /\ sc[y] = sc[a] /\ Writer(y) = y
      BY <1>1, <2>1, <2>3, <2>4, Zenon DEF Unmoved, Writer
    <3>2. CASE Demoted(a)
      BY <2>4, <3>1, <3>2, Zenon DEF IInv, DemotedInv
    <3>3. CASE Free(a)
      BY <2>4, <3>1, <3>3, Zenon DEF Free, IInv, ControlInv
    <3> QED
      BY <2>1, <3>2, <3>3, Zenon
  <2> QED
    BY <1>2, <2>1, <2>2, <2>3, <2>4, Zenon
<1>3. CASE x # a
  <2>1. pc[x] \in Locked /\ pc'[x] = pc[x] /\ sc'[x] = sc[x] /\ tr'[x].victim = tr[x].victim
    BY <1>1, <1>3, Zenon DEF Demoted, Unmoved, Locked, Transition
  <2>2. sc[x] \in 1..Len(scopes)
    BY <2>1, VarTypes, Zenon DEF Locked, Scoped, Phase, Transition
  <2>3. scopes'[sc'[x]] = scopes[sc[x]] /\ Writer(x)' = Writer(x)
    BY <1>3, <2>1, <2>2, OtherPointer, Zenon DEF Writer
  <2>4. CASE Demoted(x)
    <3>1. /\ Writer(x) # x
          /\ \A y \in Attachment : y = Writer(x) /\ sc[y] = sc[x] => mode[y] # "rw"
      BY <2>4, Zenon DEF IInv, DemotedInv
    <3>2. ASSUME a = Writer(x), sc'[a] = sc[x], mode'[a] = "rw"
          PROVE  FALSE
      <4>1. /\ sc'[a] = sc[a]
            /\ mode[a] = "rw" \/ Exclusive(a)
        BY <3>2, ModeOwn, Zenon
      <4>2. ~Exclusive(a)
        BY <1>3, <2>1, <3>2, <4>1, Zenon DEF Exclusive, StateHeld, IInv, OneHolder, Locked
      <4> QED
        BY <3>1, <3>2, <4>1, <4>2, Zenon
    <3>3. \A y \in Attachment \ {a} : mode'[y] = mode[y] /\ sc'[y] = sc[y]
      BY <1>1, Zenon DEF Unmoved
    <3> QED
      BY <2>1, <2>3, <3>1, <3>2, <3>3, Zenon
  <2>5. CASE ~Demoted(x)
    <3>1. pc[x] = "awaiting" /\ tr[x].victim = a /\ mode'[a] # "rw"
      BY <1>1, <1>3, <2>5, Zenon DEF Demoted, Unmoved
    <3>2. Writer(x) = a
      BY <3>1, Zenon DEF IInv, HolderInv
    <3> QED
      BY <1>3, <2>3, <3>1, <3>2, Zenon
  <2> QED
    BY <2>4, <2>5, Zenon
<1> QED
  BY <1>2, <1>3, Zenon

\* A writable client of the pointer's attachment has its control there.
LEMMA ControlStep ==
    ASSUME IInv, TypeOK', NEW a \in Attachment, Effect(a), NEW x \in Attachment
    PROVE  ControlInv(x)'
<1>1. CASE x = a
  BY <1>1, ControlOwn, Zenon
<1>2. CASE x # a
  <2> SUFFICES ASSUME mode'[x] = "rw", Writer(x)' = x
               PROVE  scopes'[sc'[x]].ctl
    BY Zenon DEF ControlInv
  <2>1. mode[x] = "rw" /\ sc'[x] = sc[x]
    BY <1>2, Others, Zenon DEF Unmoved
  <2>2. sc[x] \in 1..Len(scopes)
    BY <2>1, VarTypes, Zenon DEF IInv, PhaseInv, InWorkspace, Transition, Scoped, Phase
  <2>3. scopes'[sc'[x]] = scopes[sc[x]]
    BY <1>2, <2>2, OtherPointer
  <2> QED
    BY <2>1, <2>3, Zenon DEF IInv, ControlInv, Writer
<1> QED
  BY <1>1, <1>2, Zenon

\* The entries of another channel after a step of a: those it had, of which
\* a's Demote may have lost its address, and at most one more.
LEMMA BoxEntries ==
    ASSUME IInv, TypeOK', NEW a \in Attachment, Effect(a), NEW x \in Attachment \ {a}
    PROVE  /\ \A i \in DOMAIN inbox[x] :
                /\ i \in DOMAIN inbox'[x]
                /\ \/ inbox'[x][i] = inbox[x][i]
                   \/ inbox[x][i] = Demote(a) /\ inbox'[x][i] = Demote(None)
           /\ \A i \in DOMAIN inbox'[x] \ DOMAIN inbox[x] :
                /\ i = Len(inbox[x]) + 1
                /\ \/ inbox'[x][i] = Close
                   \/ /\ inbox'[x][i] = Demote(a) /\ pc[a] = "demoting" /\ pc'[a] = "awaiting"
                      /\ tr[a].victim = x /\ tr'[a] = tr[a] /\ sc'[a] = sc[a]
<1> DEFINE q == inbox[x]
<1>1. q \in Seq(ControlDirective)
  BY VarTypes, Zenon
<1>2. OtherBox(a, x)
  BY BoxStep, Zenon
<1>3. ASSUME NEW d \in ControlDirective, inbox'[x] = Append(q, d)
      PROVE  /\ \A i \in DOMAIN q : i \in DOMAIN inbox'[x] /\ inbox'[x][i] = q[i]
             /\ \A i \in DOMAIN inbox'[x] \ DOMAIN q : i = Len(q) + 1 /\ inbox'[x][i] = d
  <2>1. /\ DOMAIN q = 1..Len(q) /\ Len(q) \in Nat
        /\ DOMAIN inbox'[x] = 1..(Len(q) + 1)
        /\ \A i \in DOMAIN q : inbox'[x][i] = q[i]
        /\ inbox'[x][Len(q) + 1] = d
    BY <1>1, <1>3, ChannelEffect
  <2> HIDE DEF q
  <2> QED
    BY <2>1
<1>4. CASE inbox'[x] = inbox[x]
  BY <1>4, Zenon
<1>5. CASE /\ inbox'[x] = Append(inbox[x], Demote(a)) /\ tr[a].victim = x
           /\ pc[a] = "demoting" /\ pc'[a] = "awaiting" /\ tr'[a] = tr[a] /\ sc'[a] = sc[a]
  <2>1. Demote(a) \in ControlDirective
    BY RecordTypes, Zenon
  <2> QED
    BY <1>3, <1>5, <2>1, Zenon
<1>6. CASE inbox'[x] = Abandon(inbox[x], a)
  BY <1>6, Zenon DEF Abandon
<1>7. CASE inbox'[x] = Append(inbox[x], Close)
  <2>1. Close \in ControlDirective
    BY RecordTypes, Zenon
  <2> QED
    BY <1>3, <1>7, <2>1, Zenon
<1> QED
  BY <1>2, <1>4, <1>5, <1>6, <1>7, Zenon DEF OtherBox

\* A Close stays in another attachment's channel.
LEMMA CloseStays ==
    ASSUME IInv, TypeOK', NEW a \in Attachment, Effect(a), NEW x \in Attachment \ {a},
           HasClose(x)
    PROVE  HasClose(x)'
<1>1. PICK i \in DOMAIN inbox[x] : inbox[x][i].kind = "close"
  BY Zenon DEF HasClose
<1>2. Demote(a).kind = "demote"
  BY RecordTypes, Zenon
<1>3. i \in DOMAIN inbox'[x] /\ inbox'[x][i] = inbox[x][i]
  BY <1>1, <1>2, BoxEntries
<1> QED
  BY <1>1, <1>3, Zenon DEF HasClose

\* The Close of a failed change arrives in the former writer's workspace.
LEMMA CloseArrives ==
    ASSUME IInv, TypeOK', NEW a \in Attachment, Effect(a), NEW x \in Attachment \ {a},
           pc[a] = "failing", tr[a].victim = x, InWorkspace(x)
    PROVE  HasClose(x)' /\ inbox'[x] # <<>>
<1>1. inbox'[x] = Append(inbox[x], Close)
  BY FailingOwn, Zenon DEF Closes
<1>2. inbox[x] \in Seq(ControlDirective) /\ Close \in ControlDirective /\ Close.kind = "close"
  BY VarTypes, RecordTypes, Zenon
<1>3. /\ Len(inbox[x]) \in Nat
      /\ DOMAIN inbox'[x] = 1..(Len(inbox[x]) + 1)
      /\ inbox'[x][Len(inbox[x]) + 1] = Close
  BY <1>1, <1>2, ChannelEffect
<1>4. Len(inbox[x]) + 1 \in DOMAIN inbox'[x]
  BY <1>3
<1>5. HasClose(x)'
  BY <1>2, <1>3, <1>4, Zenon DEF HasClose
<1>6. inbox'[x] # <<>>
  BY <1>4
<1> QED
  BY <1>5, <1>6, Zenon

\* A writable client is the pointer's or is about to be taken away.
LEMMA FencedStep ==
    ASSUME IInv, TypeOK', NEW a \in Attachment, Effect(a), NEW x \in Attachment
    PROVE  FencedInv(x)'
<1> SUFFICES ASSUME mode'[x] = "rw"
             PROVE  Writer(x)' = x \/ inbox'[x] # <<>> \/ ClosePending(x)'
  BY Zenon DEF FencedInv
<1>1. \A z \in Attachment \ {a} : Unmoved(a, z)
  BY Others, Zenon
<1>2. CASE x = a
  <2>1. /\ sc'[a] = sc[a]
        /\ \/ mode[a] = "rw"
           \/ Exclusive(a) /\ scopes'[sc[a]].att = a /\ scopes'[sc[a]].ctl
    BY <1>2, ModeOwn, Zenon
  <2>2. CASE pc'[a] = "failing"
    BY <1>2, <2>2, Zenon DEF ClosePending
  <2>3. CASE scopes'[sc[a]].att = a
    BY <1>2, <2>1, <2>3, Zenon DEF Writer
  <2>4. CASE /\ mode[a] = "rw" /\ pc[a] # "failing"
             /\ scopes'[sc[a]] = scopes[sc[a]] /\ inbox'[a] = inbox[a]
    <3>1. Writer(a) = a \/ inbox[a] # <<>> \/ ClosePending(a)
      BY <2>4, Zenon DEF IInv, FencedInv
    <3>2. ASSUME ClosePending(a)
          PROVE  ClosePending(a)'
      <4>1. PICK b \in Attachment : pc[b] = "failing" /\ tr[b].victim = a /\ sc[b] = sc[a]
        BY <2>4, <3>2, Zenon DEF ClosePending
      <4>2. b # a
        BY <2>4, <4>1, Zenon
      <4> QED
        BY <1>1, <2>1, <4>1, <4>2 DEF ClosePending, Unmoved
    <3> QED
      BY <1>2, <2>1, <2>4, <3>1, <3>2, Zenon DEF Writer
  <2> QED
    BY <1>2, <2>1, <2>2, <2>3, <2>4, FencedFrom, Zenon
<1>3. CASE x # a
  <2>1. Unmoved(a, x) /\ mode[x] = "rw" /\ sc'[x] = sc[x]
    BY <1>1, <1>3, Zenon DEF Unmoved
  <2>2. InWorkspace(x) /\ sc[x] \in 1..Len(scopes)
    BY <2>1, VarTypes, Zenon DEF IInv, PhaseInv, InWorkspace, Transition, Scoped, Phase
  <2>3. Writer(x) = x \/ inbox[x] # <<>> \/ ClosePending(x)
    BY <2>1, Zenon DEF IInv, FencedInv
  <2>4. CASE Writer(x) = x
    BY <1>3, <2>1, <2>2, <2>4, OtherPointer, LockOwn DEF Writer, ClosePending, Locked,
       Transition
  <2>5. CASE inbox[x] # <<>>
    <3>1. inbox[x] \in Seq(ControlDirective)
      BY VarTypes, Zenon
    <3>2. 1 \in DOMAIN inbox[x]
      BY <2>5, <3>1, ChannelEffect, RecordTypes, Zenon
    <3>3. 1 \in DOMAIN inbox'[x]
      BY <1>3, <3>2, BoxEntries, Zenon
    <3> QED
      BY <3>3
  <2>6. CASE pc[x] = "failing"
    BY <2>1, <2>6, Zenon DEF Unmoved, ClosePending
  <2>7. ASSUME NEW b \in Attachment, pc[b] = "failing", tr[b].victim = x, sc[b] = sc[x]
        PROVE  inbox'[x] # <<>> \/ ClosePending(x)'
    <3>1. CASE b = a
      BY <1>3, <2>2, <2>7, <3>1, CloseArrives, Zenon
    <3>2. CASE b # a
      BY <1>1, <2>1, <2>7, <3>2 DEF Unmoved, ClosePending
    <3> QED
      BY <3>1, <3>2, Zenon
  <2> QED
    BY <2>3, <2>4, <2>5, <2>6, <2>7, Zenon DEF ClosePending
<1> QED
  BY <1>2, <1>3, Zenon

\* A change that will take the pointer of another attachment's scope goes on.
LEMMA ChangingStays ==
    ASSUME IInv, TypeOK', NEW a \in Attachment, Effect(a), NEW b \in Attachment \ {a},
           pc[b] = "promoting" \/ (pc[b] = "awaiting" /\ tr[b].answer # "none")
    PROVE  /\ sc'[b] = sc[b]
           /\ pc'[b] = "promoting" \/ (pc'[b] = "awaiting" /\ tr'[b].answer # "none")
  BY Others DEF Unmoved

\* The pointer's attachment can write, or a Close or a change is on its way.
LEMMA WriterStep ==
    ASSUME IInv, TypeOK', NEW a \in Attachment, Effect(a), NEW x \in Attachment
    PROVE  WriterInv(x)'
<1> SUFFICES ASSUME pc'[x] \in Working, Writer(x)' = x
             PROVE  /\ scopes'[sc'[x]].ctl
                    /\ mode'[x] = "rw" \/ HasClose(x)' \/ Changing(sc[x])'
                    /\ sc'[x] = sc[x]
  BY Zenon DEF WriterInv, Working, Changing
<1>1. CASE x = a
  <2>1. /\ sc'[a] = sc[a] /\ scopes'[sc[a]].ctl
        /\ \/ mode'[a] = "rw"
           \/ /\ pc[a] \in Working /\ Writer(a) = a
              /\ Hears(a) \/ (mode'[a] = mode[a] /\ inbox'[a] = inbox[a])
    BY <1>1, WriterFrom, Zenon DEF Writer
  <2>2. ASSUME pc[a] \in Working, NEW b \in Attachment, sc[b] = sc[a],
               pc[b] = "promoting" \/ (pc[b] = "awaiting" /\ tr[b].answer # "none")
        PROVE  Changing(sc[a])'
    BY <2>1, <2>2, ChangingStays, ZenonT(30) DEF Changing, Working
  <2>3. CASE pc[a] \in Working /\ Writer(a) = a /\ mode'[a] = mode[a] /\ inbox'[a] = inbox[a]
    <3>1. mode[a] = "rw" \/ HasClose(a) \/ Changing(sc[a])
      BY <2>3, Zenon DEF IInv, WriterInv, Working
    <3>2. HasClose(a) => HasClose(a)'
      BY <2>3, Zenon DEF HasClose
    <3> QED
      BY <1>1, <2>1, <2>2, <2>3, <3>1, <3>2, Zenon DEF Changing
  <2>4. CASE pc[a] \in Working /\ Writer(a) = a /\ Hears(a)
    <3> DEFINE d == inbox[a][1]
    <3>1. /\ inbox[a] \in Seq(ControlDirective) /\ inbox[a] # <<>> /\ d.kind = "demote"
          /\ inbox'[a] = Tail(inbox[a])
      BY <2>4, VarTypes, Zenon DEF Hears
    <3>2. /\ 1 \in DOMAIN inbox[a] /\ d.from \in Attachment \cup {None}
          /\ DOMAIN inbox[a] = 1..Len(inbox[a]) /\ Len(inbox[a]) \in Nat
          /\ DOMAIN inbox'[a] = 1..(Len(inbox[a]) - 1)
          /\ \A i \in DOMAIN inbox'[a] : inbox'[a][i] = inbox[a][i + 1]
      BY <3>1, ChannelEffect, RecordTypes
    <3>3. Explained(a, d)
      BY <3>2, Zenon DEF IInv, DemoteInv
    <3>4. ASSUME HasClose(a)
          PROVE  HasClose(a)'
      <4>1. PICK i \in DOMAIN inbox[a] : inbox[a][i].kind = "close"
        BY <3>4, Zenon DEF HasClose
      <4>2. i # 1
        BY <3>1, <4>1, Zenon
      <4>3. i - 1 \in DOMAIN inbox'[a] /\ inbox'[a][i - 1] = inbox[a][i]
        BY <3>2, <4>2
      <4> QED
        BY <4>1, <4>3, Zenon DEF HasClose
    <3>5. CASE d.from # None
      <4>1. /\ d.from \in Attachment \ {a} /\ pc[d.from] = "awaiting"
            /\ sc[d.from] = sc[a] /\ tr[d.from].answer = "none"
        BY <3>1, <3>2, <3>5, AddressOf
      <4>2. tr'[d.from].answer = "succeeded" /\ pc'[d.from] = "awaiting" /\ sc'[d.from] = sc[a]
        BY <2>4, <3>5, <4>1, Zenon DEF Hears
      <4> QED
        BY <1>1, <2>1, <4>1, <4>2, Zenon DEF Changing
    <3>6. ASSUME d.from = None, NEW c \in Attachment, sc[c] = sc[a], tr[c].victim = a,
                 pc[c] = "failing" \/ (pc[c] = "awaiting" /\ tr[c].answer = "ambiguous")
          PROVE  Changing(sc[a])'
      <4>1. pc[c] # "failing"
        <5>1. HolderInv(c) /\ Writer(c) = Writer(a)
          BY <3>6, Zenon DEF IInv, Writer
        <5> QED
          BY <2>4, <5>1, Zenon DEF HolderInv
      <4> QED
        BY <2>2, <2>4, <3>6, <4>1, Zenon
    <3> QED
      BY <1>1, <2>1, <3>1, <3>3, <3>4, <3>5, <3>6, Zenon DEF Explained
  <2> QED
    BY <1>1, <2>1, <2>3, <2>4, Zenon
<1>2. CASE x # a
  <2>1. Unmoved(a, x) /\ pc[x] \in Working /\ sc'[x] = sc[x] /\ mode'[x] = mode[x]
    BY <1>2, Others DEF Unmoved
  <2>2. sc[x] \in 1..Len(scopes)
    BY <2>1, VarTypes, Zenon DEF Working, Scoped, Phase, Transition
  <2>3. scopes'[sc[x]] = scopes[sc[x]] /\ Writer(x) = x
    BY <1>2, <2>1, <2>2, OtherPointer DEF Writer
  <2>4. scopes[sc[x]].ctl /\ (mode[x] = "rw" \/ HasClose(x) \/ Changing(sc[x]))
    BY <2>1, <2>3, Zenon DEF IInv, WriterInv, Working
  <2>5. ASSUME NEW b \in Attachment, sc[b] = sc[x],
               pc[b] = "promoting" \/ (pc[b] = "awaiting" /\ tr[b].answer # "none")
        PROVE  Changing(sc[x])'
    <3>1. CASE b # a
      BY <2>1, <2>5, <3>1, ChangingStays, Zenon DEF Changing
    <3>2. CASE b = a
      <4>1. scopes'[sc[a]].att \notin {a, None}
        BY <1>2, <2>3, <2>5, <3>2, Zenon DEF Writer
      <4>2. pc'[a] = "promoting" /\ sc'[a] = sc[a]
        BY <2>5, <3>2, <4>1, AwaitingOwn, PromotingOwn, Zenon
      <4> QED
        BY <2>1, <2>5, <3>2, <4>2, Zenon DEF Changing
    <3> QED
      BY <3>1, <3>2, Zenon
  <2>6. HasClose(x) => HasClose(x)'
    BY <1>2, CloseStays, Zenon
  <2> QED
    BY <2>1, <2>3, <2>4, <2>5, <2>6, Zenon DEF Changing
<1> QED
  BY <1>1, <1>2, Zenon

\* A control in a pointer is that of a running workspace, or of one whose
\* attachment is about to clear it.
LEMMA LiveStep ==
    ASSUME IInv, TypeOK', NEW a \in Attachment, Effect(a)
    PROVE  ControlIsLive'
<1>1. /\ scopes \in Seq(Scope) /\ Len(scopes) \in Nat /\ DOMAIN scopes = 1..Len(scopes)
      /\ scopes' \in Seq(Scope) /\ Len(scopes') \in Nat /\ DOMAIN scopes' = 1..Len(scopes')
  BY SeqShape, Zenon DEF IInv, TypeOK
<1> SUFFICES ASSUME NEW s \in 1..Len(scopes'), scopes'[s].ctl,
                    NEW y, y = scopes'[s].att
             PROVE  /\ y # None /\ sc'[y] = s
                    /\ InWorkspace(y)' \/ pc'[y] \in {"toChooser", "toLeave"}
  BY <1>1, Zenon DEF ControlIsLive, InWorkspace
<1>2. s \in 1..Len(scopes)
  <2>1. CASE NewScope
    <3>1. s # Len(scopes')
      BY <2>1, Zenon DEF NewScope
    <3> QED
      BY <1>1, <2>1, <3>1 DEF NewScope
  <2>2. CASE Len(scopes') = Len(scopes)
    BY <2>2, Zenon
  <2> QED
    BY <2>1, <2>2, PointerStep, Zenon
<1>3. y \in Attachment \cup {None}
  BY <1>1, RecordTypes
<1>4. CASE y = a
  <2>1. scopes'[s].ctl /\ scopes'[s].att = a
    BY <1>4, Zenon
  <2>2. sc'[a] = s /\ (InWorkspace(a)' \/ pc'[a] \in {"toChooser", "toLeave"})
    BY <1>2, <2>1, LiveOwn, Zenon
  <2> QED
    BY <1>4, <2>2, Zenon DEF InWorkspace
<1>5. CASE y # a
  <2>1. scopes'[s] = scopes[s]
    BY <1>2, <1>5, PointerStep, Zenon DEF PointerChange
  <2>2. /\ y # None /\ sc[y] = s
        /\ InWorkspace(y) \/ pc[y] \in {"toChooser", "toLeave"}
    BY <1>1, <1>2, <2>1, Zenon DEF IInv, ControlIsLive
  <2>3. Unmoved(a, y)
    BY <1>3, <1>5, <2>2, Others, Zenon
  <2> QED
    BY <2>2, <2>3, Zenon DEF Unmoved, InWorkspace
<1> QED
  BY <1>4, <1>5, Zenon

\* The pointer of the newest scope does not outlive its attachment.
LEMMA NewestStep ==
    ASSUME IInv, TypeOK', NEW a \in Attachment, Effect(a)
    PROVE  NewestInv'
<1>1. /\ scopes \in Seq(Scope) /\ Len(scopes) \in Nat
      /\ scopes' \in Seq(Scope) /\ Len(scopes') \in Nat
  BY SeqShape, Zenon DEF IInv, TypeOK
<1>2. CASE NewScope
  BY <1>2, Zenon DEF NewScope, NewestInv
<1>3. CASE Len(scopes') = Len(scopes)
  <2> SUFFICES ASSUME scopes' # <<>>, scopes'[Len(scopes)].att # None
               PROVE  LET y == scopes'[Len(scopes)].att IN
                      sc'[y] = Len(scopes) /\ pc'[y] # "gone"
    BY <1>3, Zenon DEF NewestInv
  <2> DEFINE y == scopes'[Len(scopes)].att
  <2>1. scopes # <<>> /\ Len(scopes) \in 1..Len(scopes)
    BY <1>1, <1>3, SeqEmpty
  <2>2. y \in Attachment
    BY <1>1, <1>3, <2>1, RecordTypes
  <2>3. CASE y = a
    BY <1>3, <2>1, <2>3, NewestOwn, Zenon
  <2>4. CASE y # a
    <3>1. scopes'[Len(scopes)] = scopes[Len(scopes)]
      BY <2>1, <2>2, <2>4, PointerStep, Zenon DEF PointerChange
    <3>2. sc[y] = Len(scopes) /\ pc[y] # "gone"
      BY <2>1, <3>1, Zenon DEF IInv, NewestInv
    <3> QED
      BY <2>2, <2>4, <3>2, Others DEF Unmoved
  <2> QED
    BY <2>3, <2>4, Zenon
<1> QED
  BY <1>2, <1>3, PointerStep, Zenon

\* A Demote of another attachment's channel keeps its reason, or gets a new one.
LEMMA ExplainedStays ==
    ASSUME IInv, TypeOK', NEW a \in Attachment, Effect(a), NEW x \in Attachment \ {a},
           NEW i \in DOMAIN inbox[x], NEW e, e = inbox'[x][i]
    PROVE  Explained(x, e)'
<1> DEFINE d == inbox[x][i]
<1>1. d \in ControlDirective /\ d.from \in Attachment \cup {None} /\ InWorkspace(x)
  <2>1. inbox[x] \in Seq(ControlDirective) /\ Close \in ControlDirective
    BY VarTypes, RecordTypes, Zenon
  <2>2. d \in ControlDirective /\ inbox[x] # <<>>
    BY <2>1, ChannelEffect
  <2>3. InWorkspace(x)
    BY <2>2, Zenon DEF IInv, PhaseInv
  <2> QED
    BY <2>2, <2>3, RecordTypes, Zenon
<1>2. e = d \/ (d = Demote(a) /\ e = Demote(None))
  BY BoxEntries
<1>3. /\ Demote(a).kind = "demote" /\ Demote(a).from = a
      /\ Demote(None).kind = "demote" /\ Demote(None).from = None
  BY RecordTypes, Zenon
<1>4. Explained(x, d) /\ ChangeInv(a)
  BY Zenon DEF IInv, DemoteInv
<1>5. \A z \in Attachment \ {a} : Unmoved(a, z)
  BY Others, Zenon
<1> HIDE DEF d
<1>6. CASE d.kind # "demote"
  BY <1>2, <1>3, <1>6, Zenon DEF Explained
<1>7. CASE /\ d.kind = "demote" /\ d.from \notin {a, None}
           /\ pc[d.from] = "awaiting" /\ sc[d.from] = sc[x]
           /\ tr[d.from].victim = x /\ tr[d.from].answer = "none"
  <2>1. e = d /\ Unmoved(a, d.from) /\ Unmoved(a, x)
    BY <1>1, <1>2, <1>3, <1>5, <1>7, Zenon
  <2> QED
    BY <1>7, <2>1, ZenonT(30) DEF Explained, Unmoved
<1>8. CASE /\ d.kind = "demote" /\ d.from = a /\ pc[a] = "awaiting" /\ sc[a] = sc[x]
           /\ tr[a].victim = x /\ tr[a].answer = "none"
  <2>1. PICK v \in Attachment : GivesUp(a, v)
    BY <1>8, AwaitingOwn, Zenon
  <2>2. v = x /\ pc'[a] = "awaiting" /\ sc'[a] = sc[a] /\ tr'[a].victim = x
        /\ tr'[a].answer = "ambiguous"
    <3>1. pc \in [Attachment -> Phase]
      BY VarTypes, Zenon
    <3> QED
      BY <1>8, <2>1, <3>1, Zenon DEF GivesUp, Goes, Updated
  <2>3. d = Demote(a)
    BY <1>1, <1>8, Zenon DEF Demote, ControlDirective
  <2>4. e = Demote(None)
    BY <2>1, <2>2, <2>3, AbandonedBox DEF d
  <2>5. sc'[x] = sc[x]
    BY <1>5, Zenon DEF Unmoved
  <2> QED
    BY <1>3, <1>8, <2>2, <2>4, <2>5, Zenon DEF Explained
<1>9. CASE d.from = None /\ HasClose(x)
  BY <1>2, <1>3, <1>9, CloseStays, Zenon DEF Explained
<1>10. ASSUME d.from = None, NEW c \in Attachment, sc[c] = sc[x], tr[c].victim = x,
              pc[c] = "failing" \/ (pc[c] = "awaiting" /\ tr[c].answer = "ambiguous")
       PROVE  Explained(x, e)'
  <2>1. e = d /\ sc'[x] = sc[x]
    BY <1>2, <1>3, <1>5, <1>10 DEF Unmoved
  <2>2. CASE c # a
    <3>1. Unmoved(a, c)
      BY <1>5, <2>2, Zenon
    <3> QED
      BY <1>10, <2>1, <3>1, Zenon DEF Explained, Unmoved
  <2>3. CASE c = a /\ pc[a] = "failing"
    BY <1>1, <1>10, <2>1, <2>3, CloseArrives, Zenon DEF Explained
  <2>4. CASE c = a /\ pc[a] = "awaiting" /\ tr[a].answer = "ambiguous"
    <3>1. pc'[a] = "failing" /\ tr'[a].victim = x /\ sc'[a] = sc[a]
      BY <1>10, <2>4, AwaitingOwn, Zenon
    <3> QED
      BY <1>10, <2>1, <2>4, <3>1, Zenon DEF Explained
  <2> QED
    BY <1>10, <2>2, <2>3, <2>4, Zenon
<1> QED
  BY <1>4, <1>6, <1>7, <1>8, <1>9, <1>10, Zenon DEF Explained

\* The Demotes in another attachment's channel.
LEMMA DemoteOther ==
    ASSUME IInv, TypeOK', NEW a \in Attachment, Effect(a), NEW x \in Attachment \ {a}
    PROVE  DemoteInv(x)'
<1>1. /\ Demote(a).kind = "demote" /\ Demote(a).from = a
      /\ Demote(None).kind = "demote" /\ Demote(None).from = None /\ Close.kind = "close"
  BY RecordTypes, Zenon
<1>2. ASSUME pc[a] = "demoting", tr[a].victim = x
      PROVE  sc[a] = sc[x] /\ tr[a].answer = "none"
  <2>1. /\ Writer(a) = x /\ scopes[sc[a]].ctl /\ tr[a].answer = "none"
    BY <1>2, Zenon DEF IInv, HolderInv, ChangeInv
  <2>2. sc[a] \in DOMAIN scopes
    BY <1>2, VarTypes, SeqShape, Zenon DEF Scoped, Phase, Transition
  <2> QED
    BY <2>1, <2>2, Zenon DEF IInv, ControlIsLive, Writer
<1>3. ASSUME NEW i \in DOMAIN inbox[x], Addressed(inbox[x][i])
      PROVE  pc[a] # "demoting" \/ tr[a].victim # x
  <2>1. /\ inbox[x][i].from \in Attachment /\ pc[inbox[x][i].from] = "awaiting"
        /\ sc[inbox[x][i].from] = sc[x]
    BY <1>3, AddressOf DEF Addressed
  <2> QED
    BY <1>2, <2>1, Zenon DEF IInv, OneHolder, Locked, Transition
<1>4. ASSUME NEW i \in DOMAIN inbox'[x], NEW e, e = inbox'[x][i]
      PROVE  Explained(x, e)'
  <2>1. CASE i \in DOMAIN inbox[x]
    BY <1>4, <2>1, ExplainedStays, Zenon
  <2>2. CASE i \notin DOMAIN inbox[x] /\ e = Close
    BY <1>1, <2>2, Zenon DEF Explained
  <2>3. CASE /\ i \notin DOMAIN inbox[x]
             /\ e = Demote(a) /\ pc[a] = "demoting" /\ pc'[a] = "awaiting"
             /\ tr[a].victim = x /\ tr'[a] = tr[a] /\ sc'[a] = sc[a]
    <3>1. sc'[x] = sc[x]
      BY Others DEF Unmoved
    <3> QED
      BY <1>1, <1>2, <2>3, <3>1, Zenon DEF Explained
  <2> QED
    BY <1>4, <2>1, <2>2, <2>3, BoxEntries
<1>5. ASSUME NEW i \in DOMAIN inbox'[x], NEW j \in DOMAIN inbox'[x],
             Addressed(inbox[x][i])', Addressed(inbox[x][j])'
      PROVE  i = j
  <2>1. ASSUME NEW k \in DOMAIN inbox'[x], Addressed(inbox[x][k])'
        PROVE  \/ k \in DOMAIN inbox[x] /\ Addressed(inbox[x][k])
               \/ k = Len(inbox[x]) + 1 /\ pc[a] = "demoting" /\ tr[a].victim = x
    BY <1>1, <2>1, BoxEntries DEF Addressed
  <2>2. \A k, l \in DOMAIN inbox[x] : Addressed(inbox[x][k]) /\ Addressed(inbox[x][l]) => k = l
    BY Zenon DEF IInv, DemoteInv
  <2> QED
    BY <1>3, <1>5, <2>1, <2>2, Zenon
<1> QED
  BY <1>4, <1>5, Zenon DEF DemoteInv

\* The Demotes in the channel of the attachment that takes the step.
LEMMA DemoteOwn ==
    ASSUME IInv, TypeOK', NEW a \in Attachment, Effect(a)
    PROVE  DemoteInv(a)'
<1>1. inbox[a] \in Seq(ControlDirective)
  BY VarTypes, Zenon
<1>2. \A z \in Attachment \ {a} : Unmoved(a, z)
  BY Others, Zenon
<1>3. /\ \A k, l \in DOMAIN inbox[a] : Addressed(inbox[a][k]) /\ Addressed(inbox[a][l]) => k = l
      /\ \A k \in DOMAIN inbox[a] : Explained(a, inbox[a][k])
      /\ \A k \in DOMAIN inbox[a] : Addressed(inbox[a][k]) => inbox[a][k].from \in Attachment \ {a}
      /\ \A c \in Attachment : tr[c].victim = a => c # a
  BY AddressOf DEF IInv, DemoteInv, Addressed, ChangeInv
<1>4. CASE inbox'[a] = <<>>
  BY <1>4 DEF DemoteInv
<1>5. CASE /\ inbox'[a] = inbox[a] /\ inbox[a] # <<>> /\ sc'[a] = sc[a]
           /\ \A b \in Attachment \ {a} : tr'[b] = tr[b]
  <2>1. ASSUME NEW k \in DOMAIN inbox[a], NEW e, e = inbox[a][k]
        PROVE  Explained(a, e)'
    <3>1. Explained(a, e) /\ (Addressed(e) => e.from \in Attachment \ {a})
      BY <1>3, <2>1, Zenon
    <3>2. HasClose(a) => HasClose(a)'
      BY <1>5, Zenon DEF HasClose
    <3>3. \A c \in Attachment \ {a} : tr'[c] = tr[c] /\ pc'[c] = pc[c] /\ sc'[c] = sc[c]
      BY <1>2, <1>5, Zenon DEF Unmoved
    <3> QED
      BY <1>3, <1>5, <3>1, <3>2, <3>3 DEF Explained, Addressed
  <2> QED
    BY <1>3, <1>5, <2>1, Zenon DEF DemoteInv, Addressed
<1>6. CASE Hears(a)
  <2> DEFINE d == inbox[a][1]
             n == Len(inbox[a])
  <2>1. /\ inbox[a] # <<>> /\ d.kind = "demote" /\ inbox'[a] = Tail(inbox[a])
        /\ sc' = sc /\ pc' = pc
        /\ \A b \in Attachment \ {a} : b # d.from => tr'[b] = tr[b]
    BY <1>6, Zenon DEF Hears, Updated
  <2>2. /\ Close \in ControlDirective
    BY RecordTypes, Zenon
  <2>3. /\ DOMAIN inbox[a] = 1..n /\ n \in Nat /\ 1 \in DOMAIN inbox[a]
        /\ DOMAIN inbox'[a] = 1..(n - 1)
        /\ \A k \in DOMAIN inbox'[a] : k + 1 \in DOMAIN inbox[a] /\ inbox'[a][k] = inbox[a][k + 1]
    BY <1>1, <2>1, <2>2, ChannelEffect
  <2>4. ASSUME NEW k \in DOMAIN inbox'[a], NEW e, e = inbox'[a][k]
        PROVE  Explained(a, e)'
    <3>1. /\ k + 1 \in DOMAIN inbox[a] /\ e = inbox[a][k + 1] /\ k + 1 # 1
          /\ Explained(a, e) /\ (Addressed(e) => e.from \in Attachment \ {a})
      BY <1>3, <2>3, <2>4
    <3>2. Addressed(e) => d.from = None
      BY <1>3, <2>1, <2>3, <3>1, Zenon DEF Addressed
    <3>3. HasClose(a) => HasClose(a)'
      <4>1. ASSUME NEW l \in DOMAIN inbox[a], inbox[a][l].kind = "close"
            PROVE  HasClose(a)'
        <5>1. l # 1
          BY <2>1, <4>1, Zenon
        <5>2. l - 1 \in DOMAIN inbox'[a] /\ inbox'[a][l - 1] = inbox[a][l]
          BY <2>3, <5>1
        <5> QED
          BY <4>1, <5>2, Zenon DEF HasClose
      <4> QED
        BY <4>1, Zenon DEF HasClose
    <3>4. \A c \in Attachment \ {a} :
             /\ pc'[c] = pc[c] /\ sc'[c] = sc[c] /\ tr'[c].victim = tr[c].victim
             /\ pc[c] = "awaiting" /\ tr[c].answer # "none" => tr'[c].answer = tr[c].answer
      BY <1>2, Zenon DEF Unmoved
    <3>5. CASE Addressed(e)
      <4>1. tr'[e.from] = tr[e.from]
        BY <2>1, <3>1, <3>2, <3>5, Zenon DEF Addressed
      <4> QED
        BY <2>1, <3>1, <3>5, <4>1, Zenon DEF Explained, Addressed
    <3>6. CASE ~Addressed(e)
      BY <1>3, <2>1, <3>1, <3>3, <3>4, <3>6, Zenon DEF Explained, Addressed
    <3> QED
      BY <3>5, <3>6, Zenon
  <2>5. ASSUME NEW k \in DOMAIN inbox'[a], NEW l \in DOMAIN inbox'[a],
               Addressed(inbox[a][k])', Addressed(inbox[a][l])'
        PROVE  k = l
    <3>1. \A m \in DOMAIN inbox'[a] : Addressed(inbox[a][m])' => Addressed(inbox[a][m + 1])
      BY <2>3, Zenon DEF Addressed
    <3>2. k + 1 = l + 1
      BY <1>3, <2>3, <2>5, <3>1, Zenon
    <3> QED
      BY <2>3, <3>2
  <2> QED
    BY <2>4, <2>5, Zenon DEF DemoteInv
<1> QED
  BY <1>4, <1>5, <1>6, BoxOwn, Zenon

-----------------------------------------------------------------------------
(* The invariant.                                                           *)

\* A route is current only when there has been one.
LEMMA RouteStep ==
    ASSUME IInv, Next
    PROVE  up' => cur' > 0
<1>1. CASE UNCHANGED route
  BY <1>1, Zenon DEF IInv, route
<1>2. CASE RouteEnds
  BY <1>2, Zenon DEF RouteEnds
<1>3. CASE RouteInstalled
  BY <1>3 DEF RouteInstalled, IInv, TypeOK
<1>4. ASSUME NEW a \in Attachment, ChooserStep(a) \/ WorkspaceStep(a) \/ ChangeStep(a) \/ EndStep(a)
      PROVE  UNCHANGED route
  <2>1. CASE ChooserStep(a)
    BY <2>1, Zenon DEF ChooserStep, Start, Probe, Lookup, Choose, Create, Created,
       ChooserClaim
  <2>2. CASE WorkspaceStep(a)
    BY <2>2, Zenon DEF WorkspaceStep, StartControl, Enter, Entered, SeeChange, View, Leave,
       Mutate, Mutated, Refresh, Refreshed, Directive, WorkspaceClaim
  <2>3. CASE ChangeStep(a)
    BY <2>3, Zenon DEF ChangeStep, SendDemote, DemoteFails, AfterDemotion, Promote, Resized,
       CloseOld
  <2>4. CASE EndStep(a)
    BY <2>4, Zenon DEF EndStep, Return, BeginRelease, Release
  <2> QED
    BY <1>4, <2>1, <2>2, <2>3, <2>4, Zenon
<1> QED
  BY <1>1, <1>2, <1>3, <1>4, Zenon DEF Next

\* A step that changes no attachment and no scope keeps what is said of them.
LEMMA SameParts ==
    ASSUME IInv, UNCHANGED <<scopes, pc, rt, sc, mode, inbox, tr>>
    PROVE  /\ \A x \in Attachment :
                /\ PhaseInv(x)' /\ ChangeInv(x)' /\ HolderInv(x)' /\ DemotedInv(x)'
                /\ ControlInv(x)' /\ FencedInv(x)' /\ WriterInv(x)' /\ DemoteInv(x)'
           /\ OneHolder' /\ ControlIsLive' /\ NewestInv'
<1>1. ASSUME NEW x \in Attachment
      PROVE  /\ PhaseInv(x)' /\ ChangeInv(x)' /\ HolderInv(x)' /\ DemotedInv(x)'
             /\ ControlInv(x)' /\ FencedInv(x)' /\ WriterInv(x)' /\ DemoteInv(x)'
  <2>1. PhaseInv(x)' /\ ChangeInv(x)' /\ HolderInv(x)'
    BY Zenon DEF IInv, PhaseInv, ChangeInv, HolderInv, InWorkspace, Writer
  <2>2. DemotedInv(x)' /\ ControlInv(x)'
    BY Zenon DEF IInv, DemotedInv, Demoted, ControlInv, Writer
  <2>3. FencedInv(x)' /\ WriterInv(x)'
    BY DEF IInv, FencedInv, ClosePending, WriterInv, HasClose, Changing, Writer
  <2>4. DemoteInv(x)'
    <3>1. HasClose(x)' <=> HasClose(x)
      BY Zenon DEF HasClose
    <3>2. \A d : Explained(x, d) => Explained(x, d)'
      BY <3>1, Zenon DEF Explained
    <3>3. DemoteInv(x)
      BY Zenon DEF IInv
    <3> QED
      BY <3>2, <3>3, Zenon DEF DemoteInv, Addressed
  <2> QED
    BY <2>1, <2>2, <2>3, <2>4, Zenon
<1>2. OneHolder' /\ ControlIsLive' /\ NewestInv'
  BY Zenon DEF IInv, OneHolder, ControlIsLive, NewestInv, InWorkspace
<1> QED
  BY <1>1, <1>2, Zenon

\* The initial states: nobody has started, and there is no scope.
LEMMA InitInv ==
    ASSUME Init
    PROVE  IInv
<1>1. TypeOK
  <2>1. scopes \in Seq(Scope) /\ Len(scopes) = 0
    BY SeqEmpty, Zenon DEF Init
  <2>2. /\ inbox \in [Attachment -> Seq(ControlDirective)]
        /\ \A a \in Attachment : Len(inbox[a]) <= Capacity
    BY SeqEmpty DEF Init
  <2>3. tr \in [Attachment -> Change]
    BY RecordTypes, Zenon DEF Init
  <2>4. up \in BOOLEAN
    BY Zenon DEF Init
  <2>5. /\ cur \in 0..MaxRoute /\ Len(scopes) <= MaxScope
        /\ rt \in [Attachment -> 0..MaxRoute] /\ sc \in [Attachment -> 0..Len(scopes)]
    BY <2>1 DEF Init
  <2>6. /\ pc \in [Attachment -> Phase] /\ mode \in [Attachment -> {"none", "ro", "rw"}]
        /\ dirty \in SUBSET Attachment
    BY Zenon DEF Init, Phase
  <2> QED
    BY <2>1, <2>2, <2>3, <2>4, <2>5, <2>6, Zenon DEF TypeOK
<1>2. \A a \in Attachment :
        /\ pc[a] = "off" /\ mode[a] = "none" /\ inbox[a] = <<>>
        /\ tr[a].victim = None
  BY Zenon DEF Init, NoChange
<1>3. /\ "off" \notin Transition /\ "off" \notin Scoped /\ "off" \notin Locked
  BY Zenon DEF Transition, Scoped, Locked
<1>4. ASSUME NEW a \in Attachment
      PROVE  /\ PhaseInv(a) /\ ChangeInv(a) /\ HolderInv(a) /\ DemotedInv(a)
             /\ ControlInv(a) /\ FencedInv(a) /\ WriterInv(a) /\ DemoteInv(a)
  BY <1>2, <1>3 DEF PhaseInv, ChangeInv, HolderInv, DemotedInv, Demoted, ControlInv,
     FencedInv, WriterInv, DemoteInv
<1>5. OneHolder /\ ControlIsLive /\ NewestInv /\ (up => cur > 0)
  BY <1>2, <1>3, SeqEmpty DEF OneHolder, ControlIsLive, NewestInv, Init
<1> QED
  BY <1>1, <1>4, <1>5, Zenon DEF IInv

\* Every step keeps the invariant.
LEMMA Inductive ==
    ASSUME IInv, [Next]_vars
    PROVE  IInv'
<1>1. CASE Next
  <2>1. TypeOK' /\ (up' => cur' > 0)
    BY <1>1, TypeStep, RouteStep, Zenon
  <2>2. CASE UNCHANGED <<scopes, pc, rt, sc, mode, inbox, tr>>
    BY <2>1, <2>2, SameParts, Zenon DEF IInv
  <2>3. ASSUME NEW a \in Attachment, Effect(a)
        PROVE  IInv'
    <3>1. ASSUME NEW x \in Attachment
          PROVE  /\ PhaseInv(x)' /\ ChangeInv(x)' /\ HolderInv(x)' /\ DemotedInv(x)'
                 /\ ControlInv(x)' /\ FencedInv(x)' /\ WriterInv(x)' /\ DemoteInv(x)'
      BY Zenon, <2>1, <2>3, PhaseStepInv, ChangeStepInv, PointerKnown, DemotedStep,
         ControlStep, FencedStep, WriterStep, DemoteOwn, DemoteOther
    <3>2. OneHolder' /\ ControlIsLive' /\ NewestInv'
      BY <2>1, <2>3, HolderStep, LiveStep, NewestStep, Zenon
    <3> QED
      BY <2>1, <3>1, <3>2, Zenon DEF IInv
  <2> QED
    BY <1>1, <2>2, <2>3, EffectStep, Zenon
<1>2. CASE UNCHANGED vars
  <2>1. TypeOK' /\ (up' => cur' > 0) /\ UNCHANGED <<scopes, pc, rt, sc, mode, inbox, tr>>
    BY <1>2, Zenon DEF vars, route, IInv, TypeOK
  <2> QED
    BY <2>1, SameParts, Zenon DEF IInv
<1> QED
  BY <1>1, <1>2, Zenon

\* The invariant holds in every reachable state.
LEMMA Invariance == Spec => []IInv
BY InitInv, Inductive, PTL DEF Spec

-----------------------------------------------------------------------------
(* The theorems.                                                            *)

\* The types of the registry and of the attachments; in particular no channel
\* holds more than Capacity directives.
THEOREM WriterScopeTypeOK == Spec => []TypeOK
<1>1. IInv => TypeOK
  BY Zenon DEF IInv
<1> QED
  BY <1>1, Invariance, PTL

\* The control in a WriterHandle is that of a running workspace, or of one whose
\* attachment is about to call clear_control.
THEOREM TakeoverFindsALiveWorkspace == Spec => []ControlIsLive
<1>1. IInv => ControlIsLive
  BY Zenon DEF IInv
<1> QED
  BY <1>1, Invariance, PTL

\* A released attachment is not the writer that new attachments find.
THEOREM ReleasedIsForgotten == Spec => []GoneIsNotWriter
<1>1. IInv => GoneIsNotWriter
  BY Zenon DEF IInv, NewestInv, GoneIsNotWriter
<1> QED
  BY <1>1, Invariance, PTL

\* No observer keeps a writable tmux client that nobody will take from it.
THEOREM NoStrayWriter == Spec => []WritableIsFenced
<1>1. IInv => WritableIsFenced
  <2> SUFFICES ASSUME IInv, NEW a \in Attachment, mode[a] = "rw", Writer(a) # a, inbox[a] = <<>>
               PROVE  StateHeld(sc[a])
    BY Zenon DEF WritableIsFenced
  <2>1. ClosePending(a)
    BY Zenon DEF IInv, FencedInv
  <2> QED
    BY <2>1, Zenon DEF ClosePending, StateHeld, Transition
<1> QED
  BY <1>1, Invariance, PTL

\* The pointer's attachment can write, or is about to be closed.
THEOREM WriterIsNotStuck == Spec => []WriterCanWrite
<1>1. IInv => WriterCanWrite
  <2> SUFFICES ASSUME IInv, NEW a \in Attachment, pc[a] \in {"viewing", "loop", "refreshing"},
                      Writer(a) = a, ~StateHeld(sc[a])
               PROVE  scopes[sc[a]].ctl /\ (mode[a] = "rw" \/ HasClose(a))
    BY Zenon DEF WriterCanWrite, HasClose
  <2>1. scopes[sc[a]].ctl /\ (mode[a] = "rw" \/ HasClose(a) \/ Changing(sc[a]))
    BY Zenon DEF IInv, WriterInv
  <2>2. ~Changing(sc[a])
    BY Zenon DEF Changing, StateHeld, Transition
  <2> QED
    BY <2>1, <2>2, Zenon
<1> QED
  BY <1>1, Invariance, PTL

\* The pointer never passes from an attachment with a writable client to another.
THEOREM WriterIsDemotedFirst == Spec => DemotedFirst
<1>1. ASSUME IInv, Next, NEW s \in DOMAIN scopes, scopes[s].att # None,
             scopes'[s].att \notin {scopes[s].att, None}, sc[scopes[s].att] = s
      PROVE  mode[scopes[s].att] # "rw"
  <2> DEFINE x == scopes[s].att
  <2>1. s \in 1..Len(scopes) /\ x \in Attachment
    BY <1>1, VarTypes, SeqShape, RecordTypes
  <2>2. PICK a \in Attachment : Effect(a)
    BY <1>1, EffectStep, Zenon
  <2>3. TypeOK'
    BY <1>1, TypeStep, Zenon
  <2>4. PointerChange(a, s) /\ scopes'[s] # scopes[s]
    BY <1>1, <2>1, <2>2, <2>3, PointerStep, Zenon
  <2>5. scopes'[s].att = a /\ x # a
    BY <1>1, <2>4, Zenon DEF PointerChange
  <2>6. /\ Writer(x) = x /\ sc[x] \in 1..Len(scopes) /\ sc'[x] = sc[x]
    BY <1>1, <2>1, <2>2, <2>3, <2>5, Others DEF Writer, Unmoved
  <2>7. mode[x] # "rw" \/ (pc'[a] = "failing" /\ tr'[a].victim = x)
    BY <1>1, <2>1, <2>2, <2>3, <2>4, <2>5, <2>6, OtherPointer
  <2>8. pc'[a] # "failing"
    <3> SUFFICES ASSUME pc'[a] = "failing"
                 PROVE  FALSE
      OBVIOUS
    <3>1. sc'[a] = sc[a] /\ s = sc[a]
      BY <1>1, <2>2, <2>3, <2>4, LockOwn, Zenon DEF PointerChange, Locked, Transition
    <3>2. HolderInv(a)'
      BY <1>1, <2>2, <2>3, HolderOwn, Zenon
    <3> QED
      BY <2>5, <3>1, <3>2, Zenon DEF HolderInv, Writer
  <2> QED
    BY <2>7, <2>8, Zenon
<1>2. ASSUME IInv, [Next]_vars
      PROVE  [\A s \in DOMAIN scopes :
                LET a == scopes[s].att
                    b == scopes'[s].att IN
                a # None /\ b \notin {a, None} /\ sc[a] = s => mode[a] # "rw"]_vars
  BY <1>1, <1>2, Zenon
<1> QED
  BY <1>2, Invariance, PTL DEF Spec, DemotedFirst

=============================================================================
