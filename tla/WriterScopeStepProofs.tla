------------------------ MODULE WriterScopeStepProofs ------------------------
(***************************************************************************)
(* Proofs about WriterScope, for any set of attachments, any number of     *)
(* routes and scopes, and any capacity of the directive channels.          *)
(***************************************************************************)
EXTENDS WriterScopeInv, TLAPS

USE BoundsAssumption, NoneAssumption

-----------------------------------------------------------------------------
(* Operators of the model.                                                 *)

\* Sequences: their shape, the empty one, and what EXCEPT, Append and Tail do.
LEMMA SeqShape ==
    ASSUME NEW S, NEW q \in Seq(S)
    PROVE  Len(q) \in Nat /\ DOMAIN q = 1..Len(q) /\ q \in [1..Len(q) -> S]
OBVIOUS

\* An element of a sequence.
LEMMA SeqElement ==
    ASSUME NEW S, NEW q \in Seq(S), NEW i \in 1..Len(q)
    PROVE  q[i] \in S
OBVIOUS

\* The empty sequence.
LEMMA SeqEmpty ==
    ASSUME NEW S
    PROVE  /\ <<>> \in Seq(S) /\ Len(<<>>) = 0
           /\ \A q \in Seq(S) : q = <<>> <=> Len(q) = 0
OBVIOUS

\* One element is replaced.
LEMMA SeqExcept ==
    ASSUME NEW S, NEW q \in Seq(S), NEW i \in 1..Len(q), NEW e \in S
    PROVE  /\ [q EXCEPT ![i] = e] \in Seq(S) /\ Len([q EXCEPT ![i] = e]) = Len(q)
           /\ \A j \in 1..Len(q) : [q EXCEPT ![i] = e][j] = IF i = j THEN e ELSE q[j]
OBVIOUS

\* One element more at the end.
LEMMA SeqAppend ==
    ASSUME NEW S, NEW q \in Seq(S), NEW e \in S
    PROVE  /\ Append(q, e) \in Seq(S) /\ Len(Append(q, e)) = Len(q) + 1
           /\ \A j \in 1..Len(q) : Append(q, e)[j] = q[j]
           /\ Append(q, e)[Len(q) + 1] = e
OBVIOUS

\* Without its first element.
LEMMA SeqTail ==
    ASSUME NEW S, NEW q \in Seq(S), q # <<>>
    PROVE  /\ Head(q) = q[1] /\ Tail(q) \in Seq(S) /\ Len(Tail(q)) = Len(q) - 1
           /\ \A j \in 1..Len(Tail(q)) : Tail(q)[j] = q[j + 1]
OBVIOUS

\* A function on the first numbers is a sequence.
LEMMA SeqOf ==
    ASSUME NEW S, NEW n \in Nat, NEW f \in [1..n -> S]
    PROVE  f \in Seq(S) /\ Len(f) = n
OBVIOUS

\* The values that actions assign have the types of TypeOK.
LEMMA RecordTypes ==
    /\ NoChange \in Change
    /\ \A t \in Change, p \in {"choosing", "toChooser", "toLeave", "leaving"} :
         /\ [t EXCEPT !.then = p] \in Change
         /\ [t EXCEPT !.then = p].victim = t.victim
         /\ [t EXCEPT !.then = p].from = t.from
         /\ [t EXCEPT !.then = p].answer = t.answer
         /\ [t EXCEPT !.then = p].then = p
    /\ \A t \in Change, o \in Outcome :
         /\ [t EXCEPT !.answer = o] \in Change
         /\ [t EXCEPT !.answer = o].victim = t.victim
         /\ [t EXCEPT !.answer = o].from = t.from
         /\ [t EXCEPT !.answer = o].then = t.then
         /\ [t EXCEPT !.answer = o].answer = o
    /\ \A t \in Change : /\ t.victim \in Attachment \cup {None}
                         /\ t.then \in {"none", "choosing", "toChooser", "toLeave", "leaving"}
    /\ Close \in ControlDirective /\ Close.kind = "close"
    /\ \A b \in Attachment \cup {None} :
         Demote(b) \in ControlDirective /\ Demote(b).kind = "demote" /\ Demote(b).from = b
    /\ \A d \in ControlDirective :
         d.kind \in {"demote", "close"} /\ d.from \in Attachment \cup {None}
    /\ \A r \in Scope : r.att \in Attachment \cup {None} /\ r.ctl \in BOOLEAN
  BY Zenon DEF Change, NoChange, Outcome, ControlDirective, Close, Demote, Scope

\* The pointer of scope s becomes w, with or without a control.
Moved(s, w, k) ==
    /\ scopes' \in Seq(Scope) /\ Len(scopes') = Len(scopes)
    /\ \A t \in 1..Len(scopes) : t # s => scopes'[t] = scopes[t]
    /\ scopes'[s].att = w /\ scopes'[s].ctl = k

\* Assigning to a pointer changes one scope and no length.
LEMMA AssignEffect ==
    ASSUME scopes \in Seq(Scope), NEW s \in 1..Len(scopes), NEW w \in Attachment \cup {None},
           NEW k \in BOOLEAN, scopes' = [scopes EXCEPT ![s].att = w, ![s].ctl = k]
    PROVE  Moved(s, w, k)
<1> DEFINE r == [[scopes[s] EXCEPT !.att = w] EXCEPT !.ctl = k]
<1>1. scopes[s] \in Scope
  BY SeqElement, Zenon
<1>2. r \in Scope /\ r.att = w /\ r.ctl = k
  BY <1>1, Zenon DEF Scope
<1>3. scopes' = [scopes EXCEPT ![s] = r]
  BY <1>1, Zenon DEF Scope
<1> HIDE DEF r
<1>4. scopes' \in Seq(Scope) /\ Len(scopes') = Len(scopes)
  <2>1. r \in Scope
    BY <1>2
  <2>2. [scopes EXCEPT ![s] = r] \in Seq(Scope) /\ Len([scopes EXCEPT ![s] = r]) = Len(scopes)
    BY <2>1, SMT
  <2> QED
    BY <1>3, <2>2, Zenon
<1>5. DOMAIN scopes = 1..Len(scopes)
  BY SeqShape, Zenon
<1> QED
  BY <1>2, <1>3, <1>4, <1>5, Zenon DEF Moved

\* set_current, clear and clear_if_current.
LEMMA PointEffect ==
    ASSUME TypeOK, NEW a \in Attachment, sc[a] > 0
    PROVE  /\ \A k \in BOOLEAN : SetCurrent(a, k) =>
                Moved(sc[a], a, k) /\ dirty' \in SUBSET Attachment
           /\ Clear(a) => Moved(sc[a], None, FALSE) /\ dirty' \in SUBSET Attachment
           /\ ClearIfCurrent(a) =>
                /\ dirty' \in SUBSET Attachment
                /\ \/ Writer(a) = a /\ Moved(sc[a], None, FALSE)
                   \/ Writer(a) # a /\ UNCHANGED scopes
<1>1. sc[a] \in 1..Len(scopes) /\ scopes \in Seq(Scope) /\ dirty \in SUBSET Attachment
  BY DEF TypeOK
<1>2. ASSUME NEW w \in Attachment \cup {None}, NEW k \in BOOLEAN,
             Point(sc[a], [att |-> w, ctl |-> k])
      PROVE  Moved(sc[a], w, k) /\ dirty' \in SUBSET Attachment
  <2>1. scopes' = [scopes EXCEPT ![sc[a]].att = w, ![sc[a]].ctl = k]
    BY <1>2, Zenon DEF Point
  <2>2. dirty' \in SUBSET Attachment
    BY <1>1, <1>2, Zenon DEF Point
  <2> QED
    BY <1>1, <2>1, <2>2, AssignEffect, Zenon
<1>3. /\ \A k \in BOOLEAN : SetCurrent(a, k) =>
           Moved(sc[a], a, k) /\ dirty' \in SUBSET Attachment
      /\ Clear(a) => Moved(sc[a], None, FALSE) /\ dirty' \in SUBSET Attachment
  BY <1>2, Zenon DEF SetCurrent, Clear
<1> QED
  BY <1>1, <1>3, Zenon DEF ClearIfCurrent

\* workspace() has returned in phase p: nobody else's phase, client or channel
\* changes, and a demotion that still waits for a is ambiguous.
Ended(a, p) ==
    /\ pc' \in [Attachment -> Phase] /\ pc' = [pc EXCEPT ![a] = p]
    /\ mode' \in [Attachment -> {"none", "ro", "rw"}] /\ mode' = [mode EXCEPT ![a] = "none"]
    /\ inbox' \in [Attachment -> Seq(ControlDirective)] /\ inbox' = [inbox EXCEPT ![a] = <<>>]
    /\ \A b \in Attachment : Len(inbox'[b]) <= Capacity
    /\ tr' \in [Attachment -> Change] /\ tr'[a] = NoChange
    /\ \A b \in Attachment \ {a} :
         /\ tr'[b].victim = tr[b].victim /\ tr'[b].from = tr[b].from
         /\ tr'[b].then = tr[b].then
         /\ IF pc[b] = "awaiting" /\ tr[b].victim = a /\ tr[b].answer = "none"
            THEN tr'[b].answer = "ambiguous" ELSE tr'[b] = tr[b]

\* EndWorkspace has that effect.
LEMMA EndEffect ==
    ASSUME TypeOK, NEW a \in Attachment, NEW p \in Phase, EndWorkspace(a, p)
    PROVE  Ended(a, p)
<1>1. /\ pc' \in [Attachment -> Phase] /\ pc' = [pc EXCEPT ![a] = p]
      /\ mode' \in [Attachment -> {"none", "ro", "rw"}] /\ mode' = [mode EXCEPT ![a] = "none"]
  BY Zenon DEF EndWorkspace, Goto, TypeOK
<1>2. /\ inbox' \in [Attachment -> Seq(ControlDirective)] /\ inbox' = [inbox EXCEPT ![a] = <<>>]
      /\ \A b \in Attachment : Len(inbox'[b]) <= Capacity
  BY SeqEmpty DEF EndWorkspace, TypeOK
<1>3. tr'[a] = NoChange
  BY Zenon DEF EndWorkspace
<1>4. ASSUME NEW b \in Attachment \ {a}
      PROVE  /\ tr'[b] \in Change
             /\ tr'[b].victim = tr[b].victim /\ tr'[b].from = tr[b].from
             /\ tr'[b].then = tr[b].then
             /\ IF pc[b] = "awaiting" /\ tr[b].victim = a /\ tr[b].answer = "none"
                THEN tr'[b].answer = "ambiguous" ELSE tr'[b] = tr[b]
  <2>1. tr[b] \in Change /\ "ambiguous" \in Outcome
    BY Zenon DEF TypeOK, Outcome
  <2>2. tr'[b] = IF pc[b] = "awaiting" /\ tr[b].victim = a /\ tr[b].answer = "none"
                 THEN [tr[b] EXCEPT !.answer = "ambiguous"] ELSE tr[b]
    BY Zenon DEF EndWorkspace
  <2> QED
    BY <2>1, <2>2, RecordTypes
<1>5. tr' \in [Attachment -> Change]
  BY <1>3, <1>4, RecordTypes, Zenon DEF EndWorkspace
<1> QED
  BY <1>1, <1>2, <1>3, <1>4, <1>5, Zenon DEF Ended

\* Channels: a directive is added at the end and taken from the front, and a
\* sender that gives up leaves its Demote behind without an address.
LEMMA ChannelEffect ==
    ASSUME NEW q \in Seq(ControlDirective), NEW d \in ControlDirective
    PROVE  /\ DOMAIN q = 1..Len(q) /\ Len(q) \in Nat /\ (q = <<>> <=> Len(q) = 0)
           /\ \A i \in DOMAIN q : q[i] \in ControlDirective
           /\ Append(q, d) \in Seq(ControlDirective) /\ Len(Append(q, d)) = Len(q) + 1
           /\ DOMAIN Append(q, d) = 1..(Len(q) + 1)
           /\ \A i \in DOMAIN q : Append(q, d)[i] = q[i]
           /\ Append(q, d)[Len(q) + 1] = d
           /\ q # <<>> => /\ Head(q) = q[1] /\ 1 \in DOMAIN q /\ Len(Tail(q)) = Len(q) - 1
                          /\ Tail(q) \in Seq(ControlDirective) /\ DOMAIN Tail(q) = 1..(Len(q) - 1)
                          /\ \A i \in DOMAIN Tail(q) : i + 1 \in DOMAIN q /\ Tail(q)[i] = q[i + 1]
<1>1. DOMAIN q = 1..Len(q) /\ Len(q) \in Nat /\ (q = <<>> <=> Len(q) = 0)
  BY SeqShape, SeqEmpty, Zenon
<1>2. \A i \in DOMAIN q : q[i] \in ControlDirective
  BY <1>1, SeqElement, Zenon
<1>3. /\ Append(q, d) \in Seq(ControlDirective) /\ Len(Append(q, d)) = Len(q) + 1
      /\ DOMAIN Append(q, d) = 1..(Len(q) + 1)
      /\ \A i \in DOMAIN q : Append(q, d)[i] = q[i]
      /\ Append(q, d)[Len(q) + 1] = d
  BY <1>1, SeqAppend
<1>4. ASSUME q # <<>>
      PROVE  /\ Head(q) = q[1] /\ 1 \in DOMAIN q /\ Len(Tail(q)) = Len(q) - 1
             /\ Tail(q) \in Seq(ControlDirective) /\ DOMAIN Tail(q) = 1..(Len(q) - 1)
             /\ \A i \in DOMAIN Tail(q) : i + 1 \in DOMAIN q /\ Tail(q)[i] = q[i + 1]
  <2>1. /\ Head(q) = q[1] /\ Len(Tail(q)) = Len(q) - 1 /\ Tail(q) \in Seq(ControlDirective)
        /\ \A i \in 1..Len(Tail(q)) : Tail(q)[i] = q[i + 1]
    BY <1>4, SeqTail
  <2>2. DOMAIN Tail(q) = 1..Len(Tail(q))
    BY <2>1, SeqShape, Zenon
  <2> QED
    BY <1>1, <1>4, <2>1, <2>2
<1> QED
  BY <1>1, <1>2, <1>3, <1>4, Zenon

Abandon(q, b) == [i \in DOMAIN q |-> IF q[i] = Demote(b) THEN Demote(None) ELSE q[i]]

\* A channel keeps its length when a sender gives up.
LEMMA AbandonEffect ==
    ASSUME NEW q \in Seq(ControlDirective), NEW b \in Attachment
    PROVE  /\ Abandon(q, b) \in Seq(ControlDirective) /\ Len(Abandon(q, b)) = Len(q)
           /\ DOMAIN Abandon(q, b) = DOMAIN q
<1>1. DOMAIN q = 1..Len(q) /\ Len(q) \in Nat
  BY SeqShape, Zenon
<1>2. \A i \in 1..Len(q) : q[i] \in ControlDirective
  BY SeqElement, Zenon
<1>3. Abandon(q, b) \in [1..Len(q) -> ControlDirective]
  BY <1>1, <1>2, RecordTypes, Zenon DEF Abandon
<1>4. Abandon(q, b) \in Seq(ControlDirective)
  BY <1>1, <1>3, SeqOf DEF Abandon
<1>5. DOMAIN Abandon(q, b) = 1..Len(q)
  BY <1>3, Zenon
<1> QED
  BY <1>1, <1>4, <1>5, SeqShape

\* The locals of a writer change: it begins, is answered, or fails.
Begun(a, v, f) ==
    /\ tr' \in [Attachment -> Change] /\ \A b \in Attachment \ {a} : tr'[b] = tr[b]
    /\ tr'[a].victim = v /\ tr'[a].from = f /\ tr'[a].answer = "none"

Updated(a) ==
    /\ tr' \in [Attachment -> Change] /\ \A b \in Attachment \ {a} : tr'[b] = tr[b]
    /\ tr'[a].victim = tr[a].victim /\ tr'[a].from = tr[a].from

Dropped(a) ==
    /\ tr' \in [Attachment -> Change] /\ \A b \in Attachment \ {a} : tr'[b] = tr[b]
    /\ tr'[a] = NoChange

\* What the assignments to a change's locals do.
LEMMA ChangeEffect ==
    ASSUME tr \in [Attachment -> Change], NEW a \in Attachment
    PROVE  /\ \A v \in Attachment \cup {None}, f \in {"choosing", "loop"} :
                tr' = [tr EXCEPT ![a] = [NoChange EXCEPT !.victim = v, !.from = f]]
                => Begun(a, v, f)
           /\ \A f \in {"choosing", "loop"} :
                tr' = [tr EXCEPT ![a] = [NoChange EXCEPT !.from = f]] => Begun(a, None, f)
           /\ \A v \in Attachment \cup {None}, f \in {"choosing", "loop"} :
                tr' = [tr EXCEPT ![a] = [[NoChange EXCEPT !.from = f] EXCEPT !.victim = v]]
                => Begun(a, v, f)
           /\ tr' = [tr EXCEPT ![a] = NoChange] => Dropped(a)
           /\ \A o \in Outcome : tr' = [tr EXCEPT ![a].answer = o] =>
                Updated(a) /\ tr'[a].answer = o /\ tr'[a].then = tr[a].then
           /\ \A p \in {"choosing", "toChooser", "toLeave", "leaving"} : Fail(a, p) =>
                Updated(a) /\ tr'[a].answer = tr[a].answer /\ tr'[a].then = p
<1>1. ASSUME NEW v \in Attachment \cup {None}, NEW f \in {"choosing", "loop"},
             tr' = [tr EXCEPT ![a] = [NoChange EXCEPT !.victim = v, !.from = f]]
      PROVE  Begun(a, v, f)
  <2>1. /\ [NoChange EXCEPT !.victim = v, !.from = f] \in Change
        /\ [NoChange EXCEPT !.victim = v, !.from = f].victim = v
        /\ [NoChange EXCEPT !.victim = v, !.from = f].from = f
        /\ [NoChange EXCEPT !.victim = v, !.from = f].answer = "none"
    BY Zenon DEF NoChange, Change
  <2> QED
    BY <1>1, <2>1, Zenon DEF Begun
<1>2. ASSUME NEW f \in {"choosing", "loop"},
             tr' = [tr EXCEPT ![a] = [NoChange EXCEPT !.from = f]]
      PROVE  Begun(a, None, f)
  <2>1. /\ [NoChange EXCEPT !.from = f] \in Change
        /\ [NoChange EXCEPT !.from = f].victim = None
        /\ [NoChange EXCEPT !.from = f].from = f
        /\ [NoChange EXCEPT !.from = f].answer = "none"
    BY Zenon DEF NoChange, Change
  <2> QED
    BY <1>2, <2>1, Zenon DEF Begun
<1>3. ASSUME NEW o \in Outcome, tr' = [tr EXCEPT ![a].answer = o]
      PROVE  Updated(a) /\ tr'[a].answer = o /\ tr'[a].then = tr[a].then
  <2>1. tr' = [tr EXCEPT ![a] = [tr[a] EXCEPT !.answer = o]]
    BY <1>3, Zenon
  <2> QED
    BY <2>1, RecordTypes DEF Updated
<1>4. ASSUME NEW p \in {"choosing", "toChooser", "toLeave", "leaving"}, Fail(a, p)
      PROVE  Updated(a) /\ tr'[a].answer = tr[a].answer /\ tr'[a].then = p
  <2> DEFINE t == [tr[a] EXCEPT !.then = p]
  <2>1. tr' = [tr EXCEPT ![a] = t]
    BY <1>4, Zenon DEF Fail
  <2>2. tr[a] \in Change
    OBVIOUS
  <2>3. /\ t \in Change /\ t.victim = tr[a].victim /\ t.from = tr[a].from
        /\ t.answer = tr[a].answer /\ t.then = p
    BY <2>2, Zenon DEF Change
  <2> HIDE DEF t
  <2> QED
    BY <2>1, <2>3, Zenon DEF Updated
<1>5. ASSUME NEW v \in Attachment \cup {None}, NEW f \in {"choosing", "loop"},
             tr' = [tr EXCEPT ![a] = [[NoChange EXCEPT !.from = f] EXCEPT !.victim = v]]
      PROVE  Begun(a, v, f)
  <2>1. [[NoChange EXCEPT !.from = f] EXCEPT !.victim = v]
          = [NoChange EXCEPT !.victim = v, !.from = f]
    BY Zenon DEF NoChange
  <2> QED
    BY <1>1, <1>5, <2>1, Zenon
<1>6. ASSUME tr' = [tr EXCEPT ![a] = NoChange] PROVE Dropped(a)
  BY <1>6, RecordTypes DEF Dropped
<1> QED
  BY <1>1, <1>2, <1>3, <1>4, <1>5, <1>6, Zenon

-----------------------------------------------------------------------------
(* Types.                                                                  *)

SameShape ==
    scopes' \in Seq(Scope) /\ Len(scopes') = Len(scopes) /\ dirty' \in SUBSET Attachment

LocalTypes ==
    /\ pc \in [Attachment -> Phase] /\ mode \in [Attachment -> {"none", "ro", "rw"}]
    /\ inbox \in [Attachment -> Seq(ControlDirective)]
    /\ \A a \in Attachment : Len(inbox[a]) <= Capacity
    /\ tr \in [Attachment -> Change]

\* What an attachment has of a route and a scope in each phase.
LEMMA HasScope ==
    ASSUME IInv, NEW a \in Attachment
    PROVE  /\ TypeOK /\ LocalTypes
           /\ pc[a] # "off" => rt[a] > 0
           /\ pc[a] \in Scoped => sc[a] > 0 /\ sc[a] \in 1..Len(scopes)
           /\ up => cur > 0
  BY DEF IInv, PhaseInv, TypeOK, LocalTypes

\* A step on the same routes and scopes keeps the types when it keeps those of
\* the pointers and of the attachments' own state.
LEMMA TypeFrom ==
    ASSUME TypeOK, SameShape, LocalTypes', UNCHANGED <<route, rt, sc>>
    PROVE  TypeOK'
  BY Zenon DEF TypeOK, SameShape, LocalTypes, route

-----------------------------------------------------------------------------
(* Directives.                                                             *)

Boxes ==
    /\ inbox \in [Attachment -> Seq(ControlDirective)]
    /\ \A a \in Attachment : Len(inbox[a]) <= Capacity

OnlyBox(v) == \A a \in Attachment \ {v} : inbox'[a] = inbox[a]

\* demote_writer puts one directive into the former writer's channel.
LEMMA SendEffect ==
    ASSUME IInv, NEW b \in Attachment, SendDemote(b)
    PROVE  \E v \in Attachment \ {b} :
             /\ v = tr[b].victim /\ InWorkspace(v)
             /\ Boxes' /\ OnlyBox(v) /\ inbox'[v] = Append(inbox[v], Demote(b))
<1>1. LocalTypes /\ tr[b].victim \in Attachment \ {b}
  BY HasScope, RecordTypes DEF SendDemote, IInv, ChangeInv, LocalTypes
<1>2. PICK v \in Attachment \ {b} : v = tr[b].victim
  BY <1>1, Zenon
<1>3. /\ inbox' = [inbox EXCEPT ![v] = Append(inbox[v], Demote(b))]
      /\ InWorkspace(v) /\ Len(inbox[v]) < Capacity
  BY <1>1, <1>2, Zenon DEF SendDemote, LocalTypes
<1>4. Append(inbox[v], Demote(b)) \in Seq(ControlDirective)
      /\ Len(Append(inbox[v], Demote(b))) = Len(inbox[v]) + 1 /\ Len(inbox[v]) \in Nat
  <2>1. inbox[v] \in Seq(ControlDirective) /\ Demote(b) \in ControlDirective
    BY <1>1, RecordTypes, Zenon DEF LocalTypes
  <2> QED
    BY <2>1, ChannelEffect, Zenon
<1>5. Boxes'
  BY <1>1, <1>3, <1>4 DEF Boxes, LocalTypes
<1> QED
  BY <1>1, <1>2, <1>3, <1>5, Zenon DEF OnlyBox, LocalTypes

\* A demotion that times out or meets a closed channel takes its address away.
LEMMA GiveUpEffect ==
    ASSUME IInv, NEW b \in Attachment, DemoteFails(b)
    PROVE  \E v \in Attachment \ {b} :
             /\ v = tr[b].victim
             /\ Boxes' /\ OnlyBox(v) /\ inbox'[v] = Abandon(inbox[v], b)
             /\ Updated(b) /\ tr'[b].answer = "ambiguous" /\ tr'[b].then = tr[b].then
<1>1. LocalTypes /\ tr[b].victim \in Attachment \ {b}
  BY HasScope, RecordTypes DEF DemoteFails, IInv, ChangeInv, LocalTypes
<1>2. PICK v \in Attachment \ {b} : v = tr[b].victim
  BY <1>1, Zenon
<1>3. inbox' = [inbox EXCEPT ![v] = Abandon(inbox[v], b)]
  BY <1>1, <1>2, Zenon DEF DemoteFails, LocalTypes, Abandon
<1>4. Abandon(inbox[v], b) \in Seq(ControlDirective) /\ Len(Abandon(inbox[v], b)) = Len(inbox[v])
  <2>1. inbox[v] \in Seq(ControlDirective)
    BY <1>1, Zenon DEF LocalTypes
  <2> QED
    BY <2>1, AbandonEffect, Zenon
<1>5. Boxes'
  BY <1>1, <1>3, <1>4, Zenon DEF Boxes, LocalTypes
<1>6. Updated(b) /\ tr'[b].answer = "ambiguous" /\ tr'[b].then = tr[b].then
  <2>1. tr' = [tr EXCEPT ![b].answer = "ambiguous"] /\ "ambiguous" \in Outcome
    BY Zenon DEF DemoteFails, Outcome
  <2>2. tr \in [Attachment -> Change]
    BY <1>1, Zenon DEF LocalTypes
  <2> QED
    BY <2>1, <2>2, ChangeEffect, Zenon
<1> QED
  BY <1>1, <1>2, <1>3, <1>5, <1>6, Zenon DEF OnlyBox, LocalTypes

\* A directive is addressed by nobody or by an attachment that waits for it.
LEMMA AddressOf ==
    ASSUME IInv, NEW a \in Attachment, NEW i \in DOMAIN inbox[a], inbox[a][i].kind = "demote",
           inbox[a][i].from # None
    PROVE  /\ inbox[a][i].from \in Attachment \ {a}
           /\ pc[inbox[a][i].from] = "awaiting" /\ sc[inbox[a][i].from] = sc[a]
           /\ tr[inbox[a][i].from].victim = a /\ tr[inbox[a][i].from].answer = "none"
<1>1. inbox[a] \in Seq(ControlDirective)
  BY HasScope, Zenon DEF LocalTypes
<1>2. inbox[a][i].from \in Attachment
  BY <1>1, ChannelEffect, RecordTypes, Zenon
<1>3. DemoteInv(a) /\ tr[inbox[a][i].from].victim # inbox[a][i].from
  BY <1>2, Zenon DEF IInv, ChangeInv
<1>4. /\ pc[inbox[a][i].from] = "awaiting" /\ sc[inbox[a][i].from] = sc[a]
      /\ tr[inbox[a][i].from].victim = a /\ tr[inbox[a][i].from].answer = "none"
  BY <1>3, Zenon DEF DemoteInv, Explained
<1> QED
  BY <1>2, <1>3, <1>4, Zenon

\* The former writer takes a directive: it is read-only and says so, or its
\* workspace ends.
LEMMA TakeEffect ==
    ASSUME IInv, NEW a \in Attachment, Directive(a)
    PROVE  \/ /\ inbox[a][1].kind = "demote"
              /\ mode' = [mode EXCEPT ![a] = "ro"]
              /\ Boxes' /\ OnlyBox(a) /\ inbox'[a] = Tail(inbox[a])
              /\ pc' = pc
              /\ \/ inbox[a][1].from = None /\ tr' = tr
                 \/ \E b \in Attachment \ {a} :
                      /\ b = inbox[a][1].from
                      /\ Updated(b) /\ tr'[b].answer = "succeeded" /\ tr'[b].then = tr[b].then
           \/ \E b \in Attachment \ {a} :
                /\ inbox[a][1].kind = "demote" /\ b = inbox[a][1].from
                /\ Updated(b) /\ tr'[b].answer \in {"failed", "ambiguous"}
                /\ tr'[b].then = tr[b].then
                /\ pc' = [pc EXCEPT ![a] = "toChooser"]
                /\ mode' = [mode EXCEPT ![a] = "none"]
                /\ Boxes' /\ OnlyBox(a) /\ inbox'[a] = <<>>
           \/ Ended(a, "toChooser")
<1>1. LocalTypes /\ TypeOK
  BY HasScope, Zenon
<1>2. inbox[a] \in Seq(ControlDirective) /\ inbox[a] # <<>> /\ tr \in [Attachment -> Change]
  BY <1>1, Zenon DEF LocalTypes, Directive
<1>3. /\ Head(inbox[a]) = inbox[a][1] /\ 1 \in DOMAIN inbox[a]
      /\ inbox[a][1] \in ControlDirective /\ Len(Tail(inbox[a])) = Len(inbox[a]) - 1
      /\ Tail(inbox[a]) \in Seq(ControlDirective) /\ Len(inbox[a]) \in Nat
  BY <1>2, ChannelEffect
<1>4. inbox[a][1].from # None /\ inbox[a][1].kind = "demote" =>
         inbox[a][1].from \in Attachment \ {a}
  BY <1>3, AddressOf, Zenon
<1>5. ASSUME NEW b \in Attachment, NEW o \in Outcome, tr' = Answer(b, o)
      PROVE  Updated(b) /\ tr'[b].answer = o /\ tr'[b].then = tr[b].then
  BY <1>2, <1>5, ChangeEffect, Zenon DEF Answer
<1>6. CASE /\ inbox[a][1].kind = "demote"
           /\ mode' = [mode EXCEPT ![a] = "ro"]
           /\ inbox' = [inbox EXCEPT ![a] = Tail(@)]
           /\ tr' = Answer(inbox[a][1].from, "succeeded")
           /\ UNCHANGED pc
  <2>1. Boxes' /\ OnlyBox(a) /\ inbox'[a] = Tail(inbox[a])
    BY <1>1, <1>3, <1>6 DEF Boxes, OnlyBox, LocalTypes
  <2>2. CASE inbox[a][1].from = None
    BY <1>6, <2>1, <2>2, Zenon DEF Answer
  <2>3. CASE inbox[a][1].from # None
    BY <1>4, <1>5, <1>6, <2>1, <2>3, Zenon DEF Outcome
  <2> QED
    BY <2>2, <2>3, Zenon
<1>7. CASE /\ inbox[a][1].kind = "demote" /\ inbox[a][1].from # None
           /\ \E o \in {"failed", "ambiguous"} : tr' = Answer(inbox[a][1].from, o)
           /\ Goto(a, "toChooser")
           /\ mode' = [mode EXCEPT ![a] = "none"] /\ inbox' = [inbox EXCEPT ![a] = <<>>]
  <2>1. Boxes' /\ OnlyBox(a) /\ inbox'[a] = <<>>
    BY <1>1, <1>7, SeqEmpty DEF Boxes, OnlyBox, LocalTypes
  <2> QED
    BY <1>4, <1>5, <1>7, <2>1, Zenon DEF Outcome, Goto
<1>8. CASE EndWorkspace(a, "toChooser")
  BY <1>1, <1>8, EndEffect, Zenon DEF Phase
<1> QED
  BY <1>3, <1>6, <1>7, <1>8, Zenon DEF Directive

\* The failed change tells a running workspace of the former writer to close,
\* and ends its own if it came from one.
LEMMA CloseEffect ==
    ASSUME IInv, NEW b \in Attachment, CloseOld(b)
    PROVE  /\ Boxes' /\ tr' \in [Attachment -> Change] /\ tr' = [tr EXCEPT ![b] = NoChange]
           /\ tr[b].victim # b
           /\ \A a \in Attachment \ {b} :
                inbox'[a] = IF a = tr[b].victim /\ InWorkspace(a)
                            THEN Append(inbox[a], Close) ELSE inbox[a]
           /\ inbox'[b] = IF tr[b].from = "loop" THEN <<>> ELSE inbox[b]
<1>1. LocalTypes /\ tr[b].victim # b /\ tr[b].victim \in Attachment \cup {None}
  BY HasScope, RecordTypes DEF IInv, ChangeInv, LocalTypes
<1>2. tr' \in [Attachment -> Change] /\ tr' = [tr EXCEPT ![b] = NoChange]
  BY <1>1, RecordTypes, Zenon DEF CloseOld, LocalTypes
<1> DEFINE told == tr[b].victim # None /\ InWorkspace(tr[b].victim)
           box == IF told THEN [inbox EXCEPT ![tr[b].victim] = Append(@, Close)] ELSE inbox
<1>3. /\ inbox' = IF tr[b].from = "loop" THEN [box EXCEPT ![b] = <<>>] ELSE box
      /\ told => Len(inbox[tr[b].victim]) < Capacity
  BY Zenon DEF CloseOld
<1>4. /\ box \in [Attachment -> Seq(ControlDirective)]
      /\ \A a \in Attachment : Len(box[a]) <= Capacity
      /\ \A a \in Attachment : box[a] = IF a = tr[b].victim /\ InWorkspace(a)
                                        THEN Append(inbox[a], Close) ELSE inbox[a]
  <2>1. CASE told
    <3>1. PICK v \in Attachment : v = tr[b].victim
      BY <1>1, <2>1, Zenon
    <3>2. /\ Append(inbox[v], Close) \in Seq(ControlDirective) /\ Len(inbox[v]) \in Nat
          /\ Len(Append(inbox[v], Close)) = Len(inbox[v]) + 1
      <4>1. inbox[v] \in Seq(ControlDirective) /\ Close \in ControlDirective
        BY <1>1, RecordTypes, Zenon DEF LocalTypes
      <4> QED
        BY <4>1, ChannelEffect, Zenon
    <3>3. box = [inbox EXCEPT ![v] = Append(inbox[v], Close)] /\ Len(inbox[v]) < Capacity
      BY <1>3, <2>1, <3>1, Zenon
    <3> QED
      BY <1>1, <2>1, <3>1, <3>2, <3>3 DEF LocalTypes
  <2>2. CASE ~told
    BY <1>1, <2>2, NoneAssumption, Zenon DEF LocalTypes
  <2> QED
    BY <2>1, <2>2, Zenon
<1> HIDE DEF box, told
<1>5. Boxes'
  <2>1. <<>> \in Seq(ControlDirective) /\ Len(<<>>) = 0
    BY SeqEmpty, Zenon
  <2> QED
    BY <1>3, <1>4, <2>1 DEF Boxes
<1> QED
  BY <1>1, <1>2, <1>3, <1>4, <1>5, Zenon

\* A pointer names an attachment or nobody.
LEMMA WriterType ==
    ASSUME IInv, NEW a \in Attachment, pc[a] \in Scoped
    PROVE  /\ sc[a] \in 1..Len(scopes)
           /\ Writer(a) \in Attachment \cup {None} /\ scopes[sc[a]].ctl \in BOOLEAN
<1>1. scopes \in Seq(Scope) /\ sc[a] \in 1..Len(scopes)
  BY HasScope, Zenon DEF TypeOK
<1>2. scopes[sc[a]] \in Scope
  BY <1>1, SeqElement, Zenon
<1> QED
  BY <1>1, <1>2, RecordTypes, Zenon DEF Writer

\* clear_control keeps the attachment of the pointer.
LEMMA DropControl ==
    ASSUME TypeOK, NEW a \in Attachment, sc[a] > 0,
           scopes' = [scopes EXCEPT ![sc[a]].ctl = FALSE]
    PROVE  Moved(sc[a], Writer(a), FALSE)
<1> DEFINE r == [scopes[sc[a]] EXCEPT !.ctl = FALSE]
<1>1. sc[a] \in 1..Len(scopes) /\ scopes \in Seq(Scope)
  BY DEF TypeOK
<1>2. scopes[sc[a]] \in Scope /\ DOMAIN scopes = 1..Len(scopes)
  BY <1>1, SeqElement, SeqShape, Zenon
<1>3. r \in Scope /\ r.att = Writer(a) /\ r.ctl = FALSE
  BY <1>2, Zenon DEF Scope, Writer
<1>4. scopes' = [scopes EXCEPT ![sc[a]] = r]
  OBVIOUS
<1> HIDE DEF r
<1>5. scopes' \in Seq(Scope) /\ Len(scopes') = Len(scopes)
  BY <1>1, <1>3, <1>4, SeqExcept
<1> QED
  BY <1>1, <1>2, <1>3, <1>4, <1>5, Zenon DEF Moved

\* Every step keeps the types of the variables.
LEMMA TypeStep ==
    ASSUME IInv, Next
    PROVE  TypeOK'
<1> USE DEF Phase, Transition, Scoped
<1>t. TypeOK /\ LocalTypes /\ scopes \in Seq(Scope) /\ dirty \in SUBSET Attachment
  BY Zenon DEF IInv, TypeOK, LocalTypes
<1>p. \A b \in Attachment : (pc[b] # "off" => rt[b] > 0) /\ (pc[b] \in Scoped => sc[b] > 0)
  BY Zenon DEF IInv, PhaseInv
<1>w. \A b \in Attachment : pc[b] \in Scoped => Writer(b) \in Attachment \cup {None}
  BY WriterType, Zenon
<1>1. CASE RouteEnds \/ RouteInstalled
  <2>1. cur' \in 0..MaxRoute /\ up' \in BOOLEAN
    <3>1. cur \in 0..MaxRoute /\ up \in BOOLEAN
      BY <1>t, Zenon DEF TypeOK
    <3>2. cur' \in 0..MaxRoute
      BY <1>1, <3>1 DEF RouteEnds, RouteInstalled
    <3>3. up' \in BOOLEAN
      BY <1>1, Zenon DEF RouteEnds, RouteInstalled
    <3> QED
      BY <3>2, <3>3, Zenon
  <2> QED
    BY <1>t, <1>1, <2>1, Zenon DEF RouteEnds, RouteInstalled, TypeOK
<1>2. ASSUME NEW a \in Attachment, Start(a)
      PROVE  TypeOK'
  BY <1>t, <1>p, <1>w, <1>2, Zenon DEF Start, Goto, TypeOK, LocalTypes, route
<1>3. ASSUME NEW a \in Attachment, Probe(a)
      PROVE  TypeOK'
  <2>1. SameShape
    BY <1>t, <1>p, <1>3, Zenon DEF Probe, Goto, SameShape, TypeOK
  <2>2. LocalTypes'
    BY <1>t, <1>p, <1>3, Zenon DEF Probe, Goto, LocalTypes
  <2> QED
    BY <1>t, <1>3, <2>1, <2>2, TypeFrom, Zenon DEF Probe
<1>4. ASSUME NEW a \in Attachment, Lookup(a)
      PROVE  TypeOK'
  <2> DEFINE new == [route |-> rt[a], att |-> None, ctl |-> FALSE]
  <2>1. /\ scopes' \in Seq(Scope) /\ Len(scopes') <= MaxScope
        /\ Len(scopes) <= Len(scopes') /\ Len(scopes') \in Nat
    <3>1. new \in Scope
      BY <1>t, <1>p, <1>4 DEF Lookup, Scope, TypeOK
    <3>2. Append(scopes, new) \in Seq(Scope) /\ Len(Append(scopes, new)) = Len(scopes) + 1
      BY <1>t, <3>1, SeqAppend, Zenon
    <3>3. Len(scopes) \in Nat /\ Len(scopes) <= MaxScope
      BY <1>t, SeqShape, Zenon DEF TypeOK
    <3> QED
      BY <1>t, <1>4, <3>2, <3>3 DEF Lookup
  <2>2. sc' \in [Attachment -> 0..Len(scopes')]
    BY <1>t, <1>4, <2>1 DEF Lookup, TypeOK
  <2>3. LocalTypes'
    BY <1>t, <1>4, Zenon DEF Lookup, Goto, LocalTypes
  <2> QED
    BY <1>t, <1>4, <2>1, <2>2, <2>3, Zenon DEF Lookup, TypeOK, LocalTypes, route
<1>5. ASSUME NEW a \in Attachment, Choose(a)
      PROVE  TypeOK'
  <2>1. SameShape
    BY <1>t, <1>p, <1>5, Zenon DEF Choose, Goto, SameShape, TypeOK
  <2>2. LocalTypes'
    BY <1>t, <1>p, <1>5, Zenon DEF Choose, Goto, LocalTypes
  <2> QED
    BY <1>t, <1>5, <2>1, <2>2, TypeFrom, Zenon DEF Choose
<1>6. ASSUME NEW a \in Attachment, Create(a)
      PROVE  TypeOK'
  <2>1. SameShape
    BY <1>t, <1>p, <1>6, Zenon DEF Create, Goto, SameShape, TypeOK
  <2>2. LocalTypes'
    BY <1>t, <1>p, <1>6, Zenon DEF Create, Goto, LocalTypes
  <2> QED
    BY <1>t, <1>6, <2>1, <2>2, TypeFrom, Zenon DEF Create
<1>7. ASSUME NEW a \in Attachment, Created(a)
      PROVE  TypeOK'
  <2>1. SameShape
    BY <1>t, <1>p, <1>7, PointEffect, Zenon DEF Created, Goto, KeepPointer, SameShape, Moved
  <2>2. LocalTypes'
    BY <1>t, <1>p, <1>7, Zenon DEF Created, Goto, KeepPointer, LocalTypes
  <2> QED
    BY <1>t, <1>7, <2>1, <2>2, TypeFrom, Zenon DEF Created
<1>8. ASSUME NEW a \in Attachment, NEW takeover \in BOOLEAN, ChooserClaim(a, takeover)
      PROVE  TypeOK'
  <2>1. SameShape
    BY <1>t, <1>p, <1>8, PointEffect, Zenon DEF ChooserClaim, Goto, Stay, KeepPointer,
       MustDemote, SameShape, Moved
  <2>2. LocalTypes'
    <3>1. tr' \in [Attachment -> Change]
      BY <1>t, <1>p, <1>w, <1>8, ChangeEffect, Zenon DEF ChooserClaim, Stay, LocalTypes, Begun
    <3> QED
      BY <1>t, <1>8, <3>1, Zenon DEF ChooserClaim, Stay, Goto, LocalTypes
  <2> QED
    BY <1>t, <1>8, <2>1, <2>2, TypeFrom, Zenon DEF ChooserClaim
<1>9. ASSUME NEW a \in Attachment, StartControl(a)
      PROVE  TypeOK'
  <2>1. SameShape
    BY <1>t, <1>p, <1>9, Zenon DEF StartControl, Goto, SameShape, TypeOK
  <2>2. LocalTypes'
    BY <1>t, <1>p, <1>9, Zenon DEF StartControl, Goto, LocalTypes
  <2> QED
    BY <1>t, <1>9, <2>1, <2>2, TypeFrom, Zenon DEF StartControl
<1>10. ASSUME NEW a \in Attachment, Enter(a)
      PROVE  TypeOK'
  <2>1. SameShape
    BY <1>t, <1>p, <1>10, PointEffect, Zenon DEF Enter, Goto, Stay, KeepPointer, SameShape,
       Moved
  <2>2. LocalTypes'
    BY <1>t, <1>p, <1>10, EndEffect, Zenon DEF Enter, Goto, Stay, KeepPointer, LocalTypes,
       Ended
  <2> QED
    BY <1>t, <1>10, <2>1, <2>2, TypeFrom, Zenon DEF Enter
<1>11. ASSUME NEW a \in Attachment, Entered(a)
      PROVE  TypeOK'
  <2>1. SameShape
    BY <1>t, <1>p, <1>11, PointEffect, Zenon DEF Entered, Goto, KeepPointer, Stay, SameShape,
       Moved
  <2>2. LocalTypes'
    BY <1>t, <1>p, <1>11, EndEffect, Zenon DEF Entered, Goto, KeepPointer, Stay, LocalTypes,
       Ended
  <2> QED
    BY <1>t, <1>11, <2>1, <2>2, TypeFrom, Zenon DEF Entered
<1>12. ASSUME NEW a \in Attachment, SeeChange(a)
      PROVE  TypeOK'
  <2>1. SameShape
    BY <1>t, <1>p, <1>12, Zenon DEF SeeChange, Goto, SameShape, TypeOK
  <2>2. LocalTypes'
    BY <1>t, <1>p, <1>12, Zenon DEF SeeChange, Goto, LocalTypes
  <2> QED
    BY <1>t, <1>12, <2>1, <2>2, TypeFrom, Zenon DEF SeeChange
<1>13. ASSUME NEW a \in Attachment, View(a)
      PROVE  TypeOK'
  <2>1. SameShape
    BY <1>t, <1>p, <1>13, Zenon DEF View, Goto, Stay, SameShape, TypeOK
  <2>2. LocalTypes'
    BY <1>t, <1>p, <1>13, EndEffect, Zenon DEF View, Goto, Stay, LocalTypes, Ended
  <2> QED
    BY <1>t, <1>13, <2>1, <2>2, TypeFrom, Zenon DEF View
<1>14. ASSUME NEW a \in Attachment, Leave(a)
      PROVE  TypeOK'
  <2>1. SameShape
    BY <1>t, <1>p, <1>14, Zenon DEF Leave, Goto, SameShape, TypeOK
  <2>2. LocalTypes'
    BY <1>t, <1>p, <1>14, EndEffect, Zenon DEF Leave, Goto, LocalTypes, Ended
  <2> QED
    BY <1>t, <1>14, <2>1, <2>2, TypeFrom, Zenon DEF Leave
<1>15. ASSUME NEW a \in Attachment, Mutate(a)
      PROVE  TypeOK'
  <2>1. SameShape
    BY <1>t, <1>p, <1>15, Zenon DEF Mutate, Goto, Stay, SameShape, TypeOK
  <2>2. LocalTypes'
    BY <1>t, <1>p, <1>15, EndEffect, Zenon DEF Mutate, Goto, Stay, LocalTypes, Ended
  <2> QED
    BY <1>t, <1>15, <2>1, <2>2, TypeFrom, Zenon DEF Mutate
<1>16. ASSUME NEW a \in Attachment, Mutated(a)
      PROVE  TypeOK'
  <2>1. SameShape
    BY <1>t, <1>p, <1>16, PointEffect, Zenon DEF Mutated, Goto, KeepPointer, Stay, SameShape,
       Moved
  <2>2. LocalTypes'
    BY <1>t, <1>p, <1>16, EndEffect, Zenon DEF Mutated, Goto, KeepPointer, Stay, LocalTypes,
       Ended
  <2> QED
    BY <1>t, <1>16, <2>1, <2>2, TypeFrom, Zenon DEF Mutated
<1>17. ASSUME NEW a \in Attachment, Refresh(a)
      PROVE  TypeOK'
  <2>1. SameShape
    BY <1>t, <1>p, <1>17, Zenon DEF Refresh, Goto, SameShape, TypeOK
  <2>2. LocalTypes'
    BY <1>t, <1>p, <1>17, Zenon DEF Refresh, Goto, LocalTypes
  <2> QED
    BY <1>t, <1>17, <2>1, <2>2, TypeFrom, Zenon DEF Refresh
<1>18. ASSUME NEW a \in Attachment, Refreshed(a)
      PROVE  TypeOK'
  <2>1. SameShape
    BY <1>t, <1>p, <1>18, Zenon DEF Refreshed, Goto, Stay, SameShape, TypeOK
  <2>2. LocalTypes'
    BY <1>t, <1>p, <1>18, EndEffect, Zenon DEF Refreshed, Goto, Stay, LocalTypes, Ended
  <2> QED
    BY <1>t, <1>18, <2>1, <2>2, TypeFrom, Zenon DEF Refreshed
<1>19. ASSUME NEW a \in Attachment, Directive(a)
      PROVE  TypeOK'
  <2>1. SameShape
    BY <1>t, <1>p, <1>19, Zenon DEF Directive, Goto, Answer, SameShape, TypeOK
  <2>2. LocalTypes'
    BY <1>t, <1>19, TakeEffect, Zenon DEF LocalTypes, Boxes, Ended, Updated
  <2> QED
    BY <1>t, <1>19, <2>1, <2>2, TypeFrom, Zenon DEF Directive
<1>20. ASSUME NEW a \in Attachment, NEW takeover \in BOOLEAN, WorkspaceClaim(a, takeover)
      PROVE  TypeOK'
  <2>1. SameShape
    BY <1>t, <1>p, <1>20, PointEffect, Zenon DEF WorkspaceClaim, Goto, Stay, KeepPointer,
       MustDemote, SameShape, Moved
  <2>2. LocalTypes'
    <3>1. CASE EndWorkspace(a, "toLeave")
      BY <1>t, <3>1, EndEffect, Zenon DEF Ended, LocalTypes
    <3>2. CASE ~EndWorkspace(a, "toLeave")
      <4>1. tr' \in [Attachment -> Change]
        BY <1>t, <1>p, <1>w, <1>20, <3>2, ChangeEffect, Zenon DEF WorkspaceClaim, LocalTypes,
           Begun
      <4> QED
        BY <1>t, <1>20, <3>2, <4>1, Zenon DEF WorkspaceClaim, Goto, LocalTypes
    <3> QED
      BY <3>1, <3>2, Zenon
  <2> QED
    BY <1>t, <1>20, <2>1, <2>2, TypeFrom, Zenon DEF WorkspaceClaim
<1>21. ASSUME NEW a \in Attachment, SendDemote(a)
      PROVE  TypeOK'
  <2>1. SameShape
    BY <1>t, <1>p, <1>21, Zenon DEF SendDemote, Goto, SameShape, TypeOK
  <2>2. LocalTypes'
    BY <1>t, <1>21, SendEffect, Zenon DEF SendDemote, Goto, LocalTypes, Boxes
  <2> QED
    BY <1>t, <1>21, <2>1, <2>2, TypeFrom, Zenon DEF SendDemote
<1>22. ASSUME NEW a \in Attachment, DemoteFails(a)
      PROVE  TypeOK'
  <2>1. SameShape
    BY <1>t, <1>p, <1>22, Zenon DEF DemoteFails, Goto, SameShape, TypeOK
  <2>2. LocalTypes'
    BY <1>t, <1>22, GiveUpEffect, Zenon DEF DemoteFails, Goto, LocalTypes, Boxes, Updated
  <2> QED
    BY <1>t, <1>22, <2>1, <2>2, TypeFrom, Zenon DEF DemoteFails
<1>23. ASSUME NEW a \in Attachment, AfterDemotion(a)
      PROVE  TypeOK'
  <2>1. SameShape
    BY <1>t, <1>p, <1>23, PointEffect, Zenon DEF AfterDemotion, Goto, Stay, KeepPointer, Fail,
       SameShape, Moved
  <2>2. LocalTypes'
    <3>1. tr' \in [Attachment -> Change]
      BY <1>t, <1>23, ChangeEffect, Zenon DEF AfterDemotion, Stay, LocalTypes, Updated,
         Dropped
    <3> QED
      BY <1>t, <1>23, <3>1, Zenon DEF AfterDemotion, Stay, Goto, Fail, LocalTypes
  <2> QED
    BY <1>t, <1>23, <2>1, <2>2, TypeFrom, Zenon DEF AfterDemotion
<1>24. ASSUME NEW a \in Attachment, Promote(a)
      PROVE  TypeOK'
  <2>1. SameShape
    BY <1>t, <1>p, <1>24, PointEffect, Zenon DEF Promote, Goto, Fail, SameShape, Moved
  <2>2. LocalTypes'
    <3>1. tr' \in [Attachment -> Change]
      BY <1>t, <1>24, ChangeEffect, Zenon DEF Promote, LocalTypes, Updated
    <3> QED
      BY <1>t, <1>24, <3>1, Zenon DEF Promote, Goto, Fail, LocalTypes
  <2> QED
    BY <1>t, <1>24, <2>1, <2>2, TypeFrom, Zenon DEF Promote
<1>25. ASSUME NEW a \in Attachment, Resized(a)
      PROVE  TypeOK'
  <2>1. SameShape
    BY <1>t, <1>p, <1>25, PointEffect, Zenon DEF Resized, Goto, KeepPointer, Fail, SameShape,
       Moved
  <2>2. LocalTypes'
    <3>1. CASE \E p \in {"toChooser", "toLeave"} : EndWorkspace(a, p)
      BY <1>t, <3>1, EndEffect, Zenon DEF Ended, LocalTypes
    <3>2. CASE \A p \in {"toChooser", "toLeave"} : ~EndWorkspace(a, p)
      <4>1. tr' \in [Attachment -> Change]
        BY <1>t, <1>25, <3>2, ChangeEffect, Zenon DEF Resized, LocalTypes, Updated, Dropped
      <4> QED
        BY <1>t, <1>25, <3>2, <4>1, Zenon DEF Resized, Fail, Goto, LocalTypes
    <3> QED
      BY <3>1, <3>2, Zenon
  <2> QED
    BY <1>t, <1>25, <2>1, <2>2, TypeFrom, Zenon DEF Resized
<1>26. ASSUME NEW a \in Attachment, CloseOld(a)
      PROVE  TypeOK'
  <2>1. SameShape
    BY <1>t, <1>p, <1>26, Zenon DEF CloseOld, Goto, SameShape, TypeOK
  <2>2. LocalTypes'
    <3>1. tr[a].then \in Phase
      BY <1>26, Zenon DEF IInv, ChangeInv, CloseOld
    <3>2. Boxes' /\ tr' \in [Attachment -> Change]
      BY <1>26, CloseEffect, Zenon
    <3> QED
      BY <1>t, <1>26, <3>1, <3>2, Zenon DEF CloseOld, Goto, LocalTypes, Boxes
  <2> QED
    BY <1>t, <1>26, <2>1, <2>2, TypeFrom, Zenon DEF CloseOld
<1>27. ASSUME NEW a \in Attachment, Return(a)
      PROVE  TypeOK'
  <2>1. SameShape
    <3>1. CASE UNCHANGED scopes
      BY <1>t, <1>27, <3>1, Zenon DEF Return, SameShape
    <3>2. CASE scopes' = [scopes EXCEPT ![sc[a]].ctl = FALSE]
      BY <1>t, <1>p, <1>27, <3>2, DropControl, Zenon DEF Return, SameShape, Moved
    <3> QED
      BY <1>27, <3>1, <3>2, Zenon DEF Return
  <2>2. LocalTypes'
    BY <1>t, <1>27, Zenon DEF Return, Goto, LocalTypes
  <2> QED
    BY <1>t, <1>27, <2>1, <2>2, TypeFrom, Zenon DEF Return
<1>28. ASSUME NEW a \in Attachment, BeginRelease(a)
      PROVE  TypeOK'
  BY <1>t, <1>p, <1>w, <1>28 DEF BeginRelease, Goto, TypeOK, LocalTypes, route
<1>29. ASSUME NEW a \in Attachment, Release(a)
      PROVE  TypeOK'
  <2>1. SameShape
    BY <1>t, <1>p, <1>29, PointEffect, Zenon DEF Release, Goto, SameShape, Moved
  <2>2. LocalTypes'
    BY <1>t, <1>p, <1>29, Zenon DEF Release, Goto, LocalTypes
  <2> QED
    BY <1>t, <1>29, <2>1, <2>2, TypeFrom, Zenon DEF Release
<1> QED
  BY Zenon, <1>1, <1>2, <1>3, <1>4, <1>5, <1>6, <1>7, <1>8, <1>9, <1>10, <1>11, <1>12, <1>13,
     <1>14, <1>15, <1>16, <1>17, <1>18, <1>19, <1>20, <1>21, <1>22, <1>23, <1>24, <1>25,
     <1>26, <1>27, <1>28, <1>29 DEF Next, ChooserStep, WorkspaceStep, ChangeStep, EndStep

-----------------------------------------------------------------------------
(* The effects of the steps, one by one or a few alike together, in a form *)
(* in which only the phase, the pointer, the client, the channels and the  *)
(* locals of a change are left.                                            *)

Goes(a, p) == pc' = [pc EXCEPT ![a] = p] /\ UNCHANGED <<rt, sc>>
Kept == UNCHANGED scopes
Still == UNCHANGED <<mode, inbox, tr>>
Free(a) == Writer(a) = None \/ (Writer(a) # a /\ ~scopes[sc[a]].ctl)

Exclusive(a) == pc[a] \in Locked \/ ~StateHeld(sc[a])

Opens(a) ==
    /\ pc[a] = "off" /\ pc' = [pc EXCEPT ![a] = "opening"]
    /\ rt' = [rt EXCEPT ![a] = cur] /\ cur > 0
    /\ UNCHANGED sc /\ Kept /\ Still

Outside(a, p) ==
    /\ pc[a] \in {"opening", "choosing", "creating", "starting"}
    /\ p \in {"probed", "opening", "starting", "leaving", "toLeave"}
    /\ p \in Scoped => pc[a] \in Scoped
    /\ Goes(a, p) /\ Kept /\ Still

Inside(a, p) ==
    /\ pc[a] \in {"entering", "viewing", "loop", "mutating", "refreshing"}
    /\ p \in {"viewing", "loop", "refreshing"}
    /\ Goes(a, p) /\ Kept /\ Still

Locks(a, p) ==
    /\ \/ pc[a] = "choosing" /\ p = "creating" /\ Writer(a) = a
       \/ pc[a] = "loop" /\ p = "mutating" /\ Writer(a) = a
       \/ pc[a] = "started" /\ p = "entering" /\ Writer(a) # a
    /\ ~StateHeld(sc[a]) /\ Goes(a, p) /\ Kept /\ Still

Looks(a) ==
    /\ pc[a] = "probed" /\ pc' = [pc EXCEPT ![a] = "choosing"] /\ UNCHANGED rt /\ Still
    /\ sc' = [sc EXCEPT ![a] = Len(scopes')] /\ Len(scopes') \in Nat \ {0}
    /\ \/ Kept
       \/ /\ scopes' \in Seq(Scope) /\ Len(scopes') = Len(scopes) + 1
          /\ \A s \in 1..Len(scopes) : scopes'[s] = scopes[s]
          /\ scopes'[Len(scopes')].att = None /\ scopes'[Len(scopes')].ctl = FALSE

Departs(a) ==
    /\ pc[a] = "leaving" /\ Kept /\ Still /\ UNCHANGED rt
    /\ sc' = [sc EXCEPT ![a] = Len(scopes)]
    /\ \/ scopes = <<>> /\ pc' = [pc EXCEPT ![a] = "gone"]
       \/ Len(scopes) > 0 /\ pc' = [pc EXCEPT ![a] = "releasing"]

Attaches(a) ==
    /\ pc[a] = "starting" /\ Goes(a, "started") /\ Kept
    /\ mode' = [mode EXCEPT ![a] = "ro"] /\ UNCHANGED <<inbox, tr>>

Takes(a) ==
    /\ pc[a] = "choosing" /\ Goes(a, "choosing") /\ ~StateHeld(sc[a]) /\ Free(a)
    /\ Moved(sc[a], a, FALSE) /\ Still

Enters(a) ==
    /\ pc[a] = "started" /\ Goes(a, "entering") /\ ~StateHeld(sc[a]) /\ Writer(a) = a
    /\ Moved(sc[a], a, TRUE) /\ mode' = [mode EXCEPT ![a] = "rw"] /\ UNCHANGED <<inbox, tr>>

Reclaims(a) ==
    /\ pc[a] = "loop" /\ Goes(a, "resizing") /\ ~StateHeld(sc[a]) /\ Writer(a) = a
    /\ Moved(sc[a], a, TRUE) /\ Begun(a, None, "loop") /\ UNCHANGED <<mode, inbox>>

Begins(a, v, p) ==
    /\ pc[a] \in {"choosing", "loop"} /\ Goes(a, p) /\ ~StateHeld(sc[a])
    /\ \/ p = "demoting" /\ v = Writer(a) /\ v \notin {None, a} /\ scopes[sc[a]].ctl
       \/ p = "promoting" /\ v = None /\ Free(a) /\ pc[a] = "loop"
    /\ Kept /\ Begun(a, v, pc[a]) /\ UNCHANGED <<mode, inbox>>

Sends(b, v) ==
    /\ pc[b] = "demoting" /\ Goes(b, "awaiting") /\ Kept /\ UNCHANGED <<mode, tr>>
    /\ v = tr[b].victim /\ v # b /\ InWorkspace(v)
    /\ Boxes' /\ OnlyBox(v) /\ inbox'[v] = Append(inbox[v], Demote(b))

GivesUp(b, v) ==
    /\ \/ pc[b] = "demoting"
       \/ pc[b] = "awaiting" /\ tr[b].answer = "none"
    /\ Goes(b, "awaiting") /\ Kept /\ UNCHANGED mode
    /\ v = tr[b].victim /\ v # b
    /\ Boxes' /\ OnlyBox(v) /\ inbox'[v] = Abandon(inbox[v], b)
    /\ Updated(b) /\ tr'[b].answer = "ambiguous" /\ tr'[b].then = tr[b].then

Hears(a) ==
    /\ pc[a] = "loop" /\ UNCHANGED <<pc, rt, sc>> /\ Kept
    /\ inbox[a] # <<>> /\ inbox[a][1].kind = "demote"
    /\ mode' = [mode EXCEPT ![a] = "ro"]
    /\ Boxes' /\ OnlyBox(a) /\ inbox'[a] = Tail(inbox[a])
    /\ \/ inbox[a][1].from = None /\ tr' = tr
       \/ \E b \in Attachment \ {a} :
            /\ b = inbox[a][1].from
            /\ Updated(b) /\ tr'[b].answer = "succeeded" /\ tr'[b].then = tr[b].then

Dies(a, b) ==
    /\ pc[a] = "loop" /\ Goes(a, "toChooser") /\ Kept
    /\ inbox[a] # <<>> /\ inbox[a][1].kind = "demote"
    /\ b = inbox[a][1].from /\ b # a
    /\ Updated(b) /\ tr'[b].answer \in {"failed", "ambiguous"} /\ tr'[b].then = tr[b].then
    /\ mode' = [mode EXCEPT ![a] = "none"]
    /\ Boxes' /\ OnlyBox(a) /\ inbox'[a] = <<>>

Finishes(a) ==
    /\ pc[a] = "awaiting" /\ tr[a].answer = "succeeded" /\ tr[a].from = "choosing"
    /\ Goes(a, "choosing") /\ Moved(sc[a], a, FALSE) /\ Dropped(a) /\ UNCHANGED <<mode, inbox>>

Proceeds(a) ==
    /\ pc[a] = "awaiting" /\ tr[a].answer = "succeeded" /\ tr[a].from = "loop"
    /\ Goes(a, "promoting") /\ Kept /\ Still

Promotes(a) ==
    /\ pc[a] = "promoting" /\ Goes(a, "resizing") /\ Moved(sc[a], a, TRUE)
    /\ mode' = [mode EXCEPT ![a] = "rw"] /\ UNCHANGED <<inbox, tr>>

Fails(a) ==
    /\ \/ pc[a] = "awaiting" /\ tr[a].answer # "none"
       \/ pc[a] = "promoting"
       \/ pc[a] = "resizing"
    /\ Goes(a, "failing") /\ Moved(sc[a], None, FALSE) /\ UNCHANGED <<mode, inbox>>
    /\ Updated(a) /\ tr'[a].answer = tr[a].answer
    /\ tr'[a].then \in IF tr[a].from = "loop" THEN {"toChooser", "toLeave"}
                                             ELSE {"choosing", "leaving"}

Settles(a) ==
    /\ pc[a] = "resizing" /\ Goes(a, "loop") /\ Kept /\ Dropped(a) /\ UNCHANGED <<mode, inbox>>

Closes(b) ==
    /\ pc[b] = "failing" /\ Goes(b, tr[b].then) /\ Kept
    /\ Boxes' /\ tr' \in [Attachment -> Change] /\ tr' = [tr EXCEPT ![b] = NoChange]
    /\ tr[b].victim # b
    /\ \A a \in Attachment \ {b} :
         inbox'[a] = IF a = tr[b].victim /\ InWorkspace(a)
                     THEN Append(inbox[a], Close) ELSE inbox[a]
    /\ inbox'[b] = IF tr[b].from = "loop" THEN <<>> ELSE inbox[b]
    /\ mode' = IF tr[b].from = "loop" THEN [mode EXCEPT ![b] = "none"] ELSE mode

Ends(a, p) ==
    /\ \/ pc[a] \in {"started", "entering", "viewing", "loop", "mutating", "refreshing"}
       \/ pc[a] = "resizing"
    /\ p \in {"toChooser", "toLeave"}
    /\ Ended(a, p) /\ UNCHANGED <<rt, sc>>
    /\ \/ Kept
       \/ Exclusive(a) /\ Writer(a) = a /\ Moved(sc[a], None, FALSE)
       \/ Exclusive(a) /\ Writer(a) = a /\ Moved(sc[a], a, TRUE)

Clears(a, p) ==
    /\ pc[a] \in {"creating", "releasing"} /\ p \in {"opening", "leaving", "gone"}
    /\ Goes(a, p) /\ Exclusive(a) /\ Writer(a) = a /\ Moved(sc[a], None, FALSE) /\ Still

Quits(a) ==
    /\ pc[a] = "releasing" /\ Goes(a, "gone") /\ Writer(a) # a /\ Kept /\ Still

Returns(a, p) ==
    /\ pc[a] \in {"toChooser", "toLeave"} /\ p \in {"opening", "leaving"} /\ ~StateHeld(sc[a])
    /\ Goes(a, p) /\ Still
    /\ \/ Writer(a) # a /\ Kept
       \/ Writer(a) = a /\ Moved(sc[a], a, FALSE)

Effect(a) ==
    \/ Opens(a) \/ Looks(a) \/ Departs(a) \/ Attaches(a) \/ Takes(a) \/ Enters(a)
    \/ Reclaims(a) \/ Hears(a) \/ Finishes(a) \/ Proceeds(a) \/ Promotes(a) \/ Fails(a)
    \/ Settles(a) \/ Closes(a) \/ Quits(a)
    \/ \E p \in Phase : \/ Outside(a, p) \/ Inside(a, p) \/ Locks(a, p) \/ Ends(a, p)
                        \/ Clears(a, p) \/ Returns(a, p)
                        \/ \E v \in Attachment \cup {None} : Begins(a, v, p)
    \/ \E v \in Attachment : Sends(a, v) \/ GivesUp(a, v) \/ Dies(a, v)

\* Every step of an attachment has one of the effects.
LEMMA EffectStep ==
    ASSUME IInv, Next
    PROVE  (\E x \in Attachment : Effect(x)) \/ UNCHANGED <<scopes, pc, rt, sc, mode, inbox, tr>>
<1> USE DEF Effect, Phase, Transition, Scoped, Locked, Exclusive
<1>t. TypeOK /\ LocalTypes /\ tr \in [Attachment -> Change]
  BY Zenon DEF LocalTypes, IInv, TypeOK
<1>p. \A b \in Attachment : pc[b] \in Scoped => sc[b] > 0
  BY Zenon DEF IInv, PhaseInv
<1>w. \A b \in Attachment : pc[b] \in Scoped => Writer(b) \in Attachment \cup {None}
  BY WriterType, Zenon
<1>c. \A b \in Attachment : ChangeInv(b) /\ HolderInv(b)
  BY Zenon DEF IInv
<1>1. CASE RouteEnds \/ RouteInstalled
  BY <1>t, <1>p, <1>w, <1>c, <1>1, Zenon DEF RouteEnds, RouteInstalled
<1>2. ASSUME NEW a \in Attachment, Start(a)
      PROVE  (\E x \in Attachment : Effect(x)) \/ UNCHANGED <<scopes, pc, rt, sc, mode, inbox, tr>>
  BY <1>t, <1>p, <1>w, <1>c, <1>2, Zenon DEF Start, Goto, Opens, Goes, Kept, Still, IInv,
     TypeOK
<1>3. ASSUME NEW a \in Attachment, Probe(a)
      PROVE  (\E x \in Attachment : Effect(x)) \/ UNCHANGED <<scopes, pc, rt, sc, mode, inbox, tr>>
  BY <1>t, <1>p, <1>w, <1>c, <1>3, Zenon DEF Probe, Goto, Outside, Goes, Kept, Still
<1>4. ASSUME NEW a \in Attachment, Lookup(a)
      PROVE  (\E x \in Attachment : Effect(x)) \/ UNCHANGED <<scopes, pc, rt, sc, mode, inbox, tr>>
  <2> DEFINE new == [route |-> rt[a], att |-> None, ctl |-> FALSE]
  <2>1. new \in Scope /\ new.att = None /\ new.ctl = FALSE
    BY <1>t, <1>4 DEF Lookup, Scope, IInv, PhaseInv, TypeOK
  <2>2. scopes \in Seq(Scope) /\ Len(scopes) \in Nat
    BY <1>t, SeqShape, Zenon DEF TypeOK
  <2>3. \/ Kept /\ Len(scopes) > 0
        \/ scopes' = Append(scopes, new)
    BY <1>4, Zenon DEF Lookup, Kept
  <2>4. ASSUME scopes' = Append(scopes, new)
        PROVE  /\ scopes' \in Seq(Scope) /\ Len(scopes') = Len(scopes) + 1
               /\ \A s \in 1..Len(scopes) : scopes'[s] = scopes[s]
               /\ scopes'[Len(scopes')] = new
    <3> HIDE DEF new
    <3> QED
      BY <2>1, <2>2, <2>4, SeqAppend
  <2>5. Len(scopes') \in Nat \ {0}
    BY <2>2, <2>3, <2>4 DEF Kept
  <2> QED
    BY <1>4, <2>1, <2>3, <2>4, <2>5, Zenon DEF Lookup, Goto, Looks, Kept, Still
<1>5. ASSUME NEW a \in Attachment, Choose(a)
      PROVE  (\E x \in Attachment : Effect(x)) \/ UNCHANGED <<scopes, pc, rt, sc, mode, inbox, tr>>
  BY <1>t, <1>p, <1>w, <1>c, <1>5, Zenon DEF Choose, Goto, Outside, Goes, Kept, Still
<1>6. ASSUME NEW a \in Attachment, Create(a)
      PROVE  (\E x \in Attachment : Effect(x)) \/ UNCHANGED <<scopes, pc, rt, sc, mode, inbox, tr>>
  BY <1>t, <1>p, <1>w, <1>c, <1>6, Zenon DEF Create, Goto, Locks, Goes, Kept, Still,
     DispatchHeld
<1>7. ASSUME NEW a \in Attachment, Created(a)
      PROVE  (\E x \in Attachment : Effect(x)) \/ UNCHANGED <<scopes, pc, rt, sc, mode, inbox, tr>>
  BY <1>t, <1>p, <1>w, <1>c, <1>7, PointEffect, Zenon DEF Created, Goto, KeepPointer, Outside,
     Clears, Goes, Kept, Still, IInv, HolderInv
<1>8. ASSUME NEW a \in Attachment, NEW takeover \in BOOLEAN, ChooserClaim(a, takeover)
      PROVE  (\E x \in Attachment : Effect(x)) \/ UNCHANGED <<scopes, pc, rt, sc, mode, inbox, tr>>
  <2>1. pc[a] = "choosing" /\ ~StateHeld(sc[a]) /\ sc[a] > 0 /\ UNCHANGED <<rt, sc>>
    BY <1>p, <1>8, Zenon DEF ChooserClaim, DispatchHeld
  <2>2. CASE KeepPointer /\ Stay(a, "leaving")
    BY <2>1, <2>2, Zenon DEF KeepPointer, Stay, Goto, Outside, Goes, Kept, Still
  <2>3. CASE Claimable(a, takeover) /\ SetCurrent(a, FALSE) /\ Stay(a, "choosing")
    BY <1>t, <2>1, <2>3, PointEffect, Zenon DEF Stay, Goto, Takes, Goes, Still, Claimable,
       Free
  <2>4. CASE /\ MustDemote(a)
             /\ tr' = [tr EXCEPT ![a] = [NoChange EXCEPT !.victim = Writer(a), !.from = "choosing"]]
             /\ Goto(a, "demoting")
             /\ KeepPointer /\ UNCHANGED <<mode, inbox>>
    <3>1. Writer(a) \in Attachment
      BY <1>w, <2>1, <2>4, Zenon DEF MustDemote
    <3>2. Begun(a, Writer(a), "choosing")
      BY <1>t, <2>4, <3>1, ChangeEffect, Zenon
    <3>3. Begins(a, Writer(a), "demoting")
      BY <2>1, <2>4, <3>1, <3>2, Zenon DEF MustDemote, Goto, KeepPointer, Begins, Goes, Kept
    <3> QED
      BY <3>1, <3>3, Zenon
  <2> QED
    BY <1>8, <2>2, <2>3, <2>4, Zenon DEF ChooserClaim
<1>9. ASSUME NEW a \in Attachment, StartControl(a)
      PROVE  (\E x \in Attachment : Effect(x)) \/ UNCHANGED <<scopes, pc, rt, sc, mode, inbox, tr>>
  BY <1>t, <1>p, <1>w, <1>c, <1>9, Zenon DEF StartControl, Goto, Attaches, Outside, Goes,
     Kept, Still
<1>10. ASSUME NEW a \in Attachment, Enter(a)
      PROVE  (\E x \in Attachment : Effect(x)) \/ UNCHANGED <<scopes, pc, rt, sc, mode, inbox, tr>>
  BY <1>t, <1>p, <1>w, <1>c, <1>10, EndEffect, PointEffect, Zenon DEF Enter, Goto, Stay,
     KeepPointer, Locks, Ends, Enters, Goes, Kept, Still, DispatchHeld
<1>11. ASSUME NEW a \in Attachment, Entered(a)
      PROVE  (\E x \in Attachment : Effect(x)) \/ UNCHANGED <<scopes, pc, rt, sc, mode, inbox, tr>>
  BY <1>t, <1>p, <1>w, <1>c, <1>11, EndEffect, PointEffect, Zenon DEF Entered, Goto,
     KeepPointer, Stay, Inside, Ends, Goes, Kept, Still
<1>12. ASSUME NEW a \in Attachment, SeeChange(a)
      PROVE  (\E x \in Attachment : Effect(x)) \/ UNCHANGED <<scopes, pc, rt, sc, mode, inbox, tr>>
  BY <1>t, <1>p, <1>w, <1>c, <1>12, Zenon DEF SeeChange, Goto, Inside, Goes, Kept, Still
<1>13. ASSUME NEW a \in Attachment, View(a)
      PROVE  (\E x \in Attachment : Effect(x)) \/ UNCHANGED <<scopes, pc, rt, sc, mode, inbox, tr>>
  BY <1>t, <1>p, <1>w, <1>c, <1>13, EndEffect, Zenon DEF View, Goto, Stay, Inside, Ends, Goes,
     Kept, Still
<1>14. ASSUME NEW a \in Attachment, Leave(a)
      PROVE  (\E x \in Attachment : Effect(x)) \/ UNCHANGED <<scopes, pc, rt, sc, mode, inbox, tr>>
  BY <1>t, <1>p, <1>w, <1>c, <1>14, EndEffect, Zenon DEF Leave, Goto, Ends, Goes, Kept, Still
<1>15. ASSUME NEW a \in Attachment, Mutate(a)
      PROVE  (\E x \in Attachment : Effect(x)) \/ UNCHANGED <<scopes, pc, rt, sc, mode, inbox, tr>>
  BY <1>t, <1>p, <1>w, <1>c, <1>15, EndEffect, Zenon DEF Mutate, Goto, Stay, Locks, Ends,
     Goes, Kept, Still, DispatchHeld
<1>16. ASSUME NEW a \in Attachment, Mutated(a)
      PROVE  (\E x \in Attachment : Effect(x)) \/ UNCHANGED <<scopes, pc, rt, sc, mode, inbox, tr>>
  BY <1>t, <1>p, <1>w, <1>c, <1>16, EndEffect, PointEffect, Zenon DEF Mutated, Goto,
     KeepPointer, Stay, Inside, Ends, Goes, Kept, Still
<1>17. ASSUME NEW a \in Attachment, Refresh(a)
      PROVE  (\E x \in Attachment : Effect(x)) \/ UNCHANGED <<scopes, pc, rt, sc, mode, inbox, tr>>
  BY <1>t, <1>p, <1>w, <1>c, <1>17, Zenon DEF Refresh, Goto, Inside, Goes, Kept, Still
<1>18. ASSUME NEW a \in Attachment, Refreshed(a)
      PROVE  (\E x \in Attachment : Effect(x)) \/ UNCHANGED <<scopes, pc, rt, sc, mode, inbox, tr>>
  BY <1>t, <1>p, <1>w, <1>c, <1>18, EndEffect, Zenon DEF Refreshed, Goto, Stay, Inside, Ends,
     Goes, Kept, Still
<1>19. ASSUME NEW a \in Attachment, Directive(a)
      PROVE  (\E x \in Attachment : Effect(x)) \/ UNCHANGED <<scopes, pc, rt, sc, mode, inbox, tr>>
  BY <1>t, <1>p, <1>w, <1>c, <1>19, TakeEffect, Zenon DEF Directive, Goto, Answer, Hears,
     Dies, Ends, Goes, Kept, Still
<1>20. ASSUME NEW a \in Attachment, NEW takeover \in BOOLEAN, WorkspaceClaim(a, takeover)
      PROVE  (\E x \in Attachment : Effect(x)) \/ UNCHANGED <<scopes, pc, rt, sc, mode, inbox, tr>>
  <2>1. pc[a] = "loop" /\ ~StateHeld(sc[a]) /\ sc[a] > 0 /\ UNCHANGED <<rt, sc>>
    BY <1>p, <1>20, Zenon DEF WorkspaceClaim, DispatchHeld
  <2>2. CASE KeepPointer /\ EndWorkspace(a, "toLeave")
    BY <1>t, <2>1, <2>2, EndEffect, Zenon DEF KeepPointer, Ends, Kept
  <2>3. CASE /\ Writer(a) = a /\ SetCurrent(a, TRUE)
             /\ Goto(a, "resizing") /\ tr' = [tr EXCEPT ![a] = [NoChange EXCEPT !.from = "loop"]]
             /\ UNCHANGED <<mode, inbox>>
    <3>1. Begun(a, None, "loop") /\ Moved(sc[a], a, TRUE)
      BY <1>t, <2>1, <2>3, ChangeEffect, PointEffect, Zenon
    <3> QED
      BY <2>1, <2>3, <3>1, Zenon DEF Goto, Reclaims, Goes
  <2>4. CASE /\ Claimable(a, takeover)
             /\ Goto(a, "promoting") /\ tr' = [tr EXCEPT ![a] = [NoChange EXCEPT !.from = "loop"]]
             /\ KeepPointer /\ UNCHANGED <<mode, inbox>>
    <3>1. Begun(a, None, "loop")
      BY <1>t, <2>4, ChangeEffect, Zenon
    <3>2. Begins(a, None, "promoting")
      BY <2>1, <2>4, <3>1, Zenon DEF Claimable, Free, Goto, KeepPointer, Begins, Goes, Kept
    <3> QED
      BY <3>2, Zenon
  <2>5. CASE /\ MustDemote(a) /\ Goto(a, "demoting")
             /\ tr' = [tr EXCEPT ![a] = [[NoChange EXCEPT !.from = "loop"] EXCEPT !.victim = Writer(a)]]
             /\ KeepPointer /\ UNCHANGED <<mode, inbox>>
    <3>1. Writer(a) \in Attachment
      BY <1>w, <2>1, <2>5, Zenon DEF MustDemote
    <3>2. Begun(a, Writer(a), "loop")
      BY <1>t, <2>5, <3>1, ChangeEffect, Zenon
    <3>3. Begins(a, Writer(a), "demoting")
      BY <2>1, <2>5, <3>1, <3>2, Zenon DEF MustDemote, Goto, KeepPointer, Begins, Goes, Kept
    <3> QED
      BY <3>1, <3>3, Zenon
  <2> QED
    BY <1>20, <2>2, <2>3, <2>4, <2>5, Zenon DEF WorkspaceClaim
<1>21. ASSUME NEW a \in Attachment, SendDemote(a)
      PROVE  (\E x \in Attachment : Effect(x)) \/ UNCHANGED <<scopes, pc, rt, sc, mode, inbox, tr>>
  BY <1>t, <1>p, <1>w, <1>c, <1>21, SendEffect DEF SendDemote, Goto, Sends, Goes, Kept,
     Still
<1>22. ASSUME NEW a \in Attachment, DemoteFails(a)
      PROVE  (\E x \in Attachment : Effect(x)) \/ UNCHANGED <<scopes, pc, rt, sc, mode, inbox, tr>>
  BY <1>t, <1>p, <1>w, <1>c, <1>22, GiveUpEffect, Zenon DEF DemoteFails, Goto, GivesUp, Goes,
     Kept, Still
<1>23. ASSUME NEW a \in Attachment, AfterDemotion(a)
      PROVE  (\E x \in Attachment : Effect(x)) \/ UNCHANGED <<scopes, pc, rt, sc, mode, inbox, tr>>
  <2>1. /\ pc[a] = "awaiting" /\ tr[a].answer # "none" /\ sc[a] > 0 /\ UNCHANGED <<rt, sc>>
        /\ tr[a].from \in {"choosing", "loop"}
    BY <1>t, <1>p, <1>c, <1>23 DEF AfterDemotion, ChangeInv, Change
  <2>2. ASSUME NEW p \in {"choosing", "toChooser", "toLeave", "leaving"},
               Clear(a), Fail(a, p),
               p \in IF tr[a].from = "loop" THEN {"toChooser", "toLeave"} ELSE {"choosing", "leaving"}
        PROVE  Fails(a)
    BY <1>t, <2>1, <2>2, PointEffect, ChangeEffect, Zenon DEF Fail, Goto, Fails, Goes
  <2>3. CASE /\ tr[a].answer = "succeeded" /\ tr[a].from # "loop"
             /\ SetCurrent(a, FALSE)
             /\ Goto(a, "choosing") /\ tr' = [tr EXCEPT ![a] = NoChange]
             /\ UNCHANGED <<mode, inbox>>
    BY <1>t, <2>1, <2>3, PointEffect, ChangeEffect, Zenon DEF Goto, Finishes, Goes
  <2>4. CASE /\ tr[a].answer = "succeeded" /\ tr[a].from = "loop"
             /\ KeepPointer /\ Stay(a, "promoting")
    BY <2>1, <2>4, Zenon DEF KeepPointer, Stay, Goto, Proceeds, Goes, Kept, Still
  <2> QED
    BY <1>23, <2>2, <2>3, <2>4, Zenon DEF AfterDemotion
<1>24. ASSUME NEW a \in Attachment, Promote(a)
      PROVE  (\E x \in Attachment : Effect(x)) \/ UNCHANGED <<scopes, pc, rt, sc, mode, inbox, tr>>
  <2>1. pc[a] = "promoting" /\ sc[a] > 0 /\ UNCHANGED <<rt, sc>> /\ tr[a].from = "loop"
    BY <1>p, <1>c, <1>24, Zenon DEF Promote, ChangeInv
  <2>2. ASSUME NEW p \in {"toChooser", "toLeave"}, Clear(a), Fail(a, p)
        PROVE  Fails(a)
    <3>1. Moved(sc[a], None, FALSE)
      BY <1>t, <2>1, <2>2, PointEffect, Zenon
    <3>2. /\ Updated(a) /\ tr'[a].answer = tr[a].answer /\ tr'[a].then = p
          /\ p \in {"choosing", "toChooser", "toLeave", "leaving"}
      BY <1>t, <2>2, ChangeEffect, Zenon
    <3> QED
      BY <2>1, <2>2, <3>1, <3>2, Zenon DEF Fail, Goto, Fails, Goes
  <2>3. CASE /\ SetCurrent(a, TRUE)
             /\ mode' = [mode EXCEPT ![a] = "rw"]
             /\ Goto(a, "resizing") /\ UNCHANGED <<inbox, tr>>
    BY <1>t, <2>1, <2>3, PointEffect, Zenon DEF Goto, Promotes, Goes
  <2> QED
    BY <1>24, <2>2, <2>3, Zenon DEF Promote
<1>25. ASSUME NEW a \in Attachment, Resized(a)
      PROVE  (\E x \in Attachment : Effect(x)) \/ UNCHANGED <<scopes, pc, rt, sc, mode, inbox, tr>>
  <2>1. /\ pc[a] = "resizing" /\ sc[a] > 0 /\ UNCHANGED <<rt, sc>> /\ tr[a].from = "loop"
        /\ Writer(a) = a
    BY <1>p, <1>c, <1>25, Zenon DEF Resized, ChangeInv, HolderInv
  <2>2. ASSUME NEW p \in {"toChooser", "toLeave"}, Clear(a), Fail(a, p)
        PROVE  Fails(a)
    <3>1. Moved(sc[a], None, FALSE)
      BY <1>t, <2>1, <2>2, PointEffect, Zenon
    <3>2. /\ Updated(a) /\ tr'[a].answer = tr[a].answer /\ tr'[a].then = p
          /\ p \in {"choosing", "toChooser", "toLeave", "leaving"}
      BY <1>t, <2>2, ChangeEffect, Zenon
    <3> QED
      BY <2>1, <2>2, <3>1, <3>2, Zenon DEF Fail, Goto, Fails, Goes
  <2>3. ASSUME NEW p \in {"toChooser", "toLeave"}, KeepPointer \/ Clear(a), EndWorkspace(a, p)
        PROVE  Ends(a, p)
    BY <1>t, <2>1, <2>3, PointEffect, EndEffect, Zenon DEF KeepPointer, Ends, Kept
  <2>4. CASE /\ KeepPointer
             /\ Goto(a, "loop") /\ tr' = [tr EXCEPT ![a] = NoChange]
             /\ UNCHANGED <<mode, inbox>>
    BY <1>t, <2>1, <2>4, ChangeEffect, Zenon DEF KeepPointer, Goto, Settles, Goes, Kept
  <2>5. ClearIfCurrent(a) => Clear(a)
    BY <2>1, Zenon DEF ClearIfCurrent
  <2> QED
    BY <1>25, <2>2, <2>3, <2>4, <2>5, Zenon DEF Resized
<1>26. ASSUME NEW a \in Attachment, CloseOld(a)
      PROVE  (\E x \in Attachment : Effect(x)) \/ UNCHANGED <<scopes, pc, rt, sc, mode, inbox, tr>>
  BY <1>t, <1>p, <1>w, <1>c, <1>26, CloseEffect, Zenon DEF CloseOld, Goto, Closes, Goes, Kept,
     Still
<1>27. ASSUME NEW a \in Attachment, Return(a)
      PROVE  (\E x \in Attachment : Effect(x)) \/ UNCHANGED <<scopes, pc, rt, sc, mode, inbox, tr>>
  BY <1>t, <1>p, <1>w, <1>c, <1>27, DropControl, Zenon DEF Return, Goto, Returns, Goes, Kept,
     Still, DispatchHeld
<1>28. ASSUME NEW a \in Attachment, BeginRelease(a)
      PROVE  (\E x \in Attachment : Effect(x)) \/ UNCHANGED <<scopes, pc, rt, sc, mode, inbox, tr>>
  <2>1. scopes = <<>> \/ Len(scopes) > 0
    <3>1. scopes \in Seq(Scope)
      BY <1>t, Zenon DEF TypeOK
    <3> QED
      BY <3>1, SeqShape, SeqEmpty
  <2> QED
    BY <1>28, <2>1, Zenon DEF BeginRelease, Goto, Departs, Kept, Still
<1>29. ASSUME NEW a \in Attachment, Release(a)
      PROVE  (\E x \in Attachment : Effect(x)) \/ UNCHANGED <<scopes, pc, rt, sc, mode, inbox, tr>>
  BY <1>t, <1>p, <1>w, <1>c, <1>29, PointEffect, Zenon DEF Release, Goto, Clears, Quits, Goes,
     Kept, Still, DispatchHeld
<1> QED
  BY Zenon, <1>1, <1>2, <1>3, <1>4, <1>5, <1>6, <1>7, <1>8, <1>9, <1>10, <1>11, <1>12, <1>13,
     <1>14, <1>15, <1>16, <1>17, <1>18, <1>19, <1>20, <1>21, <1>22, <1>23, <1>24, <1>25,
     <1>26, <1>27, <1>28, <1>29 DEF Next, ChooserStep, WorkspaceStep, ChangeStep, EndStep

=============================================================================
