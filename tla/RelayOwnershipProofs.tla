------------------------ MODULE RelayOwnershipProofs ------------------------
(***************************************************************************)
(* Proofs about RelayOwnership, for every set of nodes, connections and    *)
(* requests: IInv of RelayOwnershipInv is inductive, and the properties    *)
(* follow from it.  The types come first, then the lease and the owner     *)
(* row, what a connection's phase says about the row, what a request knows *)
(* of its target, and the maps of the registry.                            *)
(***************************************************************************)
EXTENDS RelayOwnershipInv, TLAPS

USE DEF leaseVars, machine, conns, registry, handles

\* The records the steps write.
LEMMA RecordTypes ==
    /\ owner \in OwnerRow => Vacant \in OwnerRow
    /\ NoExit \in MachineExit /\ IdleOp \in Request
    /\ \A c \in Conn :
          Exit("transitioning", c) \in MachineExit /\ Exit("releasing", c) \in MachineExit
    /\ \A r \in Request, p \in OpState : [r EXCEPT !.ph = p] \in Request
    /\ \A r \in Request, w \in SUBSET Conn :
          [r EXCEPT !.ph = "closing", !.waits = w] \in Request
<1>1. owner \in OwnerRow => Vacant \in OwnerRow
  BY Zenon DEF OwnerRow, Vacant
<1>2. NoExit \in MachineExit /\ IdleOp \in Request
  BY Zenon DEF NoExit, Exit, MachineExit, IdleOp, Request, OpState
<1>3. \A c \in Conn :
         Exit("transitioning", c) \in MachineExit /\ Exit("releasing", c) \in MachineExit
  BY Zenon DEF Exit, MachineExit
<1>4. \A r \in Request, p \in OpState : [r EXCEPT !.ph = p] \in Request
  BY Zenon DEF Request
<1>5. \A r \in Request, w \in SUBSET Conn :
         [r EXCEPT !.ph = "closing", !.waits = w] \in Request
  BY Zenon DEF Request, OpState
<1> QED
  BY <1>1, <1>2, <1>3, <1>4, <1>5, Zenon

\* Type correctness, one step per action.
LEMMA LeaseTypes ==
    ASSUME TypeOK, LeaseStep
    PROVE  TypeOK'
<1> USE DEF TypeOK, AuthorityState, NodeRow
<1>1. CASE Elapse
  BY <1>1 DEF Elapse, LeaseStep
<1>2. ASSUME NEW n \in Node, Register(n) PROVE TypeOK'
  <2>1. PICK a \in {"new", "lost"} : authority' = [authority EXCEPT ![n] = a]
    BY <1>2, Zenon DEF Register
  <2> QED
    BY <1>2, <2>1, Zenon DEF Register, LeaseStep
<1>3. ASSUME NEW n \in Node,
             Activate(n) \/ GiveUp(n) \/ StopAdmitting(n) \/ DrainNode(n) \/ DeleteNode(n)
      PROVE  TypeOK'
  BY <1>3, Zenon DEF Activate, GiveUp, StopAdmitting, DrainNode, DeleteNode, LeaseStep
<1> QED
  BY <1>1, <1>2, <1>3, Zenon DEF LeaseStep, LeaseNext

\* The target of a request has said hello somewhere.
LEMMA TargetStarted ==
    ASSUME IInv, NEW o \in Op, op[o].target # None
    PROVE  op[o].target \in Conn /\ at[op[o].target] \in Node
BY Zenon DEF IInv, TypeOK, Request, OpInv, ConnInv

\* Every step, the lease's steps included, keeps the types of the variables.
LEMMA TypeStep ==
    ASSUME IInv, Next
    PROVE  TypeOK'
<1> USE DEF TypeOK, ConnState, Life, AuthorityState
<1>t. TypeOK
  BY Zenon DEF IInv
<1>1. CASE LeaseStep
  BY <1>t, <1>1, LeaseTypes, Zenon
<1>2. ASSUME NEW c \in Conn, NEW n \in Node, Hello(c, n) PROVE TypeOK'
  BY <1>t, <1>2, Zenon DEF Hello, Goto
<1>3. ASSUME NEW c \in Conn, Reserve(c) PROVE TypeOK'
  BY <1>t, <1>3 DEF Reserve, Goto
<1>4. ASSUME NEW c \in Conn, Claim(c) PROVE TypeOK'
  BY <1>t, <1>4 DEF Claim, TakeOwnership, Goto, OwnerRow
<1>5. ASSUME NEW c \in Conn, ClaimError(c) PROVE TypeOK'
  BY <1>t, <1>5 DEF ClaimError, TakeOwnership, LoseAuthority, Goto, OwnerRow
<1>6. ASSUME NEW c \in Conn, FinishPending(c) PROVE TypeOK'
  BY <1>t, <1>6, Zenon DEF FinishPending, Goto
<1>7. ASSUME NEW c \in Conn, Install(c) PROVE TypeOK'
  BY <1>t, <1>7 DEF Install, Goto
<1>8. ASSUME NEW c \in Conn, Unwind(c) PROVE TypeOK'
  BY <1>t, <1>8, RecordTypes, Zenon DEF Unwind, ReleaseOwner, ReleaseSucceeds, ReleaseFails,
     LoseAuthority, Goto
<1>9. ASSUME NEW c \in Conn, BeginDispatch(c) PROVE TypeOK'
  BY <1>t, <1>9, Zenon DEF BeginDispatch
<1>10. ASSUME NEW c \in Conn, EndDispatch(c) PROVE TypeOK'
  BY <1>t, <1>10, Zenon DEF EndDispatch
<1>11. ASSUME NEW c \in Conn, RunEnds(c) PROVE TypeOK'
  BY <1>t, <1>11, Zenon DEF RunEnds, Goto
<1>12. ASSUME NEW c \in Conn, EndDispatching(c) PROVE TypeOK'
  BY <1>t, <1>12, Zenon DEF EndDispatching, CloseDispatch, Goto
<1>13. ASSUME NEW c \in Conn, BeginOwnerRelease(c) PROVE TypeOK'
  <2>1. exits' \in [Node -> MachineExit]
    BY <1>t, <1>13, RecordTypes, Zenon DEF BeginOwnerRelease
  <2>2. st' \in [Conn -> ConnState] /\ cleaned' \in SUBSET Conn
    BY <1>t, <1>13 DEF BeginOwnerRelease, Goto
  <2> QED
    BY <1>t, <1>13, <2>1, <2>2, Zenon DEF BeginOwnerRelease
<1>14. ASSUME NEW c \in Conn, Release(c) PROVE TypeOK'
  BY <1>t, <1>14, RecordTypes, Zenon DEF Release, ReleaseOwner, ReleaseSucceeds,
     ReleaseFails, LoseAuthority, Goto
<1>15. ASSUME NEW c \in Conn, FinishOwnerRelease(c) PROVE TypeOK'
  BY <1>t, <1>15, RecordTypes, Zenon DEF FinishOwnerRelease, Goto
<1>16. ASSUME NEW c \in Conn, Dropped(c) PROVE TypeOK'
  BY <1>t, <1>16, Zenon DEF Dropped, Goto
<1>17. ASSUME NEW c \in Conn, CloseAllHandle(c) PROVE TypeOK'
  BY <1>t, <1>17, Zenon DEF CloseAllHandle, CloseDispatch
<1>18. ASSUME NEW n \in Node, CloseAll(n) PROVE TypeOK'
  BY <1>t, <1>18, Zenon DEF CloseAll
<1>19. ASSUME NEW o \in Op, NEW a \in Node, Resolve(o, a) PROVE TypeOK'
  BY <1>t, <1>19 DEF Resolve, Set, Request, OwnerRow, OpState
<1>20. ASSUME NEW o \in Op, BeginTransition(o) PROVE TypeOK'
  <2>1. op[o].target \in Conn /\ at[op[o].target] \in Node
    BY <1>20, TargetStarted, Zenon DEF BeginTransition
  <2>2. op' \in [Op -> Request]
    <3>1. pending[at[op[o].target]] \in SUBSET Conn
      BY <1>t, <2>1, Zenon
    <3>2. [op[o] EXCEPT !.ph = "closing", !.waits = pending[at[op[o].target]]] \in Request
      BY <1>t, <3>1, RecordTypes, Zenon
    <3> QED
      BY <1>t, <1>20, <3>2, Zenon DEF BeginTransition, Set
  <2>3. exits' \in [Node -> MachineExit]
    BY <1>t, <1>20, <2>1, RecordTypes, Zenon DEF BeginTransition
  <2> QED
    BY <1>t, <1>20, <2>2, <2>3, Zenon DEF BeginTransition
<1>21. ASSUME NEW o \in Op, TransitionRefused(o) PROVE TypeOK'
  BY <1>t, <1>21, RecordTypes, Zenon DEF TransitionRefused, Set, OpState
<1>22. ASSUME NEW o \in Op, TransitionCloses(o) PROVE TypeOK'
  BY <1>t, <1>22, RecordTypes, Zenon DEF TransitionCloses, CloseDispatch, Set, OpState
<1>23. ASSUME NEW o \in Op, TransitionReady(o) PROVE TypeOK'
  BY <1>t, <1>23, RecordTypes, Zenon DEF TransitionReady, Set, OpState
<1>24. ASSUME NEW o \in Op, TransitionAbandoned(o) PROVE TypeOK'
  BY <1>t, <1>24, RecordTypes, Zenon DEF TransitionAbandoned, LoseAuthority, Set, OpState
<1>25. ASSUME NEW o \in Op, CommitTransition(o) PROVE TypeOK'
  <2>1. op' \in [Op -> Request]
    <3>1. PICK ph \in {"settling", "aborted"} : Set(o, [op[o] EXCEPT !.ph = ph])
      BY <1>25, Zenon DEF CommitTransition
    <3>2. [op[o] EXCEPT !.ph = ph] \in Request
      BY <1>t, RecordTypes, Zenon DEF OpState
    <3> QED
      BY <1>t, <3>1, <3>2, Zenon DEF Set
  <2>2. owner' \in OwnerRow
    BY <1>t, <1>25, RecordTypes, Zenon DEF CommitTransition, TakeRouteAway
  <2> QED
    BY <1>t, <1>25, <2>1, <2>2 DEF CommitTransition, TakeRouteAway
<1>26. ASSUME NEW o \in Op, AbortTransition(o) PROVE TypeOK'
  BY <1>t, <1>26, RecordTypes, Zenon DEF AbortTransition, Set, OpState
<1>27. ASSUME NEW o \in Op, ReleaseAborted(o) PROVE TypeOK'
  <2>1. op' \in [Op -> Request]
    <3>1. [op[o] EXCEPT !.ph = "settling"] \in Request /\ IdleOp \in Request
      BY <1>t, RecordTypes, Zenon DEF OpState
    <3> QED
      BY <1>t, <1>27, <3>1, Zenon DEF ReleaseAborted, Set
  <2>2. owner' \in OwnerRow
    BY <1>t, <1>27, RecordTypes, Zenon DEF ReleaseAborted, ReleaseSucceeds, ReleaseFails
  <2>3. authority' \in [Node -> AuthorityState] /\ UNCHANGED <<row, leased>>
    BY <1>t, <1>27, Zenon DEF ReleaseAborted, ReleaseSucceeds, ReleaseFails, LoseAuthority
  <2> QED
    BY <1>t, <1>27, <2>1, <2>2, <2>3, Zenon DEF ReleaseAborted
<1>28. ASSUME NEW o \in Op, SettleTransition(o) PROVE TypeOK'
  <2>1. at[op[o].target] \in Node
    BY <1>28, TargetStarted, Zenon DEF SettleTransition
  <2>2. op' \in [Op -> Request]
    BY <1>t, <1>28, RecordTypes, Zenon DEF SettleTransition, Set
  <2>3. exits' \in [Node -> MachineExit]
    BY <1>t, <1>28, <2>1, RecordTypes, Zenon DEF SettleTransition
  <2>4. tunnels' \in [Node -> Conn \cup {None}] /\ closers' \in SUBSET Conn
    BY <1>t, <1>28, <2>1, Zenon DEF SettleTransition
  <2> QED
    BY <1>t, <1>28, <2>2, <2>3, <2>4, Zenon DEF SettleTransition
<1>29. ASSUME NEW o \in Op, AnswerTransition(o) PROVE TypeOK'
  BY <1>t, <1>29, RecordTypes, Zenon DEF AnswerTransition, Set, OpState
<1>30. CASE Rebind
  BY <1>t, <1>30, Zenon DEF Rebind
<1> QED
  BY Zenon, <1>1, <1>2, <1>3, <1>4, <1>5, <1>6, <1>7, <1>8, <1>9, <1>10, <1>11, <1>12,
     <1>13,
     <1>14, <1>15, <1>16, <1>17, <1>18, <1>19, <1>20, <1>21, <1>22, <1>23, <1>24, <1>25,
     <1>26, <1>27, <1>28, <1>29, <1>30 DEF Next, ConnStep, OpStep

-----------------------------------------------------------------------------
\* Outside the lease's own steps, rows stay and nodes only lose authority;
\* the owner stays, goes, or is a claimant on a serving node.
LEMMA OtherStep ==
    ASSUME TypeOK, Next, ~LeaseStep
    PROVE  /\ UNCHANGED <<row, leased>>
           /\ \A n \in Node : authority'[n] \in {authority[n], "lost"}
           /\ \/ owner' = owner \/ owner' = Vacant
              \/ \E c \in Conn : NodeServing(at[c]) /\ owner'.node = at[c]
<1> USE DEF TypeOK, LoseAuthority
<1>1. ASSUME NEW c \in Conn, Claim(c) \/ ClaimError(c) \/ Unwind(c) \/ Release(c)
      PROVE  /\ UNCHANGED <<row, leased>>
             /\ \A n \in Node : authority'[n] \in {authority[n], "lost"}
             /\ \/ owner' = owner \/ owner' = Vacant
                \/ NodeServing(at[c]) /\ owner'.node = at[c]
  BY <1>1 DEF Claim, ClaimError, TakeOwnership, Claimable, Unwind, Release,
     ReleaseOwner,
              ReleaseSucceeds, ReleaseFails
<1>2. ASSUME NEW o \in Op, TransitionAbandoned(o) \/ CommitTransition(o) \/ ReleaseAborted(o)
      PROVE  /\ UNCHANGED <<row, leased>>
             /\ \A n \in Node : authority'[n] \in {authority[n], "lost"}
             /\ owner' = owner \/ owner' = Vacant
  BY <1>2, Zenon DEF TransitionAbandoned, CommitTransition, TakeRouteAway, ReleaseAborted,
              ReleaseSucceeds, ReleaseFails
<1>3. ASSUME NEW c \in Conn,
             \/ \E n \in Node : Hello(c, n)
             \/ Reserve(c) \/ FinishPending(c) \/ Install(c)
             \/ BeginDispatch(c) \/ EndDispatch(c) \/ RunEnds(c) \/ EndDispatching(c)
             \/ BeginOwnerRelease(c) \/ FinishOwnerRelease(c) \/ Dropped(c) \/ CloseAllHandle(c)
      PROVE  UNCHANGED <<leaseVars, owner>>
  BY <1>3, Zenon DEF Hello, Reserve, FinishPending, Install, BeginDispatch, EndDispatch,
     RunEnds,
              EndDispatching, BeginOwnerRelease, FinishOwnerRelease, Dropped, CloseAllHandle
<1>4. ASSUME NEW o \in Op,
             \/ \E a \in Node : Resolve(o, a)
             \/ BeginTransition(o) \/ TransitionRefused(o) \/ TransitionCloses(o)
             \/ TransitionReady(o) \/ AbortTransition(o) \/ SettleTransition(o)
             \/ AnswerTransition(o)
      PROVE  UNCHANGED <<leaseVars, owner>>
  BY <1>4, Zenon DEF Resolve, BeginTransition, TransitionRefused, TransitionCloses,
     TransitionReady,
              AbortTransition, SettleTransition, AnswerTransition
<1>5. ASSUME NEW n \in Node, CloseAll(n) PROVE UNCHANGED <<leaseVars, owner>>
  BY <1>5, Zenon DEF CloseAll
<1>6. CASE Rebind
  BY <1>6, Zenon DEF Rebind
<1> QED
  BY <1>1, <1>2, <1>3, <1>4, <1>5, <1>6, Zenon DEF Next, ConnStep, OpStep

\* Authority is gained once; a row goes away when nobody's row names its node.
LEMMA LeaseMoves ==
    ASSUME IInv, LeaseStep, NEW n \in Node
    PROVE  /\ Covered(n)'
           /\ authority[n] # "new" => authority'[n] # "new" /\ (Held(n)' => Held(n))
           /\ owner.node = n => row'[n] \in {"serving", "draining"}
<1>1. /\ authority \in [Node -> AuthorityState] /\ row \in [Node -> NodeRow]
      /\ leased \in [Node -> BOOLEAN]
      /\ Covered(n)
      /\ owner.node = n /\ n # None => row[n] \in {"serving", "draining"}
      /\ n # None
  BY NullAssumption, Zenon DEF IInv, TypeOK, OwnerHasRow
<1>2. row'[n] = "gone" /\ row[n] # "gone" => owner.node # n
  BY Zenon DEF LeaseStep
<1> USE DEF Covered, Held, NodeValid
<1>3. CASE Elapse
  BY <1>1, <1>3 DEF Elapse
<1>4. ASSUME NEW m \in Node, Register(m)
      PROVE  /\ Covered(n)'
             /\ authority[n] # "new" => authority'[n] # "new" /\ (Held(n)' => Held(n))
             /\ owner.node = n => row'[n] \in {"serving", "draining"}
  BY <1>1, <1>4, Zenon DEF Register
<1>5. ASSUME NEW m \in Node,
             Activate(m) \/ GiveUp(m) \/ StopAdmitting(m) \/ DrainNode(m) \/ DeleteNode(m)
      PROVE  /\ Covered(n)'
             /\ authority[n] # "new" => authority'[n] # "new" /\ (Held(n)' => Held(n))
             /\ owner.node = n => row'[n] \in {"serving", "draining"}
  BY <1>1, <1>2, <1>5, Zenon DEF Activate, GiveUp, StopAdmitting, DrainNode, DeleteNode
<1> QED
  BY <1>3, <1>4, <1>5, Zenon DEF LeaseStep, LeaseNext

\* The authority of every node stays covered by its row: the part of the
\* inductive invariant that only speaks of the lease.
LEMMA LeasePart ==
    ASSUME IInv, Next
    PROVE  /\ \A n \in Node : Covered(n)'
           /\ OwnerHasRow'
           /\ \A n \in Node :
                 authority[n] # "new" => authority'[n] # "new" /\ (Held(n)' => Held(n))
<1>1. CASE LeaseStep
  <2>1. owner' = owner /\ owner.node \in Node \cup {None}
    BY <1>1, Zenon DEF LeaseStep, IInv, TypeOK, OwnerRow
  <2> QED
    BY <1>1, <2>1, LeaseMoves, Zenon DEF OwnerHasRow
<1>2. CASE ~LeaseStep
  <2>1. TypeOK /\ OwnerHasRow /\ \A n \in Node : Covered(n)
    BY Zenon DEF IInv
  <2>2. /\ UNCHANGED <<row, leased>>
        /\ \A n \in Node : authority'[n] \in {authority[n], "lost"}
        /\ \/ owner' = owner \/ owner' = Vacant
           \/ \E c \in Conn : NodeServing(at[c]) /\ owner'.node = at[c]
    BY <1>2, <2>1, OtherStep, Zenon
  <2>3. OwnerHasRow'
    BY <2>1, <2>2, Zenon DEF OwnerHasRow, Vacant, NodeServing, TypeOK, OwnerRow
  <2> QED
    BY <2>1, <2>2, <2>3, Zenon DEF Covered, Held, NodeValid
<1> QED
  BY <1>1, <1>2, Zenon

\* Whoever holds a claim on a node with authority is the valid owner.
LEMMA HolderIsOwner ==
    ASSUME IInv, NEW c \in Conn, st[c] \in Holding, Held(at[c])
    PROVE  Owns(c) /\ OwnerValid /\ OwnsExactly(c)
<1>1. Owns(c) /\ at[c] \in Node /\ Covered(at[c]) /\ OwnerHasRow
  BY Zenon DEF IInv, ConnInv, Holding
<1> QED
  BY <1>1, NullAssumption, Zenon DEF Owns, OwnerValid, OwnsExactly, OwnerHasRow, Covered,
     NodeValid

\* A release changes the row of its own connection only, and leaves the node
\* with authority only when it has vacated that row.
LEMMA ReleaseEffect ==
    ASSUME IInv, NEW c \in Conn, at[c] \in Node, ReleaseSucceeds(c) \/ ReleaseFails(c)
    PROVE  /\ owner' = owner \/ (owner.conn = c /\ owner'.conn = None)
           /\ at' = at => (Held(at[c])' => owner'.conn = None /\ owner.conn = c)
<1>1. owner \in OwnerRow /\ authority \in [Node -> AuthorityState]
  BY Zenon DEF IInv, TypeOK
<1>2. CASE ReleaseSucceeds(c)
  BY <1>1, <1>2, Zenon DEF ReleaseSucceeds, OwnsExactly, Vacant, OwnerRow
<1>3. CASE ReleaseFails(c)
  <2>1. at' = at => ~Held(at[c])'
    BY <1>1, <1>3, Zenon DEF ReleaseFails, LoseAuthority, Held
  <2> QED
    BY <1>1, <1>3, <2>1, Zenon DEF ReleaseFails, OwnsExactly, Vacant, OwnerRow
<1> QED
  BY <1>2, <1>3, Zenon

-----------------------------------------------------------------------------
\* What a connection's phase says about the row and its handle stays true.
LEMMA ConnStepInv ==
    ASSUME IInv, Next, NEW d \in Conn
    PROVE  ConnInv(d)'
<1> USE DEF ConnInv, Holding, Unowning, Owns
<1>t. /\ st \in [Conn -> ConnState] /\ at \in [Conn -> Node \cup {None}]
      /\ crev \in [Conn -> Nat] /\ ep \in [Conn -> Nat]
      /\ open \in SUBSET Conn /\ busy \in SUBSET Conn /\ cleaned \in SUBSET Conn
      /\ owner \in OwnerRow
  BY Zenon DEF IInv, TypeOK
<1>i. \A c \in Conn : ConnInv(c)
  BY Zenon DEF IInv
<1>a. \A n \in Node : authority[n] # "new" => authority'[n] # "new" /\ (Held(n)' => Held(n))
  BY LeasePart, Zenon
<1>h. st[d] \in Holding /\ Held(at[d]) => Owns(d) /\ OwnerValid
  BY HolderIsOwner, Zenon
<1>1. CASE LeaseStep \/ Rebind
  BY <1>t, <1>i, <1>a, <1>h, <1>1, Zenon DEF LeaseStep, Rebind
<1>2. ASSUME NEW c \in Conn, NEW n \in Node, Hello(c, n) PROVE ConnInv(d)'
  BY <1>t, <1>i, <1>a, <1>h, <1>2 DEF Hello, Goto, Held
<1>3. ASSUME NEW c \in Conn, Reserve(c) PROVE ConnInv(d)'
  BY <1>t, <1>i, <1>a, <1>h, <1>3 DEF Reserve, Goto
<1>4. ASSUME NEW c \in Conn, Claim(c) PROVE ConnInv(d)'
  BY <1>t, <1>i, <1>a, <1>h, <1>4, Zenon DEF Claim, TakeOwnership, Claimable, NodeServing,
     Goto
<1>5. ASSUME NEW c \in Conn, ClaimError(c) PROVE ConnInv(d)'
  <2>1. CASE UNCHANGED <<leaseVars, owner, life>> \/ ~TakeOwnership(c)
    BY <1>t, <1>i, <1>a, <1>h, <1>5, <2>1, Zenon DEF ClaimError, LoseAuthority, Goto
  <2>2. CASE TakeOwnership(c) /\ LoseAuthority(at[c])
    <3>1. /\ at[c] \in Node /\ at' = at
          /\ st[c] = "reserved" /\ st' = [st EXCEPT ![c] = "claimFailed"]
      BY <1>i, <1>5, Zenon DEF ClaimError, Goto
    <3>2. ~Held(at[c])'
      BY <2>2, <3>1, Zenon DEF LoseAuthority, Held, IInv, TypeOK
    <3>3. CASE d = c
      BY <1>t, <1>i, <1>a, <1>5, <3>1, <3>2, <3>3, Zenon DEF ClaimError
    <3>4. CASE d # c
      BY <1>t, <1>i, <1>a, <1>h, <1>5, <2>2, <3>1, <3>4, Zenon DEF ClaimError,
         TakeOwnership, Claimable
    <3> QED
      BY <3>3, <3>4, Zenon
  <2> QED
    BY <1>5, <2>1, <2>2, Zenon DEF ClaimError
<1>6. ASSUME NEW c \in Conn, FinishPending(c) PROVE ConnInv(d)'
  BY <1>t, <1>i, <1>a, <1>h, <1>6, Zenon DEF FinishPending, Goto
<1>7. ASSUME NEW c \in Conn, Install(c) PROVE ConnInv(d)'
  BY <1>t, <1>i, <1>a, <1>h, <1>7 DEF Install, Installable, Goto
<1>8. ASSUME NEW c \in Conn, Unwind(c) PROVE ConnInv(d)'
  <2>1. at[c] \in Node /\ at' = at
    BY <1>i, <1>8, Zenon DEF Unwind
  <2>2. /\ owner' = owner \/ (owner.conn = c /\ owner'.conn = None)
        /\ Held(at[c])' => owner'.conn = None
    BY <1>8, <2>1, ReleaseEffect, Zenon DEF Unwind, ReleaseOwner
  <2>3. CASE owner' = owner
    BY <1>t, <1>i, <1>a, <1>8, <2>1, <2>2, <2>3, NullAssumption DEF Unwind, Goto
  <2>4. CASE owner.conn = c /\ owner'.conn = None
    BY <1>t, <1>i, <1>a, <1>8, <2>1, <2>2, <2>4, NullAssumption, Zenon DEF Unwind, Goto
  <2> QED
    BY <2>2, <2>3, <2>4, Zenon
<1>9. ASSUME NEW c \in Conn, BeginDispatch(c) PROVE ConnInv(d)'
  BY <1>t, <1>i, <1>a, <1>h, <1>9, Zenon DEF BeginDispatch, MayDispatch
<1>10. ASSUME NEW c \in Conn, EndDispatch(c) PROVE ConnInv(d)'
  BY <1>t, <1>i, <1>a, <1>h, <1>10, Zenon DEF EndDispatch
<1>11. ASSUME NEW c \in Conn, RunEnds(c) PROVE ConnInv(d)'
  BY <1>t, <1>i, <1>a, <1>h, <1>11, Zenon DEF RunEnds, Goto
<1>12. ASSUME NEW c \in Conn, EndDispatching(c) PROVE ConnInv(d)'
  BY <1>t, <1>i, <1>a, <1>h, <1>12, Zenon DEF EndDispatching, CloseDispatch, Goto
<1>13. ASSUME NEW c \in Conn, BeginOwnerRelease(c) PROVE ConnInv(d)'
  BY <1>t, <1>i, <1>a, <1>h, <1>13 DEF BeginOwnerRelease, Exit, NoExit, Goto
<1>14. ASSUME NEW c \in Conn, Release(c) PROVE ConnInv(d)'
  <2>1. at[c] \in Node /\ at' = at
    BY <1>i, <1>14, Zenon DEF Release
  <2>2. /\ owner' = owner \/ (owner.conn = c /\ owner'.conn = None)
        /\ Held(at[c])' => owner'.conn = None
    BY <1>14, <2>1, ReleaseEffect, Zenon DEF Release, ReleaseOwner
  <2>3. CASE owner' = owner
    BY <1>t, <1>i, <1>a, <1>14, <2>1, <2>2, <2>3, NullAssumption DEF Release, Goto
  <2>4. CASE owner.conn = c /\ owner'.conn = None
    BY <1>t, <1>i, <1>a, <1>14, <2>1, <2>2, <2>4, NullAssumption, Zenon DEF Release, Goto
  <2> QED
    BY <2>2, <2>3, <2>4, Zenon
<1>15. ASSUME NEW c \in Conn, FinishOwnerRelease(c) PROVE ConnInv(d)'
  BY <1>t, <1>i, <1>a, <1>h, <1>15, Zenon DEF FinishOwnerRelease, Exit, NoExit, Goto
<1>16. ASSUME NEW c \in Conn, Dropped(c) PROVE ConnInv(d)'
  BY <1>t, <1>i, <1>a, <1>h, <1>16, Zenon DEF Dropped, Goto
<1>17. ASSUME NEW c \in Conn, CloseAllHandle(c) PROVE ConnInv(d)'
  BY <1>t, <1>i, <1>a, <1>h, <1>17, Zenon DEF CloseAllHandle, CloseDispatch
<1>18. ASSUME NEW n \in Node, CloseAll(n) PROVE ConnInv(d)'
  BY <1>t, <1>i, <1>a, <1>h, <1>18, Zenon DEF CloseAll
<1>19. ASSUME NEW o \in Op,
             \/ \E a \in Node : Resolve(o, a)
             \/ BeginTransition(o) \/ TransitionRefused(o) \/ TransitionReady(o)
             \/ AbortTransition(o) \/ SettleTransition(o) \/ AnswerTransition(o)
      PROVE  ConnInv(d)'
  BY <1>t, <1>i, <1>a, <1>19, Zenon DEF Resolve, BeginTransition, TransitionRefused,
     TransitionReady, AbortTransition, SettleTransition, AnswerTransition
<1>20. ASSUME NEW o \in Op, TransitionCloses(o) PROVE ConnInv(d)'
  BY <1>t, <1>i, <1>a, <1>h, <1>20, Zenon DEF TransitionCloses, CloseDispatch, Set
<1>21. ASSUME NEW o \in Op, TransitionAbandoned(o) PROVE ConnInv(d)'
  BY <1>t, <1>i, <1>a, <1>h, <1>21, Zenon DEF TransitionAbandoned, LoseAuthority, Set,
     IdleOp
<1>22. ASSUME NEW o \in Op, CommitTransition(o) PROVE ConnInv(d)'
  <2>1. st[d] \in Holding => ~Held(at[d])
    <3>1. CASE op[o].target = None
      BY <1>h, <1>22, <3>1, Zenon DEF CommitTransition, TakeRouteAway, Committable,
         OwnerMatches
    <3>2. CASE op[o].target # None
      <4>1. st[op[o].target] = "done" /\ owner.conn = op[o].target
        BY <1>i, <1>22, <3>2, TargetStarted, Zenon
           DEF IInv, OpInv, CommitTransition, TakeRouteAway, Committable, OwnerMatches
      <4> QED
        BY <1>h, <4>1, Zenon
    <3> QED
      BY <3>1, <3>2, Zenon
  <2>2. owner'.conn = None
    BY <1>t, <1>22, Zenon DEF CommitTransition, TakeRouteAway, Vacant, OwnerRow
  <2> QED
    BY <1>t, <1>i, <1>a, <1>22, <2>1, <2>2, NullAssumption, Zenon DEF CommitTransition
<1>23. ASSUME NEW o \in Op, ReleaseAborted(o) PROVE ConnInv(d)'
  <2>1. PICK c \in Conn : c = op[o].target /\ at[c] \in Node /\ st[c] = "done" /\ at' = at
    BY <1>i, <1>23, TargetStarted, Zenon DEF IInv, OpInv, ReleaseAborted
  <2>2. owner' = owner \/ (owner.conn = c /\ owner'.conn = None)
    BY <1>23, <2>1, ReleaseEffect, Zenon DEF ReleaseAborted
  <2>3. CASE owner' = owner
    BY <1>t, <1>i, <1>a, <1>23, <2>3, Zenon DEF ReleaseAborted
  <2>4. CASE owner.conn = c /\ owner'.conn = None
    BY <1>t, <1>i, <1>a, <1>h, <1>23, <2>1, <2>4, NullAssumption, Zenon DEF ReleaseAborted
  <2> QED
    BY <2>2, <2>3, <2>4, Zenon
<1> QED
  BY Zenon, <1>1, <1>2, <1>3, <1>4, <1>5, <1>6, <1>7, <1>8, <1>9, <1>10, <1>11, <1>12,
     <1>13,
     <1>14, <1>15, <1>16, <1>17, <1>18, <1>19, <1>20, <1>21, <1>22, <1>23 DEF Next,
     ConnStep, OpStep

-----------------------------------------------------------------------------
\* What a request knows of its target stays true.
LEMMA OpStepInv ==
    ASSUME IInv, Next, NEW p \in Op
    PROVE  OpInv(p)'
<1> USE DEF OpInv
<1>t. /\ op \in [Op -> Request]
      /\ st \in [Conn -> ConnState] /\ at \in [Conn -> Node \cup {None}]
      /\ owner \in OwnerRow
  BY Zenon DEF IInv, TypeOK
<1>i. /\ OpInv(p) /\ op[p].target \in Conn \cup {None}
      /\ op[p].target # None => at[op[p].target] \in Node /\ authority[at[op[p].target]] # "new"
      /\ op[p].target \in cleaned => st[op[p].target] = "done"
  BY TargetStarted, Zenon DEF IInv, TypeOK, Request, ConnInv
<1>a. \A n \in Node : authority[n] # "new" => authority'[n] # "new" /\ (Held(n)' => Held(n))
  BY LeasePart, Zenon
<1>1. CASE LeaseStep \/ Rebind
  BY <1>t, <1>i, <1>a, <1>1 DEF LeaseStep, Rebind
<1>2. ASSUME NEW c \in Conn,
             \/ BeginDispatch(c) \/ EndDispatch(c) \/ CloseAllHandle(c)
      PROVE  OpInv(p)'
  BY <1>t, <1>i, <1>a, <1>2 DEF BeginDispatch, EndDispatch, CloseAllHandle
<1>3. ASSUME NEW c \in Conn, NEW m \in Node, Hello(c, m) PROVE OpInv(p)'
  BY <1>t, <1>i, <1>a, <1>3, Zenon DEF Hello, Goto
<1>4. ASSUME NEW c \in Conn, Reserve(c) PROVE OpInv(p)'
  BY <1>t, <1>i, <1>a, <1>4, Zenon DEF Reserve, Goto
<1>5. ASSUME NEW c \in Conn, Claim(c) PROVE OpInv(p)'
  BY <1>t, <1>i, <1>a, <1>5, Zenon DEF Claim, TakeOwnership, Claimable, NodeServing, Goto
<1>6. ASSUME NEW c \in Conn, ClaimError(c) PROVE OpInv(p)'
  BY <1>t, <1>i, <1>a, <1>6 DEF ClaimError, TakeOwnership, Claimable, NodeServing,
     LoseAuthority, Goto
<1>7. ASSUME NEW c \in Conn, FinishPending(c) PROVE OpInv(p)'
  BY <1>t, <1>i, <1>a, <1>7, Zenon DEF FinishPending, Goto
<1>8. ASSUME NEW c \in Conn, Install(c) PROVE OpInv(p)'
  BY <1>t, <1>i, <1>a, <1>8, Zenon DEF Install, Installable, Goto
<1>9. ASSUME NEW c \in Conn, Unwind(c) PROVE OpInv(p)'
  <2>1. at[c] \in Node /\ at' = at
    BY <1>9, Zenon DEF IInv, ConnInv, Unwind
  <2>2. owner' = owner \/ owner'.conn = None
    BY <1>9, <2>1, ReleaseEffect, Zenon DEF Unwind, ReleaseOwner
  <2> QED
    BY <1>t, <1>i, <1>a, <1>9, <2>2, Zenon DEF Unwind, Goto
<1>10. ASSUME NEW c \in Conn, RunEnds(c) PROVE OpInv(p)'
  BY <1>t, <1>i, <1>a, <1>10, Zenon DEF RunEnds, Goto
<1>11. ASSUME NEW c \in Conn, EndDispatching(c) PROVE OpInv(p)'
  BY <1>t, <1>i, <1>a, <1>11, Zenon DEF EndDispatching, CloseDispatch, Goto
<1>12. ASSUME NEW c \in Conn, BeginOwnerRelease(c) PROVE OpInv(p)'
  BY <1>t, <1>i, <1>a, <1>12, Zenon DEF BeginOwnerRelease, Exit, NoExit, Goto
<1>13. ASSUME NEW c \in Conn, Release(c) PROVE OpInv(p)'
  <2>1. at[c] \in Node /\ at' = at
    BY <1>13, Zenon DEF IInv, ConnInv, Release
  <2>2. owner' = owner \/ owner'.conn = None
    BY <1>13, <2>1, ReleaseEffect, Zenon DEF Release, ReleaseOwner
  <2> QED
    BY <1>t, <1>i, <1>a, <1>13, <2>2, Zenon DEF Release, Goto
<1>14. ASSUME NEW c \in Conn, FinishOwnerRelease(c) PROVE OpInv(p)'
  BY <1>t, <1>i, <1>a, <1>14, Zenon DEF FinishOwnerRelease, Exit, NoExit, Goto
<1>15. ASSUME NEW c \in Conn, Dropped(c) PROVE OpInv(p)'
  BY <1>t, <1>i, <1>a, <1>15, Zenon DEF Dropped, Goto
<1>16. ASSUME NEW m \in Node, CloseAll(m) PROVE OpInv(p)'
  BY <1>t, <1>i, <1>a, <1>16, Zenon DEF CloseAll
<1>17. ASSUME NEW o \in Op, NEW a \in Node, Resolve(o, a) PROVE OpInv(p)'
  <2>1. owner.conn # None => st[owner.conn] # "new"
    BY <1>t, Zenon DEF IInv, ConnInv, OwnerRow
  <2> QED
    BY <1>t, <1>i, <1>a, <1>17, <2>1, Zenon DEF Resolve, Set, OwnerRow
<1>18. ASSUME NEW o \in Op, BeginTransition(o) PROVE OpInv(p)'
  BY <1>t, <1>i, <1>a, <1>18 DEF BeginTransition, RouteInstalled, Exit, NoExit, Set
<1>19. ASSUME NEW o \in Op, TransitionRefused(o) PROVE OpInv(p)'
  BY <1>t, <1>i, <1>a, <1>19, Zenon DEF TransitionRefused, Set, IdleOp
<1>20. ASSUME NEW o \in Op, TransitionCloses(o) PROVE OpInv(p)'
  BY <1>t, <1>i, <1>a, <1>20 DEF TransitionCloses, CloseDispatch, Set
<1>21. ASSUME NEW o \in Op, TransitionReady(o) PROVE OpInv(p)'
  BY <1>t, <1>i, <1>a, <1>21 DEF TransitionReady, CleanupComplete, Set
<1>22. ASSUME NEW o \in Op, TransitionAbandoned(o) PROVE OpInv(p)'
  BY <1>t, <1>i, <1>a, <1>22, Zenon DEF TransitionAbandoned, LoseAuthority, Set, IdleOp
<1>23. ASSUME NEW o \in Op, CommitTransition(o) PROVE OpInv(p)'
  BY <1>t, <1>i, <1>a, <1>23 DEF CommitTransition, TakeRouteAway, Committable,
     OwnerMatches, Vacant, Set
<1>24. ASSUME NEW o \in Op, AbortTransition(o) PROVE OpInv(p)'
  BY <1>t, <1>i, <1>a, <1>24 DEF AbortTransition, Set
<1>25. ASSUME NEW o \in Op, ReleaseAborted(o) PROVE OpInv(p)'
  <2>1. PICK c \in Conn : c = op[o].target /\ at[c] \in Node /\ at' = at
                              /\ (ReleaseSucceeds(c) \/ ReleaseFails(c))
    BY <1>25, TargetStarted, Zenon DEF ReleaseAborted
  <2>2. /\ owner' = owner \/ owner'.conn = None
        /\ Held(at[c])' => owner'.conn = None
    BY <2>1, ReleaseEffect, Zenon
  <2>3. CASE p = o
    <3>1. op'[p] = IdleOp \/ op'[p] = [op[p] EXCEPT !.ph = "settling"]
      BY <1>t, <1>25, <2>3, Zenon DEF ReleaseAborted, Set
    <3>2. UNCHANGED <<st, at, cleaned>> /\ op[p].ph = "aborted"
      BY <1>25, <2>3, Zenon DEF ReleaseAborted
    <3>3. CASE op'[p] = IdleOp
      BY <3>3 DEF IdleOp
    <3>4. CASE op'[p] = [op[p] EXCEPT !.ph = "settling"]
      <4>1. op'[p].target = op[p].target /\ op'[p].ph = "settling"
        BY <1>t, <3>4 DEF Request
      <4> QED
        BY <1>i, <2>1, <2>2, <2>3, <3>2, <4>1, Zenon
    <3> QED
      BY <3>1, <3>3, <3>4, Zenon
  <2>4. CASE p # o
    BY <1>t, <1>i, <1>a, <1>25, <2>2, <2>4, Zenon DEF ReleaseAborted, Set
  <2> QED
    BY <2>3, <2>4, Zenon
<1>26. ASSUME NEW o \in Op, SettleTransition(o) PROVE OpInv(p)'
  BY <1>t, <1>i, <1>a, <1>26, Zenon DEF SettleTransition, Exit, NoExit, Set, IdleOp
<1>27. ASSUME NEW o \in Op, AnswerTransition(o) PROVE OpInv(p)'
  BY <1>t, <1>i, <1>a, <1>27, Zenon DEF AnswerTransition, Set, IdleOp
<1> QED
  BY Zenon, <1>1, <1>2, <1>3, <1>4, <1>5, <1>6, <1>7, <1>8, <1>9, <1>10, <1>11, <1>12,
     <1>13, <1>14, <1>15, <1>16, <1>17, <1>18, <1>19, <1>20, <1>21, <1>22, <1>23,
     <1>24, <1>25, <1>26, <1>27 DEF Next, ConnStep, OpStep

\* A pending claim is one the connection still has to install or give up.
LEMMA PendingStepInv ==
    ASSUME IInv, Next, NEW n \in Node
    PROVE  PendingInv(n)'
<1> USE DEF PendingInv, Claiming
<1>t. /\ tunnels \in [Node -> Conn \cup {None}] /\ pending \in [Node -> SUBSET Conn]
      /\ exits \in [Node -> MachineExit]
      /\ st \in [Conn -> ConnState] /\ at \in [Conn -> Node \cup {None}]
  BY Zenon DEF IInv, TypeOK
<1>i. PendingInv(n)
  BY Zenon DEF IInv
<1>j. \A c \in Conn : st[c] # "new" => at[c] \in Node /\ authority[at[c]] # "new"
  BY Zenon DEF IInv, ConnInv
<1>a. \A m \in Node : authority[m] # "new" => authority'[m] # "new" /\ (Held(m)' => Held(m))
  BY LeasePart, Zenon
<1>1. CASE LeaseStep \/ Rebind
  BY <1>t, <1>i, <1>j, <1>a, <1>1, Zenon DEF LeaseStep, Rebind
<1>2. ASSUME NEW c \in Conn,
             \/ BeginDispatch(c) \/ EndDispatch(c) \/ CloseAllHandle(c)
      PROVE  PendingInv(n)'
  BY <1>t, <1>i, <1>j, <1>a, <1>2, Zenon DEF BeginDispatch, EndDispatch, CloseAllHandle
<1>3. ASSUME NEW o \in Op,
             \/ (\E a \in Node : Resolve(o, a)) \/ BeginTransition(o)
             \/ TransitionRefused(o) \/ TransitionCloses(o) \/ TransitionReady(o)
             \/ TransitionAbandoned(o) \/ CommitTransition(o)
             \/ AbortTransition(o) \/ ReleaseAborted(o) \/ SettleTransition(o)
             \/ AnswerTransition(o)
      PROVE  PendingInv(n)'
  BY <1>t, <1>i, <1>j, <1>a, <1>3, Zenon DEF Resolve, BeginTransition, TransitionRefused,
     TransitionCloses, TransitionReady, TransitionAbandoned, CommitTransition,
     AbortTransition, ReleaseAborted, SettleTransition, AnswerTransition
<1>4. ASSUME NEW c \in Conn, NEW m \in Node, Hello(c, m) PROVE PendingInv(n)'
  BY <1>t, <1>i, <1>j, <1>a, <1>4, Zenon DEF Hello, Goto
<1>5. ASSUME NEW c \in Conn, Reserve(c) PROVE PendingInv(n)'
  BY <1>t, <1>i, <1>j, <1>a, <1>5 DEF Reserve, Goto
<1>6. ASSUME NEW c \in Conn, Claim(c) PROVE PendingInv(n)'
  BY <1>t, <1>i, <1>j, <1>a, <1>6 DEF Claim, TakeOwnership, Claimable, NodeServing, Goto
<1>7. ASSUME NEW c \in Conn, ClaimError(c) PROVE PendingInv(n)'
  BY <1>t, <1>i, <1>j, <1>a, <1>7 DEF ClaimError, TakeOwnership, Claimable, NodeServing,
     LoseAuthority, Goto
<1>8. ASSUME NEW c \in Conn, FinishPending(c) PROVE PendingInv(n)'
  BY <1>t, <1>i, <1>j, <1>a, <1>8, Zenon DEF FinishPending, Goto
<1>9. ASSUME NEW c \in Conn, Install(c) PROVE PendingInv(n)'
  BY <1>t, <1>i, <1>j, <1>a, <1>9 DEF Install, Installable, Goto
<1>10. ASSUME NEW c \in Conn, Unwind(c) PROVE PendingInv(n)'
  BY <1>t, <1>i, <1>j, <1>a, <1>10 DEF Unwind, ReleaseOwner, ReleaseSucceeds,
     ReleaseFails, OwnsExactly, Vacant, LoseAuthority, Goto
<1>11. ASSUME NEW c \in Conn, RunEnds(c) PROVE PendingInv(n)'
  BY <1>t, <1>i, <1>j, <1>a, <1>11, Zenon DEF RunEnds, Goto
<1>12. ASSUME NEW c \in Conn, EndDispatching(c) PROVE PendingInv(n)'
  BY <1>t, <1>i, <1>j, <1>a, <1>12, Zenon DEF EndDispatching, CloseDispatch, Goto
<1>13. ASSUME NEW c \in Conn, BeginOwnerRelease(c) PROVE PendingInv(n)'
  BY <1>t, <1>i, <1>j, <1>a, <1>13, Zenon DEF BeginOwnerRelease, Exit, NoExit, Goto
<1>14. ASSUME NEW c \in Conn, Release(c) PROVE PendingInv(n)'
  BY <1>t, <1>i, <1>j, <1>a, <1>14 DEF Release, ReleaseOwner, ReleaseSucceeds,
     ReleaseFails, OwnsExactly, Vacant, LoseAuthority, Goto
<1>15. ASSUME NEW c \in Conn, FinishOwnerRelease(c) PROVE PendingInv(n)'
  BY <1>t, <1>i, <1>j, <1>a, <1>15, Zenon DEF FinishOwnerRelease, Exit, NoExit, Goto
<1>16. ASSUME NEW c \in Conn, Dropped(c) PROVE PendingInv(n)'
  BY <1>t, <1>i, <1>j, <1>a, <1>16, Zenon DEF Dropped, Goto
<1>17. ASSUME NEW m \in Node, CloseAll(m) PROVE PendingInv(n)'
  BY <1>t, <1>i, <1>j, <1>a, <1>17, Zenon DEF CloseAll
<1> QED
  BY Zenon, <1>1, <1>2, <1>3, <1>4, <1>5, <1>6, <1>7, <1>8, <1>9, <1>10, <1>11, <1>12,
     <1>13, <1>14, <1>15, <1>16, <1>17 DEF Next, ConnStep, OpStep

\* A registry entry is the route that owns the Machine, until it is released.
LEMMA EntryStepInv ==
    ASSUME IInv, Next, NEW n \in Node
    PROVE  EntryInv(n)'
<1> USE DEF EntryInv, Installed, Holding
<1>t. /\ tunnels \in [Node -> Conn \cup {None}] /\ pending \in [Node -> SUBSET Conn]
      /\ exits \in [Node -> MachineExit]
      /\ st \in [Conn -> ConnState] /\ at \in [Conn -> Node \cup {None}]
  BY Zenon DEF IInv, TypeOK
<1>i. EntryInv(n)
  BY Zenon DEF IInv
<1>j. \A c \in Conn : st[c] # "new" => at[c] \in Node /\ authority[at[c]] # "new"
  BY Zenon DEF IInv, ConnInv
<1>a. \A m \in Node : authority[m] # "new" => authority'[m] # "new" /\ (Held(m)' => Held(m))
  BY LeasePart, Zenon
<1>h. \A c \in Conn : st[c] \in Holding /\ Held(at[c]) => owner.conn = c
  BY HolderIsOwner, Zenon DEF Owns
<1>1. CASE LeaseStep \/ Rebind
  BY <1>t, <1>i, <1>j, <1>a, <1>h, <1>1, Zenon DEF LeaseStep, Rebind
<1>2. ASSUME NEW c \in Conn,
             \/ BeginDispatch(c) \/ EndDispatch(c) \/ CloseAllHandle(c)
      PROVE  EntryInv(n)'
  BY <1>t, <1>i, <1>j, <1>a, <1>h, <1>2, Zenon DEF BeginDispatch, EndDispatch,
     CloseAllHandle
<1>3. ASSUME NEW o \in Op,
             \/ (\E a \in Node : Resolve(o, a)) \/ TransitionRefused(o)
             \/ TransitionCloses(o) \/ TransitionReady(o)
             \/ TransitionAbandoned(o) \/ CommitTransition(o)
             \/ AbortTransition(o) \/ ReleaseAborted(o) \/ AnswerTransition(o)
      PROVE  EntryInv(n)'
  BY <1>t, <1>i, <1>j, <1>a, <1>h, <1>3, Zenon DEF Resolve, TransitionRefused,
     TransitionCloses, TransitionReady, TransitionAbandoned, CommitTransition,
     AbortTransition, ReleaseAborted, AnswerTransition
<1>4. ASSUME NEW c \in Conn, NEW m \in Node, Hello(c, m) PROVE EntryInv(n)'
  BY <1>t, <1>i, <1>j, <1>a, <1>h, <1>4, Zenon DEF Hello, Goto
<1>5. ASSUME NEW c \in Conn, Reserve(c) PROVE EntryInv(n)'
  BY <1>t, <1>i, <1>j, <1>a, <1>h, <1>5, Zenon DEF Reserve, Goto
<1>6. ASSUME NEW c \in Conn, Claim(c) PROVE EntryInv(n)'
  BY <1>t, <1>i, <1>j, <1>a, <1>h, <1>6, Zenon DEF Claim, TakeOwnership, Claimable,
     NodeServing, Goto
<1>7. ASSUME NEW c \in Conn, ClaimError(c) PROVE EntryInv(n)'
  BY <1>t, <1>i, <1>j, <1>a, <1>h, <1>7, Zenon DEF ClaimError, TakeOwnership, Claimable,
     NodeServing, LoseAuthority, Goto
<1>8. ASSUME NEW c \in Conn, FinishPending(c) PROVE EntryInv(n)'
  BY <1>t, <1>i, <1>j, <1>a, <1>h, <1>8, Zenon DEF FinishPending, Goto
<1>9. ASSUME NEW c \in Conn, Install(c) PROVE EntryInv(n)'
  BY <1>t, <1>i, <1>j, <1>a, <1>h, <1>9 DEF Install, Installable, Goto
<1>10. ASSUME NEW c \in Conn, Unwind(c) PROVE EntryInv(n)'
  BY <1>t, <1>i, <1>j, <1>a, <1>h, <1>10, Zenon DEF Unwind, ReleaseOwner, ReleaseSucceeds,
     ReleaseFails, OwnsExactly, Vacant, LoseAuthority, Goto
<1>11. ASSUME NEW c \in Conn, RunEnds(c) PROVE EntryInv(n)'
  BY <1>t, <1>i, <1>j, <1>a, <1>h, <1>11, Zenon DEF RunEnds, Goto
<1>12. ASSUME NEW c \in Conn, EndDispatching(c) PROVE EntryInv(n)'
  BY <1>t, <1>i, <1>j, <1>a, <1>h, <1>12, Zenon DEF EndDispatching, CloseDispatch, Goto
<1>13. ASSUME NEW c \in Conn, BeginOwnerRelease(c) PROVE EntryInv(n)'
  BY <1>t, <1>i, <1>j, <1>a, <1>h, <1>13 DEF BeginOwnerRelease, Exit, NoExit, Goto
<1>14. ASSUME NEW c \in Conn, Release(c) PROVE EntryInv(n)'
  BY <1>t, <1>i, <1>j, <1>a, <1>h, <1>14, Zenon DEF Release, ReleaseOwner, ReleaseSucceeds,
     ReleaseFails, OwnsExactly, Vacant, LoseAuthority, Goto
<1>15. ASSUME NEW c \in Conn, FinishOwnerRelease(c) PROVE EntryInv(n)'
  BY <1>t, <1>i, <1>j, <1>a, <1>h, <1>15 DEF FinishOwnerRelease, Exit, NoExit, Goto
<1>16. ASSUME NEW c \in Conn, Dropped(c) PROVE EntryInv(n)'
  BY <1>t, <1>i, <1>j, <1>a, <1>h, <1>16, Zenon DEF Dropped, Goto
<1>17. ASSUME NEW m \in Node, CloseAll(m) PROVE EntryInv(n)'
  BY <1>t, <1>i, <1>j, <1>a, <1>h, <1>17, Zenon DEF CloseAll
<1>18. ASSUME NEW o \in Op, BeginTransition(o) PROVE EntryInv(n)'
  BY <1>t, <1>i, <1>j, <1>a, <1>h, <1>18 DEF BeginTransition, RouteInstalled, Exit,
     NoExit, Set
<1>19. ASSUME NEW o \in Op, SettleTransition(o) PROVE EntryInv(n)'
  BY <1>t, <1>i, <1>j, <1>a, <1>h, <1>19, Zenon DEF SettleTransition, Exit, NoExit, Set,
     IdleOp
<1> QED
  BY Zenon, <1>1, <1>2, <1>3, <1>4, <1>5, <1>6, <1>7, <1>8, <1>9, <1>10, <1>11, <1>12,
     <1>13, <1>14, <1>15, <1>16, <1>17, <1>18, <1>19 DEF Next, ConnStep, OpStep

\* What a connection's phase says about the exit stays true.
LEMMA ExitStepInv ==
    ASSUME IInv, Next, NEW d \in Conn
    PROVE  ExitInv(d)'
<1> USE DEF ExitInv, Installed, Holding
<1>t. /\ tunnels \in [Node -> Conn \cup {None}] /\ pending \in [Node -> SUBSET Conn]
      /\ exits \in [Node -> MachineExit]
      /\ st \in [Conn -> ConnState] /\ at \in [Conn -> Node \cup {None}]
  BY Zenon DEF IInv, TypeOK
<1>i. ExitInv(d) /\ ConnInv(d)
  BY Zenon DEF IInv
<1>o. owner \in OwnerRow
  BY Zenon DEF IInv, TypeOK
<1>j. \A c \in Conn : st[c] # "new" => at[c] \in Node /\ authority[at[c]] # "new"
  BY Zenon DEF IInv, ConnInv
<1>a. \A n \in Node : authority[n] # "new" => authority'[n] # "new" /\ (Held(n)' => Held(n))
  BY LeasePart, Zenon
<1>h. \A c \in Conn : st[c] \in Holding /\ Held(at[c]) => owner.conn = c
  BY HolderIsOwner, Zenon DEF Owns
<1>1. CASE LeaseStep \/ Rebind
  BY <1>t, <1>i, <1>o, <1>j, <1>a, <1>h, <1>1, Zenon DEF LeaseStep, Rebind
<1>2. ASSUME NEW c \in Conn,
             \/ BeginDispatch(c) \/ EndDispatch(c) \/ CloseAllHandle(c)
      PROVE  ExitInv(d)'
  BY <1>t, <1>i, <1>o, <1>j, <1>a, <1>h, <1>2, Zenon DEF BeginDispatch, EndDispatch,
     CloseAllHandle
<1>3. ASSUME NEW o \in Op,
             \/ (\E a \in Node : Resolve(o, a)) \/ TransitionRefused(o)
             \/ TransitionCloses(o) \/ TransitionReady(o) \/ AbortTransition(o)
             \/ AnswerTransition(o)
      PROVE  ExitInv(d)'
  BY <1>t, <1>i, <1>o, <1>j, <1>a, <1>h, <1>3, Zenon DEF Resolve, TransitionRefused,
     TransitionCloses, TransitionReady, AbortTransition, AnswerTransition
<1>4. ASSUME NEW c \in Conn, NEW m \in Node, Hello(c, m) PROVE ExitInv(d)'
  BY <1>t, <1>i, <1>o, <1>j, <1>a, <1>h, <1>4, Zenon DEF Hello, Goto
<1>5. ASSUME NEW c \in Conn, Reserve(c) PROVE ExitInv(d)'
  BY <1>t, <1>i, <1>o, <1>j, <1>a, <1>h, <1>5, Zenon DEF Reserve, Goto, ConnInv, Unowning
<1>6. ASSUME NEW c \in Conn, Claim(c) PROVE ExitInv(d)'
  BY <1>t, <1>i, <1>o, <1>j, <1>a, <1>h, <1>6, Zenon DEF Claim, TakeOwnership, Claimable,
     NodeServing, Goto
<1>7. ASSUME NEW c \in Conn, ClaimError(c) PROVE ExitInv(d)'
  BY <1>t, <1>i, <1>o, <1>j, <1>a, <1>h, <1>7 DEF ClaimError, TakeOwnership, Claimable,
     NodeServing, LoseAuthority, Goto
<1>8. ASSUME NEW c \in Conn, FinishPending(c) PROVE ExitInv(d)'
  BY <1>t, <1>i, <1>o, <1>j, <1>a, <1>h, <1>8, Zenon DEF FinishPending, Goto, ConnInv,
     Unowning
<1>9. ASSUME NEW c \in Conn, Install(c) PROVE ExitInv(d)'
  BY <1>t, <1>i, <1>o, <1>j, <1>a, <1>h, <1>9 DEF Install, Installable, Goto
<1>10. ASSUME NEW c \in Conn, Unwind(c) PROVE ExitInv(d)'
  <2>1. at[c] \in Node /\ at' = at
    BY <1>j, <1>10, Zenon DEF Unwind
  <2>2. owner' = owner \/ owner'.conn = None
    BY <1>10, <2>1, ReleaseEffect, Zenon DEF Unwind, ReleaseOwner
  <2> QED
    BY <1>t, <1>i, <1>j, <1>a, <1>10, <2>2, NullAssumption, Zenon DEF Unwind, Goto
<1>11. ASSUME NEW c \in Conn, RunEnds(c) PROVE ExitInv(d)'
  BY <1>t, <1>i, <1>o, <1>j, <1>a, <1>h, <1>11, Zenon DEF RunEnds, Goto
<1>12. ASSUME NEW c \in Conn, EndDispatching(c) PROVE ExitInv(d)'
  BY <1>t, <1>i, <1>o, <1>j, <1>a, <1>h, <1>12, Zenon DEF EndDispatching, CloseDispatch,
     Goto
<1>13. ASSUME NEW c \in Conn, BeginOwnerRelease(c) PROVE ExitInv(d)'
  BY <1>t, <1>i, <1>o, <1>j, <1>a, <1>h, <1>13 DEF BeginOwnerRelease, Exit, NoExit, Goto
<1>14. ASSUME NEW c \in Conn, Release(c) PROVE ExitInv(d)'
  <2>1. at[c] \in Node /\ at' = at
    BY <1>j, <1>14, Zenon DEF Release
  <2>2. owner' = owner \/ owner'.conn = None
    BY <1>14, <2>1, ReleaseEffect, Zenon DEF Release, ReleaseOwner
  <2> QED
    BY <1>t, <1>i, <1>j, <1>a, <1>14, <2>2, NullAssumption, Zenon DEF Release, Goto
<1>15. ASSUME NEW c \in Conn, FinishOwnerRelease(c) PROVE ExitInv(d)'
  BY <1>t, <1>i, <1>o, <1>j, <1>a, <1>h, <1>15 DEF FinishOwnerRelease, Exit, NoExit,
     Goto, ConnInv, Unowning
<1>16. ASSUME NEW c \in Conn, Dropped(c) PROVE ExitInv(d)'
  BY <1>t, <1>i, <1>o, <1>j, <1>a, <1>h, <1>16, Zenon DEF Dropped, Goto
<1>17. ASSUME NEW m \in Node, CloseAll(m) PROVE ExitInv(d)'
  BY <1>t, <1>i, <1>o, <1>j, <1>a, <1>h, <1>17, Zenon DEF CloseAll
<1>18. ASSUME NEW o \in Op, BeginTransition(o) PROVE ExitInv(d)'
  <2>1. PICK c \in Conn : /\ c = op[o].target /\ at[c] \in Node
                         /\ tunnels[at[c]] = c /\ exits[at[c]] = NoExit
    BY <1>18, TargetStarted, Zenon DEF BeginTransition, RouteInstalled
  <2>2. EntryInv(at[c]) /\ c # None
    BY <2>1, NullAssumption, Zenon DEF IInv
  <2>3. Held(at[c]) => st[c] \in Installed
    BY <2>1, <2>2 DEF EntryInv, Exit, NoExit
  <2>4. /\ exits' = [exits EXCEPT ![at[c]] = Exit("transitioning", c)]
        /\ UNCHANGED <<leaseVars, owner, conns>>
    BY <1>18, <2>1, Zenon DEF BeginTransition
  <2>5. CASE st[d] \in Installed /\ Held(at[d])
    BY <1>t, <1>i, <1>j, <1>h, <2>1, <2>3, <2>4, <2>5, Zenon
  <2>6. CASE st[d] = "done" /\ Held(at[d]) /\ owner.conn = d
    BY <1>t, <1>i, <1>j, <1>h, <2>1, <2>3, <2>4, <2>6, Zenon DEF Exit, NoExit
  <2> QED
    BY <1>i, <2>4, <2>5, <2>6, Zenon DEF Held
<1>19. ASSUME NEW o \in Op, TransitionAbandoned(o) PROVE ExitInv(d)'
  BY <1>t, <1>i, <1>o, <1>j, <1>a, <1>h, <1>19, Zenon DEF TransitionAbandoned,
     LoseAuthority, Set, IdleOp
<1>20. ASSUME NEW o \in Op, CommitTransition(o) PROVE ExitInv(d)'
  <2>1. owner'.conn = None
    BY <1>o, <1>20, Zenon DEF CommitTransition, TakeRouteAway, Vacant, OwnerRow
  <2> QED
    BY <1>t, <1>i, <1>j, <1>a, <1>20, <2>1, NullAssumption, Zenon DEF CommitTransition
<1>21. ASSUME NEW o \in Op, ReleaseAborted(o) PROVE ExitInv(d)'
  <2>1. PICK c \in Conn : c = op[o].target /\ at[c] \in Node /\ at' = at
                              /\ (ReleaseSucceeds(c) \/ ReleaseFails(c))
    BY <1>21, TargetStarted, Zenon DEF ReleaseAborted
  <2>2. owner' = owner \/ owner'.conn = None
    BY <2>1, ReleaseEffect, Zenon
  <2> QED
    BY <1>t, <1>i, <1>j, <1>a, <1>21, <2>2, NullAssumption, Zenon DEF ReleaseAborted
<1>22. ASSUME NEW o \in Op, SettleTransition(o) PROVE ExitInv(d)'
  <2>1. PICK c \in Conn : c = op[o].target /\ at[c] \in Node
    BY <1>22, TargetStarted, Zenon DEF SettleTransition
  <2>2. Held(at[c]) => owner.conn # c
    BY <1>22, <2>1, NullAssumption, Zenon DEF IInv, OpInv, SettleTransition
  <2>3. /\ exits' = [exits EXCEPT ![at[c]] =
                       IF @ = Exit("transitioning", c) THEN NoExit ELSE @]
        /\ UNCHANGED <<leaseVars, owner, conns>>
    BY <1>22, <2>1, Zenon DEF SettleTransition
  <2> QED
    BY <1>t, <1>i, <1>j, <1>h, <2>1, <2>2, <2>3 DEF Held, Exit
<1> QED
  BY Zenon, <1>1, <1>2, <1>3, <1>4, <1>5, <1>6, <1>7, <1>8, <1>9, <1>10, <1>11, <1>12,
     <1>13, <1>14, <1>15, <1>16, <1>17, <1>18, <1>19, <1>20, <1>21, <1>22 DEF Next,
     ConnStep, OpStep

-----------------------------------------------------------------------------
\* The inductive invariant holds before any tunnel or request exists.
LEMMA InitInv == Init => IInv
<1> SUFFICES ASSUME Init PROVE IInv
  OBVIOUS
<1> USE DEF Init, LeaseInit
<1>1. TypeOK
  BY RecordTypes, Zenon DEF TypeOK, AuthorityState, NodeRow, Life, ConnState, OwnerRow
<1>2. \A n \in Node : Covered(n) /\ EntryInv(n) /\ PendingInv(n)
  BY Zenon DEF Covered, EntryInv, PendingInv, Held
<1>3. OwnerHasRow
  BY Zenon DEF OwnerHasRow
<1>4. \A c \in Conn : ConnInv(c) /\ ExitInv(c)
  BY NullAssumption, Zenon DEF ConnInv, ExitInv, Holding, Unowning, Installed
<1>5. \A o \in Op : OpInv(o)
  BY Zenon DEF OpInv, IdleOp
<1> QED
  BY <1>1, <1>2, <1>3, <1>4, <1>5, Zenon DEF IInv

\* Every step of tunnels, requests and leases keeps the inductive invariant.
LEMMA Inductive == IInv /\ [Next]_vars => IInv'
<1> SUFFICES ASSUME IInv, [Next]_vars PROVE IInv'
  OBVIOUS
<1>1. CASE Next
  BY Zenon, <1>1, TypeStep, LeasePart, ConnStepInv, OpStepInv, PendingStepInv, EntryStepInv,
     ExitStepInv
     DEF IInv
<1>2. CASE UNCHANGED vars
  <2>1. TypeOK'
    BY <1>2, Zenon DEF IInv, TypeOK, vars
  <2>2. \A n \in Node : (Covered(n) /\ EntryInv(n) /\ PendingInv(n))'
    BY <1>2 DEF IInv, Covered, NodeValid, EntryInv, PendingInv, Held, vars
  <2>3. OwnerHasRow'
    BY <1>2, Zenon DEF IInv, OwnerHasRow, vars
  <2>4. \A c \in Conn : (ConnInv(c) /\ ExitInv(c))'
    BY <1>2, Zenon DEF IInv, ConnInv, ExitInv, Owns, Held, vars
  <2>5. \A o \in Op : OpInv(o)'
    BY <1>2, Zenon DEF IInv, OpInv, Held, vars
  <2> QED
    BY <2>1, <2>2, <2>3, <2>4, <2>5, Zenon DEF IInv
<1> QED
  BY <1>1, <1>2, Zenon

\* The inductive invariant holds in every reachable state.
LEMMA Invariance == Spec => []IInv
BY InitInv, Inductive, PTL DEF Spec

\* Only the route the database names, at the Machine's current revision, is
\* open to dispatch or has some in flight on a node with authority, whatever
\* claims, releases and transitions are under way (RouteFence::dispatch,
\* close_dispatch, claim_owner, commit_active_machine_transition).
THEOREM OpenDispatchIsOwned == Spec => []DispatchIsOwned
<1>1. IInv => DispatchIsOwned
  BY Zenon DEF IInv, ConnInv, Holding, DispatchIsOwned
<1> QED
  BY <1>1, Invariance, PTL

\* At most one route of the Machine accepts dispatch, in a deployment of any
\* size.
THEOREM DispatcherIsUnique == Spec => []OneDispatcher
<1>1. DispatchIsOwned => OneDispatcher
  BY Zenon DEF DispatchIsOwned, OneDispatcher, Owns
<1> QED
  BY <1>1, OpenDispatchIsOwned, PTL

\* begin_owner_release of a connection on a node with authority never answers
\* with its error, which would leave the row to nobody.
THEOREM CleanupMeetsItsOwnExit == Spec => []ExitIsOurs
<1>1. IInv => ExitIsOurs
  BY Zenon DEF IInv, ExitInv, Installed, ExitIsOurs
<1> QED
  BY <1>1, Invariance, PTL

\* release_owner finds the exact row wherever a tunnel's own cleanup issues
\* it on a node with authority, so that a healthy node never fences itself.
THEOREM ExactReleaseFindsItsRow == Spec => []ReleaseFindsItsRow
<1>1. IInv => ReleaseFindsItsRow
  BY HolderIsOwner, Zenon DEF Holding, ReleaseFindsItsRow
<1> QED
  BY <1>1, Invariance, PTL

\* A tunnel task that ended on a node with authority left no registry entry,
\* no pending claim, no open dispatch and no owner row, except a row that a
\* transition of its route is about to settle.
THEOREM FinishedTunnelLeftNothing == Spec => []DoneLeavesNothing
<1>1. ASSUME IInv, NEW c \in Conn, st[c] = "done", Held(at[c])
      PROVE  /\ tunnels[at[c]] # c /\ c \notin pending[at[c]] /\ c \notin open
             /\ owner.conn = c => exits[at[c]] = Exit("transitioning", c)
  <2>1. at[c] \in Node /\ c # None
    BY <1>1, NullAssumption, Zenon DEF IInv, ConnInv
  <2>2. EntryInv(at[c]) /\ PendingInv(at[c]) /\ ConnInv(c) /\ ExitInv(c)
    BY <1>1, <2>1, Zenon DEF IInv
  <2> QED
    BY <1>1, <2>1, <2>2, Zenon DEF EntryInv, PendingInv, ConnInv, ExitInv, Installed,
       Claiming
<1>2. IInv => DoneLeavesNothing
  BY <1>1, Zenon DEF DoneLeavesNothing
<1> QED
  BY <1>2, Invariance, PTL

-----------------------------------------------------------------------------
\* A node whose authority an operation takes away had gained it before.
LEMMA FenceOrNothing ==
    ASSUME IInv, Next, ~LeaseStep
    PROVE  \/ UNCHANGED leaseVars
           \/ \E n \in Node : authority[n] # "new" /\ LoseAuthority(n)
<1>1. ASSUME NEW c \in Conn, ClaimError(c) \/ Unwind(c) \/ Release(c)
      PROVE  \/ UNCHANGED leaseVars
             \/ \E n \in Node : authority[n] # "new" /\ LoseAuthority(n)
  <2>1. at[c] \in Node /\ authority[at[c]] # "new"
    BY <1>1, Zenon DEF IInv, ConnInv, ClaimError, Unwind, Release
  <2> QED
    BY <1>1, <2>1, Zenon DEF ClaimError, Unwind, Release, ReleaseOwner, ReleaseSucceeds,
       ReleaseFails
<1>2. ASSUME NEW o \in Op, TransitionAbandoned(o) \/ ReleaseAborted(o)
      PROVE  \/ UNCHANGED leaseVars
             \/ \E n \in Node : authority[n] # "new" /\ LoseAuthority(n)
  <2>1. PICK c \in Conn : c = op[o].target /\ at[c] \in Node /\ st[c] # "new"
    BY <1>2, TargetStarted DEF IInv, OpInv, TransitionAbandoned, ReleaseAborted
  <2>2. authority[at[c]] # "new"
    BY <2>1, Zenon DEF IInv, ConnInv
  <2> QED
    BY <1>2, <2>1, <2>2, Zenon DEF TransitionAbandoned, ReleaseAborted, ReleaseSucceeds,
       ReleaseFails
<1>3. ASSUME NEW c \in Conn,
             \/ \E n \in Node : Hello(c, n)
             \/ Reserve(c) \/ Claim(c) \/ FinishPending(c) \/ Install(c)
             \/ BeginDispatch(c) \/ EndDispatch(c) \/ RunEnds(c) \/ EndDispatching(c)
             \/ BeginOwnerRelease(c) \/ FinishOwnerRelease(c)
             \/ Dropped(c) \/ CloseAllHandle(c)
      PROVE  UNCHANGED leaseVars
  BY <1>3, Zenon DEF Hello, Reserve, Claim, FinishPending, Install, BeginDispatch, EndDispatch,
     RunEnds, EndDispatching, BeginOwnerRelease, FinishOwnerRelease, Dropped, CloseAllHandle
<1>4. ASSUME NEW o \in Op,
             \/ \E a \in Node : Resolve(o, a)
             \/ BeginTransition(o) \/ TransitionRefused(o) \/ TransitionCloses(o)
             \/ TransitionReady(o) \/ CommitTransition(o) \/ AbortTransition(o)
             \/ SettleTransition(o) \/ AnswerTransition(o)
      PROVE  UNCHANGED leaseVars
  BY <1>4, Zenon DEF Resolve, BeginTransition, TransitionRefused, TransitionCloses,
     TransitionReady, CommitTransition, AbortTransition, SettleTransition, AnswerTransition
<1>5. ASSUME NEW n \in Node, CloseAll(n) PROVE UNCHANGED leaseVars
  BY <1>5, Zenon DEF CloseAll
<1>6. CASE Rebind
  BY <1>6, Zenon DEF Rebind
<1> QED
  BY <1>1, <1>2, <1>3, <1>4, <1>5, <1>6, Zenon DEF Next, ConnStep, OpStep

\* RelayOwnership uses the lease as LeaseAuthority promises it, which is what
\* NodeLease implements: the hard fences of failed claims, failed releases and
\* abandoned transitions are losses of authority that the promise allows.
THEOREM OwnershipRespectsTheLease == Spec => LeaseSpec
<1>1. Init => LeaseInit
  BY Zenon DEF Init
<1>2. ASSUME IInv, [Next]_vars PROVE [LeaseNext]_leaseVars
  <2>1. ASSUME NEW n \in Node, authority[n] # "new", LoseAuthority(n)
        PROVE  [LeaseNext]_leaseVars
    <3>1. authority \in [Node -> AuthorityState] /\ leased \in [Node -> BOOLEAN]
      BY <1>2, Zenon DEF IInv, TypeOK
    <3>2. CASE Held(n)
      <4> DEFINE losing == {n}
                 current == {m \in Node : leased[m]}
      <4>1. losing \in SUBSET {m \in Node : Held(m)}
        BY <3>2
      <4>2. current \in SUBSET {m \in Node : row[m] \in {"serving", "draining"}}
        BY <1>2, Zenon DEF IInv, Covered
      <4>3. \A m \in Node : Held(m) => m \in losing \cup current \/ row[m] = "gone"
        BY <1>2, Zenon DEF IInv, Covered, NodeValid
      <4>4. authority' = [m \in Node |-> IF m \in losing THEN "lost" ELSE authority[m]]
        BY <2>1, <3>1 DEF LoseAuthority
      <4>5. leased' = [m \in Node |-> m \in current] /\ UNCHANGED row
        BY <2>1, <3>1 DEF LoseAuthority
      <4> HIDE DEF losing, current
      <4> QED
        BY <4>1, <4>2, <4>3, <4>4, <4>5, Zenon DEF Elapse, LeaseNext
    <3>3. CASE ~Held(n)
      BY <2>1, <3>1, <3>3 DEF LoseAuthority, Held, AuthorityState
    <3> QED
      BY <3>2, <3>3
  <2>2. CASE Next /\ ~LeaseStep
    BY <1>2, <2>1, <2>2, FenceOrNothing, Zenon
  <2>3. CASE LeaseStep \/ UNCHANGED vars
    BY <2>3, Zenon DEF LeaseStep, vars
  <2> QED
    BY <1>2, <2>2, <2>3
<1> QED
  BY <1>1, <1>2, Invariance, PTL DEF Spec, LeaseSpec

=============================================================================
