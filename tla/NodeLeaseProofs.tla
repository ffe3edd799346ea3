-------------------------- MODULE NodeLeaseProofs --------------------------
(***************************************************************************)
(* Proofs about NodeLease, for every set of incarnations, TTL, margin and  *)
(* clock bound that LeaseAssumption admits.                                *)
(*                                                                         *)
(* None of the properties is inductive: whether a late renewal answer may  *)
(* move the deadline depends on how the sample, the row and the current    *)
(* deadline relate, and authority begins already when the row is committed *)
(* and its answer is still on the way.  Live names that wider notion, and  *)
(* Bounds relates the three times.                                         *)
(***************************************************************************)
EXTENDS NodeLease, TLAPS

\* The process passes check(), or would after installing a deadline for the
\* registration answer it is about to receive.
Live(n) ==
    \/ CheckOk(n)
    \/ task[n] = "registered" /\ ~fenced[n] /\ now < Candidate(n)

\* How main(), the renewal task, the flags and the row progress together.
Phases(n) ==
    /\ main[n] \in {"off", "exited"} => task[n] = "none" /\ deadline[n] = 0
    /\ main[n] = "off" => rowState[n] = "none" /\ ~fenced[n] /\ ~draining[n]
    /\ main[n] = "boot" =>
          /\ task[n] \in {"none", "registering", "registered"} /\ deadline[n] = 0
          /\ ~fenced[n] /\ ~draining[n]
          /\ rowState[n] = IF task[n] = "registered" THEN "serving" ELSE "none"
    /\ Running(n) =>
          /\ task[n] \in {"idle", "renewing", "renewed", "done"} /\ deadline[n] # 0
          /\ HasRow(n) \/ (main[n] = "released" /\ rowState[n] = "gone")
          /\ ~draining[n] => rowState[n] = "serving"
          /\ main[n] # "serving" => draining[n]

\* The lease row outlives every deadline taken from it by the margin.
Bounds(n) ==
    /\ before[n] <= now
    /\ task[n] \in {"registered", "renewed"} /\ HasRow(n) => before[n] + TTL <= leaseUntil[n]
    /\ deadline[n] # 0 =>
          /\ deadline[n] + Margin <= now + TTL
          /\ HasRow(n) => deadline[n] + Margin <= leaseUntil[n]

\* Whoever is Live runs under the stored configuration.
LiveEpoch(n) == Live(n) /\ HasRow(n) => epoch[n] = cfgEpoch

\* The single_node profile has at most one Live process.
OneLive ==
    SingleNode => \A n, m \in Node : Live(n) /\ HasRow(n) /\ Live(m) /\ HasRow(m) => n = m

IInv ==
    /\ TypeOK
    /\ \A n \in Node : Phases(n) /\ Bounds(n) /\ LiveEpoch(n)
    /\ OneLive

-----------------------------------------------------------------------------
\* Whoever is Live and has a row is covered by it on PostgreSQL's clock.
LEMMA LiveIsCovered ==
    ASSUME IInv, NEW n \in Node, Live(n), HasRow(n)
    PROVE  LeaseValid(n)
<1>1. CASE CheckOk(n)
  BY <1>1, LeaseAssumption DEF IInv, TypeOK, Bounds, CheckOk, LeaseValid, DbNow
<1>2. CASE task[n] = "registered" /\ now < Candidate(n)
  BY <1>2, LeaseAssumption DEF IInv, TypeOK, Bounds, Candidate, LeaseValid, DbNow
<1> QED BY <1>1, <1>2, Zenon DEF Live

\* The initial state satisfies the inductive invariant.
LEMMA InitIInv == Init => IInv
<1> SUFFICES ASSUME Init PROVE IInv OBVIOUS
<1>1. TypeOK
  BY LeaseAssumption DEF Init, TypeOK, MainState, TaskState, RowState
<1>2. ASSUME NEW n \in Node PROVE Phases(n) /\ Bounds(n) /\ ~Live(n)
  BY LeaseAssumption
  DEF Init, Phases, Bounds, Live, CheckOk, Alive, Running, HasRow, Candidate
<1> QED BY <1>1, <1>2, Zenon DEF IInv, LiveEpoch, OneLive

\* A step that keeps the configuration, the phases and the bounds, and lets
\* nobody become Live, preserves the inductive invariant.
LEMMA NobodyBecomesLive ==
    ASSUME IInv, TypeOK', cfgEpoch' = cfgEpoch,
           \A n \in Node : Phases(n)' /\ Bounds(n)',
           \A n \in Node : Live(n)' /\ HasRow(n)' =>
                              Live(n) /\ HasRow(n) /\ epoch'[n] = epoch[n]
    PROVE  IInv'
<1>1. \A n \in Node : LiveEpoch(n)'
  BY Zenon DEF IInv, LiveEpoch
<1>2. OneLive'
  BY Zenon DEF IInv, OneLive
<1> QED BY <1>1, <1>2, Zenon DEF IInv

\* The clock only moves away from every deadline.
LEMMA TickStep ==
    ASSUME IInv, Tick
    PROVE  IInv'
<1>1. TypeOK'
  BY LeaseAssumption
  DEF IInv, TypeOK, MainState, TaskState, RowState, durable, clocks, local, DbNow,
      Candidate, Tick
<1>2. ASSUME NEW n \in Node PROVE Phases(n)'
  BY LeaseAssumption, Zenon
  DEF IInv, TypeOK, MainState, TaskState, RowState, durable, clocks, local,
      Phases, Running, HasRow, Tick
<1>3. ASSUME NEW n \in Node PROVE Bounds(n)'
  BY LeaseAssumption
  DEF IInv, TypeOK, durable, clocks, local, Phases, Bounds, Running, HasRow, DbNow,
      Candidate, Tick
<1>4. ASSUME NEW n \in Node, Live(n)', HasRow(n)'
      PROVE  Live(n) /\ HasRow(n) /\ epoch'[n] = epoch[n]
  BY <1>4, LeaseAssumption
  DEF IInv, TypeOK, durable, clocks, local, Phases, Running, HasRow, Live, CheckOk,
      Alive, Candidate, Tick
<1>5. cfgEpoch' = cfgEpoch
  BY Zenon DEF durable, Tick
<1> QED BY <1>1, <1>2, <1>3, <1>4, <1>5, NobodyBecomesLive, Zenon

\* A clock adjustment touches no host time.
LEMMA AdjustDbClockStep ==
    ASSUME IInv, AdjustDbClock
    PROVE  IInv'
<1>1. TypeOK'
  BY LeaseAssumption, Zenon
  DEF IInv, TypeOK, MainState, TaskState, RowState, durable, clocks, local, DbNow,
      Candidate, AdjustDbClock
<1>2. ASSUME NEW n \in Node PROVE Phases(n)'
  BY LeaseAssumption, Zenon
  DEF IInv, TypeOK, MainState, TaskState, RowState, durable, clocks, local,
      Phases, Running, HasRow, AdjustDbClock
<1>3. ASSUME NEW n \in Node PROVE Bounds(n)'
  BY LeaseAssumption, Zenon
  DEF IInv, TypeOK, durable, clocks, local, Phases, Bounds, Running, HasRow, DbNow,
      Candidate, AdjustDbClock
<1>4. ASSUME NEW n \in Node, Live(n)', HasRow(n)'
      PROVE  Live(n) /\ HasRow(n) /\ epoch'[n] = epoch[n]
  BY <1>4, LeaseAssumption, Zenon
  DEF IInv, TypeOK, durable, clocks, local, Phases, Running, HasRow, Live, CheckOk,
      Alive, Candidate, AdjustDbClock
<1>5. cfgEpoch' = cfgEpoch
  BY Zenon DEF durable, AdjustDbClock
<1> QED BY <1>1, <1>2, <1>3, <1>4, <1>5, NobodyBecomesLive, Zenon

\* A process that exits is no longer Live.
LEMMA CrashStep ==
    ASSUME IInv, NEW p \in Node, Crash(p)
    PROVE  IInv'
<1>1. TypeOK'
  BY LeaseAssumption, Zenon
  DEF IInv, TypeOK, MainState, TaskState, RowState, durable, clocks, local, DbNow,
      Candidate, Crash, Exit
<1>2. ASSUME NEW n \in Node PROVE Phases(n)'
  BY LeaseAssumption
  DEF IInv, TypeOK, MainState, TaskState, RowState, durable, clocks, local,
      Phases, Running, HasRow, Crash, Exit
<1>3. ASSUME NEW n \in Node PROVE Bounds(n)'
  BY LeaseAssumption
  DEF IInv, TypeOK, durable, clocks, local, Phases, Bounds, Running, HasRow, DbNow,
      Candidate, Crash, Exit
<1>4. ASSUME NEW n \in Node, Live(n)', HasRow(n)'
      PROVE  Live(n) /\ HasRow(n) /\ epoch'[n] = epoch[n]
  BY <1>4, LeaseAssumption, Zenon
  DEF IInv, TypeOK, durable, clocks, local, Phases, Running, HasRow, Live, CheckOk,
      Alive, Candidate, Crash, Exit
<1>5. cfgEpoch' = cfgEpoch
  BY Zenon DEF durable, Crash, Exit
<1> QED BY <1>1, <1>2, <1>3, <1>4, <1>5, NobodyBecomesLive, Zenon

\* The sample is not later than the clock.
LEMMA RegisterBeginStep ==
    ASSUME IInv, NEW p \in Node, RegisterBegin(p)
    PROVE  IInv'
<1>1. TypeOK'
  BY LeaseAssumption, Zenon
  DEF IInv, TypeOK, MainState, TaskState, RowState, durable, clocks, local, DbNow,
      Candidate, RegisterBegin
<1>2. ASSUME NEW n \in Node PROVE Phases(n)'
  BY LeaseAssumption
  DEF IInv, TypeOK, MainState, TaskState, RowState, durable, clocks, local,
      Phases, Running, HasRow, RegisterBegin
<1>3. ASSUME NEW n \in Node PROVE Bounds(n)'
  BY LeaseAssumption
  DEF IInv, TypeOK, durable, clocks, local, Phases, Bounds, Running, HasRow, DbNow,
      Candidate, RegisterBegin
<1>4. ASSUME NEW n \in Node, Live(n)', HasRow(n)'
      PROVE  Live(n) /\ HasRow(n) /\ epoch'[n] = epoch[n]
  BY <1>4, LeaseAssumption, Zenon
  DEF IInv, TypeOK, durable, clocks, local, Phases, Running, HasRow, Live, CheckOk,
      Alive, Candidate, RegisterBegin
<1>5. cfgEpoch' = cfgEpoch
  BY Zenon DEF durable, RegisterBegin
<1> QED BY <1>1, <1>2, <1>3, <1>4, <1>5, NobodyBecomesLive, Zenon

\* A failed registration may leave a row, but no process to use it.
LEMMA RegisterErrorStep ==
    ASSUME IInv, NEW p \in Node, RegisterError(p)
    PROVE  IInv'
<1>1. TypeOK'
  BY LeaseAssumption
  DEF IInv, TypeOK, MainState, TaskState, RowState, durable, clocks, local, DbNow,
      Candidate, RegisterError, Exit, InsertRow
<1>2. ASSUME NEW n \in Node PROVE Phases(n)'
  BY LeaseAssumption
  DEF IInv, TypeOK, MainState, TaskState, RowState, durable, clocks, local,
      Phases, Running, HasRow, RegisterError, Exit, InsertRow
<1>3. ASSUME NEW n \in Node PROVE Bounds(n)'
  BY LeaseAssumption
  DEF IInv, TypeOK, durable, clocks, local, Phases, Bounds, Running, HasRow, DbNow,
      Candidate, RegisterError, Exit, InsertRow
<1>4. ASSUME NEW n \in Node, Live(n)', HasRow(n)'
      PROVE  Live(n) /\ HasRow(n) /\ epoch'[n] = epoch[n]
  BY <1>4, LeaseAssumption
  DEF IInv, TypeOK, durable, clocks, local, Phases, Running, HasRow, Live, CheckOk,
      Alive, Candidate, RegisterError, Exit, InsertRow
<1>5. cfgEpoch' = cfgEpoch
  BY Zenon DEF durable, RegisterError, Exit, InsertRow
<1> QED BY <1>1, <1>2, <1>3, <1>4, <1>5, NobodyBecomesLive, Zenon

\* Installing the first deadline only continues the registration's authority.
LEMMA RegisterInstallStep ==
    ASSUME IInv, NEW p \in Node, RegisterInstall(p)
    PROVE  IInv'
<1>0. Candidate(p) \in Nat
  BY LeaseAssumption DEF IInv, TypeOK, Candidate
<1>1. TypeOK'
  <2>1. CASE Installable(p)
    BY <1>0, <2>1 DEF IInv, TypeOK, MainState, TaskState, durable, clocks, RegisterInstall
  <2>2. CASE ~Installable(p)
    <3>1. Exit(p) /\ UNCHANGED <<clocks, durable>>
      BY <2>2, Zenon DEF RegisterInstall
    <3> QED BY <3>1, Zenon DEF IInv, TypeOK, MainState, TaskState, durable, clocks, Exit
  <2> QED BY <2>1, <2>2, Zenon
<1>2. ASSUME NEW n \in Node PROVE Phases(n)'
  BY LeaseAssumption
  DEF IInv, TypeOK, MainState, TaskState, RowState, durable, clocks, local,
      Phases, Running, HasRow, RegisterInstall, Exit, Installable
<1>3. ASSUME NEW n \in Node PROVE Bounds(n)'
  BY LeaseAssumption
  DEF IInv, TypeOK, durable, clocks, local, Phases, Bounds, Running, HasRow, DbNow,
      Candidate, RegisterInstall, Exit, Installable
<1>4. ASSUME NEW n \in Node, Live(n)', HasRow(n)'
      PROVE  Live(n) /\ HasRow(n) /\ epoch'[n] = epoch[n]
  BY <1>4, LeaseAssumption
  DEF IInv, TypeOK, durable, clocks, local, Phases, Running, HasRow, Live, CheckOk,
      Alive, Candidate, RegisterInstall, Exit, Installable
<1>5. cfgEpoch' = cfgEpoch
  BY Zenon DEF durable, RegisterInstall, Exit, Installable
<1> QED BY <1>1, <1>2, <1>3, <1>4, <1>5, NobodyBecomesLive, Zenon

\* A wake-up samples the clock or ends the task.
LEMMA RenewBeginStep ==
    ASSUME IInv, NEW p \in Node, RenewBegin(p)
    PROVE  IInv'
<1>1. TypeOK'
  <2>1. CASE CheckOk(p) /\ ~draining[p]
    BY <2>1 DEF IInv, TypeOK, TaskState, durable, clocks, RenewBegin
  <2>2. CASE ~CheckOk(p) \/ draining[p]
    <3>1. fenced' = [fenced EXCEPT ![p] = fenced[p] \/ ~CheckOk(p)]
      BY <2>2, Zenon DEF RenewBegin
    <3>2. fenced' \in [Node -> BOOLEAN]
      BY <3>1, Zenon DEF IInv, TypeOK
    <3> QED BY <2>2, <3>2, Zenon DEF IInv, TypeOK, TaskState, durable, clocks, RenewBegin
  <2> QED BY <2>1, <2>2, Zenon
<1>2. ASSUME NEW n \in Node PROVE Phases(n)'
  BY LeaseAssumption
  DEF IInv, TypeOK, MainState, TaskState, RowState, durable, clocks, local,
      Phases, Running, HasRow, RenewBegin
<1>3. ASSUME NEW n \in Node PROVE Bounds(n)'
  BY LeaseAssumption
  DEF IInv, TypeOK, durable, clocks, local, Phases, Bounds, Running, HasRow, DbNow,
      Candidate, RenewBegin
<1>4. ASSUME NEW n \in Node, Live(n)', HasRow(n)'
      PROVE  Live(n) /\ HasRow(n) /\ epoch'[n] = epoch[n]
  BY <1>4, LeaseAssumption
  DEF IInv, TypeOK, durable, clocks, local, Phases, Running, HasRow, Live, CheckOk,
      Alive, Candidate, RenewBegin
<1>5. cfgEpoch' = cfgEpoch
  BY Zenon DEF durable, RenewBegin
<1> QED BY <1>1, <1>2, <1>3, <1>4, <1>5, NobodyBecomesLive, Zenon

\* An extended row still outlives the deadline in force.
LEMMA RenewCommitStep ==
    ASSUME IInv, NEW p \in Node, RenewCommit(p)
    PROVE  IInv'
<1>1. TypeOK'
  BY LeaseAssumption
  DEF IInv, TypeOK, MainState, TaskState, RowState, durable, clocks, local, DbNow,
      Candidate, RenewCommit, ExtendRow
<1>2. ASSUME NEW n \in Node PROVE Phases(n)'
  BY LeaseAssumption
  DEF IInv, TypeOK, MainState, TaskState, RowState, durable, clocks, local,
      Phases, Running, HasRow, RenewCommit, ExtendRow
<1>3. ASSUME NEW n \in Node PROVE Bounds(n)'
  BY LeaseAssumption
  DEF IInv, TypeOK, durable, clocks, local, Phases, Bounds, Running, HasRow, DbNow,
      Candidate, RenewCommit, ExtendRow
<1>4. ASSUME NEW n \in Node, Live(n)', HasRow(n)'
      PROVE  Live(n) /\ HasRow(n) /\ epoch'[n] = epoch[n]
  BY <1>4, LeaseAssumption, Zenon
  DEF IInv, TypeOK, durable, clocks, local, Phases, Running, HasRow, Live, CheckOk,
      Alive, Candidate, RenewCommit, ExtendRow
<1>5. cfgEpoch' = cfgEpoch
  BY Zenon DEF durable, RenewCommit, ExtendRow
<1> QED BY <1>1, <1>2, <1>3, <1>4, <1>5, NobodyBecomesLive, Zenon

\* A renewal of unknown outcome moves no deadline.
LEMMA RenewErrorStep ==
    ASSUME IInv, NEW p \in Node, RenewError(p)
    PROVE  IInv'
<1>0. TypeOK /\ p \in Node /\ DbNow + TTL \in Nat
  BY LeaseAssumption DEF IInv, TypeOK, DbNow
<1>a. fenced' \in [Node -> BOOLEAN]
  BY <1>0, Zenon DEF TypeOK, RenewError
<1>b. leaseUntil' \in [Node -> Nat] /\ rowState' = rowState /\ cfgEpoch' = cfgEpoch
  BY <1>0 DEF TypeOK, RenewError, ExtendRow, durable
<1>1. TypeOK'
  BY <1>0, <1>a, <1>b, Zenon
  DEF IInv, TypeOK, MainState, TaskState, RowState, durable, clocks, local, DbNow,
      Candidate, RenewError, ExtendRow
<1>2. ASSUME NEW n \in Node PROVE Phases(n)'
  BY LeaseAssumption
  DEF IInv, TypeOK, MainState, TaskState, RowState, durable, clocks, local,
      Phases, Running, HasRow, RenewError, ExtendRow
<1>3. ASSUME NEW n \in Node PROVE Bounds(n)'
  BY LeaseAssumption
  DEF IInv, TypeOK, durable, clocks, local, Phases, Bounds, Running, HasRow, DbNow,
      Candidate, RenewError, ExtendRow
<1>4. ASSUME NEW n \in Node, Live(n)', HasRow(n)'
      PROVE  Live(n) /\ HasRow(n) /\ epoch'[n] = epoch[n]
  BY <1>4, LeaseAssumption, Zenon
  DEF IInv, TypeOK, durable, clocks, local, Phases, Running, HasRow, Live, CheckOk,
      Alive, Candidate, RenewError, ExtendRow
<1>5. cfgEpoch' = cfgEpoch
  BY Zenon DEF durable, RenewError, ExtendRow
<1> QED BY <1>1, <1>2, <1>3, <1>4, <1>5, NobodyBecomesLive, Zenon

\* A renewal answer moves the deadline only while the old one has not passed.
LEMMA RenewInstallStep ==
    ASSUME IInv, NEW p \in Node, RenewInstall(p)
    PROVE  IInv'
<1>0. Candidate(p) \in Nat
  BY LeaseAssumption DEF IInv, TypeOK, Candidate
<1>1. TypeOK'
  <2>1. CASE Installable(p)
    <3>1. /\ deadline' = [deadline EXCEPT ![p] = Candidate(p)]
          /\ depReady' = [depReady EXCEPT ![p] = TRUE]
          /\ task' = [task EXCEPT ![p] = "idle"]
          /\ UNCHANGED fenced
      BY <2>1, Zenon DEF RenewInstall
    <3> QED BY <1>0, <3>1, Zenon DEF IInv, TypeOK, TaskState, durable, clocks, RenewInstall
  <2>2. CASE ~Installable(p)
    BY <2>2, Zenon DEF IInv, TypeOK, TaskState, durable, clocks, RenewInstall
  <2> QED BY <2>1, <2>2, Zenon
<1>2. ASSUME NEW n \in Node PROVE Phases(n)'
  BY LeaseAssumption
  DEF IInv, TypeOK, MainState, TaskState, RowState, durable, clocks, local,
      Phases, Running, HasRow, RenewInstall, Installable
<1>3. ASSUME NEW n \in Node PROVE Bounds(n)'
  BY LeaseAssumption
  DEF IInv, TypeOK, durable, clocks, local, Phases, Bounds, Running, HasRow, DbNow,
      Candidate, RenewInstall, Installable
<1>4. ASSUME NEW n \in Node, Live(n)', HasRow(n)'
      PROVE  Live(n) /\ HasRow(n) /\ epoch'[n] = epoch[n]
  <2>1. HasRow(n) /\ epoch'[n] = epoch[n] /\ now' = now /\ main' = main
    BY <1>4, Zenon DEF durable, clocks, HasRow, RenewInstall
  <2>2. CASE n = p
    <3>1. task'[p] # "registered"
      BY Zenon DEF IInv, TypeOK, RenewInstall
    <3>2. CheckOk(p)'
      BY <1>4, <2>2, <3>1, Zenon DEF Live
    <3>3. Installable(p)
      BY <3>2 DEF IInv, TypeOK, CheckOk, RenewInstall
    <3>4. deadline[p] # 0 /\ Alive(p)
      BY Zenon DEF IInv, TypeOK, Phases, MainState, Running, Alive, RenewInstall
    <3> QED BY <2>1, <2>2, <3>3, <3>4, Zenon DEF Live, CheckOk, Installable
  <2>3. CASE n # p
    <3>1. task'[n] = task[n] /\ fenced'[n] = fenced[n] /\ before'[n] = before[n]
              /\ deadline'[n] = deadline[n]
      BY <2>3, Zenon DEF IInv, TypeOK, RenewInstall
    <3> QED BY <1>4, <2>1, <3>1, Zenon DEF Live, CheckOk, Alive, Candidate
  <2> QED BY <2>2, <2>3, Zenon
<1>5. cfgEpoch' = cfgEpoch
  BY Zenon DEF durable, RenewInstall, Installable
<1> QED BY <1>1, <1>2, <1>3, <1>4, <1>5, NobodyBecomesLive, Zenon

\* Fencing only removes authority.
LEMMA FenceStep ==
    ASSUME IInv, NEW p \in Node, Fence(p)
    PROVE  IInv'
<1>1. TypeOK'
  BY LeaseAssumption, Zenon
  DEF IInv, TypeOK, MainState, TaskState, RowState, durable, clocks, local, DbNow,
      Candidate, Fence
<1>2. ASSUME NEW n \in Node PROVE Phases(n)'
  BY LeaseAssumption
  DEF IInv, TypeOK, MainState, TaskState, RowState, durable, clocks, local,
      Phases, Running, HasRow, Fence
<1>3. ASSUME NEW n \in Node PROVE Bounds(n)'
  BY LeaseAssumption, Zenon
  DEF IInv, TypeOK, durable, clocks, local, Phases, Bounds, Running, HasRow, DbNow,
      Candidate, Fence
<1>4. ASSUME NEW n \in Node, Live(n)', HasRow(n)'
      PROVE  Live(n) /\ HasRow(n) /\ epoch'[n] = epoch[n]
  BY <1>4, LeaseAssumption, Zenon
  DEF IInv, TypeOK, durable, clocks, local, Phases, Running, HasRow, Live, CheckOk,
      Alive, Candidate, Fence
<1>5. cfgEpoch' = cfgEpoch
  BY Zenon DEF durable, Fence
<1> QED BY <1>1, <1>2, <1>3, <1>4, <1>5, NobodyBecomesLive, Zenon

\* The flag comes before the durable state.
LEMMA BeginDrainStep ==
    ASSUME IInv, NEW p \in Node, BeginDrain(p)
    PROVE  IInv'
<1>1. TypeOK'
  BY LeaseAssumption, Zenon
  DEF IInv, TypeOK, MainState, TaskState, RowState, durable, clocks, local, DbNow,
      Candidate, BeginDrain
<1>2. ASSUME NEW n \in Node PROVE Phases(n)'
  BY LeaseAssumption
  DEF IInv, TypeOK, MainState, TaskState, RowState, durable, clocks, local,
      Phases, Running, HasRow, BeginDrain
<1>3. ASSUME NEW n \in Node PROVE Bounds(n)'
  BY LeaseAssumption, Zenon
  DEF IInv, TypeOK, durable, clocks, local, Phases, Bounds, Running, HasRow, DbNow,
      Candidate, BeginDrain
<1>4. ASSUME NEW n \in Node, Live(n)', HasRow(n)'
      PROVE  Live(n) /\ HasRow(n) /\ epoch'[n] = epoch[n]
  BY <1>4, LeaseAssumption, Zenon
  DEF IInv, TypeOK, durable, clocks, local, Phases, Running, HasRow, Live, CheckOk,
      Alive, Candidate, BeginDrain
<1>5. cfgEpoch' = cfgEpoch
  BY Zenon DEF durable, BeginDrain
<1> QED BY <1>1, <1>2, <1>3, <1>4, <1>5, NobodyBecomesLive, Zenon

\* Draining keeps the lease as it was.
LEMMA EndDrainStep ==
    ASSUME IInv, NEW p \in Node, EndDrain(p)
    PROVE  IInv'
<1>1. TypeOK'
  BY LeaseAssumption, Zenon
  DEF IInv, TypeOK, MainState, TaskState, RowState, durable, clocks, local, DbNow,
      Candidate, EndDrain, DrainRow
<1>2. ASSUME NEW n \in Node PROVE Phases(n)'
  BY LeaseAssumption
  DEF IInv, TypeOK, MainState, TaskState, RowState, durable, clocks, local,
      Phases, Running, HasRow, EndDrain, DrainRow
<1>3. ASSUME NEW n \in Node PROVE Bounds(n)'
  BY LeaseAssumption, Zenon
  DEF IInv, TypeOK, durable, clocks, local, Phases, Bounds, Running, HasRow, DbNow,
      Candidate, EndDrain, DrainRow
<1>4. ASSUME NEW n \in Node, Live(n)', HasRow(n)'
      PROVE  Live(n) /\ HasRow(n) /\ epoch'[n] = epoch[n]
  BY <1>4, LeaseAssumption, Zenon
  DEF IInv, TypeOK, durable, clocks, local, Phases, Running, HasRow, Live, CheckOk,
      Alive, Candidate, EndDrain, DrainRow
<1>5. cfgEpoch' = cfgEpoch
  BY Zenon DEF durable, EndDrain, DrainRow
<1> QED BY <1>1, <1>2, <1>3, <1>4, <1>5, NobodyBecomesLive, Zenon

\* The row is deleted by its own process only.
LEMMA ReleaseRowStep ==
    ASSUME IInv, NEW p \in Node, ReleaseRow(p)
    PROVE  IInv'
<1>1. TypeOK'
  BY LeaseAssumption
  DEF IInv, TypeOK, MainState, TaskState, RowState, durable, clocks, local, DbNow,
      Candidate, ReleaseRow, DeleteRow
<1>2. ASSUME NEW n \in Node PROVE Phases(n)'
  BY LeaseAssumption
  DEF IInv, TypeOK, MainState, TaskState, RowState, durable, clocks, local,
      Phases, Running, HasRow, ReleaseRow, DeleteRow
<1>3. ASSUME NEW n \in Node PROVE Bounds(n)'
  BY LeaseAssumption
  DEF IInv, TypeOK, durable, clocks, local, Phases, Bounds, Running, HasRow, DbNow,
      Candidate, ReleaseRow, DeleteRow
<1>4. ASSUME NEW n \in Node, Live(n)', HasRow(n)'
      PROVE  Live(n) /\ HasRow(n) /\ epoch'[n] = epoch[n]
  BY <1>4, LeaseAssumption, Zenon
  DEF IInv, TypeOK, durable, clocks, local, Phases, Running, HasRow, Live, CheckOk,
      Alive, Candidate, ReleaseRow, DeleteRow
<1>5. cfgEpoch' = cfgEpoch
  BY Zenon DEF durable, ReleaseRow, DeleteRow
<1> QED BY <1>1, <1>2, <1>3, <1>4, <1>5, NobodyBecomesLive, Zenon

\* The released process exits.
LEMMA ReleaseFenceStep ==
    ASSUME IInv, NEW p \in Node, ReleaseFence(p)
    PROVE  IInv'
<1>1. TypeOK'
  BY LeaseAssumption, Zenon
  DEF IInv, TypeOK, MainState, TaskState, RowState, durable, clocks, local, DbNow,
      Candidate, ReleaseFence, Exit
<1>2. ASSUME NEW n \in Node PROVE Phases(n)'
  BY LeaseAssumption
  DEF IInv, TypeOK, MainState, TaskState, RowState, durable, clocks, local,
      Phases, Running, HasRow, ReleaseFence, Exit
<1>3. ASSUME NEW n \in Node PROVE Bounds(n)'
  BY LeaseAssumption
  DEF IInv, TypeOK, durable, clocks, local, Phases, Bounds, Running, HasRow, DbNow,
      Candidate, ReleaseFence, Exit
<1>4. ASSUME NEW n \in Node, Live(n)', HasRow(n)'
      PROVE  Live(n) /\ HasRow(n) /\ epoch'[n] = epoch[n]
  BY <1>4, LeaseAssumption, Zenon
  DEF IInv, TypeOK, durable, clocks, local, Phases, Running, HasRow, Live, CheckOk,
      Alive, Candidate, ReleaseFence, Exit
<1>5. cfgEpoch' = cfgEpoch
  BY Zenon DEF durable, ReleaseFence, Exit
<1> QED BY <1>1, <1>2, <1>3, <1>4, <1>5, NobodyBecomesLive, Zenon

\* A configuration transition finds nobody Live; joining the stored
\* configuration changes nobody else.
LEMMA BootstrapStep ==
    ASSUME IInv, NEW p \in Node, NEW e \in 1..MaxEpoch, Bootstrap(p, e)
    PROVE  IInv'
<1>1. TypeOK'
  BY LeaseAssumption
  DEF IInv, TypeOK, MainState, durable, clocks, Bootstrap
<1>2. ASSUME NEW n \in Node PROVE Phases(n)'
  BY Zenon DEF IInv, TypeOK, MainState, clocks, Phases, Running, HasRow, Bootstrap
<1>3. ASSUME NEW n \in Node PROVE Bounds(n)'
  BY Zenon DEF IInv, TypeOK, clocks, Bounds, HasRow, Bootstrap
<1>4. ASSUME NEW n \in Node, Live(n)', HasRow(n)'
      PROVE  Live(n) /\ HasRow(n) /\ epoch'[n] = epoch[n]
  <2>1. n # p
    BY <1>4, Zenon DEF IInv, TypeOK, Phases, Live, CheckOk, clocks, HasRow, Bootstrap
  <2> QED
    BY <1>4, <2>1, Zenon DEF IInv, TypeOK, Live, CheckOk, Alive, clocks, HasRow, Candidate,
       Bootstrap
<1>5. CASE e = cfgEpoch
  BY <1>1, <1>2, <1>3, <1>4, <1>5, NobodyBecomesLive, Zenon DEF Bootstrap
<1>6. CASE NoUnexpiredLease
  <2>1. \A n \in Node : ~(Live(n)' /\ HasRow(n)')
    BY <1>4, <1>6, LiveIsCovered, Zenon DEF NoUnexpiredLease
  <2> QED BY <1>1, <1>2, <1>3, <2>1, Zenon DEF IInv, LiveEpoch, OneLive
<1> QED BY <1>5, <1>6, Zenon DEF Bootstrap

\* The process whose row is inserted becomes Live under the stored
\* configuration, and alone in the single_node profile.
LEMMA RegisterCommitStep ==
    ASSUME IInv, NEW p \in Node, RegisterCommit(p)
    PROVE  IInv'
<1>1. TypeOK'
  BY LeaseAssumption
  DEF IInv, TypeOK, TaskState, RowState, clocks, DbNow, RegisterCommit, InsertRow
<1>0. main[p] = "boot" /\ rowState[p] = "none"
  BY Zenon DEF IInv, TypeOK, MainState, Phases, Running, RegisterCommit
<1>2. ASSUME NEW n \in Node PROVE Phases(n)'
  BY <1>0, Zenon
  DEF IInv, TypeOK, TaskState, RowState, Phases, Running, HasRow, RegisterCommit, InsertRow
<1>3. ASSUME NEW n \in Node PROVE Bounds(n)'
  <2>1. CASE n = p
    BY <1>0, <2>1, LeaseAssumption
    DEF IInv, TypeOK, clocks, Phases, Bounds, HasRow, DbNow, RegisterCommit, InsertRow
  <2>2. CASE n # p
    BY <2>2, Zenon DEF IInv, TypeOK, clocks, Bounds, HasRow, RegisterCommit, InsertRow
  <2> QED BY <2>1, <2>2, Zenon
<1>4. ASSUME NEW n \in Node, n # p, Live(n)', HasRow(n)'
      PROVE  Live(n) /\ HasRow(n) /\ epoch'[n] = epoch[n]
  BY <1>4, Zenon
  DEF IInv, TypeOK, clocks, HasRow, Live, CheckOk, Alive, Candidate, RegisterCommit, InsertRow
<1>5. epoch'[p] = cfgEpoch' /\ cfgEpoch' = cfgEpoch
  BY Zenon DEF RegisterCommit, InsertRow, DeploymentMatches
<1>6. ASSUME NEW n \in Node PROVE LiveEpoch(n)'
  BY <1>4, <1>5, Zenon DEF IInv, LiveEpoch
<1>7. OneLive'
  <2>1. ASSUME SingleNode, NEW n \in Node, Live(n)', HasRow(n)' PROVE n = p
    <3>1. NoUnexpiredLease
      BY <2>1, Zenon DEF RegisterCommit, InsertRow
    <3> QED BY <1>4, <2>1, <3>1, LiveIsCovered, Zenon DEF NoUnexpiredLease
  <2> QED BY <2>1, Zenon DEF OneLive
<1> QED BY <1>1, <1>2, <1>3, <1>6, <1>7, Zenon DEF IInv

-----------------------------------------------------------------------------
\* Every step of the system preserves the inductive invariant.
LEMMA NextIInv == IInv /\ [Next]_vars => IInv'
<1> SUFFICES ASSUME IInv, [Next]_vars PROVE IInv' OBVIOUS
<1>1. CASE Tick BY <1>1, TickStep, Zenon
<1>2. CASE AdjustDbClock BY <1>2, AdjustDbClockStep, Zenon
<1>3. ASSUME NEW n \in Node, NodeStep(n) PROVE IInv'
  BY Zenon, <1>3, CrashStep, BootstrapStep, RegisterBeginStep, RegisterCommitStep,
     RegisterErrorStep, RegisterInstallStep, RenewBeginStep, RenewCommitStep,
     RenewErrorStep, RenewInstallStep, FenceStep, BeginDrainStep, EndDrainStep,
     ReleaseRowStep, ReleaseFenceStep
  DEF NodeStep
<1>4. CASE UNCHANGED vars
  BY <1>4
  DEF vars, IInv, TypeOK, Phases, Bounds, LiveEpoch, OneLive, Live, CheckOk, Alive,
      Running, HasRow, Candidate
<1> QED BY <1>1, <1>2, <1>3, <1>4, Zenon DEF Next

\* The inductive invariant holds in every reachable state.
LEMMA Invariance == Spec => []IInv
BY InitIInv, NextIInv, PTL DEF Spec

\* The flags, times, rows and phases keep their types whatever the timing.
THEOREM TypeCorrect == Spec => []TypeOK
<1>1. IInv => TypeOK BY Zenon DEF IInv
<1> QED BY <1>1, Invariance, PTL

\* A process whose check() passes is covered by its own unexpired row, for
\* every TTL and every margin that covers the clock adjustments.
THEOREM AuthorityIsLeased == Spec => []LeaseCovered
<1>1. IInv => LeaseCovered
  <2> SUFFICES ASSUME IInv, NEW n \in Node, CheckOk(n)
               PROVE  LeaseValid(n) \/ rowState[n] = "gone"
    BY Zenon DEF LeaseCovered
  <2>1. HasRow(n) \/ rowState[n] = "gone"
    BY Zenon DEF IInv, TypeOK, MainState, Phases, CheckOk, Alive, Running
  <2> QED BY <2>1, LiveIsCovered, Zenon DEF Live
<1> QED BY <1>1, Invariance, PTL

\* No old-epoch process dispatches after a configuration transition.
THEOREM AuthorityHasCurrentEpoch == Spec => []EpochCurrent
<1>1. IInv => EpochCurrent BY Zenon DEF IInv, EpochCurrent, LiveEpoch, Live
<1> QED BY <1>1, Invariance, PTL

\* A node that accepts claims is Serving, and leased, in the database.
THEOREM ReadinessIsDurable == Spec => []ReadyIsServing
<1>1. IInv => ReadyIsServing
  <2> SUFFICES ASSUME IInv, NEW n \in Node, IsReady(n)
               PROVE  rowState[n] = "serving" /\ LeaseValid(n)
    BY Zenon DEF ReadyIsServing
  <2>1. rowState[n] = "serving"
    BY Zenon DEF IInv, TypeOK, MainState, Phases, IsReady, CheckOk, Alive, Running
  <2> QED BY <2>1, LiveIsCovered, Zenon DEF Live, IsReady, HasRow
<1> QED BY <1>1, Invariance, PTL

\* The single_node profile never has two processes with a row that pass check().
THEOREM AuthorityIsUnique == Spec => []SingleAuthority
<1>1. IInv => SingleAuthority BY Zenon DEF IInv, OneLive, SingleAuthority, Live
<1> QED BY <1>1, Invariance, PTL

\* A running process that fails check() fails it after every step: only
\* install_deadline moves a deadline, and it requires what check() requires.
LEMMA AuthorityStep ==
    ASSUME IInv, [Next]_vars, NEW n \in Node, Running(n), ~CheckOk(n)
    PROVE  ~CheckOk(n)'
<1>0. Alive(n) /\ deadline[n] # 0 /\ task[n] # "registered" /\ main[n] \notin {"off", "boot"}
  BY Zenon DEF IInv, TypeOK, Phases, Running, Alive
<1> DEFINE Lost == fenced[n] \/ ~(now < deadline[n])
<1>1. Lost
  BY <1>0, Zenon DEF CheckOk
<1>2. CASE now' \in Nat /\ now <= now' /\ deadline'[n] = deadline[n] /\ (fenced[n] => fenced'[n])
  BY <1>1, <1>2 DEF IInv, TypeOK, CheckOk
<1>3. CASE fenced'[n]
  BY <1>3, Zenon DEF CheckOk
<1>4. CASE Tick
  BY <1>2, <1>4 DEF IInv, TypeOK, Tick, local
<1>5. CASE AdjustDbClock \/ UNCHANGED vars
  BY <1>2, <1>5 DEF IInv, TypeOK, AdjustDbClock, local, vars
<1>6. ASSUME NEW p \in Node, NodeStep(p) PROVE ~CheckOk(n)'
  <2>0. ASSUME now' = now PROVE now' \in Nat /\ now <= now'
    BY <2>0 DEF IInv, TypeOK
  <2>1. CASE Crash(p) \/ RegisterError(p) \/ ReleaseFence(p)
    BY <1>2, <1>3, <2>0, <2>1 DEF IInv, TypeOK, Crash, RegisterError, ReleaseFence, Exit, clocks
  <2>2. CASE (\E e \in 1..MaxEpoch : Bootstrap(p, e)) \/ RegisterBegin(p) \/ RegisterCommit(p)
    BY <1>2, <2>0, <2>2, Zenon DEF IInv, TypeOK, Bootstrap, RegisterBegin, RegisterCommit,
       clocks
  <2>3. CASE RegisterInstall(p)
    <3>1. p # n
      BY <1>0, <2>3, Zenon DEF RegisterInstall
    <3> QED BY <1>2, <2>0, <2>3, <3>1 DEF IInv, TypeOK, RegisterInstall, Exit, clocks
  <2>4. CASE RenewBegin(p)
    <3>1. fenced[n] => fenced'[n]
      BY <2>4, Zenon DEF IInv, TypeOK, RenewBegin
    <3> QED BY <1>2, <2>0, <2>4, <3>1, Zenon DEF RenewBegin, clocks
  <2>5. CASE RenewCommit(p) \/ RenewError(p) \/ Fence(p) \/ ReleaseRow(p)
    BY <1>2, <2>0, <2>5, Zenon
    DEF IInv, TypeOK, RenewCommit, RenewError, Fence, ReleaseRow, clocks
  <2>6. CASE RenewInstall(p)
    <3>1. CASE p # n
      BY <1>2, <2>0, <2>6, <3>1, Zenon DEF IInv, TypeOK, RenewInstall, clocks
    <3>2. CASE p = n
      <4>1. ~Installable(n)
        BY <1>0, <1>1, Zenon DEF Installable
      <4> QED BY <1>3, <2>6, <3>2, <4>1, Zenon DEF IInv, TypeOK, RenewInstall
    <3> QED BY <3>1, <3>2, Zenon
  <2>7. CASE BeginDrain(p)
    <3>1. fenced[n] => fenced'[n]
      BY <2>7, Zenon DEF IInv, TypeOK, BeginDrain
    <3> QED BY <1>2, <2>0, <2>7, <3>1, Zenon DEF BeginDrain, clocks
  <2>8. CASE EndDrain(p)
    BY <1>2, <2>0, <2>8, Zenon DEF IInv, TypeOK, EndDrain, clocks
  <2> QED
    BY <1>6, <2>1, <2>2, <2>3, <2>4, <2>5, <2>6, <2>7, <2>8, Zenon DEF NodeStep
<1> QED BY <1>4, <1>5, <1>6, Zenon DEF Next

\* No late answer, renewal or clock adjustment restores lost authority.
THEOREM LostAuthorityStaysLost == Spec => AuthorityNeverReturns
<1>1. IInv /\ [Next]_vars =>
        [\A n \in Node : Running(n) /\ ~CheckOk(n) => ~CheckOk(n)']_vars
  BY AuthorityStep, Zenon
<1> QED BY <1>1, Invariance, PTL DEF Spec, AuthorityNeverReturns

-----------------------------------------------------------------------------
(* NodeLease implements LeaseAuthority: every step of the lease is a step  *)
(* of the promise or leaves what the promise speaks of alone.              *)

\* Whoever passes check() is past startup, and covered unless it deleted its row.
LEMMA HeldIsCovered ==
    ASSUME IInv, NEW n \in Node
    PROVE  /\ Authority(n) \in {"new", "admitting", "draining", "lost"}
           /\ CheckOk(n) <=> Authority(n) \in {"admitting", "draining"}
           /\ CheckOk(n) => LeaseValid(n) \/ rowState[n] = "gone"
<1>1. CheckOk(n) => Running(n)
  BY Zenon DEF IInv, TypeOK, Phases, MainState, CheckOk, Alive, Running
<1>2. CheckOk(n) <=> Authority(n) \in {"admitting", "draining"}
  BY <1>1, Zenon DEF Authority, Running
<1>3. CheckOk(n) => LeaseValid(n) \/ rowState[n] = "gone"
  <2> SUFFICES ASSUME CheckOk(n) PROVE LeaseValid(n) \/ rowState[n] = "gone" OBVIOUS
  <2>1. HasRow(n) \/ rowState[n] = "gone"
    BY <1>1, Zenon DEF IInv, Phases
  <2> QED BY <2>1, LiveIsCovered, Zenon DEF Live
<1> QED BY <1>2, <1>3, Zenon DEF Authority

\* A step that inserts, drains or deletes no row and starts no process is an
\* Elapse of the promise: authority can only be lost.
LEMMA ElapseStep ==
    ASSUME IInv, IInv', rowState' = rowState,
           \A n \in Node : \/ Authority(n)' = Authority(n)
                           \/ CheckOk(n) /\ Authority(n)' = "lost"
    PROVE  Promise!Elapse
<1>1. \A n \in Node : CheckOk(n) <=> Authority(n) \in {"admitting", "draining"}
  BY HeldIsCovered, Zenon
<1>2. \A n \in Node : /\ Authority(n)' \in {"new", "admitting", "draining", "lost"}
                      /\ CheckOk(n)' <=> Authority(n)' \in {"admitting", "draining"}
                      /\ CheckOk(n)' => LeaseValid(n)' \/ rowState'[n] = "gone"
  <2>1. ASSUME NEW n \in Node
        PROVE  (/\ Authority(n) \in {"new", "admitting", "draining", "lost"}
                /\ CheckOk(n) <=> Authority(n) \in {"admitting", "draining"}
                /\ CheckOk(n) => LeaseValid(n) \/ rowState[n] = "gone")'
    BY HeldIsCovered, PTL
  <2> QED BY <2>1, Zenon
<1>3. \A n \in Node : LeaseValid(n)' \in BOOLEAN /\ (LeaseValid(n)' => HasRow(n))
  BY Zenon DEF LeaseValid, HasRow
<1> DEFINE losing == {n \in Node : CheckOk(n) /\ Authority(n)' = "lost"}
           current == {n \in Node : LeaseValid(n)'}
<1>4. losing \in SUBSET {n \in Node : Promise!Held(n)}
  BY <1>1, Zenon DEF Promise!Held
<1>5. current \in SUBSET {n \in Node : rowState[n] \in {"serving", "draining"}}
  BY <1>3, Zenon DEF HasRow
<1>6. \A n \in Node : Promise!Held(n) => n \in losing \cup current \/ rowState[n] = "gone"
  BY <1>1, <1>2, Zenon DEF Promise!Held
<1>7. \A n \in Node : Authority(n)' = IF n \in losing THEN "lost" ELSE Authority(n)
  OBVIOUS
<1>8. \A n \in Node : LeaseValid(n)' = (n \in current)
  BY <1>3
<1> HIDE DEF losing, current
<1>9. [n \in Node |-> Authority(n)]'
        = [n \in Node |-> IF n \in losing THEN "lost" ELSE [m \in Node |-> Authority(m)][n]]
  BY <1>7, Zenon
<1>10. [n \in Node |-> LeaseValid(n)]' = [n \in Node |-> n \in current]
  BY <1>8, Zenon
<1> QED BY <1>4, <1>5, <1>6, <1>9, <1>10 DEF Promise!Elapse

\* Outside startup, drain and exit a step keeps a process's authority or
\* loses it.
LEMMA AuthorityKept ==
    ASSUME IInv, [Next]_vars, NEW n \in Node,
           main[n] \in {"off", "boot"} <=> main'[n] \in {"off", "boot"},
           CheckOk(n)' => main[n] # "exited" /\ draining'[n] = draining[n]
    PROVE  Authority(n)' = Authority(n) \/ (CheckOk(n) /\ Authority(n)' = "lost")
<1>1. CASE main[n] \in {"off", "boot"}
  BY <1>1, Zenon DEF Authority
<1>2. CASE main[n] \notin {"off", "boot"}
  <2>1. CASE ~CheckOk(n)'
    BY <1>2, <2>1, Zenon DEF Authority
  <2>2. CASE CheckOk(n)'
    <3>1. Running(n)
      BY <1>2, <2>2, Zenon DEF IInv, TypeOK, MainState, Running
    <3>2. CheckOk(n)
      BY <2>2, <3>1, AuthorityStep, Zenon
    <3> QED BY <1>2, <2>2, <3>2, Zenon DEF Authority
  <2> QED BY <2>1, <2>2, Zenon
<1> QED BY <1>1, <1>2, Zenon

\* A step that leaves main, the drain flag and the rows alone is an Elapse.
LEMMA QuietStep ==
    ASSUME IInv, IInv', [Next]_vars, UNCHANGED <<main, draining, rowState>>
    PROVE  Promise!Elapse
<1>1. ASSUME NEW n \in Node, CheckOk(n)' PROVE main[n] # "exited"
  BY <1>1, Zenon DEF CheckOk, Alive
<1>2. \A n \in Node : Authority(n)' = Authority(n) \/ (CheckOk(n) /\ Authority(n)' = "lost")
  BY <1>1, AuthorityKept, Zenon
<1> QED BY <1>2, ElapseStep, Zenon

\* A step of one process changes no other process's authority or row.
LEMMA OthersKept ==
    ASSUME IInv, NEW p \in Node, NodeStep(p), NEW n \in Node, n # p
    PROVE  Authority(n)' = Authority(n) /\ rowState'[n] = rowState[n] /\ LeaseValid(n)' = LeaseValid(n)
<1>1. /\ main'[n] = main[n] /\ fenced'[n] = fenced[n] /\ draining'[n] = draining[n]
      /\ deadline'[n] = deadline[n] /\ now' = now /\ skew' = skew
      /\ rowState'[n] = rowState[n] /\ leaseUntil'[n] = leaseUntil[n]
  <2>1. CASE Crash(p) \/ RegisterError(p) \/ ReleaseFence(p)
    BY <2>1 DEF IInv, TypeOK, Crash, RegisterError, ReleaseFence, Exit, InsertRow, clocks,
       durable
  <2>2. CASE (\E e \in 1..MaxEpoch : Bootstrap(p, e)) \/ RegisterBegin(p) \/ RegisterCommit(p)
    BY <2>2, Zenon
    DEF IInv, TypeOK, Bootstrap, RegisterBegin, RegisterCommit, InsertRow, clocks, durable
  <2>3. CASE RegisterInstall(p)
    BY <2>3 DEF IInv, TypeOK, RegisterInstall, Exit, clocks, durable
  <2>4. CASE RenewBegin(p) \/ BeginDrain(p)
    BY <2>4 DEF IInv, TypeOK, RenewBegin, BeginDrain, clocks, durable
  <2>5. CASE RenewCommit(p) \/ RenewError(p) \/ Fence(p)
    BY <2>5, Zenon DEF IInv, TypeOK, RenewCommit, RenewError, ExtendRow, Fence, clocks, durable
  <2>6. CASE RenewInstall(p)
    BY <2>6, Zenon DEF IInv, TypeOK, RenewInstall, clocks, durable
  <2>7. CASE EndDrain(p) \/ ReleaseRow(p)
    BY <2>7, Zenon DEF IInv, TypeOK, EndDrain, DrainRow, ReleaseRow, DeleteRow, clocks, durable
  <2> QED BY <2>1, <2>2, <2>3, <2>4, <2>5, <2>6, <2>7, Zenon DEF NodeStep
<1> QED BY <1>1, Zenon DEF Authority, CheckOk, Alive, LeaseValid, HasRow, DbNow

\* The same as functions: a step of p updates the promise's state at p only.
LEMMA UpdateAt ==
    ASSUME IInv, NEW p \in Node, NodeStep(p)
    PROVE  /\ [n \in Node |-> Authority(n)]'
                = [[n \in Node |-> Authority(n)] EXCEPT ![p] = Authority(p)']
           /\ [n \in Node |-> LeaseValid(n)]'
                = [[n \in Node |-> LeaseValid(n)] EXCEPT ![p] = LeaseValid(p)']
BY OthersKept, Zenon

\* A step of p that leaves p's row and its validity alone.
LEMMA OnlyAuthorityAt ==
    ASSUME IInv, NEW p \in Node, NodeStep(p), UNCHANGED <<clocks, durable>>
    PROVE  /\ [n \in Node |-> LeaseValid(n)]' = [n \in Node |-> LeaseValid(n)]
           /\ rowState' = rowState
BY UpdateAt, Zenon DEF clocks, durable, LeaseValid, HasRow, DbNow

\* A process that has not started up yet fails.
LEMMA StartupFails ==
    ASSUME IInv, NEW p \in Node, NodeStep(p), main[p] \in {"off", "boot"}, Exit(p),
           UNCHANGED <<clocks, durable>>
    PROVE  Promise!GiveUp(p)
<1>1. Authority(p) = "new"
  BY Zenon DEF Authority
<1>2. Authority(p)' = "lost"
  BY Zenon DEF IInv, TypeOK, Authority, CheckOk, Exit
<1> QED BY <1>1, <1>2, UpdateAt, OnlyAuthorityAt, Zenon DEF Promise!GiveUp

\* The insertion of a row, whether or not its process survives it.
LEMMA InsertRowRegisters ==
    ASSUME IInv, NEW p \in Node, NodeStep(p), InsertRow(p), UNCHANGED clocks,
           task[p] = "registering",
           main' = main \/ Exit(p)
    PROVE  Promise!Register(p)
<1>1. main[p] = "boot" /\ rowState[p] = "none"
  BY Zenon DEF IInv, TypeOK, MainState, Phases, Running
<1>2. Authority(p) = "new" /\ Authority(p)' \in {"new", "lost"}
  BY <1>1, Zenon DEF IInv, TypeOK, Authority, CheckOk, Exit
<1>3. LeaseValid(p)'
  BY LeaseAssumption DEF IInv, TypeOK, LeaseValid, HasRow, DbNow, InsertRow, clocks
<1>4. rowState' = [rowState EXCEPT ![p] = "serving"]
  BY Zenon DEF InsertRow
<1>5. [n \in Node |-> LeaseValid(n)]' = [[n \in Node |-> LeaseValid(n)] EXCEPT ![p] = TRUE]
  BY <1>3, UpdateAt, Zenon DEF LeaseValid
<1>6. \E a \in {"new", "lost"} :
        [n \in Node |-> Authority(n)]' = [[n \in Node |-> Authority(n)] EXCEPT ![p] = a]
  BY <1>2, UpdateAt, Zenon
<1> QED BY <1>1, <1>2, <1>4, <1>5, <1>6, Zenon DEF Promise!Register

\* Every step of a process is a step, or a stutter, of the promise.
LEMMA NodeStepPromised ==
    ASSUME IInv, IInv', NEW p \in Node, NodeStep(p)
    PROVE  [Promise!LeaseNext]_(Promise!leaseVars)
<1>0. [Next]_vars
  BY Zenon DEF Next
<1> SUFFICES Promise!Elapse \/ \E n \in Node :
        \/ Promise!Register(n) \/ Promise!Activate(n) \/ Promise!GiveUp(n)
        \/ Promise!StopAdmitting(n) \/ Promise!DrainNode(n) \/ Promise!DeleteNode(n)
  BY Zenon DEF Promise!LeaseNext
<1>1. CASE RegisterBegin(p) \/ RenewBegin(p) \/ RenewCommit(p) \/ RenewError(p) \/ Fence(p)
  BY <1>0, <1>1, QuietStep, Zenon
  DEF RegisterBegin, RenewBegin, RenewCommit, RenewError, ExtendRow, Fence, durable
<1>2. CASE RenewInstall(p)
  BY <1>0, <1>2, QuietStep, Zenon DEF RenewInstall, durable
<1>3. CASE \E e \in 1..MaxEpoch : Bootstrap(p, e)
  <2>1. rowState' = rowState /\ draining' = draining /\ main[p] = "off" /\ main'[p] = "boot"
    BY <1>3, Zenon DEF IInv, TypeOK, Bootstrap
  <2>2. Authority(p)' = Authority(p)
    BY <2>1, Zenon DEF Authority
  <2> QED BY <2>1, <2>2, OthersKept, ElapseStep, Zenon
<1>4. CASE RegisterCommit(p)
  BY <1>4, InsertRowRegisters, Zenon DEF RegisterCommit
<1>5. CASE RegisterError(p)
  <2>1. main[p] = "boot"
    BY <1>5, Zenon DEF IInv, TypeOK, MainState, Phases, Running, RegisterError
  <2> QED BY <1>5, <2>1, InsertRowRegisters, StartupFails, Zenon DEF RegisterError
<1>6. CASE RegisterInstall(p)
  <2>1. main[p] = "boot" /\ rowState[p] = "serving" /\ ~draining[p]
    BY <1>6, Zenon DEF IInv, TypeOK, MainState, Phases, Running, RegisterInstall
  <2>2. CASE Installable(p)
    <3>1. Authority(p) = "new"
      BY <2>1, Zenon DEF Authority
    <3>2. /\ main' = [main EXCEPT ![p] = "serving"]
          /\ deadline' = [deadline EXCEPT ![p] = Candidate(p)]
          /\ UNCHANGED <<fenced, draining>>
      BY <1>6, <2>2, Zenon DEF RegisterInstall
    <3>3. Candidate(p) \in Nat /\ Candidate(p) # 0 /\ now' < Candidate(p) /\ ~fenced[p]
      BY <1>6, <2>2, LeaseAssumption
      DEF IInv, TypeOK, Candidate, Installable, RegisterInstall, clocks
    <3>4. Authority(p)' = "admitting"
      BY <2>1, <3>2, <3>3, Zenon DEF IInv, TypeOK, Authority, CheckOk, Alive
    <3>5. LeaseValid(p)
      BY <1>6, <2>1, <2>2, LiveIsCovered, Zenon DEF Live, HasRow, Installable, RegisterInstall
    <3>6. UNCHANGED <<clocks, durable>>
      BY <1>6, Zenon DEF RegisterInstall
    <3> QED BY <2>1, <3>1, <3>4, <3>5, <3>6, UpdateAt, OnlyAuthorityAt, Zenon DEF Promise!Activate
  <2>3. CASE ~Installable(p)
    BY <1>6, <2>1, <2>3, StartupFails, Zenon DEF RegisterInstall
  <2> QED BY <2>2, <2>3, Zenon
<1>7. CASE Crash(p) \/ ReleaseFence(p)
  <2>1. Exit(p) /\ UNCHANGED <<clocks, durable>>
    BY <1>7, Zenon DEF Crash, ReleaseFence
  <2>2. CASE main[p] \in {"off", "boot"}
    BY <2>1, <2>2, StartupFails, Zenon
  <2>3. CASE main[p] \notin {"off", "boot"}
    <3>1. Authority(p)' = "lost"
      BY <2>1 DEF IInv, TypeOK, Authority, CheckOk, Exit
    <3>2. Authority(p) = "lost" \/ CheckOk(p)
      BY <2>3, Zenon DEF Authority
    <3> QED BY <2>1, <3>1, <3>2, OthersKept, ElapseStep, Zenon DEF durable
  <2> QED BY <2>2, <2>3, Zenon
<1>8. CASE BeginDrain(p)
  <2>1. UNCHANGED <<clocks, durable>> /\ draining'[p] = TRUE /\ main[p] = "serving"
        /\ main'[p] \in {"draining", "drained"}
    BY <1>8, Zenon DEF IInv, TypeOK, BeginDrain
  <2>2. CASE CheckOk(p) /\ ~draining[p]
    <3>1. Authority(p) = "admitting"
      BY <2>1, <2>2, Zenon DEF Authority
    <3>2. fenced'[p] = FALSE /\ deadline' = deadline /\ now' = now
      BY <1>8, <2>2 DEF IInv, TypeOK, BeginDrain, CheckOk, clocks
    <3>3. Authority(p)' = "draining"
      BY <2>1, <2>2, <3>2, Zenon DEF Authority, CheckOk, Alive
    <3> QED BY <2>1, <3>1, <3>3, UpdateAt, OnlyAuthorityAt, Zenon DEF Promise!StopAdmitting
  <2>3. CASE ~CheckOk(p) \/ draining[p]
    <3>1. CheckOk(p)' => CheckOk(p)
      BY <1>0, <2>1, AuthorityStep, Zenon DEF Running
    <3>2. Authority(p)' = Authority(p) \/ (CheckOk(p) /\ Authority(p)' = "lost")
      BY <2>1, <2>3, <3>1, Zenon DEF Authority
    <3> QED BY <2>1, <3>2, OthersKept, ElapseStep, Zenon DEF durable
  <2> QED BY <2>2, <2>3, Zenon DEF IInv, TypeOK
<1>9. CASE EndDrain(p)
  <2>0. draining' = draining /\ main[p] = "draining" /\ main'[p] = "drained" /\ UNCHANGED clocks
        /\ deadline' = deadline
    BY <1>9, Zenon DEF IInv, TypeOK, EndDrain
  <2>1. CASE rowState' = rowState
    <3>1. Authority(p)' = Authority(p) \/ (CheckOk(p) /\ Authority(p)' = "lost")
      BY <1>0, <2>0, AuthorityKept, Zenon
    <3> QED BY <2>1, <3>1, OthersKept, ElapseStep, Zenon
  <2>2. CASE DrainRow(p) /\ UNCHANGED fenced
    <3>1. Authority(p)' = Authority(p)
      BY <2>0, <2>2, Zenon DEF Authority, CheckOk, Alive, clocks
    <3>2. Authority(p) \in {"draining", "lost"}
      BY <2>0, Zenon DEF IInv, Phases, Running, Authority
    <3>3. /\ rowState[p] = "serving" /\ LeaseValid(p) /\ LeaseValid(p)'
          /\ rowState' = [rowState EXCEPT ![p] = "draining"]
      BY <2>0, <2>2, Zenon DEF IInv, TypeOK, DrainRow, LeaseValid, HasRow, DbNow, clocks
    <3>4. [n \in Node |-> Authority(n)]' = [n \in Node |-> Authority(n)]
      BY <3>1, OthersKept, Zenon
    <3>5. [n \in Node |-> LeaseValid(n)]' = [n \in Node |-> LeaseValid(n)]
      BY <3>3, OthersKept, Zenon DEF LeaseValid
    <3> QED BY <3>2, <3>3, <3>4, <3>5, Zenon DEF Promise!DrainNode
  <2> QED BY <1>9, <2>1, <2>2, Zenon DEF EndDrain, durable
<1>10. CASE ReleaseRow(p)
  <2>0. /\ draining' = draining /\ main[p] = "drained" /\ main'[p] = "released"
        /\ UNCHANGED <<clocks, deadline, fenced>>
    BY <1>10, Zenon DEF IInv, TypeOK, ReleaseRow
  <2>1. Authority(p)' = Authority(p)
    BY <2>0, Zenon DEF Authority, CheckOk, Alive, clocks
  <2>2. CASE rowState' = rowState
    BY <2>1, <2>2, OthersKept, ElapseStep, Zenon
  <2>3. CASE DeleteRow(p)
    <3>1. Authority(p) \in {"draining", "lost"}
      BY <2>0, Zenon DEF IInv, Phases, Running, Authority
    <3>2. /\ rowState[p] = "draining" /\ rowState' = [rowState EXCEPT ![p] = "gone"]
          /\ LeaseValid(p)' = FALSE
      BY <2>3, Zenon DEF IInv, TypeOK, DeleteRow, LeaseValid, HasRow
    <3>3. [n \in Node |-> Authority(n)]' = [n \in Node |-> Authority(n)]
      BY <2>1, OthersKept, Zenon
    <3> QED BY <3>1, <3>2, <3>3, UpdateAt, Zenon DEF Promise!DeleteNode
  <2> QED BY <1>10, <2>2, <2>3, Zenon DEF ReleaseRow, durable
<1> QED
  BY <1>1, <1>2, <1>3, <1>4, <1>5, <1>6, <1>7, <1>8, <1>9, <1>10, Zenon DEF NodeStep

\* The lease with its clocks, deadlines and late answers implements the
\* clock-free authority that the Relay registry and the API rely on.
THEOREM LeaseKeepsItsPromise == Spec => KeepsPromise
<1>1. Init => Promise!LeaseInit
  BY Zenon DEF Init, Promise!LeaseInit, Authority, LeaseValid, HasRow
<1>2. IInv /\ IInv' /\ [Next]_vars => [Promise!LeaseNext]_(Promise!leaseVars)
  <2> SUFFICES ASSUME IInv, IInv', [Next]_vars
               PROVE  [Promise!LeaseNext]_(Promise!leaseVars)
    OBVIOUS
  <2>1. CASE Tick \/ AdjustDbClock
    BY <2>1, QuietStep, Zenon DEF Tick, AdjustDbClock, durable, local, Promise!LeaseNext
  <2>2. CASE \E n \in Node : NodeStep(n)
    BY <2>2, NodeStepPromised, Zenon
  <2>3. CASE UNCHANGED vars
    BY <2>3, Zenon
    DEF vars, Promise!leaseVars, Authority, CheckOk, Alive, LeaseValid, HasRow, DbNow
  <2> QED BY <2>1, <2>2, <2>3, Zenon DEF Next
<1> QED BY <1>1, <1>2, Invariance, PTL DEF Spec, KeepsPromise, Promise!LeaseSpec

=============================================================================
