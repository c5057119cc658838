--------------------------- MODULE TaskLoop_proofs ---------------------------
(***************************************************************************)
(* Theorems about TaskLoop, for every set of cards and processes, every    *)
(* number of slots and run rows, and every budget of disturbances.         *)
(***************************************************************************)
EXTENDS TaskLoop, FiniteSetTheorems, TLAPS

FiberTable == [Loops -> [Tasks -> Fiber]]
NoteTable  == [Loops -> [Tasks -> BOOLEAN]]
LeaseTable == [Tasks -> Loops \cup {NoLoop}]
PumpTable  == [Loops -> Pump]

-----------------------------------------------------------------------------
(* What the helpers of TaskLoop return.                                      *)

LEMMA SomeTaskType == SomeTask \in Tasks
  BY NamesAssumption DEF SomeTask

LEMMA NoRunIsNoRow == NoRun \notin RunIds
  BY BoundsAssumption DEF NoRun, RunIds

LEMMA NoFiberType == NoFiber \in Fiber
  BY DEF NoFiber, Fiber, FiberSteps, Statuses, CommandKinds, Endings, TurnEndings

LEMMA PumpAtType ==
  ASSUME NEW step \in PumpSteps
  PROVE  PumpAt(step) \in Pump
  BY SomeTaskType DEF PumpAt, Pump, NoCommand, Command, CommandKinds

LEMMA SpendType ==
  ASSUME TypeOK, NEW k \in Disturbances, Spend(k)
  PROVE  budget' \in [Disturbances -> Nat]
  BY DEF TypeOK, Spend

LEMMA CloseType ==
  ASSUME TypeOK, NEW r, NEW ending \in Endings, Close(r, ending)
  PROVE  runState' \in [RunIds -> RunStates]
  BY DEF TypeOK, Close, RunStates

LEMMA EnqueueType ==
  ASSUME TypeOK, NEW c \in Command, Enqueue(c)
  PROVE  queue' \in Seq(Command)
  BY DEF TypeOK, Enqueue

LEMMA FiberOf ==
  ASSUME TypeOK
  PROVE  \A l \in Loops, t \in Tasks : fiber[l][t] \in Fiber
  BY DEF TypeOK

LEMMA FiberWithRun ==
  ASSUME NEW f \in Fiber, NEW step \in FiberSteps, NEW r \in RunIds
  PROVE  [f EXCEPT !.step = step, !.run = r] \in Fiber
  BY DEF Fiber

LEMMA FiberWithEnding ==
  ASSUME NEW f \in Fiber, NEW step \in FiberSteps, NEW e \in Endings
  PROVE  [f EXCEPT !.step = step, !.ending = e] \in Fiber
  BY DEF Fiber

LEMMA FiberWithMoved ==
  ASSUME NEW f \in Fiber, NEW step \in FiberSteps, NEW moved \in BOOLEAN
  PROVE  [f EXCEPT !.step = step, !.moved = moved] \in Fiber
  BY DEF Fiber

LEMMA FiberInterrupted ==
  ASSUME NEW f \in Fiber
  PROVE  [f EXCEPT !.interrupted = TRUE] \in Fiber
  BY DEF Fiber

LEMMA SetFiberType ==
  ASSUME TypeOK, NEW l \in Loops, NEW t \in Tasks, NEW f \in Fiber,
         fiber' = [fiber EXCEPT ![l][t] = f]
  PROVE  fiber' \in FiberTable
  BY DEF TypeOK, FiberTable

LEMMA GotoType ==
  ASSUME TypeOK, NEW l \in Loops, NEW t \in Tasks, NEW step \in FiberSteps,
         Goto(l, t, step)
  PROVE  fiber' \in FiberTable
  <1> DEFINE f == [fiber[l][t] EXCEPT !.step = step]
  <1>1. f \in Fiber
    BY FiberOf DEF Fiber
  <1>2. fiber' = [fiber EXCEPT ![l][t] = f]
    BY DEF Goto, TypeOK
  <1> HIDE DEF f
  <1> QED
    BY <1>1, <1>2, SetFiberType

LEMMA EndFiberType ==
  ASSUME TypeOK, NEW l \in Loops, NEW t \in Tasks, EndFiber(l, t)
  PROVE  fiber' \in FiberTable /\ note' \in NoteTable /\ lease' \in LeaseTable
  <1>1. \A left \in {NoLoop} \cup {x \in {lease[t], l} : budget["leftovers"] > 0} :
          [lease EXCEPT ![t] = left] \in LeaseTable
    BY DEF TypeOK, LeaseTable
  <1>2. lease' \in LeaseTable
    BY <1>1 DEF EndFiber, FreeLease, TypeOK, LeaseTable
  <1> QED
    BY <1>2, NoFiberType DEF TypeOK, EndFiber, FiberTable, NoteTable

LEMMA ForkType ==
  ASSUME TypeOK, NEW l \in Loops, NEW t \in Tasks,
         NEW trigger \in CommandKinds \cup {"status_change"},
         NEW row \in Statuses, NEW isParked \in BOOLEAN,
         Fork(l, t, trigger, row, isParked)
  PROVE  fiber' \in FiberTable
  <1> DEFINE new == [NoFiber EXCEPT !.step = "plan", !.row = row,
                                    !.parked = isParked, !.trigger = trigger]
  <1>1. new \in Fiber
    <2>1. \A f \in Fiber : [f EXCEPT !.step = "plan", !.row = row,
                               !.parked = isParked, !.trigger = trigger] \in Fiber
      BY DEF Fiber, FiberSteps
    <2> QED
      BY <2>1, NoFiberType
  <1>2. fiber' = fiber \/ fiber' = [fiber EXCEPT ![l][t] = new]
    BY DEF Fork
  <1> HIDE DEF new
  <1>3. CASE fiber' = fiber
    BY <1>3 DEF TypeOK, FiberTable
  <1>4. CASE fiber' = [fiber EXCEPT ![l][t] = new]
    BY <1>1, <1>4, SetFiberType
  <1> QED
    BY <1>2, <1>3, <1>4

LEMMA PumpOf ==
  ASSUME TypeOK
  PROVE  \A l \in Loops : pump[l] \in Pump
  BY DEF TypeOK

LEMMA PumpWithCommand ==
  ASSUME NEW p \in Pump, NEW step \in PumpSteps, NEW c \in Command
  PROVE  [p EXCEPT !.step = step, !.cmd = c] \in Pump
  BY DEF Pump

LEMMA PumpWithTarget ==
  ASSUME NEW p \in Pump, NEW step \in PumpSteps, NEW r \in RunIds
  PROVE  [p EXCEPT !.step = step, !.target = r] \in Pump
  BY DEF Pump

LEMMA PumpWithColumn ==
  ASSUME NEW p \in Pump, NEW step \in PumpSteps, NEW column \in SUBSET Tasks, NEW left \in Nat
  PROVE  [p EXCEPT !.step = step, !.column = column, !.left = left] \in Pump
  BY DEF Pump

LEMMA PumpWithGuarded ==
  ASSUME NEW p \in Pump, NEW step \in PumpSteps, NEW guarded \in SUBSET Tasks
  PROVE  [p EXCEPT !.step = step, !.guarded = guarded] \in Pump
  BY DEF Pump

LEMMA PumpWithLost ==
  ASSUME NEW p \in Pump, NEW step \in PumpSteps, NEW lost \in SUBSET RunIds
  PROVE  [p EXCEPT !.step = step, !.lost = lost] \in Pump
  BY DEF Pump

LEMMA PumpWithCandidates ==
  ASSUME NEW p \in Pump, NEW column \in SUBSET Tasks, NEW left \in Nat
  PROVE  [p EXCEPT !.column = column, !.left = left] \in Pump
  BY DEF Pump

LEMMA PumpWithRows ==
  ASSUME NEW p \in Pump, NEW lost \in SUBSET RunIds, NEW finish \in SUBSET RunIds
  PROVE  [p EXCEPT !.lost = lost, !.finish = finish] \in Pump
  BY DEF Pump

LEMMA PumpWithFinish ==
  ASSUME NEW p \in Pump, NEW finish \in SUBSET RunIds
  PROVE  [p EXCEPT !.finish = finish] \in Pump
  BY DEF Pump

LEMMA SetPumpType ==
  ASSUME TypeOK, NEW l \in Loops, NEW p \in Pump,
         pump' = [pump EXCEPT ![l] = p]
  PROVE  pump' \in PumpTable
  BY DEF TypeOK, PumpTable

LEMMA PumpToType ==
  ASSUME TypeOK, NEW l \in Loops, NEW step \in PumpSteps, PumpTo(l, step)
  PROVE  pump' \in PumpTable
  <1> DEFINE p == [pump[l] EXCEPT !.step = step]
  <1>1. p \in Pump
    BY PumpOf DEF Pump
  <1>2. pump' = [pump EXCEPT ![l] = p]
    BY DEF PumpTo, TypeOK
  <1> HIDE DEF p
  <1> QED
    BY <1>1, <1>2, SetPumpType

LEMMA PumpResetType ==
  ASSUME TypeOK, NEW l \in Loops, NEW step \in PumpSteps, PumpReset(l, step)
  PROVE  pump' \in PumpTable
  BY PumpAtType DEF TypeOK, PumpReset, PumpTable

-----------------------------------------------------------------------------
(* Type correctness: one lemma for each action of a run.                     *)

LEMMA InitType == Init => TypeOK
  BY SomeTaskType, NoFiberType, PumpAtType, BoundsAssumption, NamesAssumption
  DEF Init, TypeOK, Statuses, RunStates, Command, Mover, NoMove, PumpSteps

LEMMA PlanType ==
  ASSUME TypeOK, NEW l \in Loops, NEW t \in Tasks, Plan(l, t)
  PROVE  TypeOK'
  <1>1. fiber' \in FiberTable /\ note' \in NoteTable /\ lease' \in LeaseTable
    BY GotoType, EndFiberType
    DEF Plan, FiberSteps, TypeOK, FiberTable, NoteTable, LeaseTable, fiberSide
  <1> QED
    BY <1>1 DEF Plan, TypeOK, FiberTable, NoteTable, LeaseTable, PumpTable, taskRows, runRows,
                history, fiberSide

LEMMA DeferType ==
  ASSUME TypeOK, NEW l \in Loops, NEW t \in Tasks, Defer(l, t)
  PROVE  TypeOK'
  <1>1. fiber' \in FiberTable /\ note' \in NoteTable /\ lease' \in LeaseTable
    BY EndFiberType
    DEF Defer, FiberSteps, TypeOK, FiberTable, NoteTable, LeaseTable, fiberSide
  <1>2. budget' \in [Disturbances -> Nat]
    BY SpendType DEF Defer, Disturbances
  <1> QED
    BY <1>1, <1>2 DEF Defer, TypeOK, FiberTable, NoteTable, LeaseTable, PumpTable, taskRows, runRows,
                history, fiberSide

LEMMA AdmitType ==
  ASSUME TypeOK, NEW l \in Loops, NEW t \in Tasks, Admit(l, t)
  PROVE  TypeOK'
  <1>1. fiber' \in FiberTable /\ note' \in NoteTable /\ lease' \in LeaseTable
    BY GotoType, EndFiberType
    DEF Admit, FiberSteps, TypeOK, FiberTable, NoteTable, LeaseTable, fiberSide
  <1> QED
    BY <1>1 DEF Admit, TypeOK, FiberTable, NoteTable, LeaseTable, PumpTable, taskRows, runRows,
                history, fiberSide

LEMMA ClaimType ==
  ASSUME TypeOK, NEW l \in Loops, NEW t \in Tasks, Claim(l, t)
  PROVE  TypeOK'
  <1>1. fiber' \in FiberTable /\ note' \in NoteTable /\ lease' \in LeaseTable
    BY GotoType, EndFiberType
    DEF Claim, FiberSteps, TypeOK, FiberTable, NoteTable, LeaseTable, fiberSide
  <1> QED
    BY <1>1 DEF Claim, TypeOK, FiberTable, NoteTable, LeaseTable, PumpTable, taskRows, runRows,
                history, fiberSide

LEMMA FailClaimType ==
  ASSUME TypeOK, NEW l \in Loops, NEW t \in Tasks, FailClaim(l, t)
  PROVE  TypeOK'
  <1>1. fiber' \in FiberTable /\ note' \in NoteTable /\ lease' \in LeaseTable
    BY EndFiberType
    DEF FailClaim, FiberSteps, TypeOK, FiberTable, NoteTable, LeaseTable, fiberSide
  <1>2. budget' \in [Disturbances -> Nat]
    BY SpendType DEF FailClaim, Disturbances
  <1> QED
    BY <1>1, <1>2 DEF FailClaim, TypeOK, FiberTable, NoteTable, LeaseTable, PumpTable, taskRows, runRows,
                history, fiberSide, Stamp

LEMMA OpenType ==
  ASSUME TypeOK, NEW l \in Loops, NEW t \in Tasks, Open(l, t)
  PROVE  TypeOK'
  <1>1. CASE LiveOn(t) = {}
    <2> DEFINE f == [fiber[l][t] EXCEPT !.step = "opened", !.run = lastRun + 1]
    <2>1. lastRun + 1 \in RunIds /\ lastRun' \in 0..MaxRuns
      BY <1>1, BoundsAssumption DEF Open, TypeOK, RunIds
    <2>2. f \in Fiber
      BY <2>1, FiberOf, FiberWithRun DEF FiberSteps
    <2>3. fiber' = [fiber EXCEPT ![l][t] = f]
      BY <1>1 DEF Open, TypeOK
    <2> HIDE DEF f
    <2>4. fiber' \in FiberTable
      BY <2>2, <2>3, SetFiberType
    <2>5. /\ runOf' \in [RunIds -> Tasks]
          /\ runState' \in [RunIds -> RunStates]
          /\ wanted' \in [Tasks -> BOOLEAN]
      BY <1>1, <2>1 DEF Open, TypeOK, RunStates, LiveStates
    <2> QED
      BY <1>1, <2>1, <2>4, <2>5 DEF Open, TypeOK, FiberTable, taskRows
  <1>2. CASE LiveOn(t) # {}
    BY <1>2, EndFiberType
    DEF Open, TypeOK, FiberTable, NoteTable, LeaseTable, taskRows, runRows
  <1> QED
    BY <1>1, <1>2

LEMMA BeginTurnType ==
  ASSUME TypeOK, NEW l \in Loops, NEW t \in Tasks, BeginTurn(l, t)
  PROVE  TypeOK'
  <1>1. fiber' \in FiberTable /\ note' \in NoteTable /\ lease' \in LeaseTable
    BY GotoType
    DEF BeginTurn, FiberSteps, TypeOK, FiberTable, NoteTable, LeaseTable, fiberSide
  <1> QED
    BY <1>1 DEF BeginTurn, TypeOK, FiberTable, NoteTable, LeaseTable, PumpTable, taskRows, runRows,
                history, fiberSide

LEMMA SetupFailsType ==
  ASSUME TypeOK, NEW l \in Loops, NEW t \in Tasks, SetupFails(l, t)
  PROVE  TypeOK'
  <1>1. fiber' \in FiberTable /\ note' \in NoteTable /\ lease' \in LeaseTable
    BY EndFiberType
    DEF SetupFails, FiberSteps, TypeOK, FiberTable, NoteTable, LeaseTable, fiberSide
  <1>2. budget' \in [Disturbances -> Nat]
    BY SpendType DEF SetupFails, Disturbances
  <1> QED
    BY <1>1, <1>2 DEF SetupFails, TypeOK, FiberTable, NoteTable, LeaseTable, PumpTable, taskRows, runRows,
                history, fiberSide

LEMMA AbandonType ==
  ASSUME TypeOK, NEW l \in Loops, NEW t \in Tasks, Abandon(l, t)
  PROVE  TypeOK'
  <1>1. fiber' \in FiberTable /\ note' \in NoteTable /\ lease' \in LeaseTable
    BY EndFiberType
    DEF Abandon, FiberSteps, TypeOK, FiberTable, NoteTable, LeaseTable, fiberSide
  <1> QED
    BY <1>1 DEF Abandon, TypeOK, FiberTable, NoteTable, LeaseTable, PumpTable, taskRows, runRows,
                history, fiberSide

LEMMA SessionInitType ==
  ASSUME TypeOK, NEW l \in Loops, NEW t \in Tasks, SessionInit(l, t)
  PROVE  TypeOK'
  <1> QED
    BY DEF SessionInit, TypeOK, FiberTable, NoteTable, LeaseTable, PumpTable, taskRows, runRows,
                history, fiberSide, RunStates, LiveStates

LEMMA AgentFinishesType ==
  ASSUME TypeOK, NEW l \in Loops, NEW t \in Tasks, AgentFinishes(l, t)
  PROVE  TypeOK'
  <1> QED
    BY DEF AgentFinishes, TypeOK, FiberTable, NoteTable, LeaseTable, PumpTable, taskRows, runRows,
                history, fiberSide, Statuses

LEMMA TurnEndsType ==
  ASSUME TypeOK, NEW l \in Loops, NEW t \in Tasks, TurnEnds(l, t)
  PROVE  TypeOK'
  <1>1. PICK e \in TurnEndings :
          fiber' = [fiber EXCEPT ![l][t] = [@ EXCEPT !.step = "close", !.ending = e]]
    BY DEF TurnEnds
  <1>2. fiber' \in FiberTable
    BY <1>1, FiberOf, FiberWithEnding, SetFiberType DEF FiberSteps, Endings, TypeOK
  <1> QED
    BY <1>2 DEF TurnEnds, TypeOK, FiberTable, NoteTable, LeaseTable, PumpTable, taskRows, runRows,
                history, fiberSide

LEMMA TurnInterruptedType ==
  ASSUME TypeOK, NEW l \in Loops, NEW t \in Tasks, TurnInterrupted(l, t)
  PROVE  TypeOK'
  <1> DEFINE e == IF note[l][t] THEN "stopped" ELSE "interrupted"
  <1>1. e \in Endings
    BY DEF Endings
  <1>2. fiber' = [fiber EXCEPT ![l][t] = [@ EXCEPT !.step = "close", !.ending = e]]
    BY DEF TurnInterrupted
  <1> HIDE DEF e
  <1>3. fiber' \in FiberTable
    BY <1>1, <1>2, FiberOf, FiberWithEnding, SetFiberType DEF FiberSteps, TypeOK
  <1> QED
    BY <1>3 DEF TurnInterrupted, TypeOK, FiberTable, NoteTable, LeaseTable, PumpTable, taskRows, runRows,
                history, fiberSide

LEMMA CloseRowType ==
  ASSUME TypeOK, NEW l \in Loops, NEW t \in Tasks, CloseRow(l, t)
  PROVE  TypeOK'
  <1>1. fiber' \in FiberTable
    BY GotoType DEF CloseRow, FiberSteps
  <1>2. runState' \in [RunIds -> RunStates]
    <2>1. fiber[l][t].ending \in Endings
      BY FiberOf DEF Fiber
    <2> QED
      BY <2>1, CloseType DEF CloseRow, TypeOK
  <1>3. budget' \in [Disturbances -> Nat]
    BY SpendType DEF CloseRow, Disturbances, TypeOK
  <1> QED
    BY <1>1, <1>2, <1>3 DEF CloseRow, TypeOK, FiberTable, NoteTable, LeaseTable, PumpTable, taskRows, runRows,
                history, fiberSide

LEMMA MoveToReviewType ==
  ASSUME TypeOK, NEW l \in Loops, NEW t \in Tasks, MoveToReview(l, t)
  PROVE  TypeOK'
  <1>1. PICK moved \in BOOLEAN :
          /\ fiber' = [fiber EXCEPT ![l][t] = [@ EXCEPT !.step = "collect", !.moved = moved]]
          /\ status' = IF moved THEN [status EXCEPT ![t] = "review"] ELSE status
          /\ IF MayEnterReview(t) /\ ~moved THEN Spend("faults") ELSE UNCHANGED budget
    BY DEF MoveToReview
  <1>2. fiber' \in FiberTable
    BY <1>1, FiberOf, FiberWithMoved, SetFiberType DEF FiberSteps, TypeOK
  <1>3. budget' \in [Disturbances -> Nat]
    BY <1>1, SpendType DEF Disturbances, TypeOK
  <1>4. status' \in [Tasks -> Statuses]
    BY <1>1 DEF TypeOK, Statuses
  <1> QED
    BY <1>2, <1>3, <1>4 DEF MoveToReview, TypeOK, FiberTable, NoteTable, LeaseTable, PumpTable, taskRows, runRows,
                history, fiberSide

LEMMA CollectType ==
  ASSUME TypeOK, NEW l \in Loops, NEW t \in Tasks, Collect(l, t)
  PROVE  TypeOK'
  <1>1. fiber' \in FiberTable
    BY GotoType DEF Collect, FiberSteps
  <1>2. budget' \in [Disturbances -> Nat]
    BY SpendType DEF Collect, Disturbances, TypeOK
  <1>3. parked' \in [Tasks -> BOOLEAN]
    BY DEF Collect, Stamp, TypeOK
  <1> QED
    BY <1>1, <1>2, <1>3 DEF Collect, TypeOK, FiberTable, NoteTable, LeaseTable, PumpTable, taskRows, runRows,
                history, fiberSide

LEMMA ReleaseType ==
  ASSUME TypeOK, NEW l \in Loops, NEW t \in Tasks, Release(l, t)
  PROVE  TypeOK'
  <1>1. fiber' \in FiberTable /\ note' \in NoteTable /\ lease' \in LeaseTable
    BY EndFiberType
    DEF Release, FiberSteps, TypeOK, FiberTable, NoteTable, LeaseTable, fiberSide
  <1> QED
    BY <1>1 DEF Release, TypeOK, FiberTable, NoteTable, LeaseTable, PumpTable, taskRows, runRows,
                history, fiberSide

LEMMA LeaseGoesStaleType ==
  ASSUME TypeOK, NEW l \in Loops, NEW t \in Tasks, LeaseGoesStale(l, t)
  PROVE  TypeOK'
  <1>1. budget' \in [Disturbances -> Nat]
    BY SpendType DEF LeaseGoesStale, Disturbances, TypeOK
  <1> QED
    BY <1>1 DEF LeaseGoesStale, TypeOK, FiberTable, NoteTable, LeaseTable, PumpTable, taskRows, runRows,
                history, fiberSide

LEMMA HeartbeatType ==
  ASSUME TypeOK, NEW l \in Loops, NEW t \in Tasks, Heartbeat(l, t)
  PROVE  TypeOK'
  <1> QED
    BY DEF Heartbeat, TypeOK, FiberTable, NoteTable, LeaseTable, PumpTable, taskRows, runRows,
                history, fiberSide

-----------------------------------------------------------------------------
(* The pump's actions.                                                       *)

LEMMA WakeType ==
  ASSUME TypeOK, NEW l \in Loops, Wake(l)
  PROVE  TypeOK'
  <1>1. pump' \in PumpTable
    BY PumpToType DEF Wake, PumpSteps, TypeOK, PumpTable
  <1> QED
    BY <1>1 DEF Wake, TypeOK, FiberTable, NoteTable, LeaseTable, PumpTable, taskRows, runRows,
                history, fiberSide

LEMMA DrainDoneType ==
  ASSUME TypeOK, NEW l \in Loops, DrainDone(l)
  PROVE  TypeOK'
  <1>1. pump' \in PumpTable
    BY PumpToType DEF DrainDone, PumpSteps, TypeOK, PumpTable
  <1> QED
    BY <1>1 DEF DrainDone, TypeOK, FiberTable, NoteTable, LeaseTable, PumpTable, taskRows, runRows,
                history, fiberSide

LEMMA TakeCommandType ==
  ASSUME TypeOK, NEW l \in Loops, TakeCommand(l)
  PROVE  TypeOK'
  <1>1. Head(queue) \in Command /\ queue' \in Seq(Command)
    BY DEF TakeCommand, TypeOK
  <1>2. pump' \in PumpTable
    BY <1>1, PumpOf, PumpWithCommand, SetPumpType DEF TakeCommand, PumpSteps
  <1> QED
    BY <1>1, <1>2 DEF TakeCommand, TypeOK, FiberTable, NoteTable, LeaseTable, PumpTable, taskRows, runRows,
                history, fiberSide

LEMMA StopType ==
  ASSUME TypeOK, NEW l \in Loops, Stop(l)
  PROVE  TypeOK'
  <1> DEFINE hits == IF pump[l].cmd.run = NoRun THEN LiveOn(pump[l].cmd.task)
                     ELSE {pump[l].cmd.run} \cap {r \in RunIds : Live(r)}
  <1>1. hits \subseteq RunIds
    BY DEF LiveOn
  <1>2. CASE PumpReset(l, "drain") /\ UNCHANGED asked
    BY <1>2, PumpResetType
    DEF Stop, PumpSteps, TypeOK, PumpTable, taskRows, runRows, fiberSide
  <1>3. CASE \E r \in hits :
               /\ pump' = [pump EXCEPT ![l] = [@ EXCEPT !.step = "interrupt", !.target = r]]
               /\ asked' = asked \cup {r}
    <2>1. PICK r \in RunIds :
            /\ pump' = [pump EXCEPT ![l] = [@ EXCEPT !.step = "interrupt", !.target = r]]
            /\ asked' = asked \cup {r}
      BY <1>1, <1>3
    <2>2. pump' \in PumpTable
      BY <2>1, PumpOf, PumpWithTarget, SetPumpType DEF PumpSteps
    <2> QED
      BY <2>1, <2>2 DEF Stop, TypeOK, PumpTable, taskRows, runRows, fiberSide
  <1> QED
    BY <1>2, <1>3 DEF Stop

LEMMA InterruptType ==
  ASSUME TypeOK, NEW l \in Loops, Interrupt(l)
  PROVE  TypeOK'
  <1> DEFINE t == runOf[pump[l].target]
  <1>1. PICK step \in {"file", "killing"} : PumpTo(l, step)
    BY DEF Interrupt
  <1>2. pump' \in PumpTable
    BY <1>1, PumpToType DEF PumpSteps
  <1>3. note' \in NoteTable
    <2>1. note' = note \/ note' = [note EXCEPT ![l][t] = TRUE]
      BY DEF Interrupt
    <2> HIDE DEF t
    <2>2. CASE note' = note
      BY <2>2 DEF TypeOK, NoteTable
    <2>3. CASE note' = [note EXCEPT ![l][t] = TRUE]
      <3>1. CASE t \in Tasks
        BY <2>3, <3>1 DEF TypeOK, NoteTable
      <3>2. CASE t \notin Tasks
        BY <2>3, <3>2 DEF TypeOK, NoteTable
      <3> QED
        BY <3>1, <3>2
    <2> QED
      BY <2>1, <2>2, <2>3
  <1>4. fiber' \in FiberTable
    <2>1. CASE fiber' = fiber
      BY <2>1 DEF TypeOK, FiberTable
    <2>2. CASE fiber' = [fiber EXCEPT ![l][t] = [@ EXCEPT !.interrupted = TRUE]]
      <3>1. CASE t \in Tasks
        <4>1. [fiber[l][t] EXCEPT !.interrupted = TRUE] \in Fiber
          BY <3>1, FiberOf, FiberInterrupted
        <4> QED
          BY <2>2, <3>1, <4>1, SetFiberType
      <3>2. CASE t \notin Tasks
        BY <2>2, <3>2 DEF TypeOK, FiberTable
      <3> QED
        BY <3>1, <3>2
    <2> QED
      BY <2>1, <2>2 DEF Interrupt
  <1> QED
    BY <1>2, <1>3, <1>4 DEF Interrupt, TypeOK, FiberTable, NoteTable, LeaseTable, PumpTable, taskRows, runRows,
                history, fiberSide

LEMMA KilledType ==
  ASSUME TypeOK, NEW l \in Loops, Killed(l)
  PROVE  TypeOK'
  <1>1. pump' \in PumpTable
    BY PumpToType DEF Killed, PumpSteps, TypeOK, PumpTable
  <1> QED
    BY <1>1 DEF Killed, TypeOK, FiberTable, NoteTable, LeaseTable, PumpTable, taskRows, runRows,
                history, fiberSide

LEMMA FileStopType ==
  ASSUME TypeOK, NEW l \in Loops, FileStop(l)
  PROVE  TypeOK'
  <1>1. pump' \in PumpTable
    BY PumpResetType DEF FileStop, PumpSteps, TypeOK, PumpTable
  <1>2. runState' \in [RunIds -> RunStates]
    BY CloseType DEF FileStop, Endings
  <1> QED
    BY <1>1, <1>2 DEF FileStop, TypeOK, FiberTable, NoteTable, LeaseTable, PumpTable, taskRows, runRows,
                history, fiberSide

LEMMA RerunType ==
  ASSUME TypeOK, NEW l \in Loops, Rerun(l)
  PROVE  TypeOK'
  <1>1. pump' \in PumpTable
    BY PumpToType, PumpResetType DEF Rerun, Accept, Reject, PumpSteps
  <1> QED
    BY <1>1 DEF Rerun, TypeOK, FiberTable, NoteTable, LeaseTable, PumpTable, taskRows, runRows,
                history, fiberSide, Accept, Reject

LEMMA StartSessionType ==
  ASSUME TypeOK, NEW l \in Loops, StartSession(l)
  PROVE  TypeOK'
  <1>1. pump' \in PumpTable
    BY PumpToType, PumpResetType DEF StartSession, Accept, Reject, PumpSteps
  <1> QED
    BY <1>1 DEF StartSession, TypeOK, FiberTable, NoteTable, LeaseTable, PumpTable, taskRows, runRows,
                history, fiberSide, Accept, Reject

LEMMA DispatchType ==
  ASSUME TypeOK, NEW l \in Loops, Dispatch(l)
  PROVE  TypeOK'
  <1>1. pump' \in PumpTable
    BY PumpResetType DEF Dispatch, PumpSteps, TypeOK, PumpTable
  <1>2. fiber' \in FiberTable
    <2>1. pump[l].cmd \in Command
      BY PumpOf DEF Pump
    <2>2. pump[l].cmd.task \in Tasks /\ pump[l].cmd.kind \in CommandKinds
      BY <2>1 DEF Command
    <2>3. /\ status[pump[l].cmd.task] \in Statuses
          /\ parked[pump[l].cmd.task] \in BOOLEAN
      BY <2>2 DEF TypeOK
    <2> QED
      BY <2>2, <2>3, ForkType DEF Dispatch
  <1> QED
    BY <1>1, <1>2 DEF Dispatch, TypeOK, FiberTable, NoteTable, LeaseTable, PumpTable, taskRows, runRows,
                history, fiberSide

LEMMA CommandFailsType ==
  ASSUME TypeOK, NEW l \in Loops, CommandFails(l)
  PROVE  TypeOK'
  <1>1. pump' \in PumpTable
    BY PumpResetType DEF CommandFails, PumpSteps, TypeOK, PumpTable
  <1>2. budget' \in [Disturbances -> Nat]
    BY SpendType DEF CommandFails, Disturbances, TypeOK
  <1> QED
    BY <1>1, <1>2 DEF CommandFails, TypeOK, FiberTable, NoteTable, LeaseTable, PumpTable, taskRows, runRows,
                history, fiberSide

LEMMA ReadColumnType ==
  ASSUME TypeOK, NEW l \in Loops, ReadColumn(l)
  PROVE  TypeOK'
  <1> DEFINE ready == {t \in Tasks : status[t] = "in_progress" /\ ~parked[t]}
             free  == Slots - Cardinality(Admitted(l))
  <1>1. Cardinality(Admitted(l)) \in Nat
    <2>1. Admitted(l) \subseteq Tasks
      BY DEF Admitted
    <2>2. IsFiniteSet(Admitted(l))
      BY <2>1, TasksAssumption, FS_Subset
    <2> QED
      BY <2>2, FS_CardinalityType
  <1>2. CASE free > 0
    <2>1. free \in Nat
      BY <1>1, <1>2, BoundsAssumption
    <2>2. ready \in SUBSET Tasks
      OBVIOUS
    <2>3. pump' = [pump EXCEPT ![l] = [@ EXCEPT !.step = "fork",
                                 !.column = ready, !.left = free]]
      BY <1>2 DEF ReadColumn
    <2> HIDE DEF ready, free
    <2>4. pump' \in PumpTable
      BY <2>1, <2>2, <2>3, PumpOf, PumpWithColumn, SetPumpType DEF PumpSteps
    <2> QED
      BY <2>4 DEF ReadColumn, TypeOK, PumpTable, taskRows, runRows, history, fiberSide
  <1>3. CASE ~(free > 0)
    BY <1>3, PumpResetType
    DEF ReadColumn, PumpSteps, TypeOK, PumpTable, taskRows, runRows, history, fiberSide
  <1> QED
    BY <1>2, <1>3

LEMMA ForkNextType ==
  ASSUME TypeOK, NEW l \in Loops, NEW t \in Tasks, ForkNext(l, t)
  PROVE  TypeOK'
  <1>1. pump[l] \in Pump /\ pump[l].left \in Nat \ {0}
    BY PumpOf DEF Pump, ForkNext
  <1>2. OneFewer(pump[l], t, 0) \in Pump /\ OneFewer(pump[l], t, 1) \in Pump
    <2>1. pump[l].column \ {t} \in SUBSET Tasks
      BY <1>1 DEF Pump
    <2>2. pump[l].left - 0 \in Nat /\ pump[l].left - 1 \in Nat
      BY <1>1
    <2> QED
      BY <1>1, <2>1, <2>2, PumpWithCandidates DEF OneFewer
  <1>3. \/ pump' = [pump EXCEPT ![l] = OneFewer(pump[l], t, 0)]
        \/ pump' = [pump EXCEPT ![l] = OneFewer(pump[l], t, 1)]
    BY DEF ForkNext
  <1>4. pump' \in PumpTable
    BY <1>2, <1>3, SetPumpType
  <1>5. fiber' \in FiberTable
    BY ForkType DEF ForkNext, TypeOK, FiberTable, Statuses
  <1> QED
    BY <1>4, <1>5 DEF ForkNext, TypeOK, FiberTable, NoteTable, LeaseTable, PumpTable, taskRows, runRows,
                history, fiberSide

LEMMA ColumnDoneType ==
  ASSUME TypeOK, NEW l \in Loops, ColumnDone(l)
  PROVE  TypeOK'
  <1>1. pump' \in PumpTable
    BY PumpResetType DEF ColumnDone, PumpSteps, TypeOK, PumpTable
  <1> QED
    BY <1>1 DEF ColumnDone, TypeOK, FiberTable, NoteTable, LeaseTable, PumpTable, taskRows, runRows,
                history, fiberSide

-----------------------------------------------------------------------------
(* The process's and the people's actions.                                   *)

LEMMA BootType ==
  ASSUME TypeOK, NEW l \in Loops, Boot(l)
  PROVE  TypeOK'
  <1>1. pump' \in PumpTable
    BY PumpResetType DEF Boot, PumpSteps
  <1> QED
    BY <1>1 DEF Boot, TypeOK, FiberTable, NoteTable, LeaseTable, PumpTable,
       taskRows, runRows, history, fiberSide

LEMMA BootLeasesType ==
  ASSUME TypeOK, NEW l \in Loops, BootLeases(l)
  PROVE  TypeOK'
  <1> DEFINE guarded == {t \in Tasks : lease[t] # NoLoop}
  <1>1. pump' = [pump EXCEPT ![l] = [@ EXCEPT !.step = "list", !.guarded = guarded]]
    BY DEF BootLeases
  <1>2. guarded \in SUBSET Tasks
    OBVIOUS
  <1> HIDE DEF guarded
  <1>3. pump' \in PumpTable
    BY <1>1, <1>2, PumpOf, PumpWithGuarded, SetPumpType DEF PumpSteps
  <1> QED
    BY <1>3 DEF BootLeases, TypeOK, FiberTable, NoteTable, LeaseTable, PumpTable,
       taskRows, runRows, history, fiberSide

LEMMA BootListType ==
  ASSUME TypeOK, NEW l \in Loops, BootList(l)
  PROVE  TypeOK'
  <1> DEFINE lost == {r \in RunIds : Live(r) /\ runOf[r] \notin pump[l].guarded}
  <1>1. pump' = [pump EXCEPT ![l] = [@ EXCEPT !.step = "lose", !.lost = lost]]
    BY DEF BootList
  <1>2. lost \in SUBSET RunIds
    OBVIOUS
  <1> HIDE DEF lost
  <1>3. pump' \in PumpTable
    BY <1>1, <1>2, PumpOf, PumpWithLost, SetPumpType DEF PumpSteps
  <1> QED
    BY <1>3 DEF BootList, TypeOK, FiberTable, NoteTable, LeaseTable, PumpTable,
       taskRows, runRows, history, fiberSide

LEMMA BootCloseType ==
  ASSUME TypeOK, NEW l \in Loops, NEW r \in RunIds, BootClose(l, r)
  PROVE  TypeOK'
  <1> DEFINE lost   == pump[l].lost \ {r}
             finish == pump[l].finish \cup {x \in {r} : Live(x)}
             p      == [pump[l] EXCEPT !.lost = lost, !.finish = finish]
  <1>1. pump[l].lost \in SUBSET RunIds /\ pump[l].finish \in SUBSET RunIds
    BY PumpOf DEF Pump
  <1>2. lost \in SUBSET RunIds /\ finish \in SUBSET RunIds
    BY <1>1
  <1>3. p \in Pump
    <2> HIDE DEF lost, finish
    <2> QED
      BY <1>2, PumpOf, PumpWithRows
  <1>4. pump' = [pump EXCEPT ![l] = p]
    BY DEF BootClose
  <1> HIDE DEF p
  <1>5. pump' \in PumpTable
    BY <1>3, <1>4, SetPumpType
  <1>6. runState' \in [RunIds -> RunStates]
    BY CloseType DEF BootClose, Endings, TurnEndings
  <1> QED
    BY <1>5, <1>6 DEF BootClose, TypeOK, FiberTable, NoteTable, LeaseTable, PumpTable,
       taskRows, runRows, history, fiberSide

LEMMA BootCloseFailsType ==
  ASSUME TypeOK, NEW l \in Loops, BootCloseFails(l)
  PROVE  TypeOK'
  <1>1. pump' \in PumpTable
    BY PumpResetType DEF BootCloseFails, PumpSteps
  <1>2. budget' \in [Disturbances -> Nat]
    BY SpendType DEF BootCloseFails, Disturbances, TypeOK
  <1> QED
    BY <1>1, <1>2 DEF BootCloseFails, TypeOK, FiberTable, NoteTable, LeaseTable, PumpTable,
       taskRows, runRows, history, fiberSide

LEMMA BootClosedType ==
  ASSUME TypeOK, NEW l \in Loops, BootClosed(l)
  PROVE  TypeOK'
  <1>1. pump' \in PumpTable
    BY PumpToType DEF BootClosed, PumpSteps
  <1> QED
    BY <1>1 DEF BootClosed, TypeOK, FiberTable, NoteTable, LeaseTable, PumpTable,
       taskRows, runRows, history, fiberSide

LEMMA BootFinishType ==
  ASSUME TypeOK, NEW l \in Loops, NEW r \in RunIds, BootFinish(l, r)
  PROVE  TypeOK'
  <1> DEFINE p == [pump[l] EXCEPT !.finish = pump[l].finish \ {r}]
  <1>1. p \in Pump
    <2>1. pump[l].finish \ {r} \in SUBSET RunIds
      BY PumpOf DEF Pump
    <2> QED
      BY <2>1, PumpOf, PumpWithFinish
  <1>2. pump' = [pump EXCEPT ![l] = p]
    BY DEF BootFinish
  <1> HIDE DEF p
  <1>3. pump' \in PumpTable
    BY <1>1, <1>2, SetPumpType
  <1>4. budget' \in [Disturbances -> Nat]
    BY SpendType DEF BootFinish, Disturbances, TypeOK
  <1>5. status' \in [Tasks -> Statuses]
    <2>1. runOf[r] \in Tasks
      BY DEF TypeOK
    <2> QED
      BY <2>1 DEF BootFinish, TypeOK, Statuses
  <1> QED
    BY <1>3, <1>4, <1>5 DEF BootFinish, TypeOK, FiberTable, NoteTable, LeaseTable, PumpTable,
       taskRows, runRows, history, fiberSide

LEMMA BootFinishedType ==
  ASSUME TypeOK, NEW l \in Loops, BootFinished(l)
  PROVE  TypeOK'
  <1>1. pump' \in PumpTable
    BY PumpResetType DEF BootFinished, PumpSteps
  <1> QED
    BY <1>1 DEF BootFinished, TypeOK, FiberTable, NoteTable, LeaseTable, PumpTable,
       taskRows, runRows, history, fiberSide

LEMMA LoseMemoryType ==
  ASSUME TypeOK, NEW l \in Loops, LoseMemory(l)
  PROVE  /\ up' \in [Loops -> {"down", "up", "stopping"}]
         /\ pump' \in PumpTable /\ fiber' \in FiberTable
         /\ note' \in NoteTable /\ lease' \in LeaseTable
  <1>1. pump' \in PumpTable
    BY PumpResetType DEF LoseMemory, PumpSteps
  <1> QED
    BY <1>1, NoFiberType
    DEF LoseMemory, TypeOK, FiberTable, NoteTable, LeaseTable

LEMMA CrashType ==
  ASSUME TypeOK, NEW l \in Loops, Crash(l)
  PROVE  TypeOK'
  <1>1. budget' \in [Disturbances -> Nat]
    BY SpendType DEF Crash, Disturbances, TypeOK
  <1> QED
    BY <1>1, LoseMemoryType DEF Crash, TypeOK, FiberTable, NoteTable, LeaseTable, PumpTable,
       taskRows, runRows, history, fiberSide

LEMMA ShutdownType ==
  ASSUME TypeOK, NEW l \in Loops, Shutdown(l)
  PROVE  TypeOK'
  <1>1. pump' \in PumpTable
    BY PumpResetType DEF Shutdown, PumpSteps
  <1>2. budget' \in [Disturbances -> Nat]
    BY SpendType DEF Shutdown, Disturbances, TypeOK
  <1>3. fiber' \in FiberTable
    <2> DEFINE row == [t \in Tasks |-> IF At(l, t, "none") THEN fiber[l][t]
                         ELSE [fiber[l][t] EXCEPT !.interrupted = TRUE]]
    <2>1. row \in [Tasks -> Fiber]
      BY FiberOf, FiberInterrupted
    <2>2. fiber' = [fiber EXCEPT ![l] = row]
      BY DEF Shutdown, TypeOK
    <2> HIDE DEF row
    <2> QED
      BY <2>1, <2>2 DEF TypeOK, FiberTable
  <1> QED
    BY <1>1, <1>2, <1>3 DEF Shutdown, TypeOK, FiberTable, NoteTable, LeaseTable, PumpTable,
       taskRows, runRows, history, fiberSide

LEMMA StoppedType ==
  ASSUME TypeOK, NEW l \in Loops, Stopped(l)
  PROVE  TypeOK'
  <1> QED
    BY LoseMemoryType DEF Stopped, TypeOK, FiberTable, NoteTable, LeaseTable, PumpTable,
       taskRows, runRows, history, fiberSide

LEMMA OpenMoveType ==
  ASSUME TypeOK, NEW t \in Tasks, NEW s \in Targets, OpenMove(t, s)
  PROVE  TypeOK'
  <1>1. budget' \in [Disturbances -> Nat]
    BY SpendType DEF OpenMove, Disturbances, TypeOK
  <1>2. mover' \in Mover
    <2>1. PICK live \in IF LiveOn(t) = {} THEN {NoRun} ELSE LiveOn(t) :
            mover' = [step |-> "read", task |-> t, from |-> status[t], to |-> s,
                      live |-> live]
      BY DEF OpenMove
    <2>2. live \in RunIds \cup {NoRun}
      BY DEF LiveOn
    <2> QED
      BY <2>1, <2>2, NamesAssumption DEF Mover, TypeOK
  <1> QED
    BY <1>1, <1>2 DEF OpenMove, TypeOK, FiberTable, NoteTable, LeaseTable, PumpTable,
       taskRows, runRows, history, fiberSide

LEMMA CommitMoveType ==
  ASSUME TypeOK, CommitMove
  PROVE  TypeOK'
  <1>1. mover' \in Mover
    <2>1. CASE mover' = NoMove
      BY <2>1, SomeTaskType DEF Mover, NoMove, Statuses
    <2>2. CASE mover' = [mover EXCEPT !.step = "moved"]
      BY <2>2 DEF Mover, TypeOK
    <2> QED
      BY <2>1, <2>2 DEF CommitMove
  <1> QED
    BY <1>1 DEF CommitMove, TypeOK, FiberTable, NoteTable, LeaseTable, PumpTable,
       taskRows, runRows, history, fiberSide, Mover

LEMMA RequestStopType ==
  ASSUME TypeOK, RequestStop
  PROVE  TypeOK'
  <1>1. budget' \in [Disturbances -> Nat]
    BY SpendType DEF RequestStop, Disturbances, TypeOK
  <1>2. mover' \in Mover
    BY SomeTaskType DEF RequestStop, Mover, NoMove, Statuses
  <1>3. queue' \in Seq(Command)
    <2>1. [kind |-> "stop", task |-> mover.task, run |-> mover.live] \in Command
      BY DEF TypeOK, Mover, Command, CommandKinds
    <2> QED
      BY <2>1, EnqueueType DEF RequestStop, TypeOK
  <1> QED
    BY <1>1, <1>2, <1>3 DEF RequestStop, TypeOK, FiberTable, NoteTable, LeaseTable, PumpTable,
       taskRows, runRows, history, fiberSide

LEMMA PressType ==
  ASSUME TypeOK, NEW k \in CommandKinds, NEW t \in Tasks, Press(k, t)
  PROVE  TypeOK'
  <1>1. budget' \in [Disturbances -> Nat]
    BY SpendType DEF Press, Disturbances, TypeOK
  <1>2. queue' \in Seq(Command)
    <2>1. PICK r \in {NoRun} \cup {r \in 1..lastRun : k = "stop" /\ runOf[r] = t} :
            Enqueue([kind |-> k, task |-> t, run |-> r])
      BY DEF Press
    <2>2. r \in RunIds \cup {NoRun}
      BY <2>1, BoundsAssumption DEF TypeOK, RunIds
    <2>3. [kind |-> k, task |-> t, run |-> r] \in Command
      BY <2>2 DEF Command
    <2> QED
      BY <2>1, <2>3, EnqueueType
  <1> QED
    BY <1>1, <1>2 DEF Press, TypeOK, FiberTable, NoteTable, LeaseTable, PumpTable,
       taskRows, runRows, history, fiberSide

LEMMA ParkExpiresType ==
  ASSUME TypeOK, NEW t \in Tasks, ParkExpires(t)
  PROVE  TypeOK'
  <1> QED
    BY DEF ParkExpires, TypeOK, FiberTable, NoteTable, LeaseTable, PumpTable,
       taskRows, runRows, history, fiberSide

-----------------------------------------------------------------------------
(* Every step keeps the types.                                               *)

LEMMA FiberStepType ==
  ASSUME TypeOK, NEW l \in Loops, NEW t \in Tasks, FiberStep(l, t)
  PROVE  TypeOK'
  BY PlanType, AdmitType, ClaimType, OpenType, BeginTurnType, AbandonType,
     TurnInterruptedType, CloseRowType, MoveToReviewType, CollectType, ReleaseType
  DEF FiberStep

LEMMA PumpStepType ==
  ASSUME TypeOK, NEW l \in Loops, PumpStep(l)
  PROVE  TypeOK'
  BY WakeType, DrainDoneType, TakeCommandType, StopType, InterruptType, KilledType,
     FileStopType, RerunType, StartSessionType, DispatchType, ReadColumnType,
     ColumnDoneType, ForkNextType
  DEF PumpStep

LEMMA BootStepType ==
  ASSUME TypeOK, NEW l \in Loops, BootStep(l)
  PROVE  TypeOK'
  BY BootLeasesType, BootListType, BootClosedType, BootFinishedType,
     BootCloseType, BootFinishType
  DEF BootStep

LEMMA TroubleType ==
  ASSUME TypeOK, NEW l \in Loops, Trouble(l)
  PROVE  TypeOK'
  BY CrashType, ShutdownType, CommandFailsType, BootCloseFailsType, DeferType,
     FailClaimType, SetupFailsType, LeaseGoesStaleType
  DEF Trouble

LEMMA PersonType ==
  ASSUME TypeOK, Person
  PROVE  TypeOK'
  BY CommitMoveType, RequestStopType, OpenMoveType, PressType DEF Person

LEMMA NextType == TypeOK /\ [Next]_vars => TypeOK'
  <1> SUFFICES ASSUME TypeOK, [Next]_vars PROVE TypeOK'
    OBVIOUS
  <1>1. CASE UNCHANGED vars
    BY <1>1 DEF vars, TypeOK
  <1>2. ASSUME NEW l \in Loops,
               PumpStep(l) \/ BootStep(l) \/ Boot(l) \/ Stopped(l) \/ Trouble(l)
        PROVE  TypeOK'
    BY <1>2, PumpStepType, BootStepType, BootType, StoppedType, TroubleType
  <1>3. ASSUME NEW l \in Loops, NEW t \in Tasks,
               \/ FiberStep(l, t) \/ TurnEnds(l, t) \/ SessionInit(l, t)
               \/ AgentFinishes(l, t) \/ Heartbeat(l, t)
        PROVE  TypeOK'
    BY <1>3, FiberStepType, TurnEndsType, SessionInitType, AgentFinishesType,
       HeartbeatType
  <1> QED
    BY <1>1, <1>2, <1>3, ParkExpiresType, PersonType DEF Next

(* Every variable keeps its type, TypeOK of TaskLoop: in particular a sweep  *)
(* never offers more candidates than it counted slots for, because what is   *)
(* left is a natural number.                                                 *)
THEOREM TypeCorrect == Spec => []TypeOK
  BY InitType, NextType, PTL DEF Spec

-----------------------------------------------------------------------------
(* The run rows: every step of TaskLoop is a step of RunLedger or leaves     *)
(* them alone. A close or a start of something that is no row does nothing.  *)

LEMMA CloseIsEnd ==
  ASSUME TypeOK, NEW r, NEW e \in Endings, Close(r, e), UNCHANGED <<runOf, lastRun>>
  PROVE  [Ledger!LedgerNext]_(Ledger!ledger)
  <1>1. CASE Live(r) /\ r \in RunIds
    BY <1>1 DEF Close, Live, LiveStates, Endings, TurnEndings, RunIds,
                Ledger!LedgerNext, Ledger!End, Ledger!Live
  <1>2. CASE ~(Live(r) /\ r \in RunIds)
    <2>1. runState' = runState
      BY <1>2 DEF Close, TypeOK
    <2> QED
      BY <2>1 DEF Ledger!ledger
  <1> QED
    BY <1>1, <1>2

LEMMA OpenIsCreate ==
  ASSUME TypeOK, NEW l \in Loops, NEW t \in Tasks, Open(l, t)
  PROVE  [Ledger!LedgerNext]_(Ledger!ledger)
  <1>1. CASE LiveOn(t) = {}
    <2>1. lastRun < MaxRuns /\ 1..lastRun \subseteq RunIds
      BY <1>1, BoundsAssumption DEF Open, TypeOK, RunIds
    <2>2. \A r \in 1..lastRun : Ledger!Live(r) => runOf[r] # t
      BY <1>1, <2>1 DEF LiveOn, Live, LiveStates, Ledger!Live
    <2>3. Ledger!Create(t)
      BY <1>1, <2>1, <2>2 DEF Open, Ledger!Create
    <2> QED
      BY <2>3 DEF Ledger!LedgerNext
  <1>2. CASE LiveOn(t) # {}
    BY <1>2 DEF Open, runRows, Ledger!ledger
  <1> QED
    BY <1>1, <1>2

LEMMA SessionInitIsStart ==
  ASSUME TypeOK, NEW l \in Loops, NEW t \in Tasks, SessionInit(l, t)
  PROVE  [Ledger!LedgerNext]_(Ledger!ledger)
  <1> DEFINE r == fiber[l][t].run
  <1>1. CASE r \in RunIds
    BY <1>1 DEF SessionInit, RunIds, Ledger!LedgerNext, Ledger!Start
  <1>2. CASE r \notin RunIds
    BY <1>2 DEF SessionInit, TypeOK, Ledger!ledger
  <1> QED
    BY <1>1, <1>2

LEMMA CloseRowIsEnd ==
  ASSUME TypeOK, NEW l \in Loops, NEW t \in Tasks, CloseRow(l, t)
  PROVE  [Ledger!LedgerNext]_(Ledger!ledger)
  <1>1. fiber[l][t].ending \in Endings
    BY FiberOf DEF Fiber
  <1>2. CASE Close(fiber[l][t].run, fiber[l][t].ending)
    BY <1>1, <1>2, CloseIsEnd DEF CloseRow
  <1>3. CASE UNCHANGED runState
    BY <1>3 DEF CloseRow, Ledger!ledger
  <1> QED
    BY <1>2, <1>3 DEF CloseRow

LEMMA FileStopIsEnd ==
  ASSUME TypeOK, NEW l \in Loops, FileStop(l)
  PROVE  [Ledger!LedgerNext]_(Ledger!ledger)
  BY CloseIsEnd DEF FileStop, Endings

LEMMA BootCloseIsEnd ==
  ASSUME TypeOK, NEW l \in Loops, NEW r \in RunIds, BootClose(l, r)
  PROVE  [Ledger!LedgerNext]_(Ledger!ledger)
  BY CloseIsEnd DEF BootClose, Endings, TurnEndings

LEMMA FiberStepOnRows ==
  ASSUME TypeOK, NEW l \in Loops, NEW t \in Tasks, FiberStep(l, t)
  PROVE  [Ledger!LedgerNext]_(Ledger!ledger)
  <1>1. CASE Open(l, t)
    BY <1>1, OpenIsCreate
  <1>2. CASE CloseRow(l, t)
    BY <1>2, CloseRowIsEnd
  <1>3. CASE \/ Plan(l, t) \/ Admit(l, t) \/ Claim(l, t) \/ BeginTurn(l, t)
             \/ Abandon(l, t) \/ TurnInterrupted(l, t) \/ MoveToReview(l, t)
             \/ Collect(l, t) \/ Release(l, t)
    BY <1>3 DEF Plan, Admit, Claim, BeginTurn, Abandon, TurnInterrupted,
                MoveToReview, Collect, Release, runRows, Ledger!ledger
  <1> QED
    BY <1>1, <1>2, <1>3 DEF FiberStep

LEMMA LoopStepOnRows ==
  ASSUME TypeOK, NEW l \in Loops,
         PumpStep(l) \/ BootStep(l) \/ Boot(l) \/ Stopped(l) \/ Trouble(l)
  PROVE  [Ledger!LedgerNext]_(Ledger!ledger)
  <1>1. CASE FileStop(l)
    BY <1>1, FileStopIsEnd
  <1>2. CASE \E r \in RunIds : BootClose(l, r)
    BY <1>2, BootCloseIsEnd
  <1>3. CASE PumpStep(l) /\ ~FileStop(l)
    BY <1>3 DEF PumpStep, Wake, DrainDone, TakeCommand, Stop, Interrupt, Killed,
                Rerun, StartSession, Dispatch, ReadColumn, ColumnDone, ForkNext,
                runRows, Ledger!ledger
  <1>4. CASE BootStep(l) /\ ~(\E r \in RunIds : BootClose(l, r))
    BY <1>4 DEF BootStep, BootLeases, BootList, BootClosed, BootFinished, BootFinish,
                runRows, Ledger!ledger
  <1>5. CASE Boot(l) \/ Stopped(l)
    BY <1>5 DEF Boot, Stopped, runRows, Ledger!ledger
  <1>6. CASE Trouble(l)
    BY <1>6 DEF Trouble, Crash, Shutdown, CommandFails, BootCloseFails, Defer,
                FailClaim, SetupFails, LeaseGoesStale, runRows, Ledger!ledger
  <1> QED
    BY <1>1, <1>2, <1>3, <1>4, <1>5, <1>6

LEMMA NextOnRows == TypeOK /\ [Next]_vars => [Ledger!LedgerNext]_(Ledger!ledger)
  <1> SUFFICES ASSUME TypeOK, [Next]_vars PROVE [Ledger!LedgerNext]_(Ledger!ledger)
    OBVIOUS
  <1>1. CASE UNCHANGED vars
    BY <1>1 DEF vars, Ledger!ledger
  <1>2. ASSUME NEW l \in Loops, NEW t \in Tasks,
               \/ TurnEnds(l, t) \/ SessionInit(l, t)
               \/ AgentFinishes(l, t) \/ Heartbeat(l, t)
        PROVE  [Ledger!LedgerNext]_(Ledger!ledger)
    BY <1>2, SessionInitIsStart
    DEF TurnEnds, AgentFinishes, Heartbeat, runRows, Ledger!ledger
  <1>3. CASE (\E t \in Tasks : ParkExpires(t)) \/ Person
    BY <1>3 DEF ParkExpires, Person, CommitMove, RequestStop, OpenMove, Press,
                runRows, Ledger!ledger
  <1> QED
    BY <1>1, <1>2, <1>3, FiberStepOnRows, LoopStepOnRows DEF Next

LEMMA InitOnRows == Init => Ledger!LedgerInit
  BY SomeTaskType DEF Init, Ledger!LedgerInit, RunIds

(* LedgerImplemented of TaskLoop: whatever processes, sweeps, commands,      *)
(* crashes and people do, RunRepo's rows only ever move as RunLedger says.   *)
THEOREM LoopImplementsLedger == Spec => LedgerImplemented
  <1>1. Spec => [][Ledger!LedgerNext]_(Ledger!ledger)
    BY TypeCorrect, NextOnRows, PTL DEF Spec
  <1> QED
    BY <1>1, InitOnRows, PTL DEF Spec, LedgerImplemented, Ledger!LedgerSpec

-----------------------------------------------------------------------------
(* What the rows say, by induction over the steps of the ledger.             *)

(* Rows above the newest are absent. Creating a row therefore touches none   *)
(* that has an ending, and none a fiber or a second card could already mean. *)
RowsInOrder == \A r \in RunIds : r > lastRun <=> runState[r] = "absent"

RowInv == RowsInOrder /\ OneLiveRun

LEMMA RowInvInit == Init => RowInv
  BY BoundsAssumption
  DEF Init, RowInv, RowsInOrder, OneLiveRun, Live, LiveStates, RunIds

LEMMA RowInvStep == TypeOK /\ RowInv /\ [Ledger!LedgerNext]_(Ledger!ledger) => RowInv'
  <1> SUFFICES ASSUME TypeOK, RowInv, [Ledger!LedgerNext]_(Ledger!ledger)
               PROVE  RowInv'
    OBVIOUS
  <1>1. CASE UNCHANGED Ledger!ledger
    BY <1>1 DEF Ledger!ledger, RowInv, RowsInOrder, OneLiveRun, Live
  <1>2. ASSUME NEW t \in Tasks, Ledger!Create(t) PROVE RowInv'
    <2>1. /\ lastRun + 1 \in RunIds /\ lastRun' = lastRun + 1
          /\ runOf' = [runOf EXCEPT ![lastRun + 1] = t]
          /\ runState' = [runState EXCEPT ![lastRun + 1] = "queued"]
      BY <1>2, BoundsAssumption DEF Ledger!Create, TypeOK, RunIds
    <2>2. \A r \in RunIds : Live(r) => r \in 1..lastRun /\ runOf[r] # t
      BY <1>2, BoundsAssumption
      DEF Ledger!Create, Ledger!Live, Live, LiveStates, RowInv, RowsInOrder, RunIds, TypeOK
    <2>3. RowsInOrder'
      BY <2>1, BoundsAssumption DEF RowInv, RowsInOrder, TypeOK, RunIds
    <2>4. OneLiveRun'
      BY <2>1, <2>2 DEF RowInv, OneLiveRun, Live, TypeOK
    <2> QED
      BY <2>3, <2>4 DEF RowInv
  <1>3. ASSUME NEW r \in RunIds, Ledger!Start(r) PROVE RowInv'
    BY <1>3 DEF Ledger!Start, RowInv, RowsInOrder, OneLiveRun, Live, LiveStates, TypeOK
  <1>4. ASSUME NEW r \in RunIds, Ledger!End(r) PROVE RowInv'
    BY <1>4
    DEF Ledger!End, Ledger!Live, RowInv, RowsInOrder, OneLiveRun, Live, LiveStates, TypeOK
  <1> QED
    BY <1>1, <1>2, <1>3, <1>4 DEF Ledger!LedgerNext, RunIds

LEMMA RowInvCorrect == Spec => []RowInv
  BY TypeCorrect, RowInvInit, RowInvStep, NextOnRows, PTL DEF Spec

(* OneLiveRun of TaskLoop: RunRepo.create never leaves two live rows on one  *)
(* card, for any number of cards, loop processes and rows.                   *)
THEOREM OneLiveRunCorrect == Spec => []OneLiveRun
  BY RowInvCorrect, PTL DEF RowInv

LEMMA EndingKept ==
  TypeOK /\ RowInv /\ [Ledger!LedgerNext]_(Ledger!ledger)
    => \A r \in RunIds : runState[r] \in Endings => runState'[r] = runState[r]
  <1> SUFFICES ASSUME TypeOK, RowInv, [Ledger!LedgerNext]_(Ledger!ledger),
                      NEW r \in RunIds, runState[r] \in Endings
               PROVE  runState'[r] = runState[r]
    OBVIOUS
  <1>1. runState[r] \notin {"absent", "queued", "running"} /\ r # lastRun + 1
    BY DEF Endings, TurnEndings, RowInv, RowsInOrder, RunIds, TypeOK
  <1> QED
    BY <1>1 DEF Ledger!LedgerNext, Ledger!ledger, Ledger!Create, Ledger!Start,
                Ledger!End, Ledger!Live, TypeOK

(* EndingIsFinal of TaskLoop: the fiber, the stop command and the boot       *)
(* reconcile may all reach one row, and only the first of them writes it.    *)
THEOREM EndingIsFinalCorrect == Spec => EndingIsFinal
  <1>1. TypeOK /\ RowInv /\ [Next]_vars
          => [\A r \in RunIds : runState[r] \in Endings => runState'[r] = runState[r]]_vars
    BY NextOnRows, EndingKept
  <1> QED
    BY <1>1, TypeCorrect, RowInvCorrect, PTL DEF Spec, EndingIsFinal

-----------------------------------------------------------------------------
(* What a step may do to the run a fiber carries and to who is in the lane:  *)
(* nothing but forget them, except for Admit and Open.                       *)

FiberKept ==
  \A l \in Loops, t \in Tasks :
    /\ fiber'[l][t].run \in {fiber[l][t].run, NoRun}
    /\ fiber'[l][t].step \in InLane => fiber[l][t].step \in InLane

LEMMA SameFibersKept ==
  ASSUME fiber' = fiber
  PROVE  FiberKept
  BY DEF FiberKept

LEMMA SetFiberKept ==
  ASSUME TypeOK, NEW l \in Loops, NEW t \in Tasks, NEW f,
         fiber' = [fiber EXCEPT ![l][t] = f],
         f.run \in {fiber[l][t].run, NoRun},
         f.step \in InLane => fiber[l][t].step \in InLane
  PROVE  FiberKept
  BY DEF TypeOK, FiberKept

LEMMA GotoKept ==
  ASSUME TypeOK, NEW l \in Loops, NEW t \in Tasks, NEW step, Goto(l, t, step),
         step \in InLane => fiber[l][t].step \in InLane
  PROVE  FiberKept
  <1> DEFINE f == [fiber[l][t] EXCEPT !.step = step]
  <1>1. f.run = fiber[l][t].run /\ f.step = step
    BY FiberOf DEF Fiber
  <1>2. fiber' = [fiber EXCEPT ![l][t] = f]
    BY DEF Goto, TypeOK
  <1> HIDE DEF f
  <1> QED
    BY <1>1, <1>2, SetFiberKept

LEMMA EndFiberKept ==
  ASSUME TypeOK, NEW l \in Loops, NEW t \in Tasks, EndFiber(l, t)
  PROVE  FiberKept
  <1>1. NoFiber.run = NoRun /\ NoFiber.step \notin InLane
    BY DEF NoFiber, InLane
  <1> QED
    BY <1>1, SetFiberKept DEF EndFiber

LEMMA ForkKept ==
  ASSUME TypeOK, NEW l \in Loops, NEW t \in Tasks, NEW trigger, NEW row, NEW isParked,
         Fork(l, t, trigger, row, isParked)
  PROVE  FiberKept
  <1> DEFINE f == [NoFiber EXCEPT !.step = "plan", !.row = row,
                                  !.parked = isParked, !.trigger = trigger]
  <1>1. f.run = NoRun /\ f.step \notin InLane
    BY DEF NoFiber, InLane
  <1>2. fiber' = fiber \/ fiber' = [fiber EXCEPT ![l][t] = f]
    BY DEF Fork
  <1> HIDE DEF f
  <1> QED
    BY <1>1, <1>2, SetFiberKept, SameFibersKept

(* The two exceptions: a permit is taken while the lane has room, and a run  *)
(* is taken that is newer than every row there is.                           *)
TakesPermit(l, t) ==
  /\ At(l, t, "quota") /\ Cardinality(Admitted(l)) < Slots
  /\ Goto(l, t, "claim")

TakesRun(l, t) ==
  /\ At(l, t, "open")
  /\ fiber' = [fiber EXCEPT ![l][t] = [@ EXCEPT !.step = "opened", !.run = lastRun + 1]]
  /\ runOf' = [runOf EXCEPT ![lastRun + 1] = t]
  /\ lastRun < MaxRuns /\ lastRun' = lastRun + 1

FiberChange == FiberKept \/ \E l \in Loops, t \in Tasks : TakesPermit(l, t) \/ TakesRun(l, t)

LEMMA FiberStepChange ==
  ASSUME TypeOK, NEW l \in Loops, NEW t \in Tasks, FiberStep(l, t)
  PROVE  FiberChange
  <1>1. CASE Plan(l, t)
    BY <1>1, GotoKept, EndFiberKept DEF Plan, InLane, FiberChange
  <1>2. CASE Admit(l, t)
    BY <1>2, EndFiberKept DEF Admit, TakesPermit, FiberChange
  <1>3. CASE Claim(l, t)
    BY <1>3, GotoKept, EndFiberKept DEF Claim, At, InLane, FiberChange
  <1>4. CASE Open(l, t)
    BY <1>4, EndFiberKept DEF Open, TakesRun, FiberChange
  <1>5. CASE BeginTurn(l, t)
    BY <1>5, GotoKept DEF BeginTurn, At, InLane, FiberChange
  <1>6. CASE Abandon(l, t)
    BY <1>6, EndFiberKept DEF Abandon, FiberChange
  <1>7. CASE TurnInterrupted(l, t)
    <2> DEFINE f == [fiber[l][t] EXCEPT !.step = "close",
                       !.ending = IF note[l][t] THEN "stopped" ELSE "interrupted"]
    <2>1. f.run = fiber[l][t].run
      BY FiberOf DEF Fiber
    <2>2. fiber' = [fiber EXCEPT ![l][t] = f] /\ fiber[l][t].step \in InLane
      BY <1>7 DEF TurnInterrupted, TypeOK, At, InLane
    <2> HIDE DEF f
    <2> QED
      BY <2>1, <2>2, SetFiberKept DEF FiberChange
  <1>8. CASE CloseRow(l, t)
    BY <1>8, GotoKept DEF CloseRow, At, InLane, FiberChange
  <1>9. CASE MoveToReview(l, t)
    <2>1. PICK moved \in BOOLEAN :
            fiber' = [fiber EXCEPT ![l][t] = [@ EXCEPT !.step = "collect", !.moved = moved]]
      BY <1>9 DEF MoveToReview
    <2> DEFINE f == [fiber[l][t] EXCEPT !.step = "collect", !.moved = moved]
    <2>2. f.run = fiber[l][t].run
      BY FiberOf DEF Fiber
    <2>3. fiber' = [fiber EXCEPT ![l][t] = f] /\ fiber[l][t].step \in InLane
      BY <1>9, <2>1 DEF MoveToReview, TypeOK, At, InLane
    <2> HIDE DEF f
    <2> QED
      BY <2>2, <2>3, SetFiberKept DEF FiberChange
  <1>10. CASE Collect(l, t)
    BY <1>10, GotoKept DEF Collect, At, InLane, FiberChange
  <1>11. CASE Release(l, t)
    BY <1>11, EndFiberKept DEF Release, FiberChange
  <1> QED
    BY <1>1, <1>2, <1>3, <1>4, <1>5, <1>6, <1>7, <1>8, <1>9, <1>10, <1>11 DEF FiberStep

LEMMA TurnEndsKept ==
  ASSUME TypeOK, NEW l \in Loops, NEW t \in Tasks, TurnEnds(l, t)
  PROVE  FiberKept
  <1>1. PICK e \in TurnEndings :
          fiber' = [fiber EXCEPT ![l][t] = [@ EXCEPT !.step = "close", !.ending = e]]
    BY DEF TurnEnds
  <1> DEFINE f == [fiber[l][t] EXCEPT !.step = "close", !.ending = e]
  <1>2. f.run = fiber[l][t].run
    BY FiberOf DEF Fiber
  <1>3. fiber' = [fiber EXCEPT ![l][t] = f] /\ fiber[l][t].step \in InLane
    BY <1>1 DEF TurnEnds, TypeOK, At, InLane
  <1> HIDE DEF f
  <1> QED
    BY <1>2, <1>3, SetFiberKept

LEMMA InterruptKept ==
  ASSUME TypeOK, NEW l \in Loops, Interrupt(l)
  PROVE  FiberKept
  <1> DEFINE t == runOf[pump[l].target]
             f == [fiber[l][t] EXCEPT !.interrupted = TRUE]
  <1>1. CASE fiber' = fiber
    BY <1>1, SameFibersKept
  <1>2. CASE t \in Tasks /\ fiber' = [fiber EXCEPT ![l][t] = f]
    <2>1. f.run = fiber[l][t].run /\ f.step = fiber[l][t].step
      BY <1>2, FiberOf DEF Fiber
    <2> HIDE DEF f, t
    <2> QED
      BY <1>2, <2>1, SetFiberKept
  <1>3. CASE t \notin Tasks /\ fiber' = [fiber EXCEPT ![l][t] = f]
    <2> HIDE DEF f, t
    <2> QED
      BY <1>3, SameFibersKept DEF TypeOK
  <1>4. fiber' = fiber \/ fiber' = [fiber EXCEPT ![l][t] = f]
    BY DEF Interrupt, TypeOK
  <1> QED
    BY <1>1, <1>2, <1>3, <1>4

LEMMA DispatchKept ==
  ASSUME TypeOK, NEW l \in Loops, Dispatch(l)
  PROVE  FiberKept
  <1>1. pump[l].cmd.task \in Tasks
    BY PumpOf DEF Pump, Command
  <1> QED
    BY <1>1, ForkKept DEF Dispatch

LEMMA ForkNextKept ==
  ASSUME TypeOK, NEW l \in Loops, NEW t \in Tasks, ForkNext(l, t)
  PROVE  FiberKept
  BY ForkKept, SameFibersKept DEF ForkNext

LEMMA LoseMemoryKept ==
  ASSUME TypeOK, NEW l \in Loops, LoseMemory(l)
  PROVE  FiberKept
  BY DEF LoseMemory, TypeOK, FiberKept, NoFiber, InLane

LEMMA ShutdownKept ==
  ASSUME TypeOK, NEW l \in Loops, Shutdown(l)
  PROVE  FiberKept
  <1> DEFINE row == [t \in Tasks |-> IF At(l, t, "none") THEN fiber[l][t]
                       ELSE [fiber[l][t] EXCEPT !.interrupted = TRUE]]
  <1>1. \A t \in Tasks : row[t].run = fiber[l][t].run /\ row[t].step = fiber[l][t].step
    BY FiberOf DEF Fiber
  <1>2. fiber' = [fiber EXCEPT ![l] = row]
    BY DEF Shutdown, TypeOK
  <1> HIDE DEF row
  <1> QED
    BY <1>1, <1>2 DEF TypeOK, FiberKept

LEMMA LoopStepKept ==
  ASSUME TypeOK, NEW l \in Loops,
         PumpStep(l) \/ BootStep(l) \/ Boot(l) \/ Stopped(l) \/ Trouble(l)
  PROVE  FiberKept
  <1>1. CASE PumpStep(l)
    BY <1>1, InterruptKept, DispatchKept, ForkNextKept, SameFibersKept
    DEF PumpStep, Wake, DrainDone, TakeCommand, Stop, Killed, FileStop, Rerun,
        StartSession, ReadColumn, ColumnDone, fiberSide
  <1>2. CASE BootStep(l) \/ Boot(l)
    BY <1>2, SameFibersKept
    DEF BootStep, BootLeases, BootList, BootClosed, BootFinished, BootClose,
        BootFinish, Boot, fiberSide
  <1>3. CASE Stopped(l)
    BY <1>3, LoseMemoryKept DEF Stopped
  <1>4. CASE Trouble(l)
    BY <1>4, LoseMemoryKept, ShutdownKept, EndFiberKept, SameFibersKept
    DEF Trouble, Crash, CommandFails, BootCloseFails, Defer, FailClaim, SetupFails,
        LeaseGoesStale, fiberSide
  <1> QED
    BY <1>1, <1>2, <1>3, <1>4

LEMMA NextOnFibers == TypeOK /\ [Next]_vars => FiberChange
  <1> SUFFICES ASSUME TypeOK, [Next]_vars PROVE FiberChange
    OBVIOUS
  <1>1. CASE UNCHANGED vars
    BY <1>1, SameFibersKept DEF vars, FiberChange
  <1>2. ASSUME NEW l \in Loops, NEW t \in Tasks,
               \/ TurnEnds(l, t) \/ SessionInit(l, t)
               \/ AgentFinishes(l, t) \/ Heartbeat(l, t)
        PROVE  FiberChange
    BY <1>2, TurnEndsKept, SameFibersKept
    DEF SessionInit, AgentFinishes, Heartbeat, fiberSide, FiberChange
  <1>3. CASE (\E t \in Tasks : ParkExpires(t)) \/ Person
    BY <1>3, SameFibersKept
    DEF ParkExpires, Person, CommitMove, RequestStop, OpenMove, Press, fiberSide,
        FiberChange
  <1>4. ASSUME NEW l \in Loops,
               PumpStep(l) \/ BootStep(l) \/ Boot(l) \/ Stopped(l) \/ Trouble(l)
        PROVE  FiberChange
    BY <1>4, LoopStepKept DEF FiberChange
  <1> QED
    BY <1>1, <1>2, <1>3, <1>4, FiberStepChange DEF Next

-----------------------------------------------------------------------------
(* Ownership of runs and the bound of the lane.                              *)

LEMMA LedgerKeepsOwners ==
  TypeOK /\ [Ledger!LedgerNext]_(Ledger!ledger)
    => /\ lastRun' \in {lastRun, lastRun + 1}
       /\ \A r \in RunIds : r <= lastRun => runOf'[r] = runOf[r]
  BY BoundsAssumption
  DEF TypeOK, RunIds, Ledger!LedgerNext, Ledger!ledger, Ledger!Create, Ledger!Start,
      Ledger!End

LEMMA FiberOwnsRunInit == Init => FiberOwnsRun
  BY DEF Init, FiberOwnsRun, NoFiber

LEMMA FiberOwnsRunStep == TypeOK /\ FiberOwnsRun /\ [Next]_vars => FiberOwnsRun'
  <1> SUFFICES ASSUME TypeOK, FiberOwnsRun, [Next]_vars PROVE FiberOwnsRun'
    OBVIOUS
  <1>1. /\ lastRun' \in {lastRun, lastRun + 1}
        /\ \A r \in RunIds : r <= lastRun => runOf'[r] = runOf[r]
    BY NextOnRows, LedgerKeepsOwners
  <1>2. lastRun \in Nat /\ \A l \in Loops, t \in Tasks : fiber[l][t].run \in RunIds \cup {NoRun}
    BY FiberOf, BoundsAssumption DEF Fiber, TypeOK
  <1>3. CASE FiberKept
    BY <1>1, <1>2, <1>3, NoRunIsNoRow DEF FiberKept, FiberOwnsRun, RunIds
  <1>4. ASSUME NEW l \in Loops, NEW t \in Tasks, TakesPermit(l, t)
        PROVE  FiberOwnsRun'
    <2>1. \A m \in Loops, u \in Tasks : fiber'[m][u].run = fiber[m][u].run
      BY <1>4, FiberOf DEF TakesPermit, Goto, TypeOK, Fiber
    <2> QED
      BY <1>1, <1>2, <2>1, NoRunIsNoRow DEF FiberOwnsRun, RunIds
  <1>5. ASSUME NEW l \in Loops, NEW t \in Tasks, TakesRun(l, t)
        PROVE  FiberOwnsRun'
    <2>1. /\ fiber'[l][t].run = lastRun + 1
          /\ \A m \in Loops, u \in Tasks :
               ~(m = l /\ u = t) => fiber'[m][u].run = fiber[m][u].run
      BY <1>5, FiberOf DEF TakesRun, TypeOK, Fiber
    <2>2. lastRun + 1 \in RunIds /\ lastRun' = lastRun + 1 /\ runOf'[lastRun + 1] = t
      BY <1>5, BoundsAssumption DEF TakesRun, TypeOK, RunIds
    <2> QED
      BY <1>1, <1>2, <2>1, <2>2, NoRunIsNoRow DEF FiberOwnsRun, RunIds
  <1> QED
    BY <1>3, <1>4, <1>5, NextOnFibers DEF FiberChange

(* FiberOwnsRun of TaskLoop: whatever leases go stale, processes die or run  *)
(* fibers are refused, no two fibers ever carry the same run.                *)
THEOREM FiberOwnsRunCorrect == Spec => []FiberOwnsRun
  BY TypeCorrect, FiberOwnsRunInit, FiberOwnsRunStep, PTL DEF Spec

LEMMA AdmittedIsFinite ==
  ASSUME NEW l
  PROVE  IsFiniteSet(Admitted(l)) /\ Cardinality(Admitted(l)) \in Nat
  <1>1. Admitted(l) \subseteq Tasks
    BY DEF Admitted
  <1> QED
    BY <1>1, TasksAssumption, FS_Subset, FS_CardinalityType

LEMMA LaneBoundedInit == Init => LaneBounded
  <1> SUFFICES ASSUME Init, NEW l \in Loops PROVE Cardinality(Admitted(l)) <= Slots
    BY DEF LaneBounded
  <1>1. Admitted(l) = {}
    BY DEF Init, Admitted, NoFiber, InLane
  <1> QED
    BY <1>1, FS_EmptySet, BoundsAssumption

LEMMA LaneBoundedStep == TypeOK /\ LaneBounded /\ [Next]_vars => LaneBounded'
  <1> SUFFICES ASSUME TypeOK, LaneBounded, [Next]_vars, NEW m \in Loops
               PROVE  Cardinality(Admitted(m)') <= Slots
    BY DEF LaneBounded
  <1>1. IsFiniteSet(Admitted(m)) /\ Cardinality(Admitted(m)) \in Nat
    BY AdmittedIsFinite
  <1>2. Cardinality(Admitted(m)) <= Slots /\ Slots \in Nat
    BY BoundsAssumption DEF LaneBounded
  <1>3. ASSUME Admitted(m)' \subseteq Admitted(m)
        PROVE  Cardinality(Admitted(m)') <= Slots
    <2>1. /\ IsFiniteSet(Admitted(m)')
          /\ Cardinality(Admitted(m)') <= Cardinality(Admitted(m))
      BY <1>1, <1>3, FS_Subset
    <2>2. Cardinality(Admitted(m)') \in Nat
      BY <2>1, FS_CardinalityType
    <2> QED
      BY <1>1, <1>2, <2>1, <2>2
  <1>4. CASE FiberKept
    BY <1>3, <1>4 DEF FiberKept, Admitted
  <1>5. ASSUME NEW l \in Loops, NEW t \in Tasks, TakesPermit(l, t)
        PROVE  Cardinality(Admitted(m)') <= Slots
    <2>1. \A n \in Loops, u \in Tasks :
            ~(n = l /\ u = t) => fiber'[n][u].step = fiber[n][u].step
      BY <1>5, FiberOf DEF TakesPermit, Goto, TypeOK, Fiber
    <2>2. CASE m # l
      BY <1>3, <2>1, <2>2 DEF Admitted
    <2>3. CASE m = l
      <3>1. Admitted(m)' \subseteq Admitted(m) \cup {t}
        BY <2>1, <2>3 DEF Admitted
      <3>2. /\ IsFiniteSet(Admitted(m) \cup {t})
            /\ Cardinality(Admitted(m) \cup {t}) <= Cardinality(Admitted(m)) + 1
            /\ Cardinality(Admitted(m) \cup {t}) \in Nat
        <4> DEFINE A == Admitted(m)
        <4>1. /\ IsFiniteSet(A \cup {t})
              /\ Cardinality(A \cup {t}) = IF t \in A THEN Cardinality(A)
                                          ELSE Cardinality(A) + 1
          <5> HIDE DEF A
          <5> QED
            BY <1>1, FS_AddElement DEF A
        <4> HIDE DEF A
        <4> QED
          BY <1>1, <4>1 DEF A
      <3>3. /\ Cardinality(Admitted(m)') <= Cardinality(Admitted(m) \cup {t})
            /\ Cardinality(Admitted(m)') \in Nat
        BY <3>1, <3>2, FS_Subset, FS_CardinalityType
      <3>4. Cardinality(Admitted(m)) < Slots
        BY <1>5, <2>3 DEF TakesPermit
      <3> QED
        BY <1>1, <1>2, <3>2, <3>3, <3>4
    <2> QED
      BY <2>2, <2>3
  <1>6. ASSUME NEW l \in Loops, NEW t \in Tasks, TakesRun(l, t)
        PROVE  Cardinality(Admitted(m)') <= Slots
    <2>1. \A n \in Loops, u \in Tasks :
            ~(n = l /\ u = t) => fiber'[n][u].step = fiber[n][u].step
      BY <1>6, FiberOf DEF TakesRun, TypeOK, Fiber
    <2>2. fiber[l][t].step \in InLane
      BY <1>6 DEF TakesRun, At, InLane
    <2> QED
      BY <1>3, <2>1, <2>2 DEF Admitted
  <1> QED
    BY <1>4, <1>5, <1>6, NextOnFibers DEF FiberChange

(* LaneBounded of TaskLoop: no interrupt, crash or second way of forking     *)
(* puts more fibers in a process's work lane than it has slots.              *)
THEOREM LaneBoundedCorrect == Spec => []LaneBounded
  BY TypeCorrect, LaneBoundedInit, LaneBoundedStep, PTL DEF Spec

-----------------------------------------------------------------------------
(* What a stop finds, with one process over the database. A fiber that has   *)
(* its row and has not closed it carries a live run; before it has one, the  *)
(* card has no live run, because nobody else creates any; so a stop that     *)
(* found a run live cannot reach the fiber of a later run of the card.       *)

OneProcess == \A l, m \in Loops : l = m

(* No write or read fails: what a close could not write stays live for good. *)
NoFaults == \A b \in Budgets : b["faults"] = 0

Carrying  == {"opened", "turn", "close"}
Past      == {"move", "collect", "release"}
Admitting == {"quota", "claim", "open"}
Stopping  == {"interrupt", "killing", "file"}
Booting   == {"reclaim", "list", "lose", "finish"}

(* A note lies at a fiber that is interrupted and whose run, if it has one to *)
(* close, somebody asked to stop.                                            *)
NoteMeant(l, t) ==
  note[l][t] =>
    /\ fiber[l][t].interrupted /\ fiber[l][t].step \notin Admitting \cup {"none"}
    /\ fiber[l][t].step \in {"opened", "turn"} => fiber[l][t].run \in asked

FiberSound(l, t) ==
  /\ fiber[l][t].step \in Carrying => fiber[l][t].run \in RunIds /\ Live(fiber[l][t].run)
  /\ fiber[l][t].step \in Admitting => LiveOn(t) = {}
  /\ NoFaults /\ fiber[l][t].step \in Past => LiveOn(t) = {}
  /\ fiber[l][t].step = "close" /\ fiber[l][t].ending = "stopped" => fiber[l][t].run \in asked
  /\ NoteMeant(l, t)

(* The fiber a stop is about to interrupt is the one of its target, or one   *)
(* that will refuse to open a second run, or one past its close.             *)
StopMeant(l) ==
  LET p == pump[l]  f == fiber[l][runOf[p.target]] IN
  /\ p.step \in Stopping => p.target \in RunIds /\ p.target \in asked
  /\ p.step = "interrupt" => /\ f.step \notin Admitting
                             /\ f.step = "plan" => Live(p.target)
                             /\ f.step \in Carrying => f.run = p.target
  /\ p.step = "file" => f.step = "none"

(* No fiber runs in front of a boot, and a process that goes stops sweeping. *)
PumpAlone(l) ==
  /\ pump[l].step \in Booting \/ up[l] = "down" => \A t \in Tasks : fiber[l][t].step = "none"
  /\ up[l] # "up" => pump[l].step = "off"

FibersSound == \A l \in Loops, t \in Tasks : FiberSound(l, t)
PumpsSound  == \A l \in Loops : StopMeant(l) /\ PumpAlone(l)

(* What somebody asked to stop is a row.                                     *)
AskedExist == \A r \in asked : r \in RunIds /\ r <= lastRun

StopInv == FibersSound /\ PumpsSound /\ AskedExist /\ StoppedWasAsked

(* Of a budget without faults, none is ever spent.                           *)
Faultless == NoFaults => budget["faults"] = 0

LEMMA FaultlessInit == Init => Faultless
  BY DEF Init, Faultless, NoFaults

(* A disturbance is paid for, and nothing else touches the budget.           *)
LEMMA BudgetStep ==
  ASSUME [Next]_vars
  PROVE  UNCHANGED budget \/ \E k \in Disturbances : Spend(k)
  <1>1. CASE UNCHANGED vars
    BY <1>1 DEF vars
  <1>2. ASSUME NEW l \in Loops, NEW t \in Tasks,
               \/ FiberStep(l, t) \/ TurnEnds(l, t) \/ SessionInit(l, t)
               \/ AgentFinishes(l, t) \/ Heartbeat(l, t)
        PROVE  UNCHANGED budget \/ \E k \in Disturbances : Spend(k)
    BY <1>2
    DEF FiberStep, Plan, Admit, Claim, Open, BeginTurn, Abandon, TurnInterrupted, CloseRow,
        MoveToReview, Collect, Release, TurnEnds, SessionInit, AgentFinishes, Heartbeat,
        Disturbances
  <1>3. ASSUME NEW l \in Loops, PumpStep(l) \/ BootStep(l) \/ Boot(l) \/ Stopped(l)
        PROVE  UNCHANGED budget \/ \E k \in Disturbances : Spend(k)
    BY <1>3
    DEF PumpStep, Wake, DrainDone, TakeCommand, Stop, Interrupt, Killed, FileStop, Rerun,
        StartSession, Dispatch, ReadColumn, ColumnDone, ForkNext, BootStep, BootLeases,
        BootList, BootClosed, BootFinished, BootClose, BootFinish, Boot, Stopped,
        Disturbances
  <1>4. ASSUME NEW l \in Loops, Trouble(l)
        PROVE  UNCHANGED budget \/ \E k \in Disturbances : Spend(k)
    BY <1>4
    DEF Trouble, Crash, Shutdown, CommandFails, BootCloseFails, Defer, FailClaim,
        SetupFails, LeaseGoesStale, Disturbances
  <1>5. CASE (\E t \in Tasks : ParkExpires(t)) \/ Person
    BY <1>5
    DEF ParkExpires, Person, CommitMove, RequestStop, OpenMove, Press, Disturbances
  <1> QED
    BY <1>1, <1>2, <1>3, <1>4, <1>5 DEF Next

(* What may still go wrong only shrinks.                                     *)
LEMMA BudgetShrinks ==
  ASSUME TypeOK, [Next]_vars, NEW k \in Disturbances
  PROVE  budget'[k] \in Nat /\ budget'[k] <= budget[k]
  <1>1. budget \in [Disturbances -> Nat]
    BY DEF TypeOK
  <1>2. CASE UNCHANGED budget
    BY <1>1, <1>2
  <1>3. ASSUME NEW j \in Disturbances, Spend(j)
        PROVE  budget'[k] \in Nat /\ budget'[k] <= budget[k]
    BY <1>1, <1>3 DEF Spend
  <1> QED
    BY <1>2, <1>3, BudgetStep

LEMMA FaultlessStep == TypeOK /\ Faultless /\ [Next]_vars => Faultless'
  <1> SUFFICES ASSUME TypeOK, Faultless, [Next]_vars PROVE Faultless'
    OBVIOUS
  <1>1. \A k \in Disturbances : budget'[k] \in Nat /\ budget'[k] <= budget[k]
    BY BudgetShrinks
  <1> QED
    BY <1>1 DEF Faultless, TypeOK, Disturbances

LEMMA StopInit == Init => StopInv
  BY DEF Init, StopInv, AskedExist, FibersSound, FiberSound, NoteMeant, PumpsSound, StopMeant, PumpAlone,
         StoppedWasAsked, NoFiber, PumpAt, Carrying, Admitting, Past, Stopping, Booting

(* The same rows are live.                                                   *)
LiveKept == runOf' = runOf /\ \A r \in RunIds : Live(r)' <=> Live(r)

LEMMA LiveOnKept ==
  ASSUME LiveKept
  PROVE  \A t : LiveOn(t)' = LiveOn(t)
  BY DEF LiveKept, LiveOn

LEMMA SameRowsLive ==
  ASSUME runOf' = runOf, runState' = runState
  PROVE  LiveKept
  BY DEF LiveKept, Live

LEMMA SetFiberSound ==
  ASSUME OneProcess, TypeOK, FibersSound, PumpsSound, LiveKept,
         NEW l \in Loops, NEW t \in Tasks, NEW f, NEW n \in BOOLEAN,
         fiber' = [fiber EXCEPT ![l][t] = f], note' = [note EXCEPT ![l][t] = n],
         pump' = pump, up' = up, asked' = asked,
         fiber[l][t].step # "none", f.step # "plan",
         f.step \in Carrying => /\ fiber[l][t].step \in Carrying
                                /\ f.run = fiber[l][t].run,
         f.step \in Admitting => \/ fiber[l][t].step \in Admitting
                                 \/ fiber[l][t].step = "plan" /\ LiveOn(t) = {},
         NoFaults /\ f.step \in Past => fiber[l][t].step \in Past,
         f.step = "close" /\ f.ending = "stopped" => f.run \in asked,
         n => /\ f.interrupted /\ f.step \notin Admitting \cup {"none"}
              /\ f.step \in {"opened", "turn"} => f.run \in asked
  PROVE  FibersSound' /\ PumpsSound'
  <1>1. /\ fiber'[l][t] = f /\ note'[l][t] = n
        /\ \A m \in Loops, u \in Tasks :
             ~(m = l /\ u = t) => fiber'[m][u] = fiber[m][u] /\ note'[m][u] = note[m][u]
    BY DEF TypeOK
  <1>2. \A u : LiveOn(u)' = LiveOn(u)
    BY LiveOnKept
  <1>3. FibersSound'
    <2> SUFFICES ASSUME NEW m \in Loops, NEW u \in Tasks PROVE FiberSound(m, u)'
      BY DEF FibersSound
    <2>1. CASE m = l /\ u = t
      BY <1>1, <1>2, <2>1 DEF FibersSound, FiberSound, NoteMeant, LiveKept
    <2>2. CASE ~(m = l /\ u = t)
      BY <1>1, <1>2, <2>2 DEF FibersSound, FiberSound, NoteMeant, LiveKept
    <2> QED
      BY <2>1, <2>2
  <1>4. PumpsSound'
    <2> SUFFICES ASSUME NEW m \in Loops PROVE StopMeant(m)' /\ PumpAlone(m)'
      BY DEF PumpsSound
    <2>1. m = l
      BY DEF OneProcess
    <2>2. PumpAlone(m)'
      <3>1. PumpAlone(m)
        BY DEF PumpsSound
      <3>2. ~(pump[m].step \in Booting \/ up[m] = "down")
        BY <2>1, <3>1 DEF PumpAlone
      <3> QED
        BY <3>1, <3>2 DEF PumpAlone
    <2>3. StopMeant(m)'
      <3>1. runOf'[pump[m].target] = runOf[pump[m].target]
        BY DEF LiveKept
      <3>2. CASE pump[m].step \notin Stopping
        BY <3>2 DEF StopMeant, Stopping
      <3>3. CASE pump[m].step \in Stopping
        <4>1. pump[m].target \in RunIds /\ runOf[pump[m].target] \in Tasks
              /\ pump[m].target \in asked
          BY <3>3 DEF PumpsSound, StopMeant, TypeOK
        <4>2. CASE runOf[pump[m].target] # t
          BY <1>1, <2>1, <3>1, <4>1, <4>2 DEF PumpsSound, StopMeant, LiveKept
        <4>3. CASE runOf[pump[m].target] = t
          <5>1. pump[m].step # "file"
            BY <2>1, <4>3 DEF PumpsSound, StopMeant
          <5>2. ASSUME pump[m].step = "interrupt"
                PROVE  f.step \notin Admitting /\ (f.step \in Carrying => f.run = pump[m].target)
            <6>1. LiveOn(t) = {} => ~Live(pump[m].target)
              BY <4>1, <4>3 DEF LiveOn
            <6>2. /\ fiber[l][t].step \notin Admitting
                  /\ fiber[l][t].step \in Carrying => fiber[l][t].run = pump[m].target
              BY <2>1, <4>3, <5>2 DEF PumpsSound, StopMeant
            <6> QED
              BY <2>1, <4>3, <5>2, <6>1, <6>2 DEF PumpsSound, StopMeant
          <5> QED
            BY <1>1, <2>1, <3>1, <4>1, <4>3, <5>1, <5>2 DEF StopMeant
        <4> QED
          BY <4>2, <4>3
      <3> QED
        BY <3>2, <3>3
    <2> QED
      BY <2>2, <2>3
  <1> QED
    BY <1>3, <1>4

LEMMA GotoSound ==
  ASSUME OneProcess, TypeOK, FibersSound, PumpsSound, LiveKept,
         NEW l \in Loops, NEW t \in Tasks, NEW step,
         Goto(l, t, step), note' = note, pump' = pump, up' = up, asked' = asked,
         fiber[l][t].step # "none", step \notin {"none", "plan", "opened", "close"},
         step = "turn" => fiber[l][t].step = "opened",
         NoFaults /\ step \in Past => fiber[l][t].step \in Past,
         step \in Admitting => /\ ~fiber[l][t].interrupted
                               /\ \/ fiber[l][t].step \in Admitting
                                  \/ fiber[l][t].step = "plan" /\ LiveOn(t) = {}
  PROVE  FibersSound' /\ PumpsSound'
  <1> DEFINE f == [fiber[l][t] EXCEPT !.step = step]
             n == note[l][t]
  <1>1. /\ f.step = step /\ f.run = fiber[l][t].run
        /\ f.interrupted = fiber[l][t].interrupted
    BY FiberOf DEF Fiber
  <1>2. fiber' = [fiber EXCEPT ![l][t] = f]
    BY DEF Goto, TypeOK
  <1>3. n \in BOOLEAN /\ note' = [note EXCEPT ![l][t] = n]
    BY DEF TypeOK
  <1>4. n => /\ f.interrupted /\ f.step \notin Admitting \cup {"none"}
             /\ f.step \in {"opened", "turn"} => f.run \in asked
    BY <1>1 DEF FibersSound, FiberSound, NoteMeant
  <1>5. f.step \in Carrying => /\ fiber[l][t].step \in Carrying
                               /\ f.run = fiber[l][t].run
    BY <1>1 DEF Carrying
  <1> HIDE DEF f, n
  <1> QED
    BY <1>1, <1>2, <1>3, <1>4, <1>5, SetFiberSound

LEMMA EndFiberSound ==
  ASSUME OneProcess, TypeOK, FibersSound, PumpsSound, LiveKept,
         NEW l \in Loops, NEW t \in Tasks,
         EndFiber(l, t), pump' = pump, up' = up, asked' = asked,
         fiber[l][t].step # "none"
  PROVE  FibersSound' /\ PumpsSound'
  <1>1. NoFiber.step = "none" /\ "none" \notin Carrying \cup Admitting \cup Past
    BY DEF NoFiber, Carrying, Admitting, Past
  <1> QED
    BY <1>1, SetFiberSound DEF EndFiber

(* The steps of a fiber that leave the run rows alone.                       *)
LEMMA QuietFiberSound ==
  ASSUME OneProcess, TypeOK, FibersSound, PumpsSound, NEW l \in Loops, NEW t \in Tasks,
         \/ Plan(l, t) \/ Admit(l, t) \/ Claim(l, t) \/ BeginTurn(l, t)
         \/ Abandon(l, t) \/ MoveToReview(l, t) \/ Collect(l, t) \/ Release(l, t)
         \/ TurnEnds(l, t) \/ TurnInterrupted(l, t)
         \/ Defer(l, t) \/ FailClaim(l, t) \/ SetupFails(l, t)
  PROVE  FibersSound' /\ PumpsSound'
  <1>0. LiveKept
    BY SameRowsLive
    DEF Plan, Admit, Claim, BeginTurn, Abandon, MoveToReview, Collect, Release, TurnEnds,
        TurnInterrupted, Defer, FailClaim, SetupFails, runRows
  <1> USE <1>0 DEF At, history
  <1>1. CASE Plan(l, t)
    <2>1. CASE fiber[l][t].row = "in_progress" /\ ~fiber[l][t].parked /\ LiveOn(t) = {}
      BY <1>1, <2>1, GotoSound DEF Plan, Admitting, Past
    <2>2. CASE ~(fiber[l][t].row = "in_progress" /\ ~fiber[l][t].parked /\ LiveOn(t) = {})
      BY <1>1, <2>2, EndFiberSound DEF Plan
    <2> QED
      BY <1>1, <2>1, <2>2 DEF Plan
  <1>2. CASE Admit(l, t)
    <2>1. CASE Goto(l, t, "claim") /\ UNCHANGED <<note, lease>>
      BY <1>2, <2>1, GotoSound DEF Admit, Admitting, Past
    <2>2. CASE EndFiber(l, t)
      BY <1>2, <2>2, EndFiberSound DEF Admit
    <2> QED
      BY <1>2, <2>1, <2>2 DEF Admit
  <1>3. CASE Claim(l, t)
    <2>1. CASE Goto(l, t, "open") /\ UNCHANGED note
      BY <1>3, <2>1, GotoSound DEF Claim, Admitting, Past
    <2>2. CASE EndFiber(l, t)
      BY <1>3, <2>2, EndFiberSound DEF Claim
    <2> QED
      BY <1>3, <2>1, <2>2 DEF Claim
  <1>4. CASE BeginTurn(l, t)
    BY <1>4, GotoSound DEF BeginTurn, Admitting, Past
  <1>5. CASE Abandon(l, t)
    BY <1>5, EndFiberSound DEF Abandon
  <1>6. CASE MoveToReview(l, t)
    <2>1. PICK moved \in BOOLEAN :
            fiber' = [fiber EXCEPT ![l][t] = [@ EXCEPT !.step = "collect", !.moved = moved]]
      BY <1>6 DEF MoveToReview
    <2> DEFINE f == [fiber[l][t] EXCEPT !.step = "collect", !.moved = moved]
               n == note[l][t]
    <2>2. f.step = "collect" /\ f.interrupted = fiber[l][t].interrupted
      BY FiberOf DEF Fiber
    <2>3. fiber' = [fiber EXCEPT ![l][t] = f] /\ note' = note
      BY <1>6, <2>1 DEF MoveToReview, TypeOK
    <2>4. n \in BOOLEAN /\ note' = [note EXCEPT ![l][t] = n]
      BY <2>3 DEF TypeOK
    <2>5. n => f.interrupted
      <3>1. NoteMeant(l, t)
        BY DEF FibersSound, FiberSound
      <3> QED
        BY <2>2, <3>1 DEF NoteMeant
    <2>6. /\ pump' = pump /\ up' = up /\ asked' = asked /\ fiber[l][t].step # "none"
          /\ f.step \notin Carrying /\ f.step \notin Admitting /\ fiber[l][t].step \in Past
      <3>1. pump' = pump /\ up' = up /\ asked' = asked /\ fiber[l][t].step = "move"
        BY <1>6 DEF MoveToReview, At, history
      <3>2. f.step \notin Carrying /\ f.step \notin Admitting
        BY <2>2 DEF Carrying, Admitting
      <3> QED
        BY <3>1, <3>2 DEF Past
    <2> HIDE DEF f, n
    <2> QED
      BY <2>2, <2>3, <2>4, <2>5, <2>6, SetFiberSound
  <1>7. CASE Collect(l, t)
    BY <1>7, GotoSound DEF Collect, Admitting, Past
  <1>8. CASE Release(l, t)
    BY <1>8, EndFiberSound DEF Release
  <1>9. CASE TurnEnds(l, t)
    <2>1. PICK e \in TurnEndings :
            fiber' = [fiber EXCEPT ![l][t] = [@ EXCEPT !.step = "close", !.ending = e]]
      BY <1>9 DEF TurnEnds
    <2> DEFINE f == [fiber[l][t] EXCEPT !.step = "close", !.ending = e]
               n == note[l][t]
    <2>2. /\ f.step = "close" /\ f.run = fiber[l][t].run /\ f.ending # "stopped"
          /\ f.interrupted = fiber[l][t].interrupted
      BY <2>1, FiberOf DEF Fiber, TurnEndings
    <2>3. fiber' = [fiber EXCEPT ![l][t] = f] /\ note' = note
      BY <1>9, <2>1 DEF TurnEnds, TypeOK
    <2>4. n \in BOOLEAN /\ note' = [note EXCEPT ![l][t] = n]
      BY <2>3 DEF TypeOK
    <2>5. n => f.interrupted
      BY <2>2 DEF FibersSound, FiberSound, NoteMeant
    <2>6. /\ pump' = pump /\ up' = up /\ asked' = asked /\ fiber[l][t].step = "turn"
          /\ "turn" \in Carrying /\ "close" \notin Admitting \cup Past
      BY <1>9 DEF TurnEnds, Carrying, Admitting, Past
    <2> HIDE DEF f, n
    <2> QED
      BY <2>2, <2>3, <2>4, <2>5, <2>6, SetFiberSound
  <1>10. CASE TurnInterrupted(l, t)
    <2> DEFINE f == [fiber[l][t] EXCEPT !.step = "close",
                       !.ending = IF note[l][t] THEN "stopped" ELSE "interrupted"]
    <2>1. /\ f.step = "close" /\ f.run = fiber[l][t].run
          /\ f.ending = "stopped" => note[l][t]
      BY FiberOf DEF Fiber
    <2>2. /\ fiber' = [fiber EXCEPT ![l][t] = f]
          /\ note' = [note EXCEPT ![l][t] = FALSE]
      BY <1>10 DEF TurnInterrupted, TypeOK
    <2>3. /\ pump' = pump /\ up' = up /\ asked' = asked /\ fiber[l][t].step = "turn"
          /\ "turn" \in Carrying /\ "close" \notin Admitting \cup Past
      BY <1>10 DEF TurnInterrupted, Carrying, Admitting, Past
    <2>4. note[l][t] => fiber[l][t].run \in asked
      BY <2>3 DEF FibersSound, FiberSound, NoteMeant
    <2> HIDE DEF f
    <2> QED
      BY <2>1, <2>2, <2>3, <2>4, SetFiberSound
  <1>11. CASE Defer(l, t)
    BY <1>11, EndFiberSound DEF Defer
  <1>12. CASE FailClaim(l, t)
    BY <1>12, EndFiberSound DEF FailClaim
  <1>13. CASE SetupFails(l, t)
    BY <1>13, EndFiberSound DEF SetupFails
  <1> QED
    BY <1>1, <1>2, <1>3, <1>4, <1>5, <1>6, <1>7, <1>8, <1>9, <1>10, <1>11, <1>12, <1>13

(* Steps that touch no fiber, no note and no pump.                           *)
LEMMA IdleSound ==
  ASSUME FibersSound, PumpsSound, LiveKept,
         fiber' = fiber, note' = note, pump' = pump, up' = up, asked' = asked
  PROVE  FibersSound' /\ PumpsSound'
  <1>1. FibersSound'
    BY LiveOnKept DEF FibersSound, FiberSound, NoteMeant, LiveKept
  <1>2. PumpsSound'
    <2> SUFFICES ASSUME NEW l \in Loops PROVE StopMeant(l)' /\ PumpAlone(l)'
      BY DEF PumpsSound
    <2>1. PumpAlone(l)'
      BY DEF PumpsSound, PumpAlone
    <2>2. pump[l].step \in Stopping => pump[l].target \in RunIds
      BY DEF PumpsSound, StopMeant
    <2>3. runOf' = runOf /\ (pump[l].step \in Stopping => (Live(pump[l].target)' <=> Live(pump[l].target)))
      BY <2>2 DEF LiveKept
    <2>4. StopMeant(l)'
      BY <2>3 DEF PumpsSound, StopMeant, Stopping
    <2> QED
      BY <2>1, <2>4
  <1> QED
    BY <1>1, <1>2

LEMMA SessionInitLive ==
  ASSUME TypeOK, NEW l \in Loops, NEW t \in Tasks, SessionInit(l, t)
  PROVE  LiveKept
  BY DEF SessionInit, LiveKept, Live, LiveStates, TypeOK

(* A close takes one row, and no other, from the live ones.                  *)
LEMMA CloseLive ==
  ASSUME TypeOK, NEW r \in RunIds, NEW e \in Endings, Close(r, e), runOf' = runOf
  PROVE  /\ \A x \in RunIds : Live(x)' <=> Live(x) /\ x # r
         /\ \A t : LiveOn(t)' \subseteq LiveOn(t)
         /\ \A x \in RunIds : runState'[x] # runState[x] => x = r /\ runState'[x] = e
  <1>1. \A x \in RunIds : Live(x)' <=> Live(x) /\ x # r
    BY DEF Close, Live, LiveStates, Endings, TurnEndings, TypeOK
  <1>2. \A x \in RunIds : runState'[x] # runState[x] => x = r /\ runState'[x] = e
    BY DEF Close, TypeOK
  <1> QED
    BY <1>1, <1>2 DEF LiveOn

LEMMA CloseRowSound ==
  ASSUME OneProcess, TypeOK, RowInv, FiberOwnsRun, StopInv, Faultless,
         NEW l \in Loops, NEW t \in Tasks, CloseRow(l, t)
  PROVE  FibersSound' /\ PumpsSound'
  <1> DEFINE r == fiber[l][t].run
             e == fiber[l][t].ending
  <1>1. /\ fiber[l][t].step = "close" /\ r \in RunIds /\ Live(r) /\ e \in Endings
        /\ runOf' = runOf /\ runOf[r] = t
    BY FiberOf, NoRunIsNoRow
    DEF CloseRow, At, StopInv, FibersSound, FiberSound, Carrying, Fiber, FiberOwnsRun
  <1>2. CASE UNCHANGED runState
    <2>1. LiveKept
      BY <1>1, <1>2, SameRowsLive
    <2>2. ~NoFaults
      BY <1>1, <1>2 DEF CloseRow, Close, Live, LiveStates, Endings, TurnEndings, Faultless,
                        Spend, TypeOK
    <2> QED
      BY <1>1, <2>1, <2>2, GotoSound DEF CloseRow, history, Admitting, StopInv
  <1>3. CASE Close(r, e)
    <2>1. /\ \A x \in RunIds : Live(x)' <=> Live(x) /\ x # r
          /\ \A u : LiveOn(u)' \subseteq LiveOn(u)
      BY <1>1, <1>3, CloseLive
    <2>2. /\ fiber'[l][t].step = "move"
          /\ fiber'[l][t].interrupted = fiber[l][t].interrupted
          /\ note' = note /\ pump' = pump /\ up' = up /\ asked' = asked
          /\ \A m \in Loops, u \in Tasks : ~(m = l /\ u = t) => fiber'[m][u] = fiber[m][u]
      BY FiberOf DEF CloseRow, Goto, TypeOK, Fiber, history
    <2>3. FibersSound'
      <3> SUFFICES ASSUME NEW m \in Loops, NEW u \in Tasks PROVE FiberSound(m, u)'
        BY DEF FibersSound
      <3>1. CASE m = l /\ u = t
        <4>1. LiveOn(t)' = {}
          BY <1>1, <2>1 DEF LiveOn, RowInv, OneLiveRun
        <4> QED
          BY <2>2, <3>1, <4>1
          DEF StopInv, FibersSound, FiberSound, NoteMeant, Carrying, Admitting
      <3>2. CASE ~(m = l /\ u = t)
        <4>1. fiber[m][u].step \in Carrying => fiber[m][u].run # r
          BY <1>1, <3>2, NoRunIsNoRow DEF FiberOwnsRun
        <4> QED
          BY <2>1, <2>2, <3>2, <4>1 DEF StopInv, FibersSound, FiberSound, NoteMeant
      <3> QED
        BY <3>1, <3>2
    <2>4. PumpsSound'
      <3> SUFFICES ASSUME NEW m \in Loops PROVE StopMeant(m)' /\ PumpAlone(m)'
        BY DEF PumpsSound
      <3>1. m = l
        BY DEF OneProcess
      <3>2. PumpAlone(m)'
        BY <1>1, <2>2, <3>1 DEF StopInv, PumpsSound, PumpAlone
      <3>3. StopMeant(m)'
        <4>1. CASE pump[m].step \notin Stopping
          BY <2>2, <4>1 DEF StopMeant, Stopping
        <4>2. CASE pump[m].step \in Stopping
          <5>1. pump[m].target \in RunIds /\ runOf[pump[m].target] \in Tasks
            BY <4>2 DEF StopInv, PumpsSound, StopMeant, TypeOK
          <5>2. CASE runOf[pump[m].target] = t
            <6>1. pump[m].step # "file"
              BY <1>1, <3>1, <5>2 DEF StopInv, PumpsSound, StopMeant
            <6> QED
              BY <1>1, <2>2, <3>1, <5>1, <5>2, <6>1
              DEF StopInv, PumpsSound, StopMeant, Carrying, Admitting
          <5>3. CASE runOf[pump[m].target] # t
            BY <1>1, <2>1, <2>2, <3>1, <5>1, <5>3 DEF StopInv, PumpsSound, StopMeant
          <5> QED
            BY <5>2, <5>3
        <4> QED
          BY <4>1, <4>2
      <3> QED
        BY <3>2, <3>3
    <2> QED
      BY <2>3, <2>4
  <1> QED
    BY <1>2, <1>3 DEF CloseRow

LEMMA OpenSound ==
  ASSUME OneProcess, TypeOK, RowInv, StopInv,
         NEW l \in Loops, NEW t \in Tasks, Open(l, t)
  PROVE  FibersSound' /\ PumpsSound'
  <1>0. fiber[l][t].step = "open" /\ "open" \in Admitting
    BY DEF Open, At, Admitting
  <1>1. CASE LiveOn(t) # {}
    BY <1>0, <1>1 DEF StopInv, FibersSound, FiberSound
  <1>2. CASE LiveOn(t) = {}
    <2> DEFINE r == lastRun + 1
    <2>1. /\ r \in RunIds /\ runOf' = [runOf EXCEPT ![r] = t]
          /\ runState' = [runState EXCEPT ![r] = "queued"] /\ ~Live(r)
          /\ \A x \in asked : x \in RunIds /\ x # r
      BY <1>2, BoundsAssumption
      DEF Open, TypeOK, RunIds, RowInv, RowsInOrder, Live, LiveStates, StopInv, AskedExist
    <2>2. /\ fiber'[l][t].step = "opened" /\ fiber'[l][t].run = r
          /\ \A m \in Loops, u \in Tasks : ~(m = l /\ u = t) => fiber'[m][u] = fiber[m][u]
      <3> DEFINE f == [fiber[l][t] EXCEPT !.step = "opened", !.run = r]
      <3>1. f.step = "opened" /\ f.run = r
        BY FiberOf DEF Fiber
      <3>2. fiber' = [fiber EXCEPT ![l][t] = f]
        BY <1>2 DEF Open, TypeOK
      <3> HIDE DEF f, r
      <3> QED
        BY <3>1, <3>2 DEF TypeOK
    <2>3. note' = note /\ pump' = pump /\ up' = up /\ asked' = asked
      BY <1>2 DEF Open
    <2> HIDE DEF r
    <2>4. \A x \in RunIds : (Live(x)' <=> Live(x) \/ x = r) /\ (x # r => runOf'[x] = runOf[x])
      BY <2>1 DEF Live, LiveStates, TypeOK
    <2>5. \A u \in Tasks \ {t} : LiveOn(u)' = LiveOn(u)
      <3>1. runOf'[r] = t
        BY <2>1 DEF TypeOK
      <3> QED
        BY <2>1, <2>4, <3>1 DEF LiveOn
    <2>6. FibersSound'
      <3> SUFFICES ASSUME NEW m \in Loops, NEW u \in Tasks PROVE FiberSound(m, u)'
        BY DEF FibersSound
      <3>1. CASE m = l /\ u = t
        <4>1. ~note[l][t]
          BY <1>0 DEF StopInv, FibersSound, FiberSound, NoteMeant
        <4> QED
          BY <2>1, <2>2, <2>3, <2>4, <3>1, <4>1 DEF FiberSound, NoteMeant, Admitting, Past
      <3>2. CASE ~(m = l /\ u = t)
        <4>1. u # t
          BY <3>2 DEF OneProcess
        <4> QED
          BY <2>2, <2>3, <2>4, <2>5, <3>2, <4>1
          DEF StopInv, FibersSound, FiberSound, NoteMeant
      <3> QED
        BY <3>1, <3>2
    <2>7. PumpsSound'
      <3> SUFFICES ASSUME NEW m \in Loops PROVE StopMeant(m)' /\ PumpAlone(m)'
        BY DEF PumpsSound
      <3>1. m = l
        BY DEF OneProcess
      <3>2. PumpAlone(m)'
        BY <1>0, <2>2, <2>3, <3>1 DEF StopInv, PumpsSound, PumpAlone
      <3>3. StopMeant(m)'
        <4>1. CASE pump[m].step \notin Stopping
          BY <2>3, <4>1 DEF StopMeant, Stopping
        <4>2. CASE pump[m].step \in Stopping
          <5>1. /\ pump[m].target \in RunIds /\ pump[m].target # r
                /\ runOf[pump[m].target] \in Tasks
            BY <2>1, <4>2 DEF StopInv, PumpsSound, StopMeant, TypeOK
          <5>2. CASE runOf[pump[m].target] = t
            <6>1. pump[m].step \notin {"interrupt", "file"}
              BY <1>0, <3>1, <5>2 DEF StopInv, PumpsSound, StopMeant
            <6> QED
              BY <2>3, <4>2, <6>1 DEF StopInv, PumpsSound, StopMeant
          <5>3. CASE runOf[pump[m].target] # t
            BY <2>2, <2>3, <2>4, <3>1, <5>1, <5>3 DEF StopInv, PumpsSound, StopMeant
          <5> QED
            BY <5>2, <5>3
        <4> QED
          BY <4>1, <4>2
      <3> QED
        BY <3>2, <3>3
    <2> QED
      BY <2>6, <2>7
  <1> QED
    BY <1>1, <1>2

LEMMA PumpToFacts ==
  ASSUME TypeOK, NEW l \in Loops, NEW step, PumpTo(l, step)
  PROVE  /\ pump'[l].step = step /\ pump'[l].target = pump[l].target
         /\ pump'[l].finish = pump[l].finish
         /\ \A m \in Loops \ {l} : pump'[m] = pump[m]
  BY PumpOf DEF PumpTo, Pump, TypeOK

LEMMA PumpResetFacts ==
  ASSUME TypeOK, NEW l \in Loops, NEW step, PumpReset(l, step)
  PROVE  /\ pump'[l].step = step /\ pump'[l].finish = {}
         /\ \A m \in Loops \ {l} : pump'[m] = pump[m]
  BY DEF PumpReset, PumpAt, TypeOK

(* Steps of a pump that is neither stopping a run nor booting afterwards.      *)
LEMMA PumpSound ==
  ASSUME OneProcess, FibersSound, PumpsSound, LiveKept, NEW l \in Loops,
         fiber' = fiber, note' = note, up' = up, asked' = asked,
         pump[l].step # "off", pump'[l].step \notin Stopping \cup Booting
  PROVE  FibersSound' /\ PumpsSound'
  <1>1. FibersSound'
    BY LiveOnKept DEF FibersSound, FiberSound, NoteMeant, LiveKept
  <1>2. PumpsSound'
    <2> SUFFICES ASSUME NEW m \in Loops PROVE StopMeant(m)' /\ PumpAlone(m)'
      BY DEF PumpsSound
    <2>1. m = l
      BY DEF OneProcess
    <2> QED
      BY <2>1 DEF PumpsSound, PumpAlone, StopMeant, Stopping
  <1> QED
    BY <1>1, <1>2

LEMMA PlainPumpStep ==
  ASSUME TypeOK, NEW l \in Loops,
         \/ Wake(l) \/ DrainDone(l) \/ TakeCommand(l) \/ Rerun(l) \/ StartSession(l)
         \/ CommandFails(l) \/ ReadColumn(l) \/ ColumnDone(l)
         \/ BootFinished(l) \/ BootCloseFails(l)
  PROVE  \/ TakeCommand(l) /\ pump'[l].step = "command"
         \/ pump'[l].step \in {"drain", "column", "dispatch", "fork", "idle"}
  <1>1. CASE \/ Wake(l) \/ DrainDone(l) \/ Rerun(l) \/ StartSession(l)
             \/ CommandFails(l) \/ ColumnDone(l) \/ BootFinished(l) \/ BootCloseFails(l)
    BY <1>1, PumpToFacts, PumpResetFacts
    DEF Wake, DrainDone, Rerun, StartSession, CommandFails, ColumnDone, BootFinished,
        BootCloseFails, Accept, Reject
  <1>2. CASE TakeCommand(l)
    BY <1>2, PumpOf DEF TakeCommand, TypeOK, Pump
  <1>3. CASE ReadColumn(l)
    <2>1. CASE Slots - Cardinality(Admitted(l)) > 0
      <3> DEFINE ready == {t \in Tasks : status[t] = "in_progress" /\ ~parked[t]}
                 free  == Slots - Cardinality(Admitted(l))
                 p     == [pump[l] EXCEPT !.step = "fork", !.column = ready, !.left = free]
      <3>1. p.step = "fork"
        BY PumpOf DEF Pump
      <3>2. pump' = [pump EXCEPT ![l] = p]
        BY <1>3, <2>1 DEF ReadColumn, TypeOK
      <3> HIDE DEF p
      <3> QED
        BY <3>1, <3>2 DEF TypeOK
    <2>2. CASE ~(Slots - Cardinality(Admitted(l)) > 0)
      BY <1>3, <2>2, PumpResetFacts DEF ReadColumn
    <2> QED
      BY <2>1, <2>2
  <1> QED
    BY <1>1, <1>2, <1>3

LEMMA PlainPumpSound ==
  ASSUME OneProcess, TypeOK, FibersSound, PumpsSound, NEW l \in Loops,
         \/ Wake(l) \/ DrainDone(l) \/ TakeCommand(l) \/ Rerun(l) \/ StartSession(l)
         \/ CommandFails(l) \/ ReadColumn(l) \/ ColumnDone(l)
         \/ BootFinished(l) \/ BootCloseFails(l)
  PROVE  FibersSound' /\ PumpsSound'
  <1>1. /\ LiveKept /\ fiber' = fiber /\ note' = note /\ up' = up /\ asked' = asked
        /\ pump[l].step # "off"
    BY SameRowsLive
    DEF Wake, DrainDone, TakeCommand, Rerun, StartSession, CommandFails, ReadColumn,
        ColumnDone, BootFinished, BootCloseFails, runRows, fiberSide, history, PumpIs,
        CommandIs, Accept, Reject
  <1>2. pump'[l].step \in {"drain", "column", "command", "dispatch", "fork", "idle"}
    BY PlainPumpStep
  <1>3. pump'[l].step \notin Stopping \cup Booting
    BY <1>2 DEF Stopping, Booting
  <1> QED
    BY <1>1, <1>3, PumpSound

LEMMA StopSound ==
  ASSUME OneProcess, TypeOK, OneLiveRun, FiberOwnsRun, StopInv, NEW l \in Loops, Stop(l)
  PROVE  FibersSound' /\ PumpsSound'
  <1>1. /\ LiveKept /\ fiber' = fiber /\ note' = note /\ up' = up
        /\ runOf' = runOf /\ runState' = runState /\ pump[l].step # "off"
    BY SameRowsLive DEF Stop, runRows, fiberSide, CommandIs, PumpIs
  <1>2. CASE PumpReset(l, "drain") /\ asked' = asked
    BY <1>1, <1>2, PumpResetFacts, PumpSound DEF StopInv, Stopping, Booting
  <1>3. ASSUME NEW r \in RunIds, Live(r), asked' = asked \cup {r},
               pump' = [pump EXCEPT ![l] = [@ EXCEPT !.step = "interrupt", !.target = r]]
        PROVE  FibersSound' /\ PumpsSound'
    <2>1. FibersSound'
      BY <1>1, <1>3, LiveOnKept DEF StopInv, FibersSound, FiberSound, NoteMeant, LiveKept
    <2>2. pump'[l].step = "interrupt" /\ pump'[l].target = r
      BY <1>3, PumpOf DEF TypeOK, Pump
    <2>3. PumpsSound'
      <3> DEFINE t == runOf[r]
      <3> SUFFICES ASSUME NEW m \in Loops PROVE StopMeant(m)' /\ PumpAlone(m)'
        BY DEF PumpsSound
      <3>1. m = l /\ t \in Tasks /\ r \in LiveOn(t)
        BY <1>3 DEF OneProcess, TypeOK, LiveOn
      <3>2. fiber[l][t].step \notin Admitting
        BY <3>1 DEF StopInv, FibersSound, FiberSound
      <3>3. fiber[l][t].step \in Carrying => fiber[l][t].run = r
        BY <1>3, <3>1, NoRunIsNoRow
        DEF StopInv, FibersSound, FiberSound, FiberOwnsRun, OneLiveRun
      <3>4. PumpAlone(m)'
        BY <1>1, <2>2, <3>1 DEF StopInv, PumpsSound, PumpAlone, Booting
      <3> QED
        BY <1>1, <1>3, <2>2, <3>1, <3>2, <3>3, <3>4 DEF StopMeant, LiveKept
    <2> QED
      BY <2>1, <2>3
  <1> QED
    BY <1>2, <1>3 DEF Stop, LiveOn

LEMMA InterruptSound ==
  ASSUME OneProcess, TypeOK, StopInv, NEW l \in Loops, Interrupt(l)
  PROVE  FibersSound' /\ PumpsSound'
  <1> DEFINE r == pump[l].target
             t == runOf[r]
  <1>1. /\ LiveKept /\ up' = up /\ asked' = asked /\ runOf' = runOf
        /\ pump[l].step = "interrupt" /\ "interrupt" \in Stopping
    BY SameRowsLive DEF Interrupt, runRows, history, PumpIs, Stopping
  <1>2. r \in RunIds /\ r \in asked /\ t \in Tasks
    BY <1>1 DEF StopInv, PumpsSound, StopMeant, TypeOK
  <1>3. \A u : LiveOn(u)' = LiveOn(u)
    BY <1>1, LiveOnKept
  <1>4. \A m \in Loops : m = l
    BY DEF OneProcess
  <1>5. CASE fiber[l][t].step = "none"
    <2>1. PumpTo(l, "file") /\ fiber' = fiber /\ note' = note
      BY <1>5 DEF Interrupt, At
    <2>2. FibersSound'
      BY <1>1, <1>3, <2>1 DEF StopInv, FibersSound, FiberSound, NoteMeant, LiveKept
    <2>3. pump'[l].step = "file" /\ pump'[l].target = r
      BY <2>1, PumpToFacts
    <2>4. PumpsSound'
      BY <1>1, <1>2, <1>4, <1>5, <2>1, <2>3
      DEF StopInv, PumpsSound, StopMeant, PumpAlone, Booting
    <2> QED
      BY <2>2, <2>4
  <1>6. CASE fiber[l][t].step # "none"
    <2>1. /\ PumpTo(l, "killing") /\ note' = [note EXCEPT ![l][t] = TRUE]
          /\ fiber' = [fiber EXCEPT ![l][t] = [@ EXCEPT !.interrupted = TRUE]]
      BY <1>6 DEF Interrupt, At
    <2>2. pump'[l].step = "killing" /\ pump'[l].target = r
      BY <2>1, PumpToFacts
    <2>3. /\ fiber'[l][t].interrupted /\ note'[l][t]
          /\ fiber'[l][t].step = fiber[l][t].step /\ fiber'[l][t].run = fiber[l][t].run
          /\ fiber'[l][t].ending = fiber[l][t].ending
          /\ \A u \in Tasks \ {t} : fiber'[l][u] = fiber[l][u] /\ note'[l][u] = note[l][u]
      <3> DEFINE f == [fiber[l][t] EXCEPT !.interrupted = TRUE]
      <3>1. /\ f.interrupted /\ f.step = fiber[l][t].step /\ f.run = fiber[l][t].run
            /\ f.ending = fiber[l][t].ending
        BY <1>2, FiberOf DEF Fiber
      <3>2. fiber' = [fiber EXCEPT ![l][t] = f]
        BY <2>1 DEF TypeOK
      <3> HIDE DEF f, t
      <3> QED
        BY <1>2, <2>1, <3>1, <3>2 DEF TypeOK
    <2>4. /\ fiber[l][t].step \notin Admitting
          /\ fiber[l][t].step \in Carrying => fiber[l][t].run = r
      BY <1>1 DEF StopInv, PumpsSound, StopMeant
    <2>5. FibersSound'
      <3> SUFFICES ASSUME NEW u \in Tasks PROVE FiberSound(l, u)'
        BY <1>4 DEF FibersSound
      <3>1. CASE u = t
        <4> HIDE DEF r
        <4> QED
          BY <1>1, <1>2, <1>3, <1>6, <2>3, <2>4, <3>1
          DEF StopInv, FibersSound, FiberSound, NoteMeant, LiveKept, Carrying
      <3>2. CASE u # t
        <4> HIDE DEF t
        <4> QED
          BY <1>1, <1>3, <2>3, <3>2 DEF StopInv, FibersSound, FiberSound, NoteMeant, LiveKept
      <3> QED
        BY <3>1, <3>2
    <2>6. PumpsSound'
      BY <1>1, <1>2, <1>4, <2>2 DEF StopInv, PumpsSound, StopMeant, PumpAlone, Booting
    <2> QED
      BY <2>5, <2>6
  <1> QED
    BY <1>5, <1>6

LEMMA KilledSound ==
  ASSUME OneProcess, TypeOK, StopInv, NEW l \in Loops, Killed(l)
  PROVE  FibersSound' /\ PumpsSound'
  <1>1. /\ LiveKept /\ fiber' = fiber /\ note' = note /\ up' = up /\ asked' = asked
        /\ runOf' = runOf /\ pump[l].step = "killing" /\ "killing" \in Stopping
        /\ fiber[l][runOf[pump[l].target]].step = "none"
    BY SameRowsLive DEF Killed, runRows, fiberSide, history, PumpIs, At, Stopping
  <1>2. pump'[l].step = "file" /\ pump'[l].target = pump[l].target
    BY PumpToFacts DEF Killed
  <1>3. FibersSound'
    BY <1>1, LiveOnKept DEF StopInv, FibersSound, FiberSound, NoteMeant, LiveKept
  <1>4. PumpsSound'
    BY <1>1, <1>2 DEF OneProcess, StopInv, PumpsSound, StopMeant, PumpAlone, Booting
  <1> QED
    BY <1>3, <1>4

LEMMA FileStopSound ==
  ASSUME OneProcess, TypeOK, FiberOwnsRun, StopInv, NEW l \in Loops, FileStop(l)
  PROVE  FibersSound' /\ PumpsSound'
  <1> DEFINE r == pump[l].target
  <1>1. /\ Close(r, "stopped") /\ fiber' = fiber /\ note' = note /\ up' = up
        /\ asked' = asked /\ runOf' = runOf /\ pump[l].step = "file" /\ "file" \in Stopping
    BY DEF FileStop, fiberSide, history, PumpIs, Stopping
  <1>2. r \in RunIds /\ fiber[l][runOf[r]].step = "none"
    BY <1>1 DEF StopInv, PumpsSound, StopMeant
  <1>3. /\ \A x \in RunIds : Live(x)' <=> Live(x) /\ x # r
        /\ \A u : LiveOn(u)' \subseteq LiveOn(u)
    BY <1>1, <1>2, CloseLive DEF Endings
  <1>4. FibersSound'
    <2> SUFFICES ASSUME NEW m \in Loops, NEW u \in Tasks PROVE FiberSound(m, u)'
      BY DEF FibersSound
    <2>1. fiber[m][u].step \in Carrying => fiber[m][u].run # r
      BY <1>2, NoRunIsNoRow DEF FiberOwnsRun, OneProcess, Carrying
    <2> QED
      BY <1>1, <1>3, <2>1 DEF StopInv, FibersSound, FiberSound, NoteMeant
  <1>5. pump'[l].step = "drain"
    BY PumpResetFacts DEF FileStop
  <1>6. PumpsSound'
    BY <1>1, <1>5 DEF OneProcess, StopInv, PumpsSound, StopMeant, PumpAlone, Booting, Stopping
  <1> QED
    BY <1>4, <1>6

LEMMA ForkFacts ==
  ASSUME TypeOK, NEW l \in Loops, NEW t \in Tasks, NEW trigger, NEW row, NEW isParked,
         Fork(l, t, trigger, row, isParked)
  PROVE  /\ \A u \in Tasks \ {t} : fiber'[l][u] = fiber[l][u]
         /\ fiber'[l][t] # fiber[l][t] => fiber[l][t].step = "none" /\ fiber'[l][t].step = "plan"
  <1> DEFINE f == [NoFiber EXCEPT !.step = "plan", !.row = row,
                                  !.parked = isParked, !.trigger = trigger]
  <1>1. f.step = "plan"
    BY DEF NoFiber
  <1>2. fiber' = fiber \/ (fiber[l][t].step = "none" /\ fiber' = [fiber EXCEPT ![l][t] = f])
    BY DEF Fork
  <1> HIDE DEF f
  <1> QED
    BY <1>1, <1>2 DEF TypeOK

LEMMA ForkSound ==
  ASSUME OneProcess, TypeOK, FibersSound, PumpsSound, NEW l \in Loops, NEW t \in Tasks,
         NEW trigger, NEW row, NEW isParked, Fork(l, t, trigger, row, isParked),
         runOf' = runOf, runState' = runState, note' = note, up' = up, asked' = asked,
         pump[l].step \notin Booting \cup {"off"},
         pump'[l].step \notin Stopping \cup Booting
  PROVE  FibersSound' /\ PumpsSound'
  <1>1. /\ \A u \in Tasks \ {t} : fiber'[l][u] = fiber[l][u]
        /\ fiber'[l][t] # fiber[l][t] => fiber[l][t].step = "none" /\ fiber'[l][t].step = "plan"
    BY ForkFacts
  <1>2. LiveKept /\ \A u : LiveOn(u)' = LiveOn(u)
    BY SameRowsLive, LiveOnKept
  <1>3. FibersSound'
    <2> SUFFICES ASSUME NEW u \in Tasks PROVE FiberSound(l, u)'
      BY DEF FibersSound, OneProcess
    <2>1. CASE fiber'[l][u] = fiber[l][u]
      BY <1>2, <2>1 DEF FibersSound, FiberSound, NoteMeant, LiveKept
    <2>2. CASE fiber[l][u].step = "none" /\ fiber'[l][u].step = "plan"
      <3>1. ~note[l][u]
        BY <2>2 DEF FibersSound, FiberSound, NoteMeant
      <3> QED
        BY <2>2, <3>1 DEF FiberSound, NoteMeant, Carrying, Admitting, Past
    <2> QED
      BY <1>1, <2>1, <2>2
  <1>4. PumpsSound'
    <2> SUFFICES ASSUME NEW m \in Loops PROVE StopMeant(m)' /\ PumpAlone(m)'
      BY DEF PumpsSound
    <2>1. m = l
      BY DEF OneProcess
    <2>2. up[m] = "up"
      BY <2>1 DEF PumpsSound, PumpAlone
    <2> QED
      BY <2>1, <2>2 DEF PumpAlone, StopMeant, Stopping
  <1> QED
    BY <1>3, <1>4

LEMMA ForksSound ==
  ASSUME OneProcess, TypeOK, FibersSound, PumpsSound, NEW l \in Loops,
         Dispatch(l) \/ \E t \in Tasks : ForkNext(l, t)
  PROVE  FibersSound' /\ PumpsSound'
  <1>1. CASE Dispatch(l)
    <2>1. pump[l].cmd.task \in Tasks
      BY PumpOf DEF Pump, Command
    <2>2. pump'[l].step = "drain"
      BY <1>1, PumpResetFacts DEF Dispatch
    <2> QED
      BY <1>1, <2>1, <2>2, ForkSound
      DEF Dispatch, PumpIs, runRows, history, Stopping, Booting
  <1>2. ASSUME NEW t \in Tasks, ForkNext(l, t) PROVE FibersSound' /\ PumpsSound'
    <2>1. pump[l].step = "fork" /\ pump'[l].step = "fork"
      <3>1. pump[l].step = "fork"
        BY <1>2 DEF ForkNext, PumpIs
      <3>2. PICK taken \in {0, 1} : pump' = [pump EXCEPT ![l] = OneFewer(pump[l], t, taken)]
        BY <1>2 DEF ForkNext
      <3>3. OneFewer(pump[l], t, taken).step = pump[l].step
        BY PumpOf DEF OneFewer, Pump
      <3> QED
        BY <3>1, <3>2, <3>3 DEF TypeOK
    <2>2. "fork" \notin Stopping \cup Booting \cup {"off"}
      BY DEF Stopping, Booting
    <2>3. CASE LiveOn(t) = {}
      BY <1>2, <2>1, <2>2, <2>3, ForkSound DEF ForkNext, runRows, history
    <2>4. CASE LiveOn(t) # {}
      BY <1>2, <2>1, <2>2, <2>4, PumpSound, SameRowsLive DEF ForkNext, runRows, history
    <2> QED
      BY <2>3, <2>4
  <1> QED
    BY <1>1, <1>2

(* A process without fibers and notes, that stops no run.                    *)
LEMMA EmptySound ==
  ASSUME OneProcess, NEW l \in Loops,
         \A t \in Tasks : fiber'[l][t].step = "none" /\ ~note'[l][t],
         pump'[l].step \notin Stopping, up'[l] # "up" => pump'[l].step = "off"
  PROVE  FibersSound' /\ PumpsSound'
  <1>1. FibersSound'
    BY DEF OneProcess, FibersSound, FiberSound, NoteMeant, Carrying, Admitting, Past
  <1>2. PumpsSound'
    BY DEF OneProcess, PumpsSound, StopMeant, PumpAlone, Stopping
  <1> QED
    BY <1>1, <1>2

LEMMA BootsAlone ==
  ASSUME FibersSound, PumpsSound, NEW l \in Loops, pump[l].step \in Booting \/ up[l] = "down"
  PROVE  /\ \A t \in Tasks : fiber[l][t].step = "none" /\ ~note[l][t]
         /\ pump[l].step \in Booting => up[l] = "up"
  BY DEF FibersSound, FiberSound, NoteMeant, PumpsSound, PumpAlone, Booting

LEMMA BootLeasesFacts ==
  ASSUME TypeOK, NEW l \in Loops, BootLeases(l)
  PROVE  pump'[l].step = "list" /\ pump'[l].finish = pump[l].finish
  <1> DEFINE guarded == {t \in Tasks : lease[t] # NoLoop}
             p == [pump[l] EXCEPT !.step = "list", !.guarded = guarded]
  <1>1. p.step = "list" /\ p.finish = pump[l].finish
    BY PumpOf DEF Pump
  <1>2. pump' = [pump EXCEPT ![l] = p]
    BY DEF BootLeases, TypeOK
  <1> HIDE DEF p
  <1> QED
    BY <1>1, <1>2 DEF TypeOK

LEMMA BootListFacts ==
  ASSUME TypeOK, NEW l \in Loops, BootList(l)
  PROVE  pump'[l].step = "lose" /\ pump'[l].finish = pump[l].finish
  <1> DEFINE lost == {r \in RunIds : Live(r) /\ runOf[r] \notin pump[l].guarded}
             p == [pump[l] EXCEPT !.step = "lose", !.lost = lost]
  <1>1. p.step = "lose" /\ p.finish = pump[l].finish
    BY PumpOf DEF Pump
  <1>2. pump' = [pump EXCEPT ![l] = p]
    BY DEF BootList, TypeOK
  <1> HIDE DEF p
  <1> QED
    BY <1>1, <1>2 DEF TypeOK

LEMMA BootCloseFacts ==
  ASSUME TypeOK, NEW l \in Loops, NEW r \in RunIds, BootClose(l, r)
  PROVE  /\ pump[l].step = "lose" /\ pump'[l].step = "lose"
         /\ pump'[l].finish = pump[l].finish \cup {x \in {r} : Live(x)}
  <1> DEFINE finish == pump[l].finish \cup {x \in {r} : Live(x)}
             lost == pump[l].lost \ {r}
             p == [pump[l] EXCEPT !.lost = lost, !.finish = finish]
  <1>1. p.step = pump[l].step /\ p.finish = finish
    BY PumpOf DEF Pump
  <1>2. pump' = [pump EXCEPT ![l] = p] /\ pump[l].step = "lose"
    BY DEF BootClose, PumpIs, TypeOK
  <1> HIDE DEF p, finish
  <1>3. pump'[l] = p
    BY <1>2 DEF TypeOK
  <1> QED
    BY <1>1, <1>2, <1>3 DEF finish

LEMMA BootSound ==
  ASSUME OneProcess, TypeOK, FibersSound, PumpsSound, NEW l \in Loops,
         \/ Boot(l) \/ BootLeases(l) \/ BootList(l) \/ BootClosed(l)
         \/ \E r \in RunIds : BootClose(l, r) \/ BootFinish(l, r)
  PROVE  FibersSound' /\ PumpsSound'
  <1>1. fiber' = fiber /\ note' = note
    BY DEF Boot, BootLeases, BootList, BootClosed, BootClose, BootFinish, fiberSide
  <1>2. CASE Boot(l)
    <2>1. up[l] = "down" /\ up'[l] = "up" /\ pump'[l].step = "reclaim"
      BY <1>2, PumpResetFacts DEF Boot, TypeOK
    <2>2. \A t \in Tasks : fiber[l][t].step = "none" /\ ~note[l][t]
      BY <2>1, BootsAlone
    <2> QED
      BY <1>1, <2>1, <2>2, EmptySound DEF Stopping
  <1>3. CASE \/ BootLeases(l) \/ BootList(l) \/ BootClosed(l)
             \/ \E r \in RunIds : BootClose(l, r) \/ BootFinish(l, r)
    <2>1. pump[l].step \in Booting /\ up' = up
      BY <1>3 DEF BootLeases, BootList, BootClosed, BootClose, BootFinish, PumpIs, Booting
    <2>2. pump'[l].step \in {"list", "lose", "finish"}
      <3>1. CASE BootLeases(l)
        BY <3>1, BootLeasesFacts
      <3>5. CASE BootList(l)
        BY <3>5, BootListFacts
      <3>2. CASE BootClosed(l)
        BY <3>2, PumpToFacts DEF BootClosed
      <3>3. CASE \E r \in RunIds : BootClose(l, r)
        BY <3>3, BootCloseFacts
      <3>4. CASE \E r \in RunIds : BootFinish(l, r)
        BY <3>4, PumpOf DEF BootFinish, PumpIs, TypeOK, Pump
      <3> QED
        BY <1>3, <3>1, <3>2, <3>3, <3>4, <3>5
    <2>3. (\A t \in Tasks : fiber[l][t].step = "none" /\ ~note[l][t]) /\ up[l] = "up"
      BY <2>1, BootsAlone
    <2> QED
      BY <1>1, <2>1, <2>2, <2>3, EmptySound DEF Stopping
  <1> QED
    BY <1>2, <1>3

LEMMA LoseMemorySound ==
  ASSUME OneProcess, TypeOK, NEW l \in Loops, LoseMemory(l)
  PROVE  FibersSound' /\ PumpsSound'
  <1>1. \A t \in Tasks : fiber'[l][t].step = "none" /\ ~note'[l][t]
    BY DEF LoseMemory, TypeOK, NoFiber
  <1>2. pump'[l].step = "off"
    BY PumpResetFacts DEF LoseMemory
  <1> QED
    BY <1>1, <1>2, EmptySound DEF Stopping

LEMMA ShutdownSound ==
  ASSUME OneProcess, TypeOK, FibersSound, PumpsSound, NEW l \in Loops, Shutdown(l)
  PROVE  FibersSound' /\ PumpsSound'
  <1> DEFINE row == [t \in Tasks |-> IF At(l, t, "none") THEN fiber[l][t]
                       ELSE [fiber[l][t] EXCEPT !.interrupted = TRUE]]
  <1>1. \A t \in Tasks : /\ row[t].run = fiber[l][t].run /\ row[t].step = fiber[l][t].step
                         /\ row[t].ending = fiber[l][t].ending
                         /\ fiber[l][t].step # "none" => row[t].interrupted
    BY FiberOf DEF Fiber, At
  <1>2. fiber' = [fiber EXCEPT ![l] = row]
    BY DEF Shutdown, TypeOK
  <1> HIDE DEF row
  <1>3. fiber'[l] = row
    BY <1>2 DEF TypeOK
  <1>4. LiveKept /\ \A u : LiveOn(u)' = LiveOn(u)
    BY SameRowsLive, LiveOnKept DEF Shutdown, runRows
  <1>5. FibersSound'
    <2> SUFFICES ASSUME NEW t \in Tasks PROVE FiberSound(l, t)'
      BY DEF FibersSound, OneProcess
    <2> QED
      BY <1>1, <1>3, <1>4
      DEF Shutdown, history, FibersSound, FiberSound, NoteMeant, LiveKept
  <1>6. pump'[l].step = "off" /\ up'[l] = "stopping"
    BY PumpResetFacts DEF Shutdown, TypeOK
  <1>7. PumpsSound'
    BY <1>6 DEF OneProcess, PumpsSound, StopMeant, PumpAlone, Stopping, Booting
  <1> QED
    BY <1>5, <1>7

(* The rows that say "stopped", step by step.                                *)
LEMMA AskedStep ==
  ASSUME TypeOK, RowInv, OneProcess, FiberOwnsRun, StopInv, [Next]_vars
  PROVE  AskedExist' /\ StoppedWasAsked'
  <1> DEFINE Kept == /\ asked' = asked \/ \E l \in Loops : Stop(l)
                     /\ \A r \in RunIds :
                          runState'[r] = "stopped" /\ runState[r] # "stopped" => r \in asked
  <1>1. Kept => AskedExist' /\ StoppedWasAsked'
    <2> SUFFICES ASSUME Kept PROVE AskedExist' /\ StoppedWasAsked'
      OBVIOUS
    <2>0. ASSUME NEW l \in Loops, Stop(l)
          PROVE  /\ asked \subseteq asked'
                 /\ \A r \in asked' : r \in asked \/ (r \in RunIds /\ Live(r))
      <3>1. CASE UNCHANGED asked
        BY <3>1
      <3>2. ASSUME NEW r \in RunIds, Live(r), asked' = asked \cup {r}
            PROVE  /\ asked \subseteq asked'
                   /\ \A x \in asked' : x \in asked \/ (x \in RunIds /\ Live(x))
        BY <3>2
      <3> QED
        BY <2>0, <3>1, <3>2 DEF Stop, LiveOn
    <2>1. asked \subseteq asked'
      BY <2>0
    <2>2. \A r \in asked' : r \in asked \/ (r \in RunIds /\ Live(r))
      BY <2>0
    <2>3. \A r \in RunIds : Live(r) => r <= lastRun
      BY BoundsAssumption DEF Live, LiveStates, RowInv, RowsInOrder, RunIds, TypeOK
    <2>4. lastRun' \in {lastRun, lastRun + 1} /\ lastRun \in Nat
      BY NextOnRows, LedgerKeepsOwners, BoundsAssumption DEF TypeOK
    <2>5. AskedExist'
      BY <2>2, <2>3, <2>4, BoundsAssumption DEF StopInv, AskedExist, RunIds
    <2>6. StoppedWasAsked'
      BY <2>1 DEF StopInv, StoppedWasAsked
    <2> QED
      BY <2>5, <2>6
  <1>2. (asked' = asked \/ \E l \in Loops : Stop(l)) /\ runState' = runState => Kept
    OBVIOUS
  <1> HIDE DEF Kept
  <1>3. CASE UNCHANGED vars
    <2>1. asked' = asked /\ runState' = runState
      BY <1>3 DEF vars
    <2> QED
      BY <1>1, <1>2, <2>1
  <1>4. ASSUME NEW l \in Loops, NEW t \in Tasks, CloseRow(l, t) PROVE Kept
    <2>1. /\ fiber[l][t].step = "close" /\ fiber[l][t].run \in RunIds
          /\ fiber[l][t].ending \in Endings
          /\ fiber[l][t].ending = "stopped" => fiber[l][t].run \in asked
      BY <1>4, FiberOf DEF CloseRow, At, StopInv, FibersSound, FiberSound, Carrying, Fiber
    <2> QED
      BY <1>4, <2>1, CloseLive DEF Kept, CloseRow, history
  <1>5. ASSUME NEW l \in Loops, FileStop(l) PROVE Kept
    <2>1. pump[l].target \in RunIds /\ pump[l].target \in asked
      BY <1>5 DEF FileStop, PumpIs, StopInv, PumpsSound, StopMeant, Stopping
    <2> QED
      BY <1>5, <2>1, CloseLive DEF Kept, FileStop, history, Endings
  <1>6. ASSUME NEW l \in Loops, NEW r \in RunIds, BootClose(l, r) PROVE Kept
    BY <1>6, CloseLive DEF Kept, BootClose, history, Endings, TurnEndings
  <1>7. ASSUME NEW l \in Loops, NEW t \in Tasks, Open(l, t) PROVE Kept
    BY <1>7 DEF Kept, Open, runRows, history, TypeOK
  <1>8. ASSUME NEW l \in Loops, NEW t \in Tasks, SessionInit(l, t) PROVE Kept
    BY <1>8 DEF Kept, SessionInit, history, TypeOK
  <1>9. ASSUME NEW l \in Loops, NEW t \in Tasks,
               \/ FiberStep(l, t) /\ ~CloseRow(l, t) /\ ~Open(l, t)
               \/ TurnEnds(l, t) \/ AgentFinishes(l, t) \/ Heartbeat(l, t)
        PROVE  Kept
    BY <1>2, <1>9
    DEF FiberStep, Plan, Admit, Claim, BeginTurn, Abandon, TurnInterrupted, MoveToReview,
        Collect, Release, TurnEnds, AgentFinishes, Heartbeat, runRows, history
  <1>10. ASSUME NEW l \in Loops, PumpStep(l), ~FileStop(l) PROVE Kept
    BY <1>2, <1>10
    DEF PumpStep, Wake, DrainDone, TakeCommand, Stop, Interrupt, Killed, Rerun,
        StartSession, Dispatch, ReadColumn, ColumnDone, ForkNext, runRows, history
  <1>11. ASSUME NEW l \in Loops, BootStep(l) /\ ~(\E r \in RunIds : BootClose(l, r))
         PROVE  Kept
    BY <1>2, <1>11
    DEF BootStep, BootLeases, BootList, BootClosed, BootFinished, BootFinish, runRows, history
  <1>12. ASSUME NEW l \in Loops, Boot(l) \/ Stopped(l) \/ Trouble(l) PROVE Kept
    BY <1>2, <1>12
    DEF Boot, Stopped, Trouble, Crash, Shutdown, CommandFails, BootCloseFails, Defer,
        FailClaim, SetupFails, LeaseGoesStale, runRows, history
  <1>13. CASE (\E t \in Tasks : ParkExpires(t)) \/ Person
    <2>1. asked' = asked /\ runState' = runState
      BY <1>13
      DEF ParkExpires, Person, CommitMove, RequestStop, OpenMove, Press, runRows, history
    <2> QED
      BY <1>1, <1>2, <2>1
  <1> QED
    BY <1>1, <1>3, <1>4, <1>5, <1>6, <1>7, <1>8, <1>9, <1>10, <1>11, <1>12, <1>13 DEF Next

LEMMA SoundStep ==
  ASSUME OneProcess, TypeOK, RowInv, FiberOwnsRun, StopInv, Faultless, [Next]_vars
  PROVE  FibersSound' /\ PumpsSound'
  <1>0. FibersSound /\ PumpsSound /\ OneLiveRun
    BY DEF StopInv, RowInv
  <1>1. CASE UNCHANGED vars
    BY <1>0, <1>1, IdleSound, SameRowsLive DEF vars
  <1>2. ASSUME NEW l \in Loops, NEW t \in Tasks,
               \/ FiberStep(l, t) \/ TurnEnds(l, t)
               \/ Defer(l, t) \/ FailClaim(l, t) \/ SetupFails(l, t)
        PROVE  FibersSound' /\ PumpsSound'
    BY <1>0, <1>2, QuietFiberSound, OpenSound, CloseRowSound DEF FiberStep
  <1>3. ASSUME NEW l \in Loops, NEW t \in Tasks,
               \/ SessionInit(l, t) \/ AgentFinishes(l, t)
               \/ Heartbeat(l, t) \/ LeaseGoesStale(l, t)
        PROVE  FibersSound' /\ PumpsSound'
    <2>1. LiveKept
      BY <1>3, SessionInitLive, SameRowsLive
      DEF AgentFinishes, Heartbeat, LeaseGoesStale, runRows
    <2>2. fiber' = fiber /\ note' = note /\ pump' = pump /\ up' = up /\ asked' = asked
      BY <1>3 DEF SessionInit, AgentFinishes, Heartbeat, LeaseGoesStale, fiberSide, history
    <2> QED
      BY <1>0, <2>1, <2>2, IdleSound
  <1>4. CASE (\E t \in Tasks : ParkExpires(t)) \/ Person
    <2>1. runOf' = runOf /\ runState' = runState
      BY <1>4 DEF ParkExpires, Person, CommitMove, RequestStop, OpenMove, Press, runRows
    <2>2. fiber' = fiber /\ note' = note /\ pump' = pump /\ up' = up /\ asked' = asked
      BY <1>4
      DEF ParkExpires, Person, CommitMove, RequestStop, OpenMove, Press, fiberSide, history
    <2> QED
      BY <1>0, <2>1, <2>2, IdleSound, SameRowsLive
  <1>5. ASSUME NEW l \in Loops, PumpStep(l) PROVE FibersSound' /\ PumpsSound'
    BY <1>0, <1>5, PlainPumpSound, StopSound, InterruptSound, KilledSound, FileStopSound,
       ForksSound DEF PumpStep
  <1>6. ASSUME NEW l \in Loops, BootStep(l) \/ Boot(l) PROVE FibersSound' /\ PumpsSound'
    BY <1>0, <1>6, BootSound, PlainPumpSound DEF BootStep
  <1>7. ASSUME NEW l \in Loops, Stopped(l) \/ Crash(l) PROVE FibersSound' /\ PumpsSound'
    BY <1>7, LoseMemorySound DEF Stopped, Crash
  <1>8. ASSUME NEW l \in Loops, Shutdown(l) \/ CommandFails(l) \/ BootCloseFails(l)
        PROVE  FibersSound' /\ PumpsSound'
    BY <1>0, <1>8, ShutdownSound, PlainPumpSound
  <1> QED
    BY <1>1, <1>2, <1>3, <1>4, <1>5, <1>6, <1>7, <1>8 DEF Next, Trouble

LEMMA StopStep ==
  ASSUME OneProcess
  PROVE  TypeOK /\ RowInv /\ FiberOwnsRun /\ Faultless /\ StopInv /\ [Next]_vars => StopInv'
  BY SoundStep, AskedStep DEF StopInv

LEMMA StopInvCorrect ==
  ASSUME OneProcess
  PROVE  Spec => [](StopInv /\ Faultless)
  <1>1. Spec => []Faultless
    BY TypeCorrect, FaultlessInit, FaultlessStep, PTL DEF Spec
  <1> QED
    BY <1>1, TypeCorrect, RowInvCorrect, FiberOwnsRunCorrect, StopInit, StopStep, PTL DEF Spec

(* StoppedWasAsked of TaskLoop: with one loop process over the database, the *)
(* stop note and the stop command only ever file the run they were meant for,*)
(* whatever crashes, failed writes and sweeps come in between. (The run a    *)
(* stop found may be another process's: when it ends before Interrupt, the   *)
(* card's next run may be this process's own, and is the one interrupted.)   *)
THEOREM StoppedWasAskedCorrect ==
  ASSUME OneProcess
  PROVE  Spec => []StoppedWasAsked
  BY StopInvCorrect, PTL DEF StopInv

-----------------------------------------------------------------------------
(* The card at the human gate, with one process and no failing writes.       *)

(* What the boot has closed, nobody has opened again before it is finished.  *)
FinishMeant ==
  \A l \in Loops : \A r \in pump[l].finish :
    pump[l].step \in Booting /\ LiveOn(runOf[r]) = {}

(* Who writes run rows.                                                      *)
LEMMA RowWriters ==
  ASSUME [Next]_vars
  PROVE  \/ runOf' = runOf /\ lastRun' = lastRun /\ runState' = runState
         \/ \E l \in Loops, t \in Tasks : Open(l, t) \/ SessionInit(l, t) \/ CloseRow(l, t)
         \/ \E l \in Loops : FileStop(l) \/ \E r \in RunIds : BootClose(l, r)
  <1>1. CASE UNCHANGED vars
    BY <1>1 DEF vars
  <1>2. ASSUME NEW l \in Loops, NEW t \in Tasks,
               \/ FiberStep(l, t) /\ ~Open(l, t) /\ ~CloseRow(l, t)
               \/ TurnEnds(l, t) \/ AgentFinishes(l, t) \/ Heartbeat(l, t)
        PROVE  runOf' = runOf /\ lastRun' = lastRun /\ runState' = runState
    BY <1>2
    DEF FiberStep, Plan, Admit, Claim, BeginTurn, Abandon, TurnInterrupted, MoveToReview,
        Collect, Release, TurnEnds, AgentFinishes, Heartbeat, runRows
  <1>3. ASSUME NEW l \in Loops, PumpStep(l), ~FileStop(l)
        PROVE  runOf' = runOf /\ lastRun' = lastRun /\ runState' = runState
    BY <1>3
    DEF PumpStep, Wake, DrainDone, TakeCommand, Stop, Interrupt, Killed, Rerun,
        StartSession, Dispatch, ReadColumn, ColumnDone, ForkNext, runRows
  <1>4. ASSUME NEW l \in Loops, BootStep(l) /\ ~(\E r \in RunIds : BootClose(l, r))
        PROVE  runOf' = runOf /\ lastRun' = lastRun /\ runState' = runState
    BY <1>4 DEF BootStep, BootLeases, BootList, BootClosed, BootFinished, BootFinish, runRows
  <1>5. ASSUME NEW l \in Loops, Boot(l) \/ Stopped(l) \/ Trouble(l)
         PROVE  runOf' = runOf /\ lastRun' = lastRun /\ runState' = runState
    BY <1>5
    DEF Boot, Stopped, Trouble, Crash, Shutdown, CommandFails, BootCloseFails, Defer,
        FailClaim, SetupFails, LeaseGoesStale, runRows
  <1>6. ASSUME (\E t \in Tasks : ParkExpires(t)) \/ Person
         PROVE  runOf' = runOf /\ lastRun' = lastRun /\ runState' = runState
    BY <1>6 DEF ParkExpires, Person, CommitMove, RequestStop, OpenMove, Press, runRows
  <1> QED
    BY <1>1, <1>2, <1>3, <1>4, <1>5, <1>6 DEF Next

(* Nothing but Open makes a row live.                                        *)
LEMMA LiveOnStep ==
  ASSUME TypeOK, [Next]_vars, \A l \in Loops, t \in Tasks : ~Open(l, t)
  PROVE  runOf' = runOf /\ lastRun' = lastRun /\ \A r \in RunIds : Live(r)' => Live(r)
  <1>1. ASSUME NEW l \in Loops, NEW t \in Tasks,
               SessionInit(l, t) \/ CloseRow(l, t)
        PROVE  runOf' = runOf /\ lastRun' = lastRun /\ \A r \in RunIds : Live(r)' => Live(r)
    <2>1. CASE SessionInit(l, t)
      BY <1>1, <2>1, SessionInitLive DEF LiveKept, SessionInit
    <2>2. CASE CloseRow(l, t)
      <3>1. fiber[l][t].ending \in Endings
        BY FiberOf DEF Fiber
      <3> QED
        BY <2>2, <3>1 DEF CloseRow, Close, Live, LiveStates, Endings, TurnEndings, TypeOK
    <2> QED
      BY <1>1, <2>1, <2>2
  <1>2. ASSUME NEW l \in Loops, FileStop(l) \/ \E r \in RunIds : BootClose(l, r)
        PROVE  runOf' = runOf /\ lastRun' = lastRun /\ \A r \in RunIds : Live(r)' => Live(r)
    BY <1>2 DEF FileStop, BootClose, Close, Live, LiveStates, TypeOK
  <1> QED
    BY <1>1, <1>2, RowWriters DEF Live

(* Who moves the one pump there is.                                          *)
LEMMA PumpMoves ==
  ASSUME OneProcess, [Next]_vars, NEW l \in Loops
  PROVE  \/ UNCHANGED pump \/ PumpStep(l) \/ BootStep(l) \/ Boot(l) \/ Stopped(l) \/ Crash(l)
         \/ Shutdown(l) \/ CommandFails(l) \/ BootCloseFails(l)
  <1>1. CASE \/ UNCHANGED vars \/ Person \/ (\E t \in Tasks : ParkExpires(t))
             \/ \E t \in Tasks : \/ FiberStep(l, t) \/ TurnEnds(l, t) \/ SessionInit(l, t)
                                 \/ AgentFinishes(l, t) \/ Heartbeat(l, t)
                                 \/ Defer(l, t) \/ FailClaim(l, t) \/ SetupFails(l, t)
                                 \/ LeaseGoesStale(l, t)
    BY <1>1
    DEF vars, ParkExpires, Person, CommitMove, RequestStop, OpenMove, Press, FiberStep,
        Plan, Admit, Claim, Open, BeginTurn, Abandon, TurnInterrupted, CloseRow,
        MoveToReview, Collect, Release, TurnEnds, SessionInit, AgentFinishes, Heartbeat,
        Defer, FailClaim, SetupFails, LeaseGoesStale
  <1> QED
    BY <1>1 DEF Next, Trouble, OneProcess

(* What a step may leave in the list a boot has still to finish.             *)
LEMMA FinishStep ==
  ASSUME OneProcess, TypeOK, RowInv, StopInv, FinishMeant, [Next]_vars, NEW l \in Loops
  PROVE  \/ pump'[l].finish = {}
         \/ /\ pump[l].step \in Booting /\ pump'[l].step \in Booting
            /\ \/ pump'[l].finish \subseteq pump[l].finish
               \/ \E r \in RunIds : /\ BootClose(l, r)
                                    /\ pump'[l].finish = pump[l].finish \cup {x \in {r} : Live(x)}
  <1>0. /\ \A m \in Loops : m = l
        /\ pump[l].finish # {} => pump[l].step \in Booting
    BY DEF OneProcess, FinishMeant
  <1>1. ASSUME UNCHANGED pump
        PROVE  \/ pump'[l].finish = {}
               \/ /\ pump[l].step \in Booting /\ pump'[l].step \in Booting
                  /\ pump'[l].finish \subseteq pump[l].finish
    BY <1>0, <1>1
  <1>2. CASE PumpStep(l)
    <2>1. pump[l].step \notin Booting /\ pump[l].finish = {}
      BY <1>0, <1>2
      DEF PumpStep, Wake, DrainDone, TakeCommand, Stop, Interrupt, Killed, FileStop, Rerun,
          StartSession, Dispatch, ReadColumn, ColumnDone, ForkNext, PumpIs, CommandIs, Booting
    <2>2. CASE \/ Wake(l) \/ DrainDone(l) \/ Interrupt(l) \/ Killed(l) \/ FileStop(l)
               \/ Rerun(l) \/ StartSession(l) \/ Dispatch(l) \/ ColumnDone(l)
      BY <2>1, <2>2, PumpToFacts, PumpResetFacts
      DEF Wake, DrainDone, Interrupt, Killed, FileStop, Rerun, StartSession, Dispatch,
          ColumnDone, Accept, Reject
    <2>3. CASE TakeCommand(l)
      BY <2>1, <2>3, PumpOf DEF TakeCommand, TypeOK, Pump
    <2>4. CASE Stop(l)
      <3>1. CASE PumpReset(l, "drain")
        BY <3>1, PumpResetFacts
      <3>2. ASSUME NEW r, pump' = [pump EXCEPT ![l] = [@ EXCEPT !.step = "interrupt", !.target = r]]
            PROVE  pump'[l].finish = {}
        BY <2>1, <3>2, PumpOf DEF TypeOK, Pump
      <3> QED
        BY <2>4, <3>1, <3>2 DEF Stop
    <2>5. CASE ReadColumn(l)
      <3> DEFINE ready == {t \in Tasks : status[t] = "in_progress" /\ ~parked[t]}
                 free  == Slots - Cardinality(Admitted(l))
                 p     == [pump[l] EXCEPT !.step = "fork", !.column = ready, !.left = free]
      <3>1. p.finish = {}
        BY <2>1, PumpOf DEF Pump
      <3>2. pump' = [pump EXCEPT ![l] = p] \/ PumpReset(l, "idle")
        BY <2>5 DEF ReadColumn, TypeOK
      <3> HIDE DEF p
      <3> QED
        BY <3>1, <3>2, PumpResetFacts DEF TypeOK
    <2>6. ASSUME NEW t \in Tasks, ForkNext(l, t) PROVE pump'[l].finish = {}
      <3>1. PICK taken \in {0, 1} : pump' = [pump EXCEPT ![l] = OneFewer(pump[l], t, taken)]
        BY <2>6 DEF ForkNext
      <3>2. OneFewer(pump[l], t, taken).finish = pump[l].finish
        BY PumpOf DEF OneFewer, Pump
      <3> QED
        BY <2>1, <3>1, <3>2 DEF TypeOK
    <2> QED
      BY <1>2, <2>2, <2>3, <2>4, <2>5, <2>6 DEF PumpStep
  <1>3. CASE BootStep(l)
    <2>1. CASE BootLeases(l)
      BY <2>1, BootLeasesFacts DEF BootLeases, PumpIs, Booting
    <2>2. CASE BootList(l)
      BY <2>2, BootListFacts DEF BootList, PumpIs, Booting
    <2>3. CASE BootClosed(l)
      BY <2>3, PumpToFacts DEF BootClosed, PumpIs, Booting
    <2>4. CASE BootFinished(l)
      BY <2>4, PumpResetFacts DEF BootFinished
    <2>5. ASSUME NEW r \in RunIds, BootClose(l, r)
          PROVE  /\ pump[l].step \in Booting /\ pump'[l].step \in Booting
                 /\ pump'[l].finish = pump[l].finish \cup {x \in {r} : Live(x)}
      BY <2>5, BootCloseFacts DEF Booting
    <2>6. ASSUME NEW r \in RunIds, BootFinish(l, r)
          PROVE  /\ pump[l].step \in Booting /\ pump'[l].step \in Booting
                 /\ pump'[l].finish \subseteq pump[l].finish
      BY <2>6, PumpOf DEF BootFinish, PumpIs, Booting, TypeOK, Pump
    <2> QED
      BY <1>3, <2>1, <2>2, <2>3, <2>4, <2>5, <2>6 DEF BootStep
  <1>4. CASE \/ Boot(l) \/ Stopped(l) \/ Crash(l) \/ Shutdown(l) \/ CommandFails(l)
             \/ BootCloseFails(l)
    BY <1>4, PumpResetFacts
    DEF Boot, Stopped, Crash, Shutdown, CommandFails, BootCloseFails, LoseMemory
  <1> QED
    BY <1>0, <1>1, <1>2, <1>3, <1>4, PumpMoves

LEMMA FinishMeantStep ==
  ASSUME OneProcess, TypeOK, RowInv, StopInv, FinishMeant, [Next]_vars
  PROVE  FinishMeant'
  <1> SUFFICES ASSUME NEW l \in Loops, NEW r \in pump'[l].finish
               PROVE  /\ pump'[l].step \in Booting
                      /\ \A x \in RunIds : runOf'[x] = runOf'[r] => ~Live(x)'
    BY DEF FinishMeant, LiveOn
  <1>1. pump[l].step \in Booting /\ pump'[l].step \in Booting
    BY FinishStep
  <1>2. runOf' = runOf /\ \A x \in RunIds : Live(x)' => Live(x)
    <2>1. \A m \in Loops, t \in Tasks : ~Open(m, t)
      BY <1>1 DEF OneProcess, StopInv, PumpsSound, PumpAlone, Open, At
    <2> QED
      BY <2>1, LiveOnStep
  <1>3. CASE r \in pump[l].finish
    BY <1>1, <1>2, <1>3 DEF FinishMeant, LiveOn
  <1>4. CASE r \notin pump[l].finish
    <2>1. r \in RunIds /\ Live(r) /\ BootClose(l, r)
      BY <1>4, FinishStep
    <2>2. \A x \in RunIds : Live(x)' <=> Live(x) /\ x # r
      BY <1>2, <2>1, CloseLive DEF BootClose, Endings, TurnEndings
    <2> QED
      BY <1>1, <1>2, <2>1, <2>2 DEF RowInv, OneLiveRun
  <1> QED
    BY <1>3, <1>4

(* Who may move a card to review.                                            *)
LEMMA ReviewStep ==
  ASSUME TypeOK, [Next]_vars, NEW t \in Tasks,
         status[t] = "in_progress", status'[t] = "review", fiber' # fiber \/ pump' # pump
  PROVE  \/ \E l \in Loops : MoveToReview(l, t)
         \/ \E l \in Loops : \E r \in pump[l].finish : runOf[r] = t /\ BootFinish(l, r)
  <1>0. status' # status
    OBVIOUS
  <1>1. ~UNCHANGED vars
    BY <1>0 DEF vars
  <1>2. ASSUME NEW l \in Loops, NEW u \in Tasks,
               \/ FiberStep(l, u) \/ TurnEnds(l, u) \/ SessionInit(l, u)
               \/ AgentFinishes(l, u) \/ Heartbeat(l, u)
        PROVE  u = t /\ MoveToReview(l, u)
    <2>1. MoveToReview(l, u)
      BY <1>0, <1>2
      DEF FiberStep, Plan, Admit, Claim, Open, BeginTurn, Abandon, TurnInterrupted, CloseRow,
          Collect, Release, TurnEnds, SessionInit, AgentFinishes, Heartbeat, taskRows,
          fiberSide
    <2>2. u = t
      BY <2>1 DEF MoveToReview, TypeOK
    <2> QED
      BY <2>1, <2>2
  <1>3. ASSUME NEW l \in Loops,
               PumpStep(l) \/ BootStep(l) \/ Boot(l) \/ Stopped(l) \/ Trouble(l)
        PROVE  \E r \in pump[l].finish : runOf[r] = t /\ BootFinish(l, r)
    <2>1. PICK r \in RunIds : BootFinish(l, r)
      BY <1>0, <1>3
      DEF PumpStep, Wake, DrainDone, TakeCommand, Stop, Interrupt, Killed, FileStop, Rerun,
          StartSession, Dispatch, ReadColumn, ColumnDone, ForkNext, BootStep, BootLeases,
          BootList, BootClosed, BootFinished, BootClose, Boot, Stopped, Trouble, Crash,
          Shutdown, CommandFails, BootCloseFails, Defer, FailClaim, SetupFails, LeaseGoesStale,
          taskRows
    <2>2. r \in pump[l].finish /\ runOf[r] = t
      BY <1>0, <2>1 DEF BootFinish, TypeOK
    <2> QED
      BY <2>1, <2>2
  <1>4. ~((\E u \in Tasks : ParkExpires(u)) \/ Person)
    BY <1>0
    DEF ParkExpires, Person, CommitMove, RequestStop, OpenMove, Press, taskRows, fiberSide
  <1> QED
    BY <1>1, <1>2, <1>3, <1>4 DEF Next

(* ReviewAfterClose of TaskLoop: with one process and no write that fails,   *)
(* neither a run's own close nor the boot reconcile ever shows a human a     *)
(* card on which a run is still live. (A close that could not be written     *)
(* leaves its row live, and the card is moved all the same.)                 *)
THEOREM ReviewAfterCloseCorrect ==
  ASSUME OneProcess, NoFaults
  PROVE  Spec => ReviewAfterClose
  <1>1. Init => FinishMeant
    BY DEF Init, FinishMeant, PumpAt
  <1>2. TypeOK /\ RowInv /\ StopInv /\ FinishMeant /\ [Next]_vars => FinishMeant'
    BY FinishMeantStep
  <1> DEFINE Review == \A t \in Tasks :
               status[t] = "in_progress" /\ status'[t] = "review"
                 /\ (fiber' # fiber \/ pump' # pump) => LiveOn(t) = {}
  <1>3. TypeOK /\ StopInv /\ FinishMeant /\ [Next]_vars => [Review]_vars
    <2> SUFFICES ASSUME TypeOK, StopInv, FinishMeant, [Next]_vars PROVE Review
      OBVIOUS
    <2> SUFFICES ASSUME NEW t \in Tasks, status[t] = "in_progress", status'[t] = "review",
                        fiber' # fiber \/ pump' # pump
                 PROVE  LiveOn(t) = {}
      OBVIOUS
    <2>1. ASSUME NEW l \in Loops, MoveToReview(l, t) PROVE LiveOn(t) = {}
      BY <2>1 DEF MoveToReview, At, StopInv, FibersSound, FiberSound, Past
    <2> QED
      BY <2>1, ReviewStep DEF FinishMeant
  <1>4. Spec => [](StopInv /\ Faultless)
    BY StopInvCorrect
  <1> QED
    BY <1>1, <1>2, <1>3, <1>4, TypeCorrect, RowInvCorrect, PTL DEF Spec, ReviewAfterClose

-----------------------------------------------------------------------------
(* Nobody retries by himself, with one process that goes down orderly.       *)

(* No write fails, nothing is killed, no button is pressed, and the process  *)
(* is stopped once: people move cards, leases go stale, the quota defers and *)
(* commands are rejected as often as they like. NoAutoRetry needs each part: *)
(* a refused move to review leaves the card to the retry ladder, a fiber     *)
(* killed between its close and its move leaves it in the column, a stop     *)
(* button on a run whose turn has not begun closes the row and moves nothing,*)
(* and a second stop may cut off the boot between a lost row and its card.   *)
Orderly ==
  /\ NoFaults
  /\ \A b \in Budgets : b["crashes"] = 0 /\ b["buttons"] = 0 /\ b["shutdowns"] <= 1

BudgetOrderly ==
  /\ budget["faults"] = 0 /\ budget["crashes"] = 0 /\ budget["buttons"] = 0
  /\ budget["shutdowns"] <= 1

(* Nothing runs on the card on its own account: it left the column, or a     *)
(* person has asked for the next run.                                        *)
Demanded(t) == status[t] = "in_progress" => wanted[t]

(* A run may be stopped only when its card would not be left to a sweep.     *)
Released(r) == r \in RunIds /\ r <= lastRun /\ (Live(r) => Demanded(runOf[r]))

(* The process that may still be stopped has never run anything when it boots. *)
Untouched(l) ==
  /\ up[l] = "stopping" => budget["shutdowns"] = 0
  /\ (up[l] = "down" \/ pump[l].step \in Booting) /\ budget["shutdowns"] > 0
       => lastRun = 0 /\ pump[l].finish = {}

(* A move names a run of its card, and asks for a stop only once the card is *)
(* out of the column; so does what it put into the queue.                    *)
MoverMeant ==
  /\ mover.step # "idle" /\ mover.live # NoRun
       => mover.live <= lastRun /\ runOf[mover.live] = mover.task
  /\ mover.step = "moved" /\ mover.live # NoRun /\ mover.to # "in_progress"
       => Released(mover.live)

QueueMeant == \A i \in DOMAIN queue : Released(queue[i].run)

TargetMeant(l) ==
  /\ pump[l].step = "command" => Released(pump[l].cmd.run)
  /\ pump[l].step \in Stopping => Released(pump[l].target)

(* A card in the column that nobody asked to run has its run, or the close   *)
(* of that run is about to move it.                                          *)
CardHeld ==
  \A t \in Tasks :
    \/ Demanded(t)
    \/ LiveOn(t) # {}
    \/ \E l \in Loops : fiber[l][t].step = "move"
    \/ \E l \in Loops : \E r \in pump[l].finish : runOf[r] = t

RetryInv ==
  /\ BudgetOrderly /\ MoverMeant /\ QueueMeant /\ CardHeld
  /\ \A l \in Loops : Untouched(l) /\ TargetMeant(l)

LEMMA RetryInit ==
  ASSUME Orderly
  PROVE  Init => RetryInv
  BY BoundsAssumption
  DEF Init, RetryInv, Orderly, NoFaults, BudgetOrderly, MoverMeant, NoMove, QueueMeant,
      CardHeld, Untouched, TargetMeant, Demanded, PumpAt, Stopping, Booting

LEMMA BudgetOrderlyStep == TypeOK /\ BudgetOrderly /\ [Next]_vars => BudgetOrderly'
  <1> SUFFICES ASSUME TypeOK, BudgetOrderly, [Next]_vars PROVE BudgetOrderly'
    OBVIOUS
  <1>1. \A k \in Disturbances : budget[k] \in Nat /\ budget'[k] \in Nat /\ budget'[k] <= budget[k]
    BY BudgetShrinks DEF TypeOK
  <1>2. {"faults", "crashes", "buttons", "shutdowns"} \subseteq Disturbances
    BY DEF Disturbances
  <1>3. budget'["faults"] = 0 /\ budget'["crashes"] = 0 /\ budget'["buttons"] = 0
    BY <1>1, <1>2 DEF BudgetOrderly
  <1>4. budget'["shutdowns"] <= 1
    BY <1>1, <1>2 DEF BudgetOrderly
  <1> QED
    BY <1>3, <1>4 DEF BudgetOrderly

(* Only the run that is opened spends the demand for it.                     *)
LEMMA DemandStep ==
  ASSUME TypeOK, [Next]_vars, NEW t \in Tasks, Demanded(t),
         ~\E l \in Loops : Open(l, t) /\ LiveOn(t) = {}
  PROVE  Demanded(t)'
  <1>1. CASE status' = status /\ wanted' = wanted
    BY <1>1 DEF Demanded
  <1>2. CASE UNCHANGED vars
    BY <1>2 DEF vars, Demanded
  <1>3. ASSUME NEW l \in Loops, NEW u \in Tasks, Open(l, u) PROVE Demanded(t)'
    BY <1>3 DEF Open, taskRows, Demanded, TypeOK
  <1>4. ASSUME NEW l \in Loops, NEW u \in Tasks, MoveToReview(l, u) \/ AgentFinishes(l, u)
        PROVE  Demanded(t)'
    BY <1>4 DEF MoveToReview, AgentFinishes, history, Demanded, TypeOK
  <1>5. ASSUME NEW l \in Loops, NEW u \in Tasks,
               \/ FiberStep(l, u) /\ ~Open(l, u) /\ ~MoveToReview(l, u)
               \/ TurnEnds(l, u) \/ SessionInit(l, u) \/ Heartbeat(l, u)
        PROVE  status' = status /\ wanted' = wanted
    BY <1>5
    DEF FiberStep, Plan, Admit, Claim, BeginTurn, Abandon, TurnInterrupted, CloseRow,
        Collect, Release, TurnEnds, SessionInit, Heartbeat, taskRows, history
  <1>6. ASSUME NEW l \in Loops, Rerun(l) \/ StartSession(l) PROVE Demanded(t)'
    BY <1>6 DEF Rerun, StartSession, Accept, Reject, Demanded, TypeOK
  <1>7. ASSUME NEW l \in Loops, PumpStep(l), ~Rerun(l), ~StartSession(l)
        PROVE  status' = status /\ wanted' = wanted
    BY <1>7
    DEF PumpStep, Wake, DrainDone, TakeCommand, Stop, Interrupt, Killed, FileStop, Dispatch,
        ReadColumn, ColumnDone, ForkNext, taskRows, history
  <1>8. ASSUME NEW l \in Loops, NEW r \in RunIds, BootFinish(l, r) PROVE Demanded(t)'
    BY <1>8 DEF BootFinish, history, Demanded, TypeOK
  <1>9. ASSUME NEW l \in Loops,
               \/ BootStep(l) /\ ~\E r \in RunIds : BootFinish(l, r)
               \/ Boot(l) \/ Stopped(l) \/ Trouble(l)
        PROVE  status' = status /\ wanted' = wanted
    BY <1>9
    DEF BootStep, BootLeases, BootList, BootClosed, BootFinished, BootClose, Boot, Stopped,
        Trouble, Crash, Shutdown, CommandFails, BootCloseFails, Defer, FailClaim, SetupFails,
        LeaseGoesStale, taskRows, history
  <1>10. CASE (\E u \in Tasks : ParkExpires(u)) \/ Person
    BY <1>10
    DEF ParkExpires, Person, CommitMove, RequestStop, OpenMove, Press, taskRows, history,
        Demanded, TypeOK
  <1> QED
    BY <1>1, <1>2, <1>3, <1>4, <1>5, <1>6, <1>7, <1>8, <1>9, <1>10 DEF Next

(* A row that is let go stays let go.                                        *)
LEMMA ReleasedStep ==
  ASSUME TypeOK, RowInv, [Next]_vars, NEW r, Released(r)
  PROVE  Released(r)'
  <1>1. /\ r \in RunIds /\ r <= lastRun /\ runOf[r] \in Tasks /\ runOf'[r] = runOf[r]
        /\ lastRun \in Nat /\ lastRun' \in {lastRun, lastRun + 1}
    BY NextOnRows, LedgerKeepsOwners, BoundsAssumption DEF Released, TypeOK
  <1>2. r <= lastRun'
    BY <1>1 DEF RunIds
  <1>3. CASE \A l \in Loops, t \in Tasks : ~Open(l, t)
    BY <1>1, <1>2, <1>3, LiveOnStep, DemandStep DEF Released
  <1>4. ASSUME NEW l \in Loops, NEW t \in Tasks, Open(l, t) PROVE Released(r)'
    <2>1. Live(r)' <=> Live(r)
      <3>1. CASE LiveOn(t) = {}
        <4>1. runState' = [runState EXCEPT ![lastRun + 1] = "queued"] /\ r # lastRun + 1
          BY <1>1, <1>4, <3>1 DEF Open, RunIds
        <4> QED
          BY <1>1, <4>1 DEF Live, TypeOK
      <3>2. CASE LiveOn(t) # {}
        BY <1>4, <3>2 DEF Open, runRows, Live
      <3> QED
        BY <3>1, <3>2
    <2>2. Live(r) => Demanded(runOf[r])'
      <3> SUFFICES ASSUME Live(r) PROVE Demanded(runOf[r])'
        OBVIOUS
      <3>1. r \in LiveOn(runOf[r])
        BY <1>1 DEF LiveOn
      <3> QED
        BY <1>1, <3>1, DemandStep DEF Released
    <2> QED
      BY <1>1, <1>2, <2>1, <2>2 DEF Released, Demanded
  <1> QED
    BY <1>3, <1>4

LEMMA MoverMeantStep ==
  ASSUME TypeOK, RowInv, MoverMeant, [Next]_vars
  PROVE  MoverMeant'
  <1>1. /\ lastRun \in Nat /\ lastRun' \in {lastRun, lastRun + 1}
        /\ \A r \in RunIds : r <= lastRun => runOf'[r] = runOf[r] /\ r <= lastRun'
    BY NextOnRows, LedgerKeepsOwners, BoundsAssumption DEF TypeOK, RunIds
  <1>2. mover \in Mover
    BY DEF TypeOK
  <1>3. CASE mover' = mover
    BY <1>1, <1>2, <1>3, ReleasedStep DEF MoverMeant, Mover
  <1>4. ASSUME NEW t \in Tasks, NEW s \in Targets, OpenMove(t, s) PROVE MoverMeant'
    <2>1. PICK live \in IF LiveOn(t) = {} THEN {NoRun} ELSE LiveOn(t) :
            mover' = [step |-> "read", task |-> t, from |-> status[t], to |-> s, live |-> live]
      BY <1>4 DEF OpenMove
    <2>2. live # NoRun => live \in RunIds /\ live <= lastRun /\ runOf[live] = t
      BY <2>1, <1>1 DEF LiveOn, Live, LiveStates, RowInv, RowsInOrder, RunIds
    <2> QED
      BY <1>1, <2>1, <2>2 DEF MoverMeant
  <1>5. CASE CommitMove
    <2>1. CASE mover' = NoMove
      BY <2>1 DEF MoverMeant, NoMove
    <2>2. CASE mover' # NoMove
      <3>1. /\ mover.step = "read" /\ mover' = [mover EXCEPT !.step = "moved"]
            /\ status' = [status EXCEPT ![mover.task] = mover.to]
            /\ runOf' = runOf /\ lastRun' = lastRun /\ runState' = runState
        BY <1>5, <2>2 DEF CommitMove, runRows
      <3>2. /\ mover'.live = mover.live /\ mover'.to = mover.to /\ mover'.task = mover.task
            /\ mover.live \in RunIds \cup {NoRun} /\ mover.task \in Tasks
        BY <1>2, <3>1 DEF Mover
      <3>3. ASSUME mover.live # NoRun
            PROVE  /\ mover.live <= lastRun /\ runOf[mover.live] = mover.task
                   /\ mover.to # "in_progress" => status'[runOf[mover.live]] # "in_progress"
        BY <3>1, <3>2, <3>3 DEF MoverMeant, TypeOK
      <3> QED
        BY <3>1, <3>2, <3>3 DEF MoverMeant, Released, Demanded
    <2> QED
      BY <2>1, <2>2
  <1>6. CASE RequestStop
    BY <1>6 DEF RequestStop, MoverMeant, NoMove
  <1>7. mover' = mover \/ CommitMove \/ RequestStop
          \/ \E t \in Tasks, s \in Targets : OpenMove(t, s)
    <2>1. CASE UNCHANGED vars
      BY <2>1 DEF vars
    <2>2. ASSUME NEW l \in Loops, NEW t \in Tasks,
                 \/ FiberStep(l, t) \/ TurnEnds(l, t) \/ SessionInit(l, t)
                 \/ AgentFinishes(l, t) \/ Heartbeat(l, t)
          PROVE  mover' = mover
      BY <2>2
      DEF FiberStep, Plan, Admit, Claim, Open, BeginTurn, Abandon, TurnInterrupted, CloseRow,
          MoveToReview, Collect, Release, TurnEnds, SessionInit, AgentFinishes, Heartbeat
    <2>3. ASSUME NEW l \in Loops, PumpStep(l) \/ BootStep(l) \/ Boot(l) \/ Stopped(l)
          PROVE  mover' = mover
      BY <2>3
      DEF PumpStep, Wake, DrainDone, TakeCommand, Stop, Interrupt, Killed, FileStop, Rerun,
          StartSession, Dispatch, ReadColumn, ColumnDone, ForkNext, BootStep, BootLeases,
          BootList, BootClosed, BootFinished, BootClose, BootFinish, Boot, Stopped
    <2>4. ASSUME NEW l \in Loops, Trouble(l) PROVE mover' = mover
      BY <2>4
      DEF Trouble, Crash, Shutdown, CommandFails, BootCloseFails, Defer, FailClaim,
          SetupFails, LeaseGoesStale
    <2>5. ASSUME NEW t \in Tasks, ParkExpires(t) \/ \E k \in CommandKinds : Press(k, t)
          PROVE  mover' = mover
      BY <2>5 DEF ParkExpires, Press
    <2> QED
      BY <2>1, <2>2, <2>3, <2>4, <2>5 DEF Next, Person
  <1> QED
    BY <1>3, <1>4, <1>5, <1>6, <1>7

(* The queue only loses its head or gains the stop of a move.                *)
LEMMA QueueMeantStep ==
  ASSUME TypeOK, RowInv, BudgetOrderly, MoverMeant, QueueMeant, [Next]_vars
  PROVE  QueueMeant'
  <1>0. queue \in Seq(Command)
    BY DEF TypeOK
  <1>1. CASE queue' = queue
    BY <1>1, ReleasedStep DEF QueueMeant
  <1>2. ASSUME NEW l \in Loops, TakeCommand(l) PROVE QueueMeant'
    <2>1. queue # <<>> /\ queue' = Tail(queue)
      BY <1>2 DEF TakeCommand
    <2>2. \A i \in DOMAIN queue' : i + 1 \in DOMAIN queue /\ queue'[i] = queue[i + 1]
      BY <1>0, <2>1
    <2>3. ASSUME NEW i \in DOMAIN queue', NEW r, r = queue'[i].run PROVE Released(r)'
      BY <2>2, <2>3, ReleasedStep DEF QueueMeant
    <2> QED
      BY <2>3 DEF QueueMeant
  <1>3. CASE RequestStop
    <2>1. CASE queue' = queue
      BY <1>1, <2>1
    <2>2. CASE queue' # queue
      <3> DEFINE c == [kind |-> "stop", task |-> mover.task, run |-> mover.live]
      <3>1. /\ Released(mover.live) /\ Enqueue(c)
        BY <1>3, <2>2 DEF RequestStop, MoverMeant
      <3>2. c.run = mover.live /\ queue' = Append(queue, c)
        BY <2>2, <3>1 DEF Enqueue
      <3> HIDE DEF c
      <3>3. \A i \in DOMAIN queue' : queue'[i] = c \/ (i \in DOMAIN queue /\ queue'[i] = queue[i])
        BY <1>0, <3>2
      <3>4. ASSUME NEW i \in DOMAIN queue', NEW r, r = queue'[i].run PROVE Released(r)'
        BY <3>1, <3>2, <3>3, <3>4, ReleasedStep DEF QueueMeant
      <3> QED
        BY <3>4 DEF QueueMeant
    <2> QED
      BY <2>1, <2>2
  <1>4. \/ queue' = queue \/ RequestStop \/ \E l \in Loops : TakeCommand(l)
    <2>1. CASE UNCHANGED vars
      BY <2>1 DEF vars
    <2>2. ASSUME NEW l \in Loops, NEW t \in Tasks,
                 \/ FiberStep(l, t) \/ TurnEnds(l, t) \/ SessionInit(l, t)
                 \/ AgentFinishes(l, t) \/ Heartbeat(l, t)
          PROVE  queue' = queue
      BY <2>2
      DEF FiberStep, Plan, Admit, Claim, Open, BeginTurn, Abandon, TurnInterrupted, CloseRow,
          MoveToReview, Collect, Release, TurnEnds, SessionInit, AgentFinishes, Heartbeat
    <2>3. ASSUME NEW l \in Loops, PumpStep(l) \/ BootStep(l) \/ Boot(l) \/ Stopped(l),
                 ~TakeCommand(l)
          PROVE  queue' = queue
      BY <2>3
      DEF PumpStep, Wake, DrainDone, Stop, Interrupt, Killed, FileStop, Rerun,
          StartSession, Dispatch, ReadColumn, ColumnDone, ForkNext, BootStep, BootLeases,
          BootList, BootClosed, BootFinished, BootClose, BootFinish, Boot, Stopped
    <2>4. ASSUME NEW l \in Loops, Trouble(l) PROVE queue' = queue
      BY <2>4
      DEF Trouble, Crash, Shutdown, CommandFails, BootCloseFails, Defer, FailClaim,
          SetupFails, LeaseGoesStale
    <2>5. ~\E t \in Tasks, k \in CommandKinds : Press(k, t)
      BY DEF Press, Spend, BudgetOrderly
    <2>6. CASE CommitMove \/ \E t \in Tasks : ParkExpires(t) \/ \E s \in Targets : OpenMove(t, s)
      BY <2>6 DEF CommitMove, ParkExpires, OpenMove
    <2> QED
      BY <2>1, <2>2, <2>3, <2>4, <2>5, <2>6 DEF Next, Person
  <1> QED
    BY <1>1, <1>2, <1>3, <1>4

(* Where a step of the sweep leaves the pump.                                *)
LEMMA PumpStepGoes ==
  ASSUME TypeOK, NEW l \in Loops, PumpStep(l)
  PROVE  \/ pump'[l].step \in {"drain", "column", "dispatch", "fork", "idle"}
         \/ TakeCommand(l) /\ pump'[l].step = "command"
         \/ (Stop(l) \/ Interrupt(l) \/ Killed(l)) /\ pump'[l].step \in Stopping
  <1>0. pump[l] \in Pump
    BY DEF TypeOK
  <1>1. CASE \/ Wake(l) \/ DrainDone(l) \/ TakeCommand(l) \/ Rerun(l) \/ StartSession(l)
             \/ ReadColumn(l) \/ ColumnDone(l)
    BY <1>1, PlainPumpStep
  <1>2. CASE Stop(l)
    <2>1. CASE PumpReset(l, "drain")
      BY <2>1, PumpResetFacts
    <2>2. ASSUME NEW r, pump' = [pump EXCEPT ![l] = [@ EXCEPT !.step = "interrupt", !.target = r]]
          PROVE  pump'[l].step = "interrupt"
      BY <1>0, <2>2 DEF TypeOK, Pump
    <2> QED
      BY <1>2, <2>1, <2>2 DEF Stop, Stopping
  <1>3. CASE Interrupt(l) \/ Killed(l)
    BY <1>3, PumpToFacts DEF Interrupt, Killed, Stopping
  <1>4. CASE FileStop(l) \/ Dispatch(l)
    BY <1>4, PumpResetFacts DEF FileStop, Dispatch
  <1>5. ASSUME NEW t \in Tasks, ForkNext(l, t) PROVE pump'[l].step = "fork"
    <2>1. PICK taken \in {0, 1} : pump' = [pump EXCEPT ![l] = OneFewer(pump[l], t, taken)]
      BY <1>5 DEF ForkNext
    <2>2. OneFewer(pump[l], t, taken).step = "fork"
      BY <1>0, <1>5 DEF OneFewer, Pump, ForkNext, PumpIs
    <2> QED
      BY <2>1, <2>2 DEF TypeOK
  <1> QED
    BY <1>1, <1>2, <1>3, <1>4, <1>5 DEF PumpStep

(* A stop is carried from the queue to the run it names.                     *)
LEMMA TargetMeantStep ==
  ASSUME OneProcess, TypeOK, RowInv, QueueMeant, [Next]_vars, NEW l \in Loops, TargetMeant(l)
  PROVE  TargetMeant(l)'
  <1>0. pump[l] \in Pump /\ queue \in Seq(Command)
    BY DEF TypeOK
  <1>1. ASSUME NEW r, Released(r), pump'[l].step = "command" => pump'[l].cmd.run = r,
               pump'[l].step \in Stopping => pump'[l].target = r
        PROVE  TargetMeant(l)'
    BY <1>1, ReleasedStep DEF TargetMeant
  <1>2. CASE pump'[l].step \notin Stopping \cup {"command"}
    BY <1>2 DEF TargetMeant
  <1>3. CASE pump' = pump
    BY <1>3, ReleasedStep DEF TargetMeant
  <1>4. CASE TakeCommand(l)
    <2>1. pump'[l].step = "command" /\ pump'[l].cmd = Head(queue)
      BY <1>0, <1>4 DEF TakeCommand, TypeOK, Pump
    <2>2. 1 \in DOMAIN queue /\ Head(queue) = queue[1]
      BY <1>0, <1>4 DEF TakeCommand
    <2>3. Released(Head(queue).run) /\ "command" \notin Stopping
      BY <2>2 DEF QueueMeant, Stopping
    <2> QED
      BY <1>1, <2>1, <2>3
  <1>5. CASE Stop(l)
    <2>1. CASE PumpReset(l, "drain")
      BY <1>2, <2>1, PumpResetFacts DEF Stopping
    <2>2. CASE ~PumpReset(l, "drain")
      <3> DEFINE r == pump[l].cmd.run
      <3>1. Released(r) /\ r # NoRun
        BY <1>5, NoRunIsNoRow DEF Stop, CommandIs, PumpIs, TargetMeant, Released
      <3>2. pump' = [pump EXCEPT ![l] = [@ EXCEPT !.step = "interrupt", !.target = r]]
        BY <1>5, <2>2, <3>1 DEF Stop
      <3> HIDE DEF r
      <3>3. pump'[l].step = "interrupt" /\ pump'[l].target = r
        BY <1>0, <3>2 DEF TypeOK, Pump
      <3> QED
        BY <1>1, <3>1, <3>3
    <2> QED
      BY <2>1, <2>2
  <1>6. CASE Interrupt(l) \/ Killed(l)
    <2>1. /\ pump[l].step \in Stopping
          /\ pump'[l].step \in {"file", "killing"} /\ pump'[l].target = pump[l].target
      BY <1>6, PumpToFacts DEF Interrupt, Killed, PumpIs, Stopping
    <2> QED
      BY <1>1, <2>1 DEF TargetMeant
  <1>7. CASE PumpStep(l)
    BY <1>2, <1>4, <1>5, <1>6, <1>7, PumpStepGoes DEF Stopping
  <1>8. CASE \/ Boot(l) \/ Stopped(l) \/ Crash(l) \/ Shutdown(l) \/ CommandFails(l)
             \/ BootFinished(l) \/ BootCloseFails(l)
    BY <1>2, <1>8, PumpResetFacts
    DEF Boot, Stopped, Crash, Shutdown, CommandFails, BootFinished, BootCloseFails,
        LoseMemory, Stopping
  <1>9. CASE BootStep(l) /\ ~BootFinished(l)
    <2>1. pump'[l].step \in {"list", "lose", "finish"}
      BY <1>0, <1>9, BootLeasesFacts, BootListFacts, BootCloseFacts, PumpToFacts
      DEF BootStep, BootClosed, BootFinish, PumpIs, TypeOK, Pump
    <2> QED
      BY <1>2, <2>1 DEF Stopping
  <1> QED
    BY <1>3, <1>7, <1>8, <1>9, PumpMoves

(* Until the one stop, nothing was running whenever the process comes up.    *)
LEMMA UntouchedStep ==
  ASSUME OneProcess, TypeOK, RowInv, StopInv, FinishMeant, BudgetOrderly, [Next]_vars,
         NEW l \in Loops, Untouched(l)
  PROVE  Untouched(l)'
  <1>0. /\ \A m \in Loops : m = l
        /\ \A k \in Disturbances : budget[k] \in Nat
    BY DEF OneProcess, TypeOK
  <1>1. CASE Shutdown(l)
    <2>1. Spend("shutdowns") /\ budget["shutdowns"] = 1
      BY <1>0, <1>1 DEF Shutdown, Spend, BudgetOrderly, Disturbances
    <2>2. budget'["shutdowns"] = 0
      BY <2>1 DEF Spend, TypeOK, Disturbances
    <2> QED
      BY <2>2 DEF Untouched
  <1>2. ~Crash(l)
    BY DEF Crash, Spend, BudgetOrderly
  <1>3. CASE Stopped(l)
    <2>1. up'[l] = "down" /\ budget'["shutdowns"] = 0
      BY <1>3 DEF Stopped, LoseMemory, Untouched, TypeOK
    <2> QED
      BY <2>1 DEF Untouched
  <1>4. CASE ~Shutdown(l) /\ ~Stopped(l)
    <2>1. /\ budget'["shutdowns"] = budget["shutdowns"]
          /\ up' = up \/ Boot(l)
      <3>1. CASE UNCHANGED vars
        BY <3>1 DEF vars
      <3>2. ASSUME NEW t \in Tasks,
                   \/ FiberStep(l, t) \/ TurnEnds(l, t) \/ SessionInit(l, t)
                   \/ AgentFinishes(l, t) \/ Heartbeat(l, t)
            PROVE  up' = up /\ (UNCHANGED budget \/ Spend("faults"))
        BY <3>2
        DEF FiberStep, Plan, Admit, Claim, Open, BeginTurn, Abandon, TurnInterrupted, CloseRow,
            MoveToReview, Collect, Release, TurnEnds, SessionInit, AgentFinishes, Heartbeat
      <3>3. ASSUME PumpStep(l) \/ BootStep(l)
            PROVE  up' = up /\ (UNCHANGED budget \/ Spend("faults"))
        BY <3>3
        DEF PumpStep, Wake, DrainDone, TakeCommand, Stop, Interrupt, Killed, FileStop, Rerun,
            StartSession, Dispatch, ReadColumn, ColumnDone, ForkNext, BootStep, BootLeases,
            BootList, BootClosed, BootFinished, BootClose, BootFinish
      <3>4. ASSUME Trouble(l)
            PROVE  /\ up' = up
                   /\ UNCHANGED budget \/ \E k \in Disturbances \ {"shutdowns"} : Spend(k)
        BY <1>2, <1>4, <3>4
        DEF Trouble, CommandFails, BootCloseFails, Defer, FailClaim, SetupFails, LeaseGoesStale,
            Disturbances
      <3>5. ASSUME (\E t \in Tasks : ParkExpires(t)) \/ Person
            PROVE  /\ up' = up
                   /\ UNCHANGED budget \/ \E k \in Disturbances \ {"shutdowns"} : Spend(k)
        BY <3>5 DEF ParkExpires, Person, CommitMove, RequestStop, OpenMove, Press, Disturbances
      <3>6. ASSUME NEW k \in Disturbances \ {"shutdowns"}, Spend(k)
            PROVE  budget'["shutdowns"] = budget["shutdowns"]
        BY <3>6 DEF Spend, TypeOK, Disturbances
      <3>7. CASE Boot(l)
        BY <3>7 DEF Boot
      <3> QED
        BY <1>0, <1>4, <3>1, <3>2, <3>3, <3>4, <3>5, <3>6, <3>7 DEF Next, Disturbances
    <2>2. up'[l] = "stopping" => up[l] = "stopping"
      BY <2>1 DEF Boot, TypeOK
    <2>3. up'[l] = "down" => up[l] = "down"
      BY <2>1 DEF Boot, TypeOK
    <2>4. ASSUME pump'[l].step \in Booting
          PROVE  pump[l].step \in Booting \/ Boot(l)
      <3>1. ~PumpStep(l)
        BY <2>4, PumpStepGoes DEF Booting, Stopping
      <3>2. BootStep(l) => pump[l].step \in Booting
        BY DEF BootStep, BootLeases, BootList, BootClosed, BootFinished, BootClose,
               BootFinish, PumpIs, Booting
      <3>3. ~CommandFails(l) /\ ~BootCloseFails(l)
        BY <2>4, PumpResetFacts DEF CommandFails, BootCloseFails, Booting
      <3> QED
        BY <1>2, <1>4, <2>4, <3>1, <3>2, <3>3, PumpMoves
    <2>5. ASSUME up'[l] = "down" \/ pump'[l].step \in Booting, budget'["shutdowns"] > 0
          PROVE  lastRun' = 0 /\ pump'[l].finish = {}
      <3>1. up[l] = "down" \/ pump[l].step \in Booting
        BY <2>3, <2>4, <2>5 DEF Boot
      <3>2. lastRun = 0 /\ pump[l].finish = {}
        BY <2>1, <2>5, <3>1 DEF Untouched
      <3>3. \A r \in RunIds : ~Live(r)
        BY <3>2 DEF RowInv, RowsInOrder, Live, LiveStates, RunIds
      <3>4. lastRun' = lastRun
        <4>1. \A m \in Loops, t \in Tasks : ~Open(m, t)
          BY <1>0, <3>1 DEF StopInv, PumpsSound, PumpAlone, Open, At
        <4> QED
          BY <4>1, LiveOnStep
      <3>5. pump'[l].finish = {}
        BY <3>2, <3>3, FinishStep
      <3> QED
        BY <3>2, <3>4, <3>5
    <2> QED
      BY <2>1, <2>2, <2>5 DEF Untouched
  <1> QED
    BY <1>1, <1>3, <1>4

(* Who takes a row from the live ones.                                       *)
LEMMA LiveLeaves ==
  ASSUME TypeOK, RowInv, [Next]_vars, NEW r \in RunIds, Live(r), ~Live(r)'
  PROVE  \E l \in Loops : \/ \E t \in Tasks : CloseRow(l, t) /\ fiber[l][t].run = r
                          \/ FileStop(l) /\ pump[l].target = r
                          \/ BootClose(l, r)
  <1>1. ~(runState' = runState)
    BY DEF Live
  <1>2. ASSUME NEW l \in Loops, NEW t \in Tasks, Open(l, t) PROVE FALSE
    <2>1. r <= lastRun /\ lastRun \in Nat
      BY BoundsAssumption DEF RowInv, RowsInOrder, Live, LiveStates, RunIds, TypeOK
    <2>2. runState' = [runState EXCEPT ![lastRun + 1] = "queued"] /\ r # lastRun + 1
      BY <1>1, <1>2, <2>1 DEF Open, runRows, RunIds
    <2> QED
      BY <2>2 DEF Live, TypeOK
  <1>3. ASSUME NEW l \in Loops, NEW t \in Tasks, SessionInit(l, t) PROVE FALSE
    BY <1>3, SessionInitLive DEF LiveKept
  <1>4. ASSUME NEW x, NEW e, Close(x, e) PROVE x = r
    BY <1>4 DEF Close, Live, TypeOK
  <1> QED
    BY <1>1, <1>2, <1>3, <1>4, RowWriters DEF CloseRow, FileStop, BootClose

(* Who takes a fiber from the move of its card.                              *)
LEMMA MoveLeaves ==
  ASSUME OneProcess, TypeOK, [Next]_vars, NEW l \in Loops, NEW t \in Tasks,
         fiber[l][t].step = "move", fiber'[l][t].step # "move"
  PROVE  MoveToReview(l, t) \/ Crash(l) \/ Stopped(l)
  <1>0. \A m \in Loops : m = l
    BY DEF OneProcess
  <1>1. ASSUME fiber'[l][t] = fiber[l][t] PROVE FALSE
    BY <1>1
  <1>2. ~UNCHANGED vars
    BY <1>1 DEF vars
  <1>3. ASSUME NEW u \in Tasks,
               \/ FiberStep(l, u) \/ TurnEnds(l, u) \/ SessionInit(l, u)
               \/ AgentFinishes(l, u) \/ Heartbeat(l, u) \/ Defer(l, u)
               \/ FailClaim(l, u) \/ SetupFails(l, u) \/ LeaseGoesStale(l, u)
        PROVE  MoveToReview(l, t)
    <2>1. CASE u = t
      BY <1>1, <1>3, <2>1
      DEF FiberStep, Plan, Admit, Claim, Open, BeginTurn, Abandon, TurnInterrupted, CloseRow,
          Collect, Release, TurnEnds, SessionInit, AgentFinishes, Heartbeat, Defer, FailClaim,
          SetupFails, LeaseGoesStale, fiberSide, At
    <2>2. CASE u # t
      <3>1. fiber' = fiber \/ \E f : fiber' = [fiber EXCEPT ![l][u] = f]
        BY <1>3
        DEF FiberStep, Plan, Admit, Claim, Open, BeginTurn, Abandon, TurnInterrupted,
            CloseRow, MoveToReview, Collect, Release, TurnEnds, SessionInit, AgentFinishes,
            Heartbeat, Defer, FailClaim, SetupFails, LeaseGoesStale, fiberSide, Goto, EndFiber
      <3>2. fiber'[l][t] = fiber[l][t]
        BY <2>2, <3>1 DEF TypeOK
      <3> QED
        BY <1>1, <3>2
    <2> QED
      BY <2>1, <2>2
  <1>4. ~PumpStep(l)
    <2>1. ~(\E u \in Tasks : ForkNext(l, u)) /\ ~Dispatch(l)
      <3>1. pump[l].cmd.task \in Tasks
        BY PumpOf DEF Pump, Command
      <3>2. ASSUME NEW u \in Tasks, NEW trigger, NEW row, NEW isParked,
                   Fork(l, u, trigger, row, isParked)
            PROVE  FALSE
        BY <1>1, <3>2, ForkFacts
      <3> QED
        BY <1>1, <3>1, <3>2 DEF ForkNext, Dispatch
    <2>2. ~Interrupt(l)
      <3> SUFFICES ASSUME Interrupt(l) PROVE FALSE
        OBVIOUS
      <3> DEFINE u == runOf[pump[l].target]
                 f == [fiber[l][u] EXCEPT !.interrupted = TRUE]
      <3>1. fiber' = fiber \/ fiber' = [fiber EXCEPT ![l][u] = f]
        BY DEF Interrupt, TypeOK
      <3>2. u = t => f.step = "move"
        BY FiberOf DEF Fiber
      <3> HIDE DEF u, f
      <3> QED
        BY <1>1, <3>1, <3>2 DEF TypeOK
    <2> QED
      BY <1>1, <2>1, <2>2
      DEF PumpStep, Wake, DrainDone, TakeCommand, Stop, Killed, FileStop, Rerun, StartSession,
          ReadColumn, ColumnDone, fiberSide
  <1>5. ~Shutdown(l)
    <2> SUFFICES ASSUME Shutdown(l) PROVE FALSE
      OBVIOUS
    <2>1. fiber'[l][t] = [fiber[l][t] EXCEPT !.interrupted = TRUE]
      BY DEF Shutdown, At, TypeOK
    <2> QED
      BY <2>1, FiberOf DEF Fiber
  <1>6. ~BootStep(l) /\ ~Boot(l) /\ ~CommandFails(l) /\ ~BootCloseFails(l)
        /\ ~(\E u \in Tasks : ParkExpires(u)) /\ ~Person
    BY <1>1
    DEF BootStep, BootLeases, BootList, BootClosed, BootFinished, BootClose, BootFinish, Boot,
        CommandFails, BootCloseFails, ParkExpires, Person, CommitMove, RequestStop, OpenMove,
        Press, fiberSide
  <1> QED
    BY <1>0, <1>2, <1>3, <1>4, <1>5, <1>6 DEF Next, Trouble

(* Who takes a closed row from the list of a boot.                           *)
LEMMA FinishLeaves ==
  ASSUME OneProcess, TypeOK, RowInv, StopInv, FinishMeant, [Next]_vars, NEW l \in Loops,
         NEW r \in pump[l].finish, r \notin pump'[l].finish
  PROVE  BootFinish(l, r) \/ BootCloseFails(l) \/ Crash(l) \/ Shutdown(l)
  <1>1. pump[l].step \in Booting /\ up[l] = "up"
    BY DEF FinishMeant, StopInv, PumpsSound, PumpAlone, Booting
  <1>2. pump' # pump
    OBVIOUS
  <1>3. ~PumpStep(l) /\ ~CommandFails(l)
    BY <1>1
    DEF PumpStep, Wake, DrainDone, TakeCommand, Stop, Interrupt, Killed, FileStop, Rerun,
        StartSession, Dispatch, ReadColumn, ColumnDone, ForkNext, CommandFails, PumpIs,
        CommandIs, Booting
  <1>4. ~Boot(l) /\ ~Stopped(l)
    BY <1>1 DEF Boot, Stopped
  <1>5. ~BootLeases(l) /\ ~BootList(l) /\ ~BootClosed(l)
    BY BootLeasesFacts, BootListFacts, PumpToFacts DEF BootClosed
  <1>6. ~BootFinished(l)
    BY DEF BootFinished
  <1>7. ~\E x \in RunIds : BootClose(l, x)
    BY BootCloseFacts
  <1>8. ASSUME NEW x \in RunIds, BootFinish(l, x) PROVE x = r
    BY <1>8, PumpOf DEF BootFinish, TypeOK, Pump
  <1> QED
    BY <1>2, <1>3, <1>4, <1>5, <1>6, <1>7, <1>8, PumpMoves DEF BootStep

LEMMA CardHeldStep ==
  ASSUME OneProcess, TypeOK, RowInv, FiberOwnsRun, StopInv, FinishMeant, RetryInv, [Next]_vars
  PROVE  CardHeld'
  <1> SUFFICES ASSUME NEW t \in Tasks, ~Demanded(t)'
               PROVE  \/ LiveOn(t)' # {}
                      \/ \E l \in Loops : fiber'[l][t].step = "move"
                      \/ \E l \in Loops : \E r \in pump'[l].finish : runOf'[r] = t
    BY DEF CardHeld
  <1>0. /\ \A r \in RunIds : r <= lastRun => runOf'[r] = runOf[r]
        /\ \A r \in RunIds : Live(r) => r <= lastRun
        /\ \A l, m \in Loops : l = m
        /\ ~Spend("faults") /\ ~Spend("crashes")
    <2>1. \A r \in RunIds : r <= lastRun => runOf'[r] = runOf[r]
      BY NextOnRows, LedgerKeepsOwners
    <2>2. \A r \in RunIds : Live(r) => r <= lastRun
      BY BoundsAssumption DEF RowInv, RowsInOrder, Live, LiveStates, RunIds, TypeOK
    <2>3. ~Spend("faults") /\ ~Spend("crashes")
      BY DEF RetryInv, BudgetOrderly, Spend
    <2> QED
      BY <2>1, <2>2, <2>3 DEF OneProcess
  <1>1. ASSUME NEW l \in Loops, Open(l, t), LiveOn(t) = {}
        PROVE  LiveOn(t)' # {}
    <2>1. /\ lastRun + 1 \in RunIds
          /\ runOf' = [runOf EXCEPT ![lastRun + 1] = t]
          /\ runState' = [runState EXCEPT ![lastRun + 1] = "queued"]
      BY <1>1, BoundsAssumption DEF Open, RunIds, TypeOK
    <2>2. runOf'[lastRun + 1] = t /\ runState'[lastRun + 1] = "queued"
      BY <2>1 DEF TypeOK
    <2>3. lastRun + 1 \in LiveOn(t)'
      BY <2>1, <2>2 DEF LiveOn, Live, LiveStates
    <2> QED
      BY <2>3
  <1>2. CASE ~\E l \in Loops : Open(l, t) /\ LiveOn(t) = {}
    <2>1. ~Demanded(t)
      BY <1>2, DemandStep
    <2>2. ASSUME NEW r \in LiveOn(t)
          PROVE  \/ LiveOn(t)' # {}
                 \/ \E l \in Loops : fiber'[l][t].step = "move"
                 \/ \E l \in Loops : \E x \in pump'[l].finish : runOf'[x] = t
      <3>1. r \in RunIds /\ Live(r) /\ runOf[r] = t /\ runOf'[r] = t
        BY <1>0 DEF LiveOn
      <3>2. CASE Live(r)'
        BY <3>1, <3>2 DEF LiveOn
      <3>3. ASSUME NEW l \in Loops, NEW u \in Tasks, CloseRow(l, u), fiber[l][u].run = r
            PROVE  fiber'[l][t].step = "move"
        <4>1. u = t
          BY <3>1, <3>3, NoRunIsNoRow DEF FiberOwnsRun
        <4> DEFINE f == [fiber[l][t] EXCEPT !.step = "move"]
        <4>2. f.step = "move"
          BY FiberOf DEF Fiber
        <4>3. fiber' = [fiber EXCEPT ![l][t] = f]
          BY <3>3, <4>1 DEF CloseRow, Goto, TypeOK
        <4> HIDE DEF f
        <4> QED
          BY <4>2, <4>3 DEF TypeOK
      <3>4. ASSUME NEW l \in Loops, FileStop(l), pump[l].target = r
            PROVE  FALSE
        BY <2>1, <3>1, <3>4 DEF FileStop, PumpIs, RetryInv, TargetMeant, Stopping, Released
      <3>5. ASSUME NEW l \in Loops, BootClose(l, r)
            PROVE  r \in pump'[l].finish
        BY <3>1, <3>5, BootCloseFacts
      <3> QED
        BY <3>1, <3>2, <3>3, <3>4, <3>5, LiveLeaves
    <2>3. ASSUME NEW l \in Loops, fiber[l][t].step = "move", fiber'[l][t].step # "move"
          PROVE  FALSE
      <3>1. CASE MoveToReview(l, t)
        <4>1. status'[t] # "in_progress"
          BY <1>0, <3>1 DEF MoveToReview, MayEnterReview, TypeOK
        <4> QED
          BY <4>1 DEF Demanded
      <3>2. ~Crash(l)
        BY <1>0 DEF Crash
      <3>3. ~Stopped(l)
        BY <2>3 DEF Stopped, At
      <3> QED
        BY <2>3, <3>1, <3>2, <3>3, MoveLeaves
    <2>4. ASSUME NEW l \in Loops, NEW r \in pump[l].finish, runOf[r] = t
          PROVE  r \in pump'[l].finish /\ runOf'[r] = t
      <3>1. r \in RunIds /\ pump[l].step \in Booting
        BY PumpOf DEF Pump, FinishMeant
      <3>2. runOf' = runOf
        <4>1. \A m \in Loops, u \in Tasks : ~Open(m, u)
          BY <1>0, <3>1 DEF StopInv, PumpsSound, PumpAlone, Open, At
        <4> QED
          BY <4>1, LiveOnStep
      <3>3. ~BootFinish(l, r)
        <4> SUFFICES ASSUME BootFinish(l, r) PROVE FALSE
          OBVIOUS
        <4>1. status'[t] # "in_progress"
          BY <1>0, <2>4 DEF BootFinish, MayEnterReview, TypeOK
        <4> QED
          BY <4>1 DEF Demanded
      <3>4. ~BootCloseFails(l) /\ ~Crash(l)
        BY <1>0 DEF BootCloseFails, Crash
      <3>5. ~Shutdown(l)
        <4> SUFFICES ASSUME Shutdown(l) PROVE FALSE
          OBVIOUS
        <4>1. budget["shutdowns"] > 0
          BY DEF Shutdown, Spend
        <4>2. pump[l].finish = {}
          BY <3>1, <4>1 DEF RetryInv, Untouched
        <4> QED
          BY <4>2
      <3> QED
        BY <2>4, <3>2, <3>3, <3>4, <3>5, FinishLeaves
    <2> QED
      BY <2>1, <2>2, <2>3, <2>4 DEF RetryInv, CardHeld
  <1> QED
    BY <1>1, <1>2

LEMMA RetryStep ==
  ASSUME OneProcess
  PROVE  TypeOK /\ RowInv /\ FiberOwnsRun /\ StopInv /\ FinishMeant /\ RetryInv /\ [Next]_vars
           => RetryInv'
  BY BudgetOrderlyStep, MoverMeantStep, QueueMeantStep, TargetMeantStep, UntouchedStep,
     CardHeldStep DEF RetryInv

(* NoAutoRetry of TaskLoop: one process, stopped once and never killed, with *)
(* writes that do not fail and no buttons pressed, never starts a second run *)
(* on a card in the column unless somebody put it back there: what a sweep   *)
(* finds in the column without a run is a card a person has moved.           *)
THEOREM NoAutoRetryCorrect ==
  ASSUME OneProcess, Orderly
  PROVE  Spec => NoAutoRetry
  <1>1. Init => FinishMeant
    BY DEF Init, FinishMeant, PumpAt
  <1>2. TypeOK /\ RowInv /\ StopInv /\ FinishMeant /\ [Next]_vars => FinishMeant'
    BY FinishMeantStep
  <1> DEFINE Asked == lastRun' # lastRun =>
               LET t == runOf'[lastRun'] IN status[t] = "in_progress" => wanted[t]
  <1>3. TypeOK /\ RowInv /\ StopInv /\ FinishMeant /\ RetryInv /\ [Next]_vars => [Asked]_vars
    <2> SUFFICES ASSUME TypeOK, RowInv, StopInv, FinishMeant, RetryInv, [Next]_vars,
                        lastRun' # lastRun
                 PROVE  Demanded(runOf'[lastRun'])
      BY DEF Demanded
    <2>1. PICK l \in Loops, t \in Tasks : Open(l, t)
      BY LiveOnStep
    <2>2. LiveOn(t) = {} /\ fiber[l][t].step = "open" /\ runOf'[lastRun'] = t
      BY <2>1, BoundsAssumption DEF Open, runRows, At, RunIds, TypeOK
    <2>3. \A m \in Loops : fiber[m][t].step # "move"
      BY <2>2 DEF OneProcess
    <2>4. \A m \in Loops : pump[m].finish = {}
      BY <2>2 DEF OneProcess, FinishMeant, StopInv, PumpsSound, PumpAlone
    <2> QED
      BY <2>2, <2>3, <2>4 DEF RetryInv, CardHeld
  <1>4. Spec => [](StopInv /\ Faultless)
    BY StopInvCorrect
  <1> QED
    BY <1>1, <1>2, <1>3, <1>4, RetryInit, RetryStep, TypeCorrect, RowInvCorrect,
       FiberOwnsRunCorrect, PTL DEF Spec, NoAutoRetry

-----------------------------------------------------------------------------
(* No run is left to nobody. What EveryRunEnds and StopEndsTurn rest on: with *)
(* one process whose writes do not fail, a live run has its fiber, or the stop*)
(* that is about to file it, or the boot that is about to close it, whatever  *)
(* is crashed, shut down, interrupted or moved by a person in between.        *)

NoRejections == \A b \in Budgets : b["rejections"] = 0

Carried(l, r)  == \E t \in Tasks : fiber[l][t].step \in Carrying /\ fiber[l][t].run = r
StopHeld(l, r) == pump[l].step \in Stopping /\ pump[l].target = r

(* The process has recovered and nobody is taking it down.                   *)
Working(l) == up[l] = "up" /\ pump[l].step \notin Booting

(* While the process works, only the fiber of the stop in hand is interrupted. *)
InterruptMeant(l, t) ==
  up[l] = "up" /\ fiber[l][t].step # "none" /\ fiber[l][t].interrupted =>
    /\ pump[l].step = "killing" /\ runOf[pump[l].target] = t
    /\ fiber[l][t].step \notin Admitting
    /\ fiber[l][t].step \in Carrying => fiber[l][t].run = pump[l].target

(* A boot guards no card and lists every live row; it has closed them all when*)
(* it goes on to finish them.                                                 *)
BootSees(l) ==
  /\ pump[l].step = "list" => pump[l].guarded = {}
  /\ pump[l].step = "lose" => \A r \in RunIds : Live(r) => r \in pump[l].lost
  /\ pump[l].step = "finish" => \A r \in RunIds : ~Live(r)

(* A live run nobody asked to stop has a fiber that will close it.           *)
NoOrphanRun ==
  \A l \in Loops : Working(l) =>
    \A r \in RunIds \ asked : Live(r) => Carried(l, r)

(* A run that was asked to stop and is still live has the stop in hand.      *)
StopInHand ==
  \A l \in Loops : Working(l) => \A r \in asked : Live(r) => StopHeld(l, r)

Rejectless == NoRejections => budget["rejections"] = 0

HeldInv ==
  /\ \A l \in Loops, t \in Tasks : InterruptMeant(l, t)
  /\ \A l \in Loops : BootSees(l)
  /\ NoOrphanRun
  /\ NoRejections => StopInHand

LEMMA HeldInit == Init => HeldInv /\ Rejectless
  BY DEF Init, HeldInv, InterruptMeant, BootSees, NoOrphanRun, StopInHand, Working, NoFiber,
         PumpAt, Rejectless, NoRejections

LEMMA RejectlessStep == TypeOK /\ Rejectless /\ [Next]_vars => Rejectless'
  <1> SUFFICES ASSUME TypeOK, Rejectless, [Next]_vars, NoRejections
               PROVE  budget'["rejections"] = 0
    BY DEF Rejectless
  <1>1. budget["rejections"] = 0 /\ "rejections" \in Disturbances
    BY DEF Rejectless, Disturbances
  <1>2. budget'["rejections"] \in Nat /\ budget'["rejections"] <= budget["rejections"]
    BY <1>1, BudgetShrinks
  <1> QED
    BY <1>1, <1>2

(* Where a fiber may go, and what that says of its run.                      *)
FiberSide(l, t) ==
  \/ FiberStep(l, t) \/ TurnEnds(l, t) \/ SessionInit(l, t) \/ AgentFinishes(l, t)
  \/ Heartbeat(l, t) \/ Defer(l, t) \/ FailClaim(l, t) \/ SetupFails(l, t)
  \/ LeaseGoesStale(l, t)

FiberGoes(l, t) ==
  LET f == fiber[l][t]  g == fiber'[l][t] IN
  \/ g = f
  \/ /\ g.step = "none"
     /\ f.step \in Carrying => f.step = "opened" /\ (f.interrupted \/ budget["faults"] > 0)
  \/ /\ g.run = f.run /\ g.interrupted = f.interrupted
     /\ \/ f.step \notin Carrying /\ g.step \in Admitting /\ ~f.interrupted
        \/ f.step \in Carrying /\ g.step \in Carrying
        \/ CloseRow(l, t) /\ f.step = "close" /\ g.step = "move"
        \/ f.step \in Past /\ g.step \in Past
  \/ /\ Open(l, t) /\ LiveOn(t) = {} /\ f.step = "open"
     /\ g.step = "opened" /\ g.run = lastRun + 1 /\ g.interrupted = f.interrupted

LEMMA EndFiberGoes ==
  ASSUME TypeOK, NEW l \in Loops, NEW t \in Tasks, EndFiber(l, t)
  PROVE  fiber'[l][t].step = "none"
  BY DEF EndFiber, NoFiber, TypeOK

LEMMA GotoGoes ==
  ASSUME TypeOK, NEW l \in Loops, NEW t \in Tasks, NEW step, Goto(l, t, step)
  PROVE  /\ fiber'[l][t].step = step /\ fiber'[l][t].run = fiber[l][t].run
         /\ fiber'[l][t].interrupted = fiber[l][t].interrupted
  <1> DEFINE f == [fiber[l][t] EXCEPT !.step = step]
  <1>1. /\ f.step = step /\ f.run = fiber[l][t].run
        /\ f.interrupted = fiber[l][t].interrupted
    BY FiberOf DEF Fiber
  <1>2. fiber' = [fiber EXCEPT ![l][t] = f]
    BY DEF Goto, TypeOK
  <1> HIDE DEF f
  <1> QED
    BY <1>1, <1>2 DEF TypeOK

LEMMA FiberSideGoes ==
  ASSUME TypeOK, NEW l \in Loops, NEW t \in Tasks, FiberSide(l, t)
  PROVE  FiberGoes(l, t)
  <1>1. CASE Plan(l, t)
    BY <1>1, GotoGoes, EndFiberGoes DEF Plan, At, FiberGoes, Admitting, Carrying
  <1>2. CASE Admit(l, t)
    BY <1>2, GotoGoes, EndFiberGoes DEF Admit, At, FiberGoes, Admitting, Carrying
  <1>3. CASE Claim(l, t)
    BY <1>3, GotoGoes, EndFiberGoes DEF Claim, At, FiberGoes, Admitting, Carrying
  <1>4. CASE Open(l, t)
    <2>1. CASE LiveOn(t) = {}
      <3> DEFINE f == [fiber[l][t] EXCEPT !.step = "opened", !.run = lastRun + 1]
      <3>1. /\ f.step = "opened" /\ f.run = lastRun + 1
            /\ f.interrupted = fiber[l][t].interrupted
        BY FiberOf DEF Fiber
      <3>2. fiber' = [fiber EXCEPT ![l][t] = f] /\ fiber[l][t].step = "open"
        BY <1>4, <2>1 DEF Open, At, TypeOK
      <3> HIDE DEF f
      <3>3. fiber'[l][t] = f
        BY <3>2 DEF TypeOK
      <3> QED
        BY <1>4, <2>1, <3>1, <3>2, <3>3 DEF FiberGoes
    <2>2. CASE LiveOn(t) # {}
      BY <1>4, <2>2, EndFiberGoes DEF Open, At, FiberGoes, Carrying
    <2> QED
      BY <2>1, <2>2
  <1>5. CASE BeginTurn(l, t)
    BY <1>5, GotoGoes DEF BeginTurn, At, FiberGoes, Carrying
  <1>6. CASE Abandon(l, t)
    BY <1>6, EndFiberGoes DEF Abandon, FiberGoes, Carrying
  <1>7. CASE TurnInterrupted(l, t)
    <2> DEFINE f == [fiber[l][t] EXCEPT !.step = "close",
                       !.ending = IF note[l][t] THEN "stopped" ELSE "interrupted"]
    <2>1. /\ f.step = "close" /\ f.run = fiber[l][t].run
          /\ f.interrupted = fiber[l][t].interrupted
      BY FiberOf DEF Fiber
    <2>2. fiber' = [fiber EXCEPT ![l][t] = f] /\ fiber[l][t].step = "turn"
      BY <1>7 DEF TurnInterrupted, At, TypeOK
    <2> HIDE DEF f
    <2>3. fiber'[l][t] = f
      BY <2>2 DEF TypeOK
    <2> QED
      BY <2>1, <2>2, <2>3 DEF FiberGoes, Carrying
  <1>8. CASE CloseRow(l, t)
    BY <1>8, GotoGoes DEF CloseRow, At, FiberGoes
  <1>9. CASE MoveToReview(l, t)
    <2>1. PICK moved \in BOOLEAN :
            fiber' = [fiber EXCEPT ![l][t] = [@ EXCEPT !.step = "collect", !.moved = moved]]
      BY <1>9 DEF MoveToReview
    <2> DEFINE f == [fiber[l][t] EXCEPT !.step = "collect", !.moved = moved]
    <2>2. /\ f.step = "collect" /\ f.run = fiber[l][t].run
          /\ f.interrupted = fiber[l][t].interrupted
      BY FiberOf DEF Fiber
    <2>3. fiber' = [fiber EXCEPT ![l][t] = f] /\ fiber[l][t].step = "move"
      BY <1>9, <2>1 DEF MoveToReview, At, TypeOK
    <2> HIDE DEF f
    <2>4. fiber'[l][t] = f
      BY <2>3 DEF TypeOK
    <2> QED
      BY <2>2, <2>3, <2>4 DEF FiberGoes, Past
  <1>10. CASE Collect(l, t)
    BY <1>10, GotoGoes DEF Collect, At, FiberGoes, Past
  <1>11. CASE Release(l, t)
    BY <1>11, EndFiberGoes DEF Release, At, FiberGoes, Carrying
  <1>12. CASE TurnEnds(l, t)
    <2>1. PICK e \in TurnEndings :
            fiber' = [fiber EXCEPT ![l][t] = [@ EXCEPT !.step = "close", !.ending = e]]
      BY <1>12 DEF TurnEnds
    <2> DEFINE f == [fiber[l][t] EXCEPT !.step = "close", !.ending = e]
    <2>2. /\ f.step = "close" /\ f.run = fiber[l][t].run
          /\ f.interrupted = fiber[l][t].interrupted
      BY FiberOf DEF Fiber
    <2>3. fiber' = [fiber EXCEPT ![l][t] = f] /\ fiber[l][t].step = "turn"
      BY <1>12, <2>1 DEF TurnEnds, At, TypeOK
    <2> HIDE DEF f
    <2>4. fiber'[l][t] = f
      BY <2>3 DEF TypeOK
    <2> QED
      BY <2>2, <2>3, <2>4 DEF FiberGoes, Carrying
  <1>13. CASE SessionInit(l, t) \/ AgentFinishes(l, t) \/ Heartbeat(l, t) \/ LeaseGoesStale(l, t)
    BY <1>13 DEF SessionInit, AgentFinishes, Heartbeat, LeaseGoesStale, fiberSide, FiberGoes
  <1>14. CASE Defer(l, t) \/ FailClaim(l, t)
    BY <1>14, EndFiberGoes DEF Defer, FailClaim, At, FiberGoes, Carrying
  <1>15. CASE SetupFails(l, t)
    BY <1>15, EndFiberGoes DEF SetupFails, Spend, At, FiberGoes, Carrying
  <1> QED
    BY <1>1, <1>2, <1>3, <1>4, <1>5, <1>6, <1>7, <1>8, <1>9, <1>10, <1>11, <1>12, <1>13,
       <1>14, <1>15 DEF FiberSide, FiberStep

LEMMA FiberSideAlone ==
  ASSUME TypeOK, NEW l \in Loops, NEW t \in Tasks, FiberSide(l, t)
  PROVE  /\ pump' = pump /\ up' = up /\ asked' = asked
         /\ \A m \in Loops, u \in Tasks : ~(m = l /\ u = t) => fiber'[m][u] = fiber[m][u]
  <1>1. CASE FiberStep(l, t)
    <2>1. pump' = pump /\ up' = up /\ asked' = asked
      BY <1>1
      DEF FiberStep, Plan, Admit, Claim, Open, BeginTurn, Abandon, TurnInterrupted, CloseRow,
          MoveToReview, Collect, Release, history
    <2>2. \E f : fiber' = [fiber EXCEPT ![l][t] = f]
      BY <1>1
      DEF FiberStep, Plan, Admit, Claim, Open, BeginTurn, Abandon, TurnInterrupted, CloseRow,
          MoveToReview, Collect, Release, EndFiber, Goto, TypeOK
    <2> QED
      BY <2>1, <2>2 DEF TypeOK
  <1>2. CASE TurnEnds(l, t)
    BY <1>2 DEF TurnEnds, history, TypeOK
  <1>3. CASE SessionInit(l, t) \/ AgentFinishes(l, t) \/ Heartbeat(l, t) \/ LeaseGoesStale(l, t)
    BY <1>3 DEF SessionInit, AgentFinishes, Heartbeat, LeaseGoesStale, fiberSide, history
  <1>4. CASE Defer(l, t) \/ FailClaim(l, t) \/ SetupFails(l, t)
    BY <1>4 DEF Defer, FailClaim, SetupFails, EndFiber, history, TypeOK
  <1> QED
    BY <1>1, <1>2, <1>3, <1>4 DEF FiberSide

(* The steps of the one process, of its fibers, and of everybody else.       *)
LoopSide(l) ==
  \/ PumpStep(l) \/ BootStep(l) \/ Boot(l) \/ Stopped(l) \/ Crash(l) \/ Shutdown(l)
  \/ CommandFails(l) \/ BootCloseFails(l)

LEMMA OneLoopCases ==
  ASSUME OneProcess, [Next]_vars, NEW l \in Loops
  PROVE  \/ LoopSide(l) \/ \E t \in Tasks : FiberSide(l, t)
         \/ UNCHANGED <<pump, fiber, up, asked, runRows, lease>>
  <1>1. CASE UNCHANGED vars
    BY <1>1 DEF vars, runRows
  <1>2. CASE (\E t \in Tasks : ParkExpires(t)) \/ Person
    BY <1>2 DEF ParkExpires, Person, CommitMove, RequestStop, OpenMove, Press, fiberSide,
                history, runRows
  <1>3. ASSUME NEW m \in Loops,
               \/ PumpStep(m) \/ BootStep(m) \/ Boot(m) \/ Stopped(m) \/ Trouble(m)
               \/ \E t \in Tasks : \/ FiberStep(m, t) \/ TurnEnds(m, t) \/ SessionInit(m, t)
                                   \/ AgentFinishes(m, t) \/ Heartbeat(m, t)
        PROVE  LoopSide(l) \/ \E t \in Tasks : FiberSide(l, t)
    <2>1. m = l
      BY DEF OneProcess
    <2> QED
      BY <1>3, <2>1 DEF LoopSide, FiberSide, Trouble
  <1> QED
    BY <1>1, <1>2, <1>3 DEF Next

-----------------------------------------------------------------------------
(* What a boot finds on disk. A file may outlive its fiber while the process *)
(* lives (a remove that failed, a beat that landed late), but it names that   *)
(* process: with one process, the one that boots is named by no file.        *)

BootsUnnamed ==
  \A l \in Loops : pump[l].step \in Booting \/ up[l] = "down" =>
                    \A t \in Tasks : lease[t] # l

(* A fiber's step puts the name of its process on its own card's file only.  *)
LEMMA FiberSideLease ==
  ASSUME TypeOK, NEW l \in Loops, NEW t \in Tasks, FiberSide(l, t),
         NEW u \in Tasks, lease'[u] = l, lease[u] # l
  PROVE  u = t /\ fiber[l][t].step # "none"
  <1>1. "none" \notin HasLease
    BY DEF HasLease, InLane
  <1>2. CASE lease' = lease
    BY <1>2
  <1>3. ASSUME NEW left, lease' = [lease EXCEPT ![t] = left], fiber[l][t].step # "none"
        PROVE  u = t /\ fiber[l][t].step # "none"
    BY <1>3 DEF TypeOK
  <1>4. CASE EndFiber(l, t)
    BY <1>1, <1>2, <1>3, <1>4 DEF EndFiber, FreeLease
  <1>5. CASE FiberStep(l, t)
    BY <1>2, <1>3, <1>4, <1>5
    DEF FiberStep, Plan, Admit, Claim, Open, BeginTurn, Abandon, TurnInterrupted, CloseRow,
        MoveToReview, Collect, Release, At
  <1>6. CASE TurnEnds(l, t) \/ SessionInit(l, t) \/ AgentFinishes(l, t)
    BY <1>2, <1>6 DEF TurnEnds, SessionInit, AgentFinishes, fiberSide
  <1>7. CASE Defer(l, t) \/ FailClaim(l, t) \/ SetupFails(l, t)
    BY <1>4, <1>7 DEF Defer, FailClaim, SetupFails
  <1>8. CASE Heartbeat(l, t)
    BY <1>1, <1>3, <1>8 DEF Heartbeat
  <1>9. CASE LeaseGoesStale(l, t)
    BY <1>9, NamesAssumption DEF LeaseGoesStale, TypeOK
  <1> QED
    BY <1>5, <1>6, <1>7, <1>8, <1>9 DEF FiberSide

(* The process writes no lease file outside its fibers.                      *)
LEMMA LoopSideLease ==
  ASSUME TypeOK, NEW l \in Loops, LoopSide(l), NEW u \in Tasks, lease'[u] = l
  PROVE  lease[u] = l
  <1>1. CASE LoseMemory(l)
    BY <1>1, NamesAssumption DEF LoseMemory
  <1>2. CASE PumpStep(l)
    BY <1>2
    DEF PumpStep, Wake, DrainDone, TakeCommand, Stop, Interrupt, Killed, FileStop, Rerun,
        StartSession, Dispatch, ReadColumn, ColumnDone, ForkNext, fiberSide
  <1>3. CASE BootStep(l) \/ Boot(l)
    BY <1>3
    DEF BootStep, BootLeases, BootList, BootClosed, BootFinished, BootClose, BootFinish, Boot,
        fiberSide
  <1>4. CASE Shutdown(l) \/ CommandFails(l) \/ BootCloseFails(l)
    BY <1>4 DEF Shutdown, CommandFails, BootCloseFails, fiberSide
  <1> QED
    BY <1>1, <1>2, <1>3, <1>4 DEF LoopSide, Crash, Stopped

(* A process that is down or booting was so, or has just lost its memory.    *)
LEMMA LoopSideBoots ==
  ASSUME TypeOK, NEW l \in Loops, LoopSide(l),
         pump'[l].step \in Booting \/ up'[l] = "down", ~LoseMemory(l)
  PROVE  pump[l].step \in Booting \/ up[l] = "down"
  <1>1. CASE \/ Wake(l) \/ DrainDone(l) \/ TakeCommand(l) \/ Rerun(l) \/ StartSession(l)
             \/ CommandFails(l) \/ ReadColumn(l) \/ ColumnDone(l)
             \/ BootFinished(l) \/ BootCloseFails(l)
    <2>1. pump'[l].step \notin Booting
      BY <1>1, PlainPumpStep DEF Booting
    <2>2. up' = up
      BY <1>1
      DEF Wake, DrainDone, TakeCommand, Rerun, StartSession, CommandFails, ReadColumn,
          ColumnDone, BootFinished, BootCloseFails
    <2> QED
      BY <2>1, <2>2
  <1>2. CASE Dispatch(l) \/ FileStop(l) \/ Killed(l)
    <2>1. pump'[l].step \notin Booting
      BY <1>2, PumpToFacts, PumpResetFacts DEF Dispatch, FileStop, Killed, Booting
    <2>2. up' = up
      BY <1>2 DEF Dispatch, FileStop, Killed
    <2> QED
      BY <2>1, <2>2
  <1>3. CASE Interrupt(l)
    <2>1. pump'[l].step \in {"file", "killing"}
      BY <1>3, PumpToFacts DEF Interrupt
    <2> QED
      BY <1>3, <2>1 DEF Interrupt, Booting
  <1>4. CASE Stop(l)
    <2>1. up' = up
      BY <1>4 DEF Stop
    <2>2. CASE PumpReset(l, "drain")
      BY <2>1, <2>2, PumpResetFacts DEF Booting
    <2>3. ASSUME NEW r, pump' = [pump EXCEPT ![l] = [@ EXCEPT !.step = "interrupt", !.target = r]]
          PROVE  pump[l].step \in Booting \/ up[l] = "down"
      <3>1. pump'[l].step = "interrupt"
        BY <2>3, PumpOf DEF TypeOK, Pump
      <3> QED
        BY <2>1, <3>1 DEF Booting
    <2> QED
      BY <1>4, <2>2, <2>3 DEF Stop
  <1>5. ASSUME NEW t \in Tasks, ForkNext(l, t)
        PROVE  pump[l].step \in Booting \/ up[l] = "down"
    <2>1. PICK k : pump' = [pump EXCEPT ![l] = OneFewer(pump[l], t, k)]
      BY <1>5 DEF ForkNext
    <2>2. pump[l].step = "fork" /\ up' = up
      BY <1>5 DEF ForkNext, PumpIs
    <2>3. pump'[l].step = "fork"
      BY <2>1, <2>2, PumpOf DEF OneFewer, TypeOK, Pump
    <2> QED
      BY <2>2, <2>3 DEF Booting
  <1>6. CASE \/ BootLeases(l) \/ BootList(l) \/ BootClosed(l) \/ Boot(l)
             \/ \E r \in RunIds : BootClose(l, r) \/ BootFinish(l, r)
    BY <1>6
    DEF BootLeases, BootList, BootClosed, Boot, BootClose, BootFinish, PumpIs, Booting
  <1>7. CASE Shutdown(l)
    <2>1. up'[l] = "stopping" /\ pump'[l].step = "off"
      BY <1>7, PumpResetFacts DEF Shutdown, TypeOK
    <2> QED
      BY <2>1 DEF Booting
  <1> QED
    BY <1>1, <1>2, <1>3, <1>4, <1>5, <1>6, <1>7
    DEF LoopSide, PumpStep, BootStep, Crash, Stopped

LEMMA BootsUnnamedStep ==
  ASSUME OneProcess, TypeOK, StopInv, BootsUnnamed, [Next]_vars
  PROVE  BootsUnnamed'
  <1> SUFFICES ASSUME NEW l \in Loops, pump'[l].step \in Booting \/ up'[l] = "down",
                      NEW t \in Tasks, lease'[t] = l
               PROVE  FALSE
    BY DEF BootsUnnamed
  <1>1. pump[l].step \in Booting \/ up[l] = "down" =>
          \A u \in Tasks : lease[u] # l /\ fiber[l][u].step = "none"
    BY DEF BootsUnnamed, StopInv, PumpsSound, PumpAlone
  <1>2. CASE LoopSide(l)
    <2>1. ~LoseMemory(l)
      BY NamesAssumption DEF LoseMemory, TypeOK
    <2> QED
      BY <1>1, <1>2, <2>1, LoopSideLease, LoopSideBoots
  <1>3. ASSUME NEW u \in Tasks, FiberSide(l, u) PROVE FALSE
    <2>1. pump' = pump /\ up' = up
      BY <1>3, FiberSideAlone
    <2> QED
      BY <1>1, <1>3, <2>1, FiberSideLease
  <1>4. CASE UNCHANGED <<pump, fiber, up, asked, runRows, lease>>
    BY <1>1, <1>4
  <1> QED
    BY <1>2, <1>3, <1>4, OneLoopCases

LEMMA BootsUnnamedCorrect ==
  ASSUME OneProcess
  PROVE  Spec => []BootsUnnamed
  <1>1. Init => BootsUnnamed
    BY NamesAssumption DEF Init, BootsUnnamed
  <1>2. TypeOK /\ StopInv /\ BootsUnnamed /\ [Next]_vars => BootsUnnamed'
    BY BootsUnnamedStep
  <1>3. Spec => [](StopInv /\ Faultless)
    BY StopInvCorrect
  <1> QED
    BY <1>1, <1>2, <1>3, TypeCorrect, PTL DEF Spec

-----------------------------------------------------------------------------
(* The held invariant, step by step.                                         *)

(* What a fiber does leaves the interrupts with the stop that sent them.     *)
LEMMA FiberSideInterrupts ==
  ASSUME OneProcess, TypeOK, StopInv, HeldInv, NEW l \in Loops, NEW t \in Tasks,
         FiberSide(l, t), NEW m \in Loops, NEW u \in Tasks
  PROVE  InterruptMeant(m, u)'
  <1>1. m = l /\ pump' = pump /\ up' = up /\ InterruptMeant(m, u)
    BY FiberSideAlone DEF OneProcess, HeldInv
  <1> SUFFICES ASSUME up[l] = "up", fiber'[l][u].step # "none", fiber'[l][u].interrupted
               PROVE  /\ pump[l].step = "killing" /\ runOf'[pump[l].target] = u
                      /\ fiber'[l][u].step \notin Admitting
                      /\ fiber'[l][u].step \in Carrying => fiber'[l][u].run = pump[l].target
    BY <1>1 DEF InterruptMeant
  <1>2. /\ fiber[l][u].step # "none" /\ fiber[l][u].interrupted
        /\ fiber[l][u].step # "open"
        /\ fiber'[l][u].step \notin Admitting \/ fiber'[l][u].step = fiber[l][u].step
        /\ fiber'[l][u].step \in Carrying =>
             fiber'[l][u].run = fiber[l][u].run /\ fiber[l][u].step \in Carrying
    <2>1. CASE u # t
      BY <1>1, <2>1, FiberSideAlone DEF InterruptMeant, Admitting
    <2>2. CASE u = t
      <3>1. /\ fiber[l][u].interrupted => fiber[l][u].step # "open"
            /\ fiber[l][u].step # "none"
               \/ fiber'[l][u].step = "none" \/ fiber'[l][u] = fiber[l][u]
               \/ ~fiber[l][u].interrupted
        BY <1>1, <2>2, FiberSideGoes
        DEF InterruptMeant, Admitting, Carrying, Past, FiberGoes
      <3>2. FiberGoes(l, u)
        BY <2>2, FiberSideGoes
      <3> QED
        BY <3>1, <3>2 DEF FiberGoes, Admitting, Carrying, Past
    <2> QED
      BY <2>1, <2>2
  <1>3. /\ pump[l].step = "killing" /\ runOf[pump[l].target] = u
        /\ fiber[l][u].step \notin Admitting
        /\ fiber[l][u].step \in Carrying => fiber[l][u].run = pump[l].target
    BY <1>1, <1>2 DEF InterruptMeant
  <1>4. runOf'[pump[l].target] = runOf[pump[l].target]
    <2>1. pump[l].target \in asked
      BY <1>3 DEF StopInv, PumpsSound, StopMeant, Stopping
    <2>2. pump[l].target \in RunIds /\ pump[l].target <= lastRun
      BY <2>1 DEF StopInv, AskedExist
    <2>3. runOf' = runOf \/ runOf' = [runOf EXCEPT ![lastRun + 1] = t]
      BY DEF FiberSide, FiberStep, Plan, Admit, Claim, Open, BeginTurn, Abandon,
             TurnInterrupted, CloseRow, MoveToReview, Collect, Release, TurnEnds,
             SessionInit, AgentFinishes, Heartbeat, Defer, FailClaim, SetupFails,
             LeaseGoesStale, runRows
    <2>4. pump[l].target # lastRun + 1
      BY <2>2 DEF RunIds, TypeOK
    <2> QED
      BY <2>2, <2>3, <2>4 DEF TypeOK
  <1> QED
    BY <1>2, <1>3, <1>4

(* A fiber lets go of its run only by closing its row.                       *)
LEMMA CarriedStep ==
  ASSUME OneProcess, NoFaults, Faultless, TypeOK, StopInv, HeldInv,
         NEW l \in Loops, NEW t \in Tasks, FiberSide(l, t), up[l] = "up",
         NEW r \in RunIds \ asked, Live(r), Live(r)', Carried(l, r)
  PROVE  Carried(l, r)'
  <1>1. PICK u \in Tasks : fiber[l][u].step \in Carrying /\ fiber[l][u].run = r
    BY DEF Carried
  <1>2. CASE u # t
    <2>1. fiber'[l][u] = fiber[l][u]
      BY <1>2, FiberSideAlone
    <2> QED
      BY <1>1, <2>1 DEF Carried
  <1>3. CASE u = t
    <2> DEFINE g == fiber'[l][t]
    <2>1. g = fiber[l][t] \/ (g.run = r /\ g.step \in Carrying)
      <3>1. ~(g.step = "none" /\ (fiber[l][t].interrupted \/ budget["faults"] > 0))
            \/ g = fiber[l][t]
        <4>1. budget["faults"] = 0
          BY DEF Faultless
        <4>2. ASSUME fiber[l][t].interrupted PROVE FALSE
          <5>1. pump[l].step = "killing" /\ r = pump[l].target
            BY <1>1, <1>3, <4>2 DEF HeldInv, InterruptMeant, Carrying
          <5> QED
            BY <5>1 DEF StopInv, PumpsSound, StopMeant, Stopping
        <4> QED
          BY <4>1, <4>2
      <3>2. ~(CloseRow(l, t) /\ fiber[l][t].step = "close" /\ g.step = "move")
        <4>1. ASSUME CloseRow(l, t) PROVE FALSE
          <5>1. budget["faults"] = 0 /\ fiber[l][t].ending \in Endings
            BY FiberOf DEF Faultless, Fiber
          <5>2. Close(r, fiber[l][t].ending)
            BY <1>1, <1>3, <4>1, <5>1 DEF CloseRow, Spend
          <5> QED
            BY <5>1, <5>2 DEF Close, Live, LiveStates, Endings, TurnEndings, TypeOK
        <4> QED
          BY <4>1
      <3>3. FiberGoes(l, t)
        BY FiberSideGoes
      <3> QED
        BY <1>1, <1>3, <3>1, <3>2, <3>3 DEF FiberGoes, Carrying, Past
    <2> QED
      BY <1>1, <1>3, <2>1 DEF Carried
  <1> QED
    BY <1>2, <1>3

LEMMA FiberSideHeld ==
  ASSUME OneProcess, NoFaults, Faultless, TypeOK, StopInv, HeldInv,
         NEW l \in Loops, NEW t \in Tasks, FiberSide(l, t), Next
  PROVE  HeldInv'
  <1>1. pump' = pump /\ up' = up /\ asked' = asked
    BY FiberSideAlone
  <1>2. \A m \in Loops, u \in Tasks : InterruptMeant(m, u)'
    BY FiberSideInterrupts
  <1>3. CASE \A m \in Loops, u \in Tasks : ~Open(m, u)
    <2>1. \A r \in RunIds : Live(r)' => Live(r)
      BY <1>3, LiveOnStep
    <2>2. \A m \in Loops : BootSees(m)'
      BY <1>1, <2>1 DEF HeldInv, BootSees
    <2>3. NoRejections => StopInHand'
      BY <1>1, <2>1 DEF HeldInv, StopInHand, Working, StopHeld, StopInv, AskedExist
    <2>4. NoOrphanRun'
      <3> SUFFICES ASSUME NEW m \in Loops, Working(m), NEW r \in RunIds \ asked, Live(r)'
                   PROVE  Carried(m, r)'
        BY <1>1 DEF NoOrphanRun, Working
      <3>1. m = l
        BY DEF OneProcess
      <3>2. Live(r) /\ Carried(l, r)
        BY <2>1, <3>1 DEF HeldInv, NoOrphanRun
      <3> QED
        BY <3>1, <3>2, CarriedStep DEF Working
    <2> QED
      BY <1>2, <2>2, <2>3, <2>4 DEF HeldInv
  <1>4. ASSUME NEW m \in Loops, NEW u \in Tasks, Open(m, u) PROVE HeldInv'
    <2>1. m = l /\ fiber[l][u].step = "open" /\ ~(pump[l].step \in Booting)
      BY <1>4 DEF OneProcess, Open, At, StopInv, PumpsSound, PumpAlone
    <2>2. \A n \in Loops : BootSees(n)'
      BY <1>1, <2>1 DEF BootSees, Booting, OneProcess
    <2>3. \A r \in RunIds \cap asked : Live(r)' => Live(r)
      <3>1. \A r \in asked : r \in RunIds /\ r # lastRun + 1
        BY DEF StopInv, AskedExist, TypeOK, RunIds
      <3> QED
        BY <1>4, <3>1 DEF Open, Live, runRows, TypeOK
    <2>4. NoRejections => StopInHand'
      BY <1>1, <2>3 DEF HeldInv, StopInHand, Working, StopHeld, StopInv, AskedExist
    <2>5. NoOrphanRun'
      <3> SUFFICES ASSUME Working(l), NEW r \in RunIds \ asked, Live(r)'
                   PROVE  Carried(l, r)'
        BY <1>1 DEF NoOrphanRun, Working, OneProcess
      <3>1. CASE Live(r)
        <4>1. Carried(l, r)
          BY <3>1 DEF HeldInv, NoOrphanRun
        <4> QED
          BY <3>1, <4>1, CarriedStep DEF Working
      <3>2. CASE ~Live(r)
        <4>1. LiveOn(u) = {} /\ r = lastRun + 1
          BY <1>4, <3>2 DEF Open, Live, runRows, TypeOK
        <4>2. fiber'[l][u].step = "opened" /\ fiber'[l][u].run = lastRun + 1
          <5> DEFINE f == [fiber[l][u] EXCEPT !.step = "opened", !.run = lastRun + 1]
          <5>1. f.step = "opened" /\ f.run = lastRun + 1
            BY FiberOf DEF Fiber
          <5>2. fiber' = [fiber EXCEPT ![l][u] = f]
            BY <1>4, <2>1, <4>1 DEF Open, TypeOK
          <5> HIDE DEF f
          <5> QED
            BY <5>1, <5>2 DEF TypeOK
        <4> QED
          BY <4>1, <4>2 DEF Carried, Carrying
      <3> QED
        BY <3>1, <3>2
    <2> QED
      BY <1>2, <2>2, <2>4, <2>5 DEF HeldInv
  <1> QED
    BY <1>3, <1>4

(* A command, a sweep of the column, a fork: nothing is stopped or booted.   *)
LEMMA PumpHeld ==
  ASSUME OneProcess, TypeOK, HeldInv, NEW l \in Loops, LiveKept, asked' = asked, up' = up,
         \A t \in Tasks : \/ fiber'[l][t] = fiber[l][t]
                          \/ fiber[l][t].step = "none" /\ ~fiber'[l][t].interrupted,
         pump[l].step \notin Stopping \cup Booting, pump'[l].step \notin Stopping \cup Booting
  PROVE  HeldInv'
  <1>1. \A m \in Loops : m = l
    BY DEF OneProcess
  <1>2. ASSUME NEW t \in Tasks PROVE InterruptMeant(l, t)'
    BY <1>2 DEF HeldInv, InterruptMeant, Stopping
  <1>3. BootSees(l)'
    BY DEF BootSees, Booting
  <1>4. Working(l)' => Working(l)
    BY DEF Working
  <1>5. NoOrphanRun'
    <2> SUFFICES ASSUME Working(l), NEW r \in RunIds \ asked, Live(r)' PROVE Carried(l, r)'
      BY <1>1, <1>4 DEF NoOrphanRun
    <2>1. Carried(l, r)
      BY DEF HeldInv, NoOrphanRun, LiveKept
    <2> QED
      BY <2>1 DEF Carried, Carrying
  <1>6. NoRejections => StopInHand'
    <2> SUFFICES ASSUME NoRejections, Working(l), NEW r \in asked, Live(r)'
                 PROVE  FALSE
      BY <1>1, <1>4 DEF StopInHand
    <2>1. Live(r)
      BY DEF LiveKept, TypeOK
    <2> QED
      BY <2>1 DEF HeldInv, StopInHand, StopHeld
  <1> QED
    BY <1>1, <1>2, <1>3, <1>5, <1>6 DEF HeldInv

LEMMA ForkCalm ==
  ASSUME TypeOK, NEW l \in Loops, NEW t \in Tasks, NEW trigger, NEW row, NEW isParked,
         Fork(l, t, trigger, row, isParked), NEW u \in Tasks
  PROVE  \/ fiber'[l][u] = fiber[l][u]
         \/ fiber[l][u].step = "none" /\ ~fiber'[l][u].interrupted
  <1> DEFINE f == [NoFiber EXCEPT !.step = "plan", !.row = row,
                                  !.parked = isParked, !.trigger = trigger]
  <1>1. ~f.interrupted
    BY DEF NoFiber
  <1>2. fiber' = fiber \/ (fiber[l][t].step = "none" /\ fiber' = [fiber EXCEPT ![l][t] = f])
    BY DEF Fork
  <1> HIDE DEF f
  <1> QED
    BY <1>1, <1>2 DEF TypeOK

LEMMA PlainPumpHeld ==
  ASSUME OneProcess, TypeOK, Rejectless, HeldInv, NEW l \in Loops,
         \/ Wake(l) \/ DrainDone(l) \/ TakeCommand(l) \/ Rerun(l) \/ StartSession(l)
         \/ ReadColumn(l) \/ ColumnDone(l) \/ Dispatch(l) \/ \E t \in Tasks : ForkNext(l, t)
  PROVE  HeldInv'
  <1>1. pump'[l].step \in {"drain", "column", "dispatch", "fork", "idle", "command"}
    <2>1. ~Stop(l) /\ ~Interrupt(l) /\ ~Killed(l)
      BY DEF Wake, DrainDone, TakeCommand, Rerun, StartSession, ReadColumn, ColumnDone,
             Dispatch, ForkNext, Stop, Interrupt, Killed, CommandIs, PumpIs
    <2> QED
      BY <2>1, PumpStepGoes DEF PumpStep
  <1>2. pump[l].step \in {"drain", "column", "dispatch", "fork", "idle", "command"}
    BY DEF Wake, DrainDone, TakeCommand, Rerun, StartSession, ReadColumn, ColumnDone,
           Dispatch, ForkNext, CommandIs, PumpIs
  <1>3. LiveKept /\ asked' = asked /\ up' = up
    <2>1. runOf' = runOf /\ runState' = runState /\ asked' = asked /\ up' = up
      BY DEF Wake, DrainDone, TakeCommand, Rerun, StartSession, ReadColumn, ColumnDone,
             Dispatch, ForkNext, runRows, history
    <2> QED
      BY <2>1, SameRowsLive
  <1>4. ASSUME NEW u \in Tasks
        PROVE  \/ fiber'[l][u] = fiber[l][u]
               \/ fiber[l][u].step = "none" /\ ~fiber'[l][u].interrupted
    <2>1. CASE Dispatch(l)
      <3>1. pump[l].cmd.task \in Tasks
        BY PumpOf DEF Pump, Command
      <3> QED
        BY <2>1, <3>1, ForkCalm DEF Dispatch
    <2>2. ASSUME NEW t \in Tasks, ForkNext(l, t)
          PROVE  fiber' = fiber \/ Fork(l, t, "status_change", "in_progress", FALSE)
      BY <2>2 DEF ForkNext
    <2>3. CASE \/ Wake(l) \/ DrainDone(l) \/ TakeCommand(l) \/ Rerun(l) \/ StartSession(l)
               \/ ReadColumn(l) \/ ColumnDone(l)
      BY <2>3 DEF Wake, DrainDone, TakeCommand, Rerun, StartSession, ReadColumn, ColumnDone,
                  fiberSide
    <2> QED
      BY <2>1, <2>2, <2>3, ForkCalm
  <1> QED
    BY <1>1, <1>2, <1>3, <1>4, PumpHeld DEF Stopping, Booting

(* The stop: what it finds is in its hand until it has filed it.             *)
LEMMA StopStepHeld ==
  ASSUME OneProcess, TypeOK, StopInv, HeldInv, NEW l \in Loops, Stop(l)
  PROVE  HeldInv'
  <1>1. /\ LiveKept /\ fiber' = fiber /\ up' = up /\ pump[l].step = "command"
        /\ "command" \notin Stopping \cup Booting
    <2>1. /\ runOf' = runOf /\ runState' = runState /\ fiber' = fiber /\ up' = up
          /\ pump[l].step = "command"
      BY DEF Stop, runRows, fiberSide, CommandIs, PumpIs
    <2> QED
      BY <2>1, SameRowsLive DEF Stopping, Booting
  <1>2. CASE PumpReset(l, "drain") /\ asked' = asked
    BY <1>1, <1>2, PumpResetFacts, PumpHeld DEF Stopping, Booting
  <1>3. ASSUME NEW r \in RunIds, asked' = asked \cup {r},
               pump' = [pump EXCEPT ![l] = [@ EXCEPT !.step = "interrupt", !.target = r]]
        PROVE  HeldInv'
    <2>1. \A m \in Loops : m = l
      BY DEF OneProcess
    <2>2. pump'[l].step = "interrupt" /\ pump'[l].target = r /\ "interrupt" \in Stopping
      BY <1>3, PumpOf DEF TypeOK, Pump, Stopping
    <2>3. ASSUME NEW t \in Tasks PROVE InterruptMeant(l, t)'
      BY <1>1 DEF HeldInv, InterruptMeant
    <2>4. BootSees(l)'
      BY <2>2 DEF BootSees
    <2>5. Working(l)' => Working(l)
      BY <1>1 DEF Working
    <2>6. NoOrphanRun'
      <3> SUFFICES ASSUME Working(l), NEW x \in RunIds \ asked, Live(x)' PROVE Carried(l, x)'
        BY <1>3, <2>1, <2>5 DEF NoOrphanRun
      <3>1. Carried(l, x)
        BY <1>1 DEF HeldInv, NoOrphanRun, LiveKept
      <3> QED
        BY <1>1, <3>1 DEF Carried
    <2>7. NoRejections => StopInHand'
      <3> SUFFICES ASSUME NoRejections, Working(l), NEW x \in asked \cup {r}, Live(x)'
                   PROVE  x = r
        BY <1>3, <2>1, <2>2, <2>5 DEF StopInHand, StopHeld
      <3>1. Live(x)
        BY <1>1 DEF LiveKept, TypeOK
      <3> QED
        BY <1>1, <3>1 DEF HeldInv, StopInHand, StopHeld
    <2> QED
      BY <2>1, <2>3, <2>4, <2>6, <2>7 DEF HeldInv
  <1> QED
    BY <1>2, <1>3 DEF Stop, LiveOn

(* The stop goes on with the run it has in hand.                             *)
LEMMA StillStopping ==
  ASSUME OneProcess, TypeOK, HeldInv, NEW l \in Loops, LiveKept, asked' = asked, up' = up,
         \A t \in Tasks : \/ fiber'[l][t] = fiber[l][t]
                          \/ /\ fiber'[l][t].step = fiber[l][t].step
                             /\ fiber'[l][t].run = fiber[l][t].run,
         pump[l].step \in Stopping, pump'[l].step \in Stopping,
         pump'[l].target = pump[l].target
  PROVE  /\ BootSees(l)' /\ NoOrphanRun' /\ (NoRejections => StopInHand')
  <1>1. \A m \in Loops : m = l
    BY DEF OneProcess
  <1>2. BootSees(l)'
    BY DEF BootSees, Stopping
  <1>3. Working(l)' => Working(l)
    BY DEF Working, Stopping, Booting
  <1>4. NoOrphanRun'
    <2> SUFFICES ASSUME Working(l), NEW x \in RunIds \ asked, Live(x)' PROVE Carried(l, x)'
      BY <1>1, <1>3 DEF NoOrphanRun
    <2>1. Carried(l, x)
      BY DEF HeldInv, NoOrphanRun, LiveKept
    <2> QED
      BY <2>1 DEF Carried
  <1>5. NoRejections => StopInHand'
    <2> SUFFICES ASSUME NoRejections, Working(l), NEW x \in asked, Live(x)'
                 PROVE  x = pump[l].target
      BY <1>1, <1>3 DEF StopInHand, StopHeld
    <2>1. Live(x)
      BY DEF LiveKept, TypeOK
    <2> QED
      BY <2>1 DEF HeldInv, StopInHand, StopHeld
  <1> QED
    BY <1>2, <1>4, <1>5

LEMMA InterruptHeld ==
  ASSUME OneProcess, TypeOK, StopInv, HeldInv, NEW l \in Loops, Interrupt(l)
  PROVE  HeldInv'
  <1> DEFINE r == pump[l].target
             t == runOf[r]
  <1>1. /\ LiveKept /\ up' = up /\ asked' = asked /\ runOf' = runOf
        /\ pump[l].step = "interrupt" /\ "interrupt" \in Stopping
        /\ "killing" \in Stopping /\ "file" \in Stopping
    BY SameRowsLive DEF Interrupt, runRows, history, PumpIs, Stopping
  <1>2. r \in RunIds /\ t \in Tasks
    BY <1>1 DEF StopInv, PumpsSound, StopMeant, TypeOK
  <1>3. \A m \in Loops : m = l
    BY DEF OneProcess
  <1>4. \A u \in Tasks :
          up[l] = "up" /\ fiber[l][u].step # "none" => ~fiber[l][u].interrupted
    BY <1>1 DEF HeldInv, InterruptMeant
  <1>5. CASE fiber[l][t].step = "none"
    <2>1. PumpTo(l, "file") /\ fiber' = fiber
      BY <1>5 DEF Interrupt, At
    <2>2. pump'[l].step = "file" /\ pump'[l].target = r
      BY <2>1, PumpToFacts
    <2>3. ASSUME NEW u \in Tasks PROVE InterruptMeant(l, u)'
      BY <1>1, <1>4, <2>1 DEF InterruptMeant
    <2>4. BootSees(l)' /\ NoOrphanRun' /\ (NoRejections => StopInHand')
      BY <1>1, <2>1, <2>2, StillStopping
    <2> QED
      BY <1>3, <2>3, <2>4 DEF HeldInv
  <1>6. CASE fiber[l][t].step # "none"
    <2>1. /\ PumpTo(l, "killing")
          /\ fiber' = [fiber EXCEPT ![l][t] = [@ EXCEPT !.interrupted = TRUE]]
      BY <1>6 DEF Interrupt, At
    <2>2. pump'[l].step = "killing" /\ pump'[l].target = r
      BY <2>1, PumpToFacts
    <2>3. /\ fiber'[l][t].step = fiber[l][t].step /\ fiber'[l][t].run = fiber[l][t].run
          /\ \A u \in Tasks \ {t} : fiber'[l][u] = fiber[l][u]
      <3> DEFINE f == [fiber[l][t] EXCEPT !.interrupted = TRUE]
      <3>1. f.step = fiber[l][t].step /\ f.run = fiber[l][t].run
        BY <1>2, FiberOf DEF Fiber
      <3>2. fiber' = [fiber EXCEPT ![l][t] = f]
        BY <2>1 DEF TypeOK
      <3> HIDE DEF f, t
      <3> QED
        BY <1>2, <3>1, <3>2 DEF TypeOK
    <2>4. /\ fiber[l][t].step \notin Admitting
          /\ fiber[l][t].step \in Carrying => fiber[l][t].run = r
      BY <1>1 DEF StopInv, PumpsSound, StopMeant
    <2>5. ASSUME NEW u \in Tasks PROVE InterruptMeant(l, u)'
      <3>1. CASE u = t
        BY <1>1, <2>2, <2>3, <2>4, <3>1 DEF InterruptMeant
      <3>2. CASE u # t
        BY <1>1, <1>4, <2>3, <3>2 DEF InterruptMeant
      <3> QED
        BY <3>1, <3>2
    <2>6. BootSees(l)' /\ NoOrphanRun' /\ (NoRejections => StopInHand')
      <3> HIDE DEF r, t
      <3>1. \A u \in Tasks : \/ fiber'[l][u] = fiber[l][u]
                             \/ /\ fiber'[l][u].step = fiber[l][u].step
                                /\ fiber'[l][u].run = fiber[l][u].run
        BY <2>3
      <3> QED
        BY <1>1, <2>2, <3>1, StillStopping DEF r
    <2> QED
      BY <1>3, <2>5, <2>6 DEF HeldInv
  <1> QED
    BY <1>5, <1>6

LEMMA KilledHeld ==
  ASSUME OneProcess, TypeOK, StopInv, HeldInv, NEW l \in Loops, Killed(l)
  PROVE  HeldInv'
  <1>1. /\ LiveKept /\ fiber' = fiber /\ up' = up /\ asked' = asked /\ runOf' = runOf
        /\ pump[l].step = "killing" /\ "killing" \in Stopping /\ "file" \in Stopping
        /\ fiber[l][runOf[pump[l].target]].step = "none"
    BY SameRowsLive DEF Killed, runRows, fiberSide, history, PumpIs, At, Stopping
  <1>2. pump'[l].step = "file" /\ pump'[l].target = pump[l].target
    BY PumpToFacts DEF Killed
  <1>3. ASSUME NEW m \in Loops, NEW u \in Tasks PROVE InterruptMeant(m, u)'
    <2>1. m = l
      BY DEF OneProcess
    <2>2. up[l] = "up" /\ fiber[l][u].step # "none" => ~fiber[l][u].interrupted
      BY <1>1 DEF HeldInv, InterruptMeant
    <2> QED
      BY <1>1, <2>1, <2>2 DEF InterruptMeant
  <1>4. BootSees(l)' /\ NoOrphanRun' /\ (NoRejections => StopInHand')
    BY <1>1, <1>2, StillStopping
  <1> QED
    BY <1>3, <1>4 DEF HeldInv, OneProcess

LEMMA FileStopHeld ==
  ASSUME OneProcess, TypeOK, StopInv, HeldInv, NEW l \in Loops, FileStop(l)
  PROVE  HeldInv'
  <1> DEFINE r == pump[l].target
  <1>1. /\ Close(r, "stopped") /\ fiber' = fiber /\ up' = up /\ asked' = asked
        /\ runOf' = runOf /\ pump[l].step = "file" /\ "file" \in Stopping
        /\ PumpReset(l, "drain") /\ "drain" \notin Stopping \cup Booting
    BY DEF FileStop, fiberSide, history, PumpIs, Stopping, Booting
  <1>2. r \in RunIds
    BY <1>1 DEF StopInv, PumpsSound, StopMeant
  <1>3. \A x \in RunIds : Live(x)' <=> Live(x) /\ x # r
    BY <1>1, <1>2, CloseLive DEF Endings
  <1>4. pump'[l].step = "drain"
    BY <1>1, PumpResetFacts
  <1>5. \A m \in Loops : m = l
    BY DEF OneProcess
  <1>6. ASSUME NEW u \in Tasks PROVE InterruptMeant(l, u)'
    BY <1>1 DEF HeldInv, InterruptMeant
  <1>7. BootSees(l)' /\ (Working(l)' => Working(l))
    BY <1>1, <1>4 DEF BootSees, Working, Stopping, Booting
  <1>8. NoOrphanRun'
    <2> SUFFICES ASSUME Working(l), NEW x \in RunIds \ asked, Live(x)' PROVE Carried(l, x)'
      BY <1>1, <1>5, <1>7 DEF NoOrphanRun
    <2>1. Carried(l, x)
      BY <1>3 DEF HeldInv, NoOrphanRun
    <2> QED
      BY <1>1, <2>1 DEF Carried
  <1>9. NoRejections => StopInHand'
    <2> SUFFICES ASSUME NoRejections, Working(l), NEW x \in asked, Live(x)' PROVE FALSE
      BY <1>1, <1>5, <1>7 DEF StopInHand
    <2>1. Live(x) /\ x # r
      BY <1>3 DEF TypeOK
    <2> QED
      BY <2>1 DEF HeldInv, StopInHand, StopHeld
  <1> QED
    BY <1>5, <1>6, <1>7, <1>8, <1>9 DEF HeldInv

LEMMA CommandFailsHeld ==
  ASSUME OneProcess, TypeOK, Rejectless, HeldInv, NEW l \in Loops, CommandFails(l)
  PROVE  HeldInv'
  <1>1. /\ runOf' = runOf /\ runState' = runState /\ fiber' = fiber /\ up' = up
        /\ asked' = asked /\ PumpReset(l, "drain") /\ ~NoRejections
        /\ pump[l].step \in {"command", "file", "dispatch"}
    BY DEF CommandFails, runRows, fiberSide, history, Rejectless, Spend
  <1>2. LiveKept /\ pump'[l].step = "drain" /\ pump[l].step \notin Booting
    BY <1>1, SameRowsLive, PumpResetFacts DEF Booting
  <1>3. ASSUME NEW m \in Loops, NEW u \in Tasks PROVE InterruptMeant(m, u)'
    <2>1. m = l
      BY DEF OneProcess
    <2> QED
      BY <1>1, <2>1 DEF HeldInv, InterruptMeant
  <1>4. BootSees(l)'
    BY <1>2 DEF BootSees
  <1>5. NoOrphanRun'
    <2> SUFFICES ASSUME Working(l), NEW x \in RunIds \ asked, Live(x)' PROVE Carried(l, x)'
      BY <1>1, <1>2 DEF OneProcess, NoOrphanRun, Working
    <2>1. Carried(l, x)
      BY <1>2 DEF HeldInv, NoOrphanRun, LiveKept
    <2> QED
      BY <1>1, <2>1 DEF Carried
  <1> QED
    BY <1>1, <1>3, <1>4, <1>5 DEF HeldInv, OneProcess, NoRejections

(* A process that is down, going, or booting carries nothing it must answer for.*)
LEMMA NotWorkingHeld ==
  ASSUME OneProcess, NEW l \in Loops, ~Working(l)', BootSees(l)',
         \A t \in Tasks : up'[l] = "up" => fiber'[l][t].step = "none"
  PROVE  HeldInv'
  <1>1. \A m \in Loops : m = l
    BY DEF OneProcess
  <1>2. NoOrphanRun' /\ StopInHand'
    BY <1>1 DEF NoOrphanRun, StopInHand
  <1>3. ASSUME NEW t \in Tasks PROVE InterruptMeant(l, t)'
    BY DEF InterruptMeant
  <1> QED
    BY <1>1, <1>2, <1>3 DEF HeldInv

LEMMA GoingHeld ==
  ASSUME OneProcess, TypeOK, NEW l \in Loops, Crash(l) \/ Shutdown(l) \/ Stopped(l)
  PROVE  HeldInv'
  <1>1. CASE LoseMemory(l)
    <2>1. up'[l] = "down" /\ pump'[l].step = "off"
      BY <1>1, PumpResetFacts DEF LoseMemory, TypeOK
    <2> QED
      BY <2>1, NotWorkingHeld DEF Working, BootSees
  <1>2. CASE Shutdown(l)
    <2>1. up'[l] = "stopping" /\ pump'[l].step = "off"
      BY <1>2, PumpResetFacts DEF Shutdown, TypeOK
    <2> QED
      BY <2>1, NotWorkingHeld DEF Working, BootSees
  <1> QED
    BY <1>1, <1>2 DEF Crash, Stopped

LEMMA BootHeld ==
  ASSUME OneProcess, TypeOK, BootsUnnamed, StopInv, HeldInv, NEW l \in Loops,
         \/ Boot(l) \/ BootLeases(l) \/ BootList(l) \/ BootClosed(l)
         \/ \E r \in RunIds : BootClose(l, r) \/ BootFinish(l, r)
  PROVE  HeldInv'
  <1>1. fiber' = fiber
    BY DEF Boot, BootLeases, BootList, BootClosed, BootClose, BootFinish, fiberSide
  <1>2. \A t \in Tasks : fiber[l][t].step = "none"
    <2>1. pump[l].step \in Booting \/ up[l] = "down"
      BY DEF Boot, BootLeases, BootList, BootClosed, BootClose, BootFinish, PumpIs, Booting
    <2> QED
      BY <2>1 DEF StopInv, PumpsSound, PumpAlone
  <1>3. pump'[l].step \in Booting /\ BootSees(l)'
    <2>1. CASE Boot(l)
      <3>1. pump'[l].step = "reclaim"
        BY <2>1, PumpResetFacts DEF Boot
      <3> QED
        BY <3>1 DEF Booting, BootSees
    <2>2. CASE BootLeases(l)
      <3> DEFINE guarded == {t \in Tasks : lease[t] # NoLoop}
                 p == [pump[l] EXCEPT !.step = "list", !.guarded = guarded]
      <3>1. guarded = {}
        <4>1. \A t \in Tasks : lease[t] # l
          BY <2>2 DEF BootLeases, PumpIs, Booting, BootsUnnamed
        <4> QED
          BY <4>1 DEF OneProcess, TypeOK
      <3>2. p.step = "list" /\ p.guarded = guarded
        BY PumpOf DEF Pump
      <3>3. pump' = [pump EXCEPT ![l] = p]
        BY <2>2 DEF BootLeases, TypeOK
      <3> HIDE DEF p, guarded
      <3>4. pump'[l].step = "list" /\ pump'[l].guarded = {}
        BY <3>1, <3>2, <3>3 DEF TypeOK
      <3> QED
        BY <3>4 DEF Booting, BootSees
    <2>3. CASE BootList(l)
      <3> DEFINE lost == {r \in RunIds : Live(r) /\ runOf[r] \notin pump[l].guarded}
                 p == [pump[l] EXCEPT !.step = "lose", !.lost = lost]
      <3>1. \A r \in RunIds : Live(r) => r \in lost
        BY <2>3 DEF HeldInv, BootSees, BootList, PumpIs
      <3>2. p.step = "lose" /\ p.lost = lost
        BY PumpOf DEF Pump
      <3>3. pump' = [pump EXCEPT ![l] = p] /\ runState' = runState
        BY <2>3 DEF BootList, TypeOK, runRows
      <3> HIDE DEF p, lost
      <3>4. pump'[l].step = "lose" /\ pump'[l].lost = lost
        BY <3>2, <3>3 DEF TypeOK
      <3> QED
        BY <3>1, <3>3, <3>4 DEF Booting, BootSees, Live
    <2>4. ASSUME NEW r \in RunIds, BootClose(l, r)
          PROVE  pump'[l].step \in Booting /\ BootSees(l)'
      <3> DEFINE finish == pump[l].finish \cup {x \in {r} : Live(x)}
                 lost == pump[l].lost \ {r}
                 p == [pump[l] EXCEPT !.lost = lost, !.finish = finish]
      <3>1. pump[l].step = "lose" /\ Close(r, "lost")
        BY <2>4 DEF BootClose, PumpIs
      <3>2. p.step = "lose" /\ p.lost = lost
        BY <3>1, PumpOf DEF Pump
      <3>3. pump' = [pump EXCEPT ![l] = p]
        BY <2>4 DEF BootClose, TypeOK
      <3>4. \A x \in RunIds : Live(x)' => x \in lost
        <4>1. \A x \in RunIds : Live(x)' <=> Live(x) /\ x # r
          <5>1. "lost" \in Endings
            BY DEF Endings, TurnEndings
          <5>2. runOf' = runOf
            BY <2>4 DEF BootClose
          <5> QED
            BY <3>1, <5>1, <5>2, CloseLive
        <4>2. \A x \in RunIds : Live(x) => x \in pump[l].lost
          BY <3>1 DEF HeldInv, BootSees
        <4>3. ASSUME NEW x \in RunIds, Live(x)' PROVE x \in pump[l].lost \ {r}
          BY <4>1, <4>2, <4>3
        <4> QED
          BY <4>3
      <3> HIDE DEF p, lost
      <3>5. pump'[l].step = "lose" /\ pump'[l].lost = lost
        BY <3>2, <3>3 DEF TypeOK
      <3> QED
        BY <3>4, <3>5 DEF Booting, BootSees
    <2>5. CASE BootClosed(l)
      <3>1. pump'[l].step = "finish"
        BY <2>5, PumpToFacts DEF BootClosed
      <3>2. \A r \in RunIds : ~Live(r)
        BY <2>5 DEF BootClosed, PumpIs, HeldInv, BootSees
      <3>3. runState' = runState
        BY <2>5 DEF BootClosed, runRows
      <3> QED
        BY <3>1, <3>2, <3>3 DEF Booting, BootSees, Live
    <2>6. ASSUME NEW r \in RunIds, BootFinish(l, r)
          PROVE  pump'[l].step \in Booting /\ BootSees(l)'
      <3>1. pump[l].step = "finish" /\ runState' = runState
        BY <2>6 DEF BootFinish, PumpIs, runRows
      <3>2. pump'[l].step = "finish"
        BY <2>6, <3>1, PumpOf DEF BootFinish, TypeOK, Pump
      <3> QED
        BY <3>1, <3>2 DEF HeldInv, Booting, BootSees, Live
    <2> QED
      BY <2>1, <2>2, <2>3, <2>4, <2>5, <2>6
  <1> QED
    BY <1>1, <1>2, <1>3, NotWorkingHeld DEF Working

(* A boot that comes to its end leaves no live row.                          *)
LEMMA BootFinishedHeld ==
  ASSUME OneProcess, TypeOK, StopInv, HeldInv, NEW l \in Loops, BootFinished(l)
  PROVE  HeldInv'
  <1>1. /\ fiber' = fiber /\ runState' = runState /\ pump[l].step = "finish"
        /\ PumpReset(l, "idle")
    BY DEF BootFinished, PumpIs, fiberSide, runRows
  <1>2. pump'[l].step = "idle" /\ \A r \in RunIds : ~Live(r)'
    BY <1>1, PumpResetFacts DEF HeldInv, BootSees, Live
  <1>3. \A t \in Tasks : fiber[l][t].step = "none"
    BY <1>1 DEF StopInv, PumpsSound, PumpAlone, Booting
  <1>4. \A m \in Loops : m = l
    BY DEF OneProcess
  <1>5. asked' \subseteq RunIds
    BY DEF BootFinished, history, TypeOK
  <1>6. NoOrphanRun' /\ StopInHand'
    BY <1>2, <1>5 DEF NoOrphanRun, StopInHand
  <1>7. ASSUME NEW t \in Tasks PROVE InterruptMeant(l, t)'
    BY <1>1, <1>3 DEF InterruptMeant
  <1>8. BootSees(l)'
    BY <1>2 DEF BootSees
  <1> QED
    BY <1>4, <1>6, <1>7, <1>8 DEF HeldInv

LEMMA LoopSideHeld ==
  ASSUME OneProcess, NoFaults, Faultless, Rejectless, TypeOK, BootsUnnamed, StopInv, HeldInv,
         NEW l \in Loops, LoopSide(l)
  PROVE  HeldInv'
  <1>1. CASE PumpStep(l)
    BY <1>1, PlainPumpHeld, StopStepHeld, InterruptHeld, KilledHeld, FileStopHeld DEF PumpStep
  <1>2. CASE BootStep(l) \/ Boot(l)
    BY <1>2, BootHeld, BootFinishedHeld DEF BootStep
  <1>3. CASE Stopped(l) \/ Crash(l) \/ Shutdown(l)
    BY <1>3, GoingHeld
  <1>4. CASE CommandFails(l)
    BY <1>4, CommandFailsHeld
  <1>5. CASE BootCloseFails(l)
    BY <1>5 DEF BootCloseFails, Faultless, Spend
  <1> QED
    BY <1>1, <1>2, <1>3, <1>4, <1>5 DEF LoopSide

LEMMA HeldStep ==
  ASSUME OneProcess, NoFaults, Faultless, Rejectless, TypeOK, BootsUnnamed, StopInv, HeldInv,
         [Next]_vars
  PROVE  HeldInv'
  <1>1. ASSUME NEW l \in Loops PROVE HeldInv'
    <2>1. CASE LoopSide(l)
      BY <2>1, LoopSideHeld
    <2>2. CASE UNCHANGED <<pump, fiber, up, asked, runRows, lease>>
      <3>1. /\ pump' = pump /\ fiber' = fiber /\ up' = up /\ asked' = asked
            /\ runOf' = runOf /\ runState' = runState
        BY <2>2 DEF runRows
      <3> QED
        BY <3>1 DEF HeldInv, InterruptMeant, BootSees, NoOrphanRun, StopInHand, Working,
                    Carried, StopHeld, Live
    <2>3. ASSUME NEW t \in Tasks, FiberSide(l, t), ~UNCHANGED vars PROVE HeldInv'
      BY <2>3, FiberSideHeld
    <2>4. CASE UNCHANGED vars
      <3>1. UNCHANGED <<pump, fiber, up, asked, runRows, lease>>
        BY <2>4 DEF vars, runRows
      <3> QED
        BY <2>2, <3>1
    <2> QED
      BY <2>1, <2>2, <2>3, <2>4, OneLoopCases
  <1>2. CASE Loops = {}
    BY <1>2 DEF HeldInv, NoOrphanRun, StopInHand
  <1> QED
    BY <1>1, <1>2

LEMMA HeldInvCorrect ==
  ASSUME OneProcess, NoFaults
  PROVE  Spec => [](HeldInv /\ StopInv)
  <1>1. Spec => [](StopInv /\ Faultless)
    BY StopInvCorrect
  <1>2. Spec => []Rejectless
    BY HeldInit, RejectlessStep, TypeCorrect, PTL DEF Spec
  <1>3. TypeOK /\ BootsUnnamed /\ StopInv /\ Faultless /\ Rejectless /\ HeldInv /\ [Next]_vars
          => HeldInv'
    BY HeldStep
  <1>4. Spec => []BootsUnnamed
    BY BootsUnnamedCorrect
  <1> QED
    BY <1>1, <1>2, <1>3, <1>4, HeldInit, TypeCorrect, PTL DEF Spec

(* With one loop process whose writes do not fail, a live run that nobody has*)
(* asked to stop is carried by a fiber that will close its row, from the end *)
(* of each boot to the next shutdown or crash: no crash, sweep, interrupt or *)
(* move of a card ever leaves a row live that nobody works on.               *)
THEOREM NoOrphanRunCorrect ==
  ASSUME OneProcess, NoFaults
  PROVE  Spec => []NoOrphanRun
  BY HeldInvCorrect, PTL DEF HeldInv

(* When no command's handler fails either, a run that was asked to stop and  *)
(* is still live is the one the pump is stopping at this moment: the stop    *)
(* goes back to the queue only after it has filed the row.                   *)
THEOREM StopInHandCorrect ==
  ASSUME OneProcess, NoFaults, NoRejections
  PROVE  Spec => []StopInHand
  BY HeldInvCorrect, PTL DEF HeldInv

(* A stop interrupts nobody else: while the process works, an interrupted    *)
(* fiber is the one of the card whose run is being stopped, and if it still  *)
(* has a row to close it is the row the stop was for.                        *)
InterruptsMeant ==
  \A l \in Loops, t \in Tasks :
    up[l] = "up" /\ fiber[l][t].step # "none" /\ fiber[l][t].interrupted =>
      /\ pump[l].step = "killing" /\ runOf[pump[l].target] = t
      /\ fiber[l][t].step \in Carrying => fiber[l][t].run = pump[l].target

THEOREM InterruptsMeantCorrect ==
  ASSUME OneProcess, NoFaults
  PROVE  Spec => []InterruptsMeant
  <1>1. HeldInv => InterruptsMeant
    BY DEF HeldInv, InterruptMeant, InterruptsMeant
  <1> QED
    BY <1>1, HeldInvCorrect, PTL

-----------------------------------------------------------------------------
(* A stop that waits has somebody to wait for, with any number of processes. *)

(* The pump waits at killing only for a fiber that was told to go, or that   *)
(* has gone: nothing forks a fiber of the card while the stop waits for it.  *)
KillReaches ==
  \A l \in Loops :
    pump[l].step = "killing" =>
      LET f == fiber[l][runOf[pump[l].target]] IN f.step = "none" \/ f.interrupted

(* What a stop is aimed at exists, so nobody gives its row to another card.  *)
TargetExists ==
  \A l \in Loops :
    pump[l].step \in Stopping => pump[l].target \in RunIds /\ pump[l].target <= lastRun

KillInv == TargetExists /\ KillReaches

LEMMA KillInit == Init => KillInv
  BY DEF Init, KillInv, TargetExists, KillReaches, Stopping, PumpAt

(* Whose pump and fibers a step of one process changes.                      *)
LEMMA LoopSideAlone ==
  ASSUME TypeOK, NEW m \in Loops, LoopSide(m), NEW l \in Loops, l # m
  PROVE  pump'[l] = pump[l] /\ fiber'[l] = fiber[l]
  <1>1. \E p : pump' = [pump EXCEPT ![m] = p]
    <2>1. CASE PumpStep(m)
      BY <2>1
      DEF PumpStep, Wake, DrainDone, TakeCommand, Stop, Interrupt, Killed, FileStop, Rerun,
          StartSession, Dispatch, ReadColumn, ColumnDone, ForkNext, Accept, Reject, PumpTo,
          PumpReset
    <2>2. CASE BootStep(m)
      BY <2>2
      DEF BootStep, BootLeases, BootList, BootClosed, BootFinished, BootClose, BootFinish,
          PumpTo, PumpReset
    <2>3. CASE Boot(m) \/ Stopped(m) \/ Crash(m) \/ Shutdown(m) \/ CommandFails(m)
               \/ BootCloseFails(m)
      BY <2>3
      DEF Boot, Stopped, Crash, Shutdown, CommandFails, BootCloseFails, LoseMemory, PumpReset
    <2> QED
      BY <2>1, <2>2, <2>3 DEF LoopSide
  <1>2. fiber' = fiber \/ \E f : fiber' = [fiber EXCEPT ![m] = f]
    <2>1. CASE PumpStep(m) /\ ~(Interrupt(m) \/ Dispatch(m) \/ \E t \in Tasks : ForkNext(m, t))
      BY <2>1
      DEF PumpStep, Wake, DrainDone, TakeCommand, Stop, Killed, FileStop, Rerun,
          StartSession, ReadColumn, ColumnDone, fiberSide
    <2>2. CASE Interrupt(m)
      BY <2>2 DEF Interrupt, TypeOK
    <2>3. CASE Dispatch(m) \/ \E t \in Tasks : ForkNext(m, t)
      BY <2>3 DEF Dispatch, ForkNext, Fork, TypeOK
    <2>4. CASE BootStep(m) \/ Boot(m) \/ CommandFails(m) \/ BootCloseFails(m)
      BY <2>4
      DEF BootStep, BootLeases, BootList, BootClosed, BootFinished, BootClose, BootFinish,
          Boot, CommandFails, BootCloseFails, fiberSide
    <2>5. CASE Stopped(m) \/ Crash(m) \/ Shutdown(m)
      BY <2>5 DEF Stopped, Crash, Shutdown, LoseMemory
    <2> QED
      BY <2>1, <2>2, <2>3, <2>4, <2>5 DEF LoopSide
  <1> QED
    BY <1>1, <1>2 DEF TypeOK

(* A step is one process's, one fiber's, or somebody's who has neither.      *)
LEMMA StepSides ==
  ASSUME [Next]_vars
  PROVE  \/ \E m \in Loops : LoopSide(m)
         \/ \E m \in Loops, t \in Tasks : FiberSide(m, t)
         \/ pump' = pump /\ fiber' = fiber
  <1>1. CASE UNCHANGED vars
    BY <1>1 DEF vars
  <1>2. CASE (\E t \in Tasks : ParkExpires(t)) \/ Person
    BY <1>2 DEF ParkExpires, Person, CommitMove, RequestStop, OpenMove, Press, fiberSide
  <1> QED
    BY <1>1, <1>2 DEF Next, LoopSide, FiberSide, Trouble

(* A fiber that is gone takes no step; one that was told to go stays told.   *)
LEMMA GoneStaysGone ==
  ASSUME TypeOK, NEW l \in Loops, NEW t \in Tasks, FiberSide(l, t),
         fiber[l][t].step = "none" \/ fiber[l][t].interrupted
  PROVE  fiber'[l][t].step = "none" \/ fiber'[l][t].interrupted
  <1>1. CASE fiber[l][t].step = "none"
    <2>1. \/ SessionInit(l, t) \/ AgentFinishes(l, t) \/ Heartbeat(l, t) \/ LeaseGoesStale(l, t)
      BY <1>1
      DEF FiberSide, FiberStep, Plan, Admit, Claim, Open, BeginTurn, Abandon,
          TurnInterrupted, CloseRow, MoveToReview, Collect, Release, TurnEnds, Defer,
          FailClaim, SetupFails, At
    <2> QED
      BY <1>1, <2>1 DEF SessionInit, AgentFinishes, Heartbeat, LeaseGoesStale, fiberSide
  <1>2. CASE fiber[l][t].interrupted
    BY <1>2, FiberSideGoes DEF FiberGoes
  <1> QED
    BY <1>1, <1>2

LEMMA KillLoopSide ==
  ASSUME TypeOK, RowInv, KillInv, NEW l \in Loops, LoopSide(l),
         pump'[l].step \in Stopping,
         \A r \in RunIds : r <= lastRun => runOf'[r] = runOf[r]
  PROVE  /\ pump'[l].target \in RunIds /\ pump'[l].target <= lastRun
         /\ pump'[l].step = "killing" =>
              fiber'[l][runOf'[pump'[l].target]].interrupted
  <1>0. pump[l] \in Pump
    BY DEF TypeOK
  <1>1. Stop(l) \/ Interrupt(l) \/ Killed(l)
    <2>1. CASE PumpStep(l)
      BY <2>1, PumpStepGoes DEF Stopping
    <2>2. CASE \/ Boot(l) \/ Stopped(l) \/ Crash(l) \/ Shutdown(l) \/ CommandFails(l)
               \/ BootFinished(l) \/ BootCloseFails(l)
      <3>1. pump'[l].step \in {"reclaim", "off", "drain", "idle"}
        BY <2>2, PumpResetFacts
        DEF Boot, Stopped, Crash, Shutdown, CommandFails, BootFinished, BootCloseFails,
            LoseMemory
      <3> QED
        BY <3>1 DEF Stopping
    <2>3. CASE BootStep(l) /\ ~BootFinished(l)
      <3>1. pump'[l].step \in {"list", "lose", "finish"}
        BY <1>0, <2>3, BootLeasesFacts, BootListFacts, BootCloseFacts, PumpToFacts
        DEF BootStep, BootClosed, BootFinish, PumpIs, TypeOK, Pump
      <3> QED
        BY <3>1 DEF Stopping
    <2> QED
      BY <2>1, <2>2, <2>3 DEF LoopSide
  <1>2. CASE Stop(l)
    <2>1. ~PumpReset(l, "drain")
      BY PumpResetFacts DEF Stopping
    <2>2. PICK r \in RunIds :
            /\ Live(r)
            /\ pump' = [pump EXCEPT ![l] = [@ EXCEPT !.step = "interrupt", !.target = r]]
      BY <1>2, <2>1 DEF Stop, LiveOn
    <2>3. pump'[l].step = "interrupt" /\ pump'[l].target = r
      BY <1>0, <2>2 DEF TypeOK, Pump
    <2>4. r <= lastRun
      <3>1. runState[r] # "absent"
        BY <2>2 DEF Live, LiveStates
      <3>2. ~(r > lastRun)
        BY <3>1 DEF RowInv, RowsInOrder
      <3> QED
        BY <3>2 DEF RunIds, TypeOK
    <2> QED
      BY <2>3, <2>4
  <1>3. CASE Interrupt(l) \/ Killed(l)
    <2>1. /\ pump[l].step \in Stopping
          /\ pump'[l].target = pump[l].target /\ pump'[l].step \in {"file", "killing"}
      BY <1>3, PumpToFacts DEF Interrupt, Killed, PumpIs, Stopping
    <2>2. pump'[l].target \in RunIds /\ pump'[l].target <= lastRun
      BY <2>1 DEF KillInv, TargetExists
    <2>3. ASSUME pump'[l].step = "killing"
          PROVE  fiber'[l][runOf'[pump'[l].target]].interrupted
      <3> DEFINE t == runOf[pump[l].target]
      <3>1. t \in Tasks /\ runOf'[pump'[l].target] = t
        BY <2>1, <2>2 DEF TypeOK
      <3>2. Interrupt(l) /\ ~At(l, t, "none")
        BY <1>3, <2>3, PumpToFacts DEF Interrupt, Killed
      <3>3. fiber' = [fiber EXCEPT ![l][t] = [@ EXCEPT !.interrupted = TRUE]]
        BY <3>2 DEF Interrupt
      <3> DEFINE f == [fiber[l][t] EXCEPT !.interrupted = TRUE]
      <3>4. f.interrupted
        BY <3>1, FiberOf DEF Fiber
      <3>5. fiber' = [fiber EXCEPT ![l][t] = f]
        BY <3>3 DEF TypeOK
      <3> HIDE DEF f, t
      <3>6. fiber'[l][t] = f
        BY <3>1, <3>5 DEF TypeOK
      <3> QED
        BY <3>1, <3>4, <3>6
    <2> QED
      BY <2>2, <2>3
  <1> QED
    BY <1>1, <1>2, <1>3

LEMMA KillStep == TypeOK /\ RowInv /\ KillInv /\ [Next]_vars => KillInv'
  <1> SUFFICES ASSUME TypeOK, RowInv, KillInv, [Next]_vars, NEW l \in Loops,
                      pump'[l].step \in Stopping
               PROVE  /\ pump'[l].target \in RunIds /\ pump'[l].target <= lastRun'
                      /\ pump'[l].step = "killing" =>
                           LET f == fiber'[l][runOf'[pump'[l].target]] IN
                           f.step = "none" \/ f.interrupted
    BY DEF KillInv, TargetExists, KillReaches, Stopping
  <1>1. /\ lastRun' \in {lastRun, lastRun + 1} /\ lastRun \in Nat
        /\ \A r \in RunIds : r <= lastRun => runOf'[r] = runOf[r]
    BY NextOnRows, LedgerKeepsOwners, BoundsAssumption DEF TypeOK
  <1>2. \A r \in RunIds : r <= lastRun => r <= lastRun'
    BY <1>1 DEF RunIds
  <1>3. CASE LoopSide(l)
    BY <1>1, <1>2, <1>3, KillLoopSide
  <1>4. ASSUME pump'[l] = pump[l],
               \A t \in Tasks :
                 fiber[l][t].step = "none" \/ fiber[l][t].interrupted
                   => fiber'[l][t].step = "none" \/ fiber'[l][t].interrupted
        PROVE  /\ pump'[l].target \in RunIds /\ pump'[l].target <= lastRun'
               /\ pump'[l].step = "killing" =>
                    LET f == fiber'[l][runOf'[pump'[l].target]] IN
                    f.step = "none" \/ f.interrupted
    <2>1. pump[l].target \in RunIds /\ pump[l].target <= lastRun
      BY <1>4 DEF KillInv, TargetExists
    <2>2. /\ runOf'[pump[l].target] = runOf[pump[l].target]
          /\ runOf[pump[l].target] \in Tasks
      BY <1>1, <2>1 DEF TypeOK
    <2> QED
      BY <1>2, <1>4, <2>1, <2>2 DEF KillInv, KillReaches
  <1>5. ASSUME NEW m \in Loops, LoopSide(m), m # l
        PROVE  pump'[l] = pump[l] /\ fiber'[l] = fiber[l]
    BY <1>5, LoopSideAlone
  <1>6. ASSUME NEW m \in Loops, NEW u \in Tasks, FiberSide(m, u), NEW t \in Tasks,
               fiber[l][t].step = "none" \/ fiber[l][t].interrupted
        PROVE  fiber'[l][t].step = "none" \/ fiber'[l][t].interrupted
    <2>1. CASE m = l /\ u = t
      BY <1>6, <2>1, GoneStaysGone
    <2>2. CASE ~(m = l /\ u = t)
      <3>1. fiber'[l][t] = fiber[l][t]
        BY <1>6, <2>2, FiberSideAlone
      <3> QED
        BY <1>6, <3>1
    <2> QED
      BY <2>1, <2>2
  <1>7. ASSUME NEW m \in Loops, NEW u \in Tasks, FiberSide(m, u)
        PROVE  pump'[l] = pump[l]
    BY <1>7, FiberSideAlone
  <1> QED
    BY <1>3, <1>4, <1>5, <1>6, <1>7, StepSides

(* Whoever stops a run waits only for a fiber that has gone or was told to   *)
(* go, so every step that fiber can still take is one of its way out; with   *)
(* any number of processes, crashes, shutdowns and failed writes.            *)
THEOREM KillReachesCorrect == Spec => []KillReaches
  <1>1. KillInv => KillReaches
    BY DEF KillInv
  <1> QED
    BY <1>1, KillInit, KillStep, TypeCorrect, RowInvCorrect, PTL DEF Spec
=============================================================================
