------------------------------ MODULE TaskLoop ------------------------------
(***************************************************************************)
(* The dispatch loop of packages/orchestrator/src/runtime.ts over the rows *)
(* of packages/db: worker runs on the tasks of one workspace, the run      *)
(* commands, the pump that sweeps, the fiber each run is, the boot         *)
(* reconcile, and the person whose moves and buttons race all of it.       *)
(*                                                                         *)
(* One or more loop processes share the database and the lease directory.  *)
(* Each database transaction is one step; everything a process read before *)
(* an await is kept in its own state (pump, fiber, mover) and used later.  *)
(* Sessions, chat turns, the retry ladder's arithmetic and the lease file  *)
(* protocol are modules of their own.                                      *)
(***************************************************************************)
EXTENDS Naturals, Sequences, FiniteSets

CONSTANTS
  Tasks,      \* the cards of the workspace
  Loops,      \* the loop processes that may run against one database
  NoLoop,     \* "no live lease": the file is absent, or nobody alive stands behind it
  Targets,    \* the columns a person moves cards to
  Slots,      \* maxConcurrency: permits of the work lane of one process
  MaxRuns,    \* bound on the run rows ever created
  Budgets     \* how often each disturbance may happen: one choice per behaviour

Statuses == {"ideas", "backlog", "in_progress", "review", "done"}

LiveStates  == {"queued", "running"}
TurnEndings == {"done", "errored", "timeout", "lost"}
Endings     == TurnEndings \cup {"interrupted", "stopped"}
RunStates   == LiveStates \cup Endings \cup {"absent"}

RunIds == 1..MaxRuns
NoRun  == 0

(* What the environment may do only so often in a checked instance: moves of *)
(* cards, buttons pressed, crashes, orderly shutdowns, failed writes or      *)
(* reads, those of a command apart, quota deferrals, leases going stale      *)
(* under a living holder. Lease files left behind are not counted: none are,  *)
(* or any may be.                                                            *)
Disturbances ==
  {"moves", "buttons", "crashes", "shutdowns", "faults", "rejections",
   "deferrals", "stalls", "leftovers"}

ASSUME BoundsAssumption ==
  /\ MaxRuns \in Nat
  /\ Slots \in Nat \ {0}
  /\ Budgets \subseteq [Disturbances -> Nat]
ASSUME NamesAssumption ==
  /\ NoLoop \notin Loops
  /\ Targets \subseteq Statuses
  /\ Tasks # {}
ASSUME TasksAssumption == IsFiniteSet(Tasks)

VARIABLES
  status,     \* task.status
  parked,     \* task.parkedUntil lies in the future
  runOf,      \* run.taskId
  runState,   \* run.status and run.outcome, which STATUS_OF_OUTCOME ties together
  lastRun,    \* how many run rows exist; ids grow with createdAt
  queue,      \* the pending run_command rows, oldest first
  lease,      \* which living process the task's lease file names
  up,         \* each process: down, up (booting included), stopping
  pump,       \* the one fiber of each process that sweeps, and boot before it
  fiber,      \* FiberMap "running" of each process: the run fiber of each task
  note,       \* stopNotes of each process
  mover,      \* the gateway request that is moving a card
  asked,      \* history: the runs a stop command found live and acted on
  wanted,     \* history: since its last run was created, a person put the card
              \* in the column or a rerun or start_session was acted on
  budget      \* disturbances that may still happen

taskRows == <<status, parked>>
runRows  == <<runOf, runState, lastRun>>
history  == <<asked, wanted>>
fiberSide == <<fiber, note, lease>>
vars == <<status, parked, runOf, runState, lastRun, queue, lease, up, pump,
          fiber, note, mover, asked, wanted, budget>>

-----------------------------------------------------------------------------
(* Types                                                                     *)

CommandKinds == {"stop", "rerun", "start_session"}
Command == [kind : CommandKinds, task : Tasks, run : RunIds \cup {NoRun}]

FiberSteps == {"none", "plan", "quota", "claim", "open", "opened", "turn",
               "close", "move", "collect", "release"}

(* row and parked are the task row in hand, as old as the read it came from. *)
Fiber == [step : FiberSteps, run : RunIds \cup {NoRun}, row : Statuses,
          parked : BOOLEAN, trigger : CommandKinds \cup {"status_change"},
          ending : Endings, moved : BOOLEAN, interrupted : BOOLEAN]

PumpSteps == {"off", "reclaim", "list", "lose", "finish", "idle", "drain",
              "command", "interrupt", "killing", "file", "dispatch", "column",
              "fork"}

(* What a sweep or the boot reconcile has read and not yet acted on: the     *)
(* column and the slots left, the claimed command and the run it targets, the*)
(* guarded subjects, the live rows to close, the closed rows to finish.      *)
Pump == [step : PumpSteps, column : SUBSET Tasks, left : Nat,
         cmd : Command, target : RunIds \cup {NoRun},
         guarded : SUBSET Tasks, lost : SUBSET RunIds, finish : SUBSET RunIds]

Mover == [step : {"idle", "read", "moved"}, task : Tasks, from : Statuses,
          to : Statuses, live : RunIds \cup {NoRun}]

TypeOK ==
  /\ status \in [Tasks -> Statuses]
  /\ parked \in [Tasks -> BOOLEAN]
  /\ runOf \in [RunIds -> Tasks]
  /\ runState \in [RunIds -> RunStates]
  /\ lastRun \in 0..MaxRuns
  /\ queue \in Seq(Command)
  /\ lease \in [Tasks -> Loops \cup {NoLoop}]
  /\ up \in [Loops -> {"down", "up", "stopping"}]
  /\ pump \in [Loops -> Pump]
  /\ fiber \in [Loops -> [Tasks -> Fiber]]
  /\ note \in [Loops -> [Tasks -> BOOLEAN]]
  /\ mover \in Mover
  /\ asked \subseteq RunIds
  /\ wanted \in [Tasks -> BOOLEAN]
  /\ budget \in [Disturbances -> Nat]

-----------------------------------------------------------------------------
(* Rows and small helpers                                                    *)

Live(r) == runState[r] \in LiveStates

(* Mutant of LiveOn: a queued row does not count.                            *)
LiveOnRunningOnly(t) == {r \in RunIds : runOf[r] = t /\ runState[r] = "running"}

(* liveOn: the predicate RunRepo.create, liveForTask and listLive share.     *)
LiveOn(t) == {r \in RunIds : runOf[r] = t /\ Live(r)}

(* canTransition for the orchestrator: one row of TASK_TRANSITIONS.          *)
MayEnterReview(t) == status[t] = "in_progress"

NoFiber == [step |-> "none", run |-> NoRun, row |-> "in_progress",
            parked |-> FALSE, trigger |-> "status_change", ending |-> "lost",
            moved |-> FALSE, interrupted |-> FALSE]

(* The steps in which a fiber holds a permit of its lane, and the lease.     *)
InLane      == {"claim", "open", "opened", "turn", "close", "move", "collect",
                "release"}
HasLease    == InLane \ {"claim"}
Admitted(l) == {t \in Tasks : fiber[l][t].step \in InLane}

SomeTask  == CHOOSE t \in Tasks : TRUE
NoCommand == [kind |-> "stop", task |-> SomeTask, run |-> NoRun]
PumpAt(step) == [step |-> step, column |-> {}, left |-> 0, cmd |-> NoCommand,
                 target |-> NoRun, guarded |-> {}, lost |-> {}, finish |-> {}]
NoMove == [step |-> "idle", task |-> SomeTask, from |-> "ideas",
           to |-> "ideas", live |-> NoRun]

Spend(k) ==
  /\ budget[k] > 0
  /\ budget' = [budget EXCEPT ![k] = @ - 1]

(* RunCommandRepo.enqueue: one pending row for each task and kind, so a second *)
(* intent of the kind is answered with the row already queued.               *)
Enqueue(c) ==
  queue' = IF \E i \in DOMAIN queue :
                queue[i].kind = c.kind /\ queue[i].task = c.task
             THEN queue
             ELSE Append(queue, c)

(* FiberMap.run with onlyIfMissing: a key that still has a fiber keeps it.   *)
Fork(l, t, trigger, row, isParked) ==
  fiber' = IF fiber[l][t].step # "none" THEN fiber
           ELSE [fiber EXCEPT ![l][t] =
                  [NoFiber EXCEPT !.step = "plan", !.row = row,
                                  !.parked = isParked, !.trigger = trigger]]

(* Mutant of Close: the row's own outcome is not looked at.                  *)
CloseAnyway(r, ending) == runState' = [runState EXCEPT ![r] = ending]

(* RunRepo.close: the row that already has an outcome refuses (NotLive), and *)
(* every caller takes the refusal as agreement.                              *)
Close(r, ending) ==
  runState' = IF Live(r) THEN [runState EXCEPT ![r] = ending] ELSE runState

At(l, t, step) == fiber[l][t].step = step

Goto(l, t, step) == fiber' = [fiber EXCEPT ![l][t] = [@ EXCEPT !.step = step]]

(* withLease releases: the file is removed whoever it names. The remove is    *)
(* best effort and may leave it, and the rename of the beat that was           *)
(* interrupted may land after it: then the file names this process again.     *)
FreeLease(l, t) ==
  IF fiber[l][t].step \in HasLease
    THEN \E left \in {NoLoop} \cup {x \in {lease[t], l} : budget["leftovers"] > 0} :
           lease' = [lease EXCEPT ![t] = left]
    ELSE lease' = lease

(* Mutant of EndFiber: nobody takes the leftover note.                       *)
EndFiberLeavingNote(l, t) ==
  /\ fiber' = [fiber EXCEPT ![l][t] = NoFiber]
  /\ FreeLease(l, t)
  /\ UNCHANGED note

(* A fiber leaving FiberMap gives its lease back, and forkRun's ensuring takes *)
(* a leftover note.                                                          *)
EndFiber(l, t) ==
  /\ fiber' = [fiber EXCEPT ![l][t] = NoFiber]
  /\ note' = [note EXCEPT ![l][t] = FALSE]
  /\ FreeLease(l, t)

(* stampLadder: parkedUntil is set, best effort.                             *)
Stamp(t) == parked' = [parked EXCEPT ![t] = TRUE]

Init ==
  /\ status \in [Tasks -> {"backlog", "in_progress"}]
  /\ parked = [t \in Tasks |-> FALSE]
  /\ runOf = [r \in RunIds |-> SomeTask]
  /\ runState = [r \in RunIds |-> "absent"]
  /\ lastRun = 0
  /\ queue = <<>>
  /\ lease = [t \in Tasks |-> NoLoop]
  /\ up = [l \in Loops |-> "down"]
  /\ pump = [l \in Loops |-> PumpAt("off")]
  /\ fiber = [l \in Loops |-> [t \in Tasks |-> NoFiber]]
  /\ note = [l \in Loops |-> [t \in Tasks |-> FALSE]]
  /\ mover = NoMove
  /\ asked = {}
  /\ wanted = [t \in Tasks |-> TRUE]
  /\ budget \in Budgets

-----------------------------------------------------------------------------
(* A run, from the plan to the release: startWork and what it calls.         *)

(* Dispatch.plan over the row in hand; only the liveness read is fresh.      *)
Plan(l, t) ==
  LET f == fiber[l][t] IN
  /\ At(l, t, "plan") /\ ~f.interrupted
  /\ IF f.row = "in_progress" /\ ~f.parked /\ LiveOn(t) = {}
       THEN Goto(l, t, "quota") /\ UNCHANGED <<note, lease>>
       ELSE EndFiber(l, t)
  /\ UNCHANGED <<taskRows, runRows, queue, up, pump, mover, history, budget>>

(* gate.admit defers: nothing is written.                                    *)
Defer(l, t) ==
  /\ At(l, t, "quota") /\ ~fiber[l][t].interrupted
  /\ Spend("deferrals")
  /\ EndFiber(l, t)
  /\ UNCHANGED <<taskRows, runRows, queue, up, pump, mover, history>>

(* Mutant of Admit: one permit too many.                                     *)
AdmitOneMore(l, t) ==
  /\ At(l, t, "quota") /\ ~fiber[l][t].interrupted
  /\ IF Cardinality(Admitted(l)) <= Slots
       THEN Goto(l, t, "claim") /\ UNCHANGED <<note, lease>>
       ELSE EndFiber(l, t)
  /\ UNCHANGED <<taskRows, runRows, queue, up, pump, mover, history, budget>>

(* pool.admit: a permit now, or the work waits for the next sweep.           *)
Admit(l, t) ==
  /\ At(l, t, "quota") /\ ~fiber[l][t].interrupted
  /\ IF Cardinality(Admitted(l)) < Slots
       THEN Goto(l, t, "claim") /\ UNCHANGED <<note, lease>>
       ELSE EndFiber(l, t)
  /\ UNCHANGED <<taskRows, runRows, queue, up, pump, mover, history, budget>>

(* LeaseStore.claim: a lease with somebody alive behind it is AlreadyLive.   *)
Claim(l, t) ==
  /\ At(l, t, "claim") /\ ~fiber[l][t].interrupted
  /\ IF lease[t] = NoLoop
       THEN /\ Goto(l, t, "open")
            /\ lease' = [lease EXCEPT ![t] = l]
            /\ UNCHANGED note
       ELSE EndFiber(l, t)
  /\ UNCHANGED <<taskRows, runRows, queue, up, pump, mover, history, budget>>

(* A dispatch that never became a run: the plan, the lease file or an opening*)
(* write failed, and stampFailedClaim puts the task on the ladder if it can. *)
FailClaim(l, t) ==
  /\ fiber[l][t].step \in {"plan", "claim", "open"}
  /\ ~fiber[l][t].interrupted
  /\ Spend("faults")
  /\ (Stamp(t) \/ UNCHANGED parked)
  /\ EndFiber(l, t)
  /\ UNCHANGED <<status, runRows, queue, up, pump, mover, history>>

(* Mutant of Open: a live run of the card is adopted instead of refused.     *)
OpenAdopting(l, t) ==
  LET r == IF LiveOn(t) = {} THEN lastRun + 1 ELSE CHOOSE x \in LiveOn(t) : TRUE IN
  /\ At(l, t, "open") /\ r \in RunIds
  /\ lastRun' = IF r > lastRun THEN r ELSE lastRun
  /\ runOf' = [runOf EXCEPT ![r] = t]
  /\ runState' = [runState EXCEPT ![r] = IF r > lastRun THEN "queued" ELSE @]
  /\ fiber' = [fiber EXCEPT ![l][t] = [@ EXCEPT !.step = "opened", !.run = r]]
  /\ wanted' = [wanted EXCEPT ![t] = FALSE]
  /\ UNCHANGED <<taskRows, queue, up, pump, note, lease, mover, asked, budget>>

(* openRun ends in RunRepo.create, which locks the task row and refuses a    *)
(* second live run. An interrupt may find the transaction already committed. *)
Open(l, t) ==
  /\ At(l, t, "open")
  /\ IF LiveOn(t) = {}
       THEN /\ lastRun < MaxRuns
            /\ lastRun' = lastRun + 1
            /\ runOf' = [runOf EXCEPT ![lastRun + 1] = t]
            /\ runState' = [runState EXCEPT ![lastRun + 1] = "queued"]
            /\ fiber' = [fiber EXCEPT ![l][t] =
                 [@ EXCEPT !.step = "opened", !.run = lastRun + 1]]
            /\ wanted' = [wanted EXCEPT ![t] = FALSE]
            /\ UNCHANGED <<note, lease>>
       ELSE EndFiber(l, t) /\ UNCHANGED <<runRows, wanted>>
  /\ UNCHANGED <<taskRows, queue, up, pump, mover, asked, budget>>

(* Between the row and executeRun's onExit there is no close to run: the     *)
(* scope history is recorded and the project's environment files are read.   *)
BeginTurn(l, t) ==
  /\ At(l, t, "opened") /\ ~fiber[l][t].interrupted
  /\ Goto(l, t, "turn")
  /\ UNCHANGED <<taskRows, runRows, queue, lease, up, pump, note, mover,
                 history, budget>>

(* projectEnvFilesFor fails: runPlanned logs it and the fiber ends.          *)
SetupFails(l, t) ==
  /\ At(l, t, "opened") /\ ~fiber[l][t].interrupted
  /\ Spend("faults")
  /\ EndFiber(l, t)
  /\ UNCHANGED <<taskRows, runRows, queue, up, pump, mover, history>>

(* An interrupt before the close hook exists: scopes are unwound, rows stay. *)
Abandon(l, t) ==
  /\ fiber[l][t].step \in {"plan", "quota", "claim", "open", "opened"}
  /\ fiber[l][t].interrupted
  /\ EndFiber(l, t)
  /\ UNCHANGED <<taskRows, runRows, queue, up, pump, mover, history, budget>>

(* session_init: RunRepo.start, whose refusal is ignored.                    *)
SessionInit(l, t) ==
  LET r == fiber[l][t].run IN
  /\ At(l, t, "turn") /\ runState[r] = "queued"
  /\ runState' = [runState EXCEPT ![r] = "running"]
  /\ UNCHANGED <<taskRows, runOf, lastRun, queue, lease, up, pump, fiber, note,
                 mover, history, budget>>

(* The agent moves its own card to review with the token of its run; nothing *)
(* asks the loop to stop, because a run is not a free mover.                 *)
AgentFinishes(l, t) ==
  /\ At(l, t, "turn") /\ runState[fiber[l][t].run] = "running"
  /\ MayEnterReview(t)
  /\ status' = [status EXCEPT ![t] = "review"]
  /\ UNCHANGED <<parked, runRows, queue, up, pump, fiberSide, mover, history, budget>>

(* The turn ends by itself: a result, an error, the deadline, or silence.    *)
TurnEnds(l, t) ==
  /\ At(l, t, "turn") /\ ~fiber[l][t].interrupted
  /\ \E e \in TurnEndings :
       fiber' = [fiber EXCEPT ![l][t] = [@ EXCEPT !.step = "close", !.ending = e]]
  /\ UNCHANGED <<taskRows, runRows, queue, lease, up, pump, note, mover,
                 history, budget>>

(* The turn is interrupted: terminusOfStop reads the note and takes it.      *)
TurnInterrupted(l, t) ==
  /\ At(l, t, "turn") /\ fiber[l][t].interrupted
  /\ fiber' = [fiber EXCEPT ![l][t] =
       [@ EXCEPT !.step = "close",
                 !.ending = IF note[l][t] THEN "stopped" ELSE "interrupted"]]
  /\ note' = [note EXCEPT ![l][t] = FALSE]
  /\ UNCHANGED <<taskRows, runRows, queue, lease, up, pump, mover, history,
                 budget>>

(* Mutant of CloseRow: a run whose session never began is left as it is.     *)
CloseStartedRow(l, t) ==
  /\ At(l, t, "close")
  /\ IF runState[fiber[l][t].run] = "running"
       THEN Close(fiber[l][t].run, fiber[l][t].ending) ELSE UNCHANGED runState
  /\ Goto(l, t, "move")
  /\ UNCHANGED <<taskRows, runOf, lastRun, queue, lease, up, pump, note, mover,
                 history, budget>>

(* closeRun, first half. Finalizers are uninterruptible from here on.        *)
CloseRow(l, t) ==
  /\ At(l, t, "close")
  /\ \/ Close(fiber[l][t].run, fiber[l][t].ending) /\ UNCHANGED budget
     \/ Spend("faults") /\ UNCHANGED runState
  /\ Goto(l, t, "move")
  /\ UNCHANGED <<taskRows, runOf, lastRun, queue, lease, up, pump, note, mover,
                 history>>

(* Mutant of MoveToReview: a run that did not finish leaves the card there.  *)
MoveDoneToReview(l, t) ==
  /\ At(l, t, "move")
  /\ LET moved == MayEnterReview(t) /\ fiber[l][t].ending = "done" IN
       /\ fiber' = [fiber EXCEPT ![l][t] =
              [@ EXCEPT !.step = "collect", !.moved = TRUE]]
       /\ status' = IF moved THEN [status EXCEPT ![t] = "review"] ELSE status
  /\ UNCHANGED <<parked, runRows, queue, lease, up, pump, note, mover, history,
                 budget>>

(* closeOnTask: messages, the pull request, and the one move a run may make. *)
MoveToReview(l, t) ==
  /\ At(l, t, "move")
  /\ \E moved \in BOOLEAN :
       /\ fiber' = [fiber EXCEPT ![l][t] =
              [@ EXCEPT !.step = "collect", !.moved = moved]]
       /\ status' = IF moved THEN [status EXCEPT ![t] = "review"] ELSE status
       /\ moved => MayEnterReview(t)
       /\ IF MayEnterReview(t) /\ ~moved THEN Spend("faults") ELSE UNCHANGED budget
  /\ UNCHANGED <<parked, runRows, queue, lease, up, pump, note, mover, history>>

(* The close hook: ingest and rescan, then stampStalled for a run whose move *)
(* to review did not happen.                                                 *)
Collect(l, t) ==
  /\ At(l, t, "collect")
  /\ \/ /\ IF fiber[l][t].moved THEN UNCHANGED parked ELSE Stamp(t)
        /\ UNCHANGED budget
     \/ ~fiber[l][t].moved /\ Spend("faults") /\ UNCHANGED parked
  /\ Goto(l, t, "release")
  /\ UNCHANGED <<status, runRows, queue, lease, up, pump, note, mover, history>>

Release(l, t) ==
  /\ At(l, t, "release")
  /\ EndFiber(l, t)
  /\ UNCHANGED <<taskRows, runRows, queue, up, pump, mover, history, budget>>

(* Mutant of LeaseGoesStale: of a file nobody beats only the pid is asked.     *)
LeaseHeldByPid(l, t) ==
  /\ lease[t] = l /\ fiber[l][t].step \in HasLease
  /\ Spend("stalls")
  /\ lease' = [lease EXCEPT ![t] = NoLoop]
  /\ UNCHANGED <<taskRows, runRows, queue, up, pump, fiber, note, mover, history>>

(* leaseStaleMs without a beat: the holder stalls, or the file was left when  *)
(* its fiber ended. It reads as gone, though its process lives.               *)
LeaseGoesStale(l, t) ==
  /\ lease[t] = l
  /\ IF fiber[l][t].step \in HasLease THEN Spend("stalls") ELSE UNCHANGED budget
  /\ lease' = [lease EXCEPT ![t] = NoLoop]
  /\ UNCHANGED <<taskRows, runRows, queue, up, pump, fiber, note, mover, history>>

(* The next beat of a holder writes the file again, unless another instance's *)
(* name is on it.                                                            *)
Heartbeat(l, t) ==
  /\ lease[t] = NoLoop /\ fiber[l][t].step \in HasLease
  /\ lease' = [lease EXCEPT ![t] = l]
  /\ UNCHANGED <<taskRows, runRows, queue, up, pump, fiber, note, mover, history,
                 budget>>

-----------------------------------------------------------------------------
(* The pump: one sweep after another, commands first, then the column.       *)

PumpIs(l, step) == pump[l].step = step

PumpTo(l, step) == pump' = [pump EXCEPT ![l] = [@ EXCEPT !.step = step]]

PumpReset(l, step) == pump' = [pump EXCEPT ![l] = PumpAt(step)]

(* dispatchSignals: a notification or the poll; a sweep never overlaps another. *)
Wake(l) ==
  /\ PumpIs(l, "idle")
  /\ PumpTo(l, "drain")
  /\ UNCHANGED <<taskRows, runRows, queue, up, fiberSide, mover, history, budget>>

(* claimNext answered null. The drain limit of a pass is not modelled: it only *)
(* puts a sweep of the column between two commands.                          *)
DrainDone(l) ==
  /\ PumpIs(l, "drain") /\ queue = <<>>
  /\ PumpTo(l, "column")
  /\ UNCHANGED <<taskRows, runRows, queue, up, fiberSide, mover, history, budget>>

(* Mutant of TakeCommand: the row is handed out and stays pending.           *)
TakeCommandPending(l) ==
  /\ PumpIs(l, "drain") /\ queue # <<>>
  /\ pump' = [pump EXCEPT ![l] = [@ EXCEPT !.step = "command", !.cmd = Head(queue)]]
  /\ UNCHANGED <<taskRows, runRows, queue, up, fiberSide, mover, history, budget>>

(* claimNext: claiming and consuming are one transaction.                    *)
TakeCommand(l) ==
  /\ PumpIs(l, "drain") /\ queue # <<>>
  /\ queue' = Tail(queue)
  /\ pump' = [pump EXCEPT ![l] = [@ EXCEPT !.step = "command", !.cmd = Head(queue)]]
  /\ UNCHANGED <<taskRows, runRows, up, fiberSide, mover, history, budget>>

CommandIs(l, kind) == PumpIs(l, "command") /\ pump[l].cmd.kind = kind

(* stopTarget: the run the command names, or the live one on its task. Null or *)
(* no longer live is a rejection.                                            *)
Stop(l) ==
  LET c    == pump[l].cmd
      hits == IF c.run = NoRun THEN LiveOn(c.task) ELSE {c.run} \cap {r \in RunIds : Live(r)}
  IN
  /\ CommandIs(l, "stop")
  /\ \/ /\ hits = {}
        /\ PumpReset(l, "drain")
        /\ UNCHANGED asked
     \/ \E r \in hits :
          /\ pump' = [pump EXCEPT ![l] = [@ EXCEPT !.step = "interrupt", !.target = r]]
          /\ asked' = asked \cup {r}
  /\ UNCHANGED <<taskRows, runRows, queue, up, fiberSide, mover, wanted, budget>>

(* Mutant of Interrupt: the note is left and the fiber is not touched.       *)
InterruptNotingOnly(l) ==
  LET t == runOf[pump[l].target] IN
  /\ PumpIs(l, "interrupt")
  /\ note' = [note EXCEPT ![l][t] = ~At(l, t, "none")]
  /\ PumpTo(l, "file")
  /\ UNCHANGED <<taskRows, runRows, queue, lease, up, fiber, mover, history, budget>>

(* RunControl.stop: the note, then FiberMap.remove, keyed by the run's task. *)
Interrupt(l) ==
  LET t == runOf[pump[l].target] IN
  /\ PumpIs(l, "interrupt")
  /\ IF At(l, t, "none")
       THEN PumpTo(l, "file") /\ UNCHANGED <<fiber, note>>
       ELSE /\ note' = [note EXCEPT ![l][t] = TRUE]
            /\ fiber' = [fiber EXCEPT ![l][t] = [@ EXCEPT !.interrupted = TRUE]]
            /\ PumpTo(l, "killing")
  /\ UNCHANGED <<taskRows, runRows, queue, lease, up, mover, history, budget>>

(* Interrupting returns once the fiber's finalizers have run.                *)
Killed(l) ==
  /\ PumpIs(l, "killing")
  /\ At(l, runOf[pump[l].target], "none")
  /\ PumpTo(l, "file")
  /\ UNCHANGED <<taskRows, runRows, queue, up, fiberSide, mover, history, budget>>

(* closeStopped.                                                             *)
FileStop(l) ==
  /\ PumpIs(l, "file")
  /\ Close(pump[l].target, "stopped")
  /\ PumpReset(l, "drain")
  /\ UNCHANGED <<taskRows, runOf, lastRun, queue, up, fiberSide, mover, history, budget>>

(* A rerun or a start_session that passes its checks unparks the card.       *)
Accept(l, t) ==
  /\ parked' = [parked EXCEPT ![t] = FALSE]
  /\ wanted' = [wanted EXCEPT ![t] = TRUE]
  /\ PumpTo(l, "dispatch")

Reject(l) == PumpReset(l, "drain") /\ UNCHANGED <<parked, wanted>>

Rerun(l) ==
  LET t == pump[l].cmd.task IN
  /\ CommandIs(l, "rerun")
  /\ IF status[t] = "in_progress" /\ LiveOn(t) = {} THEN Accept(l, t) ELSE Reject(l)
  /\ UNCHANGED <<status, runRows, queue, up, fiberSide, mover, asked, budget>>

StartSession(l) ==
  LET t == pump[l].cmd.task IN
  /\ CommandIs(l, "start_session")
  /\ IF LiveOn(t) = {} THEN Accept(l, t) ELSE Reject(l)
  /\ UNCHANGED <<status, runRows, queue, up, fiberSide, mover, asked, budget>>

(* RunControl.dispatch re-reads the task and forks.                          *)
Dispatch(l) ==
  LET t == pump[l].cmd.task IN
  /\ PumpIs(l, "dispatch")
  /\ Fork(l, t, pump[l].cmd.kind, status[t], parked[t])
  /\ PumpReset(l, "drain")
  /\ UNCHANGED <<taskRows, runRows, queue, up, note, lease, mover, history, budget>>

(* refusalOf: a handler whose read or write fails is a rejection; the row is *)
(* consumed either way.                                                      *)
CommandFails(l) ==
  /\ pump[l].step \in {"command", "file", "dispatch"}
  /\ Spend("rejections")
  /\ PumpReset(l, "drain")
  /\ UNCHANGED <<taskRows, runRows, queue, up, fiberSide, mover, history>>

(* takeWork: the column as one read, bounded by the free slots of now.       *)
ReadColumn(l) ==
  LET ready == {t \in Tasks : status[t] = "in_progress" /\ ~parked[t]}
      free  == Slots - Cardinality(Admitted(l))
  IN
  /\ PumpIs(l, "column")
  /\ IF free > 0
       THEN pump' = [pump EXCEPT ![l] =
              [@ EXCEPT !.step = "fork", !.column = ready, !.left = free]]
       ELSE PumpReset(l, "idle")
  /\ UNCHANGED <<taskRows, runRows, queue, up, fiberSide, mover, history, budget>>

(* What is left to offer after the candidate t, which took some of the slots. *)
OneFewer(p, t, taken) ==
  [p EXCEPT !.column = p.column \ {t}, !.left = p.left - taken]

(* Mutant of ForkNext: the free slots do not bound the candidates.           *)
ForkBeyondFree(l, t) ==
  /\ PumpIs(l, "fork") /\ t \in pump[l].column /\ LiveOn(t) = {}
  /\ Fork(l, t, "status_change", "in_progress", FALSE)
  /\ pump' = [pump EXCEPT ![l] = OneFewer(pump[l], t, 1)]
  /\ UNCHANGED <<taskRows, runRows, queue, up, note, lease, mover, history, budget>>

(* Dispatch.queue keeps the candidates with no live run, up to the free slots, *)
(* and each is forked with the row of the column read.                       *)
ForkNext(l, t) ==
  /\ PumpIs(l, "fork") /\ t \in pump[l].column /\ pump[l].left > 0
  /\ IF LiveOn(t) = {}
       THEN /\ Fork(l, t, "status_change", "in_progress", FALSE)
            /\ pump' = [pump EXCEPT ![l] = OneFewer(pump[l], t, 1)]
       ELSE /\ pump' = [pump EXCEPT ![l] = OneFewer(pump[l], t, 0)]
            /\ UNCHANGED fiber
  /\ UNCHANGED <<taskRows, runRows, queue, up, note, lease, mover, history, budget>>

ColumnDone(l) ==
  /\ PumpIs(l, "fork") /\ (pump[l].column = {} \/ pump[l].left = 0)
  /\ PumpReset(l, "idle")
  /\ UNCHANGED <<taskRows, runRows, queue, up, fiberSide, mover, history, budget>>

-----------------------------------------------------------------------------
(* The process: boot with its reconcile, crash, orderly shutdown.            *)

(* Orchestrator.recover runs to its end before Orchestrator.run.             *)
Boot(l) ==
  /\ up[l] = "down"
  /\ up' = [up EXCEPT ![l] = "up"]
  /\ PumpReset(l, "reclaim")
  /\ UNCHANGED <<taskRows, runRows, queue, fiberSide, mover, history, budget>>

(* reclaimStale, then liveLeases: the subjects somebody is working on.       *)
BootLeases(l) ==
  /\ PumpIs(l, "reclaim")
  /\ pump' = [pump EXCEPT ![l] =
       [@ EXCEPT !.step = "list",
                 !.guarded = {t \in Tasks : lease[t] # NoLoop}]]
  /\ UNCHANGED <<taskRows, runRows, queue, up, fiberSide, mover, history, budget>>

(* Mutant of BootList: a run whose session never began is not looked for.     *)
BootListRunningOnly(l) ==
  /\ PumpIs(l, "list")
  /\ pump' = [pump EXCEPT ![l] =
       [@ EXCEPT !.step = "lose",
                 !.lost = {r \in RunIds : runState[r] = "running" /\ runOf[r] \notin pump[l].guarded}]]
  /\ UNCHANGED <<taskRows, runRows, queue, up, fiberSide, mover, history, budget>>

(* listLive, less the guarded.                                               *)
BootList(l) ==
  /\ PumpIs(l, "list")
  /\ pump' = [pump EXCEPT ![l] =
       [@ EXCEPT !.step = "lose",
                 !.lost = {r \in RunIds : Live(r) /\ runOf[r] \notin pump[l].guarded}]]
  /\ UNCHANGED <<taskRows, runRows, queue, up, fiberSide, mover, history, budget>>

(* One unguarded row: only a close that was not refused is finished later.   *)
BootClose(l, r) ==
  /\ PumpIs(l, "lose") /\ r \in pump[l].lost
  /\ Close(r, "lost")
  /\ pump' = [pump EXCEPT ![l] =
       [@ EXCEPT !.lost = pump[l].lost \ {r},
                 !.finish = pump[l].finish \cup {x \in {r} : Live(x)}]]
  /\ UNCHANGED <<taskRows, runOf, lastRun, queue, up, fiberSide, mover, history, budget>>

(* A close that fails ends the reconcile with an empty answer: the rows it had *)
(* already closed are never finished.                                        *)
BootCloseFails(l) ==
  /\ PumpIs(l, "lose") /\ pump[l].lost # {}
  /\ Spend("faults")
  /\ PumpReset(l, "idle")
  /\ UNCHANGED <<taskRows, runRows, queue, up, fiberSide, mover, history>>

BootClosed(l) ==
  /\ PumpIs(l, "lose") /\ pump[l].lost = {}
  /\ PumpTo(l, "finish")
  /\ UNCHANGED <<taskRows, runRows, queue, up, fiberSide, mover, history, budget>>

(* closeLostRun: the terminal path of a run that died in front of the loop.  *)
BootFinish(l, r) ==
  LET t == runOf[r] IN
  /\ PumpIs(l, "finish") /\ r \in pump[l].finish
  /\ pump' = [pump EXCEPT ![l] = [@ EXCEPT !.finish = pump[l].finish \ {r}]]
  /\ \/ /\ status' = [status EXCEPT ![t] = IF MayEnterReview(t) THEN "review" ELSE @]
        /\ UNCHANGED budget
     \/ Spend("faults") /\ UNCHANGED status
  /\ UNCHANGED <<parked, runRows, queue, up, fiberSide, mover, history>>

BootFinished(l) ==
  /\ PumpIs(l, "finish") /\ pump[l].finish = {}
  /\ PumpReset(l, "idle")
  /\ UNCHANGED <<taskRows, runRows, queue, up, fiberSide, mover, history, budget>>

(* Everything in memory goes; the files on disk name a process nobody finds. *)
LoseMemory(l) ==
  /\ up' = [up EXCEPT ![l] = "down"]
  /\ PumpReset(l, "off")
  /\ fiber' = [fiber EXCEPT ![l] = [t \in Tasks |-> NoFiber]]
  /\ note' = [note EXCEPT ![l] = [t \in Tasks |-> FALSE]]
  /\ lease' = [t \in Tasks |-> IF lease[t] = l THEN NoLoop ELSE lease[t]]

(* A kill, the host going down, or the shutdown watchdog.                    *)
Crash(l) ==
  /\ up[l] # "down"
  /\ Spend("crashes")
  /\ LoseMemory(l)
  /\ UNCHANGED <<taskRows, runRows, queue, mover, history>>

(* SIGTERM: the root fiber and every run fiber are interrupted, with no note.*)
Shutdown(l) ==
  /\ up[l] = "up"
  /\ Spend("shutdowns")
  /\ up' = [up EXCEPT ![l] = "stopping"]
  /\ PumpReset(l, "off")
  /\ fiber' = [fiber EXCEPT ![l] = [t \in Tasks |->
       IF At(l, t, "none") THEN @[t] ELSE [@[t] EXCEPT !.interrupted = TRUE]]]
  /\ UNCHANGED <<taskRows, runRows, queue, lease, note, mover, history>>

Stopped(l) ==
  /\ up[l] = "stopping"
  /\ \A t \in Tasks : At(l, t, "none")
  /\ LoseMemory(l)
  /\ UNCHANGED <<taskRows, runRows, queue, mover, history, budget>>

-----------------------------------------------------------------------------
(* People, through the gateway: a move is a read, a write and maybe a command. *)

(* tasks.board: the status and the live run the handler decides from.        *)
OpenMove(t, s) ==
  /\ mover.step = "idle"
  /\ Spend("moves")
  /\ \E live \in IF LiveOn(t) = {} THEN {NoRun} ELSE LiveOn(t) :
       mover' = [step |-> "read", task |-> t, from |-> status[t], to |-> s,
                 live |-> live]
  /\ UNCHANGED <<taskRows, runRows, queue, up, pump, fiberSide, history>>

(* TaskRepo.transition for a free mover: any column but the one it is in, and*)
(* a move into in_progress unparks.                                          *)
CommitMove ==
  LET t == mover.task  s == mover.to IN
  /\ mover.step = "read"
  /\ IF status[t] = s
       THEN mover' = NoMove /\ UNCHANGED <<taskRows, wanted>>
       ELSE /\ status' = [status EXCEPT ![t] = s]
            /\ parked' = [parked EXCEPT ![t] = @ /\ s # "in_progress"]
            /\ wanted' = [wanted EXCEPT ![t] = @ \/ s = "in_progress"]
            /\ mover' = [mover EXCEPT !.step = "moved"]
  /\ UNCHANGED <<runRows, queue, up, pump, fiberSide, asked, budget>>

(* runToStop and requestStop, or a gateway that dies between the two writes. *)
RequestStop ==
  /\ mover.step = "moved"
  /\ \/ /\ IF /\ mover.from = "in_progress" /\ mover.to # "in_progress"
              /\ mover.live # NoRun
             THEN Enqueue([kind |-> "stop", task |-> mover.task, run |-> mover.live])
             ELSE UNCHANGED queue
        /\ UNCHANGED budget
     \/ Spend("crashes") /\ UNCHANGED queue
  /\ mover' = NoMove
  /\ UNCHANGED <<taskRows, runRows, up, pump, fiberSide, history>>

(* runCommands.enqueue: a button on the card, or a stop of a run in a list.  *)
Press(kind, t) ==
  /\ Spend("buttons")
  /\ \E r \in {NoRun} \cup {r \in 1..lastRun : kind = "stop" /\ runOf[r] = t} :
       Enqueue([kind |-> kind, task |-> t, run |-> r])
  /\ UNCHANGED <<taskRows, runRows, up, pump, fiberSide, mover, history>>

(* The delay of the retry ladder runs out.                                   *)
ParkExpires(t) ==
  /\ parked[t]
  /\ parked' = [parked EXCEPT ![t] = FALSE]
  /\ UNCHANGED <<status, runRows, queue, up, pump, fiberSide, mover, history, budget>>

-----------------------------------------------------------------------------
(* The next-state relation and the fairness the runtime gives.               *)

(* What a run fiber does by itself; the turn's own end is apart, because only*)
(* the deadline of the turn promises it.                                     *)
FiberStep(l, t) ==
  \/ Plan(l, t) \/ Admit(l, t) \/ Claim(l, t) \/ Open(l, t) \/ BeginTurn(l, t)
  \/ Abandon(l, t) \/ TurnInterrupted(l, t) \/ CloseRow(l, t)
  \/ MoveToReview(l, t) \/ Collect(l, t) \/ Release(l, t)

PumpStep(l) ==
  \/ Wake(l) \/ DrainDone(l) \/ TakeCommand(l) \/ Stop(l) \/ Interrupt(l)
  \/ Killed(l) \/ FileStop(l) \/ Rerun(l) \/ StartSession(l) \/ Dispatch(l)
  \/ ReadColumn(l) \/ ColumnDone(l) \/ \E t \in Tasks : ForkNext(l, t)

BootStep(l) ==
  \/ BootLeases(l) \/ BootList(l) \/ BootClosed(l) \/ BootFinished(l)
  \/ \E r \in RunIds : BootClose(l, r) \/ BootFinish(l, r)

Trouble(l) ==
  \/ Crash(l) \/ Shutdown(l) \/ CommandFails(l) \/ BootCloseFails(l)
  \/ \E t \in Tasks : \/ Defer(l, t) \/ FailClaim(l, t) \/ SetupFails(l, t)
                     \/ LeaseGoesStale(l, t)

Person ==
  \/ CommitMove \/ RequestStop
  \/ \E t \in Tasks : \/ \E s \in Targets : OpenMove(t, s)
                     \/ \E k \in CommandKinds : Press(k, t)

Next ==
  \/ \E l \in Loops : \/ PumpStep(l) \/ BootStep(l) \/ Boot(l) \/ Stopped(l)
                     \/ Trouble(l)
                     \/ \E t \in Tasks : \/ FiberStep(l, t) \/ TurnEnds(l, t)
                                        \/ SessionInit(l, t) \/ AgentFinishes(l, t)
                                        \/ Heartbeat(l, t)
  \/ \E t \in Tasks : ParkExpires(t)
  \/ Person

(* Steps a live process takes without being asked: fibers are scheduled, the *)
(* poll comes round, boot runs to its end, beats are beaten, parks expire, and *)
(* a lease nobody beats goes stale.                                          *)
RuntimeFairness ==
  /\ \A l \in Loops : /\ WF_vars(PumpStep(l))
                      /\ WF_vars(BootStep(l))
                      /\ WF_vars(Stopped(l))
                      /\ \A t \in Tasks : /\ WF_vars(FiberStep(l, t))
                                          /\ WF_vars(Heartbeat(l, t))
                                          /\ WF_vars(/\ fiber[l][t].step \notin HasLease
                                                     /\ LeaseGoesStale(l, t))
  /\ \A t \in Tasks : WF_vars(ParkExpires(t))

(* The supervisor starts a process that went down (systemd, Restart=always). *)
Supervised == \A l \in Loops : WF_vars(Boot(l))

(* executeRun races the turn against timeoutMs, so a turn ends on its own. The *)
(* deadline is not counted on for a run somebody asked to stop.               *)
TurnDeadline ==
  \A l \in Loops, t \in Tasks :
    WF_vars(fiber[l][t].run \notin asked /\ TurnEnds(l, t))

Spec == Init /\ [][Next]_vars

FairSpec == Spec /\ RuntimeFairness /\ Supervised /\ TurnDeadline

-----------------------------------------------------------------------------
(* What the run rows promise, whoever writes them.                           *)

Ledger == INSTANCE RunLedger WITH Tasks <- Tasks, MaxRuns <- MaxRuns,
                                  runOf <- runOf, runState <- runState,
                                  lastRun <- lastRun

(* Everything this module does to run rows is a step of RunLedger: created     *)
(* queued when nothing of the card is live, started from queued, ended once.   *)
LedgerImplemented == Ledger!LedgerSpec

-----------------------------------------------------------------------------
(* Safety: what the rows say.                                                *)

(* "One live run per task": RunRepo.create locks the task row and counts what*)
(* is live before it inserts, so two sweeps, two processes, or a rerun racing*)
(* a sweep never leave two live rows on one card.                            *)
OneLiveRun ==
  \A r1, r2 \in RunIds :
    Live(r1) /\ Live(r2) /\ runOf[r1] = runOf[r2] => r1 = r2

(* A fiber works for one row, the row is its own card's, and no two fibers, of *)
(* any process, ever believe they carry the same run.                        *)
FiberOwnsRun ==
  \A l \in Loops, t \in Tasks :
    LET f == fiber[l][t] IN
    f.run # NoRun =>
      /\ f.run <= lastRun /\ runOf[f.run] = t
      /\ \A m \in Loops, u \in Tasks :
           fiber[m][u].run = f.run => m = l /\ u = t

(* A row filed "stopped" is a row somebody asked to stop: the note a stop    *)
(* leaves for the fiber never reaches the run that comes after it.           *)
StoppedWasAsked == \A r \in RunIds : runState[r] = "stopped" => r \in asked

(* The work lane never holds more than its slots, whatever sweeps, commands  *)
(* and interrupts do to the fibers in it.                                    *)
LaneBounded == \A l \in Loops : Cardinality(Admitted(l)) <= Slots

(* A row that ended keeps its ending: of the fiber, the stop command and the *)
(* boot reconcile that may all reach it, the first to close it wins.         *)
EndingIsFinal ==
  [][\A r \in RunIds : runState[r] \in Endings => runState'[r] = runState[r]]_vars

(* The loop moves a card to review only when nothing is live on it any more, *)
(* so a card at the human gate is not being worked on behind the human's back.*)
ReviewAfterClose ==
  [][\A t \in Tasks :
       status[t] = "in_progress" /\ status'[t] = "review"
         /\ (fiber' # fiber \/ pump' # pump) => LiveOn(t) = {}]_vars

(* "No auto-retry": between two runs of a card that is in the column there is  *)
(* a person who put it there, or a rerun or start_session somebody asked for.  *)
(* A sweep's row may be old: a run may still start on a card that just left.   *)
NoAutoRetry ==
  [][lastRun' # lastRun =>
       LET t == runOf'[lastRun'] IN status[t] = "in_progress" => wanted[t]]_vars

-----------------------------------------------------------------------------
(* Liveness                                                                  *)

(* A stop that found its run live ends it: the row closes and no fiber keeps *)
(* working for it, however long the agent would have gone on by itself.      *)
StopEndsTurn ==
  \A r \in RunIds :
    (r \in asked) ~> (~Live(r) /\ \A l \in Loops, t \in Tasks : fiber[l][t].run # r)

(* Every run ends: through its fiber, through a stop, or through the reconcile *)
(* of the next boot when its process died.                                   *)
EveryRunEnds == \A r \in RunIds : Live(r) ~> ~Live(r)

(* A card that may run gets a run, or leaves the column, or is parked, as long *)
(* as the bound on run rows lets one be created.                             *)
CardIsTaken ==
  \A t \in Tasks :
    (status[t] = "in_progress" /\ ~parked[t])
      ~> (LiveOn(t) # {} \/ status[t] # "in_progress" \/ parked[t] \/ lastRun = MaxRuns)

(* Every claimed command is answered: the pump comes back from it.           *)
CommandsDrain == (queue # <<>>) ~> (queue = <<>>)

=============================================================================
