----------------------------- MODULE RunLedger ------------------------------
(***************************************************************************)
(* What packages/db/src/repositories/run.ts promises everybody who reads a *)
(* run row: a card has at most one live run, a run is created queued, may  *)
(* start, and ends once with one outcome. No process, fiber, lease or      *)
(* command appears here; TaskLoop is shown to implement it, and so is the   *)
(* chat lane of Conversation, whose threads take the place of the cards.    *)
(***************************************************************************)
EXTENDS Naturals

CONSTANTS
  Tasks,      \* the cards
  MaxRuns     \* bound on the run rows ever created

VARIABLES
  runOf,      \* run.taskId
  runState,   \* run.status and run.outcome
  lastRun     \* the newest row

ledger == <<runOf, runState, lastRun>>

Live(r) == runState[r] \in {"queued", "running"}

LedgerInit ==
  /\ runOf \in [1..MaxRuns -> Tasks]
  /\ runState = [r \in 1..MaxRuns |-> "absent"]
  /\ lastRun = 0

(* RunRepo.create: under the lock on the card's row, and refused (AlreadyLive) *)
(* while a run of the card is live.                                          *)
Create(t) ==
  /\ lastRun < MaxRuns
  /\ \A r \in 1..lastRun : Live(r) => runOf[r] # t
  /\ lastRun' = lastRun + 1
  /\ runOf' = [runOf EXCEPT ![lastRun'] = t]
  /\ runState' = [runState EXCEPT ![lastRun'] = "queued"]

(* RunRepo.start: only a queued row starts.                                  *)
Start(r) ==
  /\ runState[r] = "queued"
  /\ runState' = [runState EXCEPT ![r] = "running"]
  /\ UNCHANGED <<runOf, lastRun>>

(* RunRepo.close: only a live row ends, and the outcome is written with it.  *)
End(r) ==
  /\ Live(r)
  /\ \E e \in {"done", "errored", "timeout", "lost", "interrupted", "stopped"} :
       runState' = [runState EXCEPT ![r] = e]
  /\ UNCHANGED <<runOf, lastRun>>

LedgerNext ==
  \/ \E t \in Tasks : Create(t)
  \/ \E r \in 1..MaxRuns : Start(r) \/ End(r)

LedgerSpec == LedgerInit /\ [][LedgerNext]_ledger

=============================================================================
