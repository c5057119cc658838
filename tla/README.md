# A verification development of agent-task-manager

TLA+ models of the parts of agent-task-manager that run concurrently and survive
crashes, the TLC configurations that check them on small instances, and TLAPS
proofs of the results that hold for every instance. Paths below are relative to
the repository root (`src/` in the mapping of `PROJECT.json`).

    tlc -workers 2 -config TL_lane.cfg MCTaskLoop     # one run
    tlapm TaskLoop_proofs.tla                         # the proofs of a module

## 1. The system

People keep cards on a board. A card in `in_progress` is work: a loop process
notices it, claims it, opens a run, starts an agent in a container, follows its
output, closes the run and moves the card to `review`, where a person decides.
Everything durable is in one Postgres database and, for leases and run
directories, under one data root on disk.

    person -- dashboard / bot --> gateway --+-- task rows ----+
                                            +-- run_command --+--> loop process
                                                                     pump: drain commands, read column, fork
                                                                     fiber per subject: plan, admit, claim, open,
                                                                       turn, close, move, collect, release
                                            <-- run rows, run events, messages --+
    gateway (SSE) and bot (LISTEN) <-- NOTIFY of the database ------------------+

| Part | State it keeps | Operations | What makes it correct |
|---|---|---|---|
| Dispatch loop, `orchestrator/src/runtime.ts`, `dispatch.ts`, `retry.ts` | `FiberMap` of run fibers by subject, stop notes, signals queue | recover, sweep (drain, column, chats), forkRun, startWork, stop, dispatch, shutdown | a card that may run is taken; no card runs twice at once; the lane is bounded; a stop ends the run it found |
| Run commands, `commands.ts`, `run-command.ts` (db) | pending `run_command` rows | enqueue, claimNext, stop, rerun, start_session, reject | one answer for each command; consumed once; a stop filed on the run that was asked |
| Run lifecycle, `run.ts`, `open-run.ts`, `terminal.ts` | the fiber's progress | open, turn, terminus, close, move to review, close hook | the row closes on every path; review only after the close |
| Run rows, `db/.../run.ts` | `run.status`, `outcome`, times | create, start, close, listLive, liveForTask | one live run for each card; an ending is final |
| Lane pool, `pool.ts` | permits of two lanes | admit, statsOf | never above the bound, never leaked |
| Lease store and lost-run reconcile, `lease.ts` | one file for each subject, in-memory claims | claim, heartbeat, release, reclaimStale, liveLeases, reconcileLostRuns | a holder reads as live; a dead one is freed; a crash leaves nothing live for good |
| Task rows, `db/.../task.ts`, `domain/src/status.ts` | status, parkedUntil, ranks | transition, park, column read, edits | the transition table holds for each kind of mover |
| Gateway task handlers, `gateway/src/handlers` | none | move (and the stop it asks for), buttons | a move out of the column stops the run it found |
| Loop process, `apps/loop`, `deploy/atm-loop.service` | none | boot, SIGTERM, watchdog, restart | recovery runs to its end before the first sweep |
| Quota gate, `orchestrator/src/quota` | pause record, cached usage | admit, refresh, setReactivePause, clearPause | a pause holds for its time and ends; a provider with room is not held shut |
| Sessions, `db/.../session.ts`, `orchestrator/src/open-run.ts`, `domain/src/agent-session.ts` | session status, runs' outcomes | isResumable, latestResumable, claim, fail, finish | a broken session is not resumed; none is left running |
| Chat turns, `chat-turn.ts`, `chat-thread.ts` | watermark, messages | plan, close, answer | each message is answered by some turn; the answer is stored before the row closes |
| Run events, `ingest.ts`, `sse.ts` | `run_event` rows by (run, seq), cursor of a subscriber | ingest, re-ingest, drain, nudge | each ordinal means one line; a subscriber is passed over by nothing and its stream ends |
| Board stream, `board-sse.ts` | none beyond a nudge | re-read | the last state is shown |
| Bot notifications, `bot/src/notify` | `chat_notification` claims | claim, send, stamp, repair | each notice said, and not more often than the ledger says |
| Stuck-run watch, `bot/src/stuck` | cursor and window for each run | scan, judge, notify | one warning for each window |
| Telegram interface, `bot/src/telegram` | compose buffers | render, send, collect | transport |
| Artifacts, proposals, handoff, `proposals.ts`, `db/.../proposal.ts`, `gateway/src/handlers/proposals.ts` | files of a run, proposal rows, the shared directory | collect, record, confirm, reject | recorded once, decided once, written before it is accepted |
| Pull request state, `gateway/src/pr-state.ts` | refresh queue | refresh, record | bounded and deduplicated |
| Agent tokens and board access | tokens | issue, check | access control: outside this development |
| Sandbox, `packages/sandbox` | containers, directories | run, sweep, reap | the sweep at boot removes only what no row names |
| Harness, `packages/harness` | none | parse three agents' output | parsing |
| Prompts, telemetry, env, API schemas | none | | text and types |
| Agent tools, `packages/agent-tools` | none | client of the gateway | |
| Other gateway handlers; other repositories | single rows | CRUD with an audit row | |
| Dashboard, web, UI kit; scripts, images | | | |

Where the behaviour is hard:

* every `await` between a read and the write it decides: the plan and its task
  row, the mover and the live run, the reconcile and the leases, the claim and
  its file;
* four actors that may write one run row: its fiber, the stop handler, the boot
  reconcile of another process, and `start`;
* interrupts: a stop or a SIGTERM reaches a fiber in any stage, and what is
  undone depends on which scopes and hooks are installed by then;
* crashes between any two steps, and a restart that must find what they left;
* leases that live on clocks, and files that are read, judged and replaced;
* single writes that fail and are logged, refused or retried by a later sweep;
* one fact written by several hands (a line of a run's file by the live store, the
  close and a stop's marker; a proposal by two hooks; a notice by two events and the
  repair pass), where an ordinal, a digest or a key must keep them one;
* notifications that may be lost, for which a tick, a cursor or a repair pass must
  make up.

`PROJECT.json` lists the hazards one by one, each at its line, with the
properties that would notice it going wrong.

## 2. The modules

| Module | Models |
|---|---|
| `RunLedger` | what the run table promises: the abstract specification |
| `TaskLoop` | the loop, the run commands, the run's lifecycle, boot, the gateway's moves, people |
| `MCTaskLoop`, `TL_*.cfg` | its instances |
| `TaskLoop_proofs` | theorems about `TaskLoop` |
| `Lease` | the file protocol of one lease between processes |
| `MCLease`, `L_*.cfg` | its instances |
| `Lease_proofs` | theorems about `Lease` |
| `QuotaGate` | the quota gate of one provider and the dispatches it decides |
| `MCQuotaGate`, `Q_*.cfg` | its instances |
| `QuotaGate_proofs` | theorems about `QuotaGate` |
| `Conversation` | chat turns: sessions and their resumption, watermarks, answers, stops, the boot reconcile of a conversation |
| `MCConversation`, `C_*.cfg` | its instances |
| `Conversation_proofs` | theorems about `Conversation` |
| `Timeline` | what a follower of a run is promised: an abstract specification |
| `RunFeed` | a run's event file, its rows, and one follower of them |
| `MCRunFeed`, `F_feed.cfg` | its instance |
| `RunFeed_proofs` | theorems about `RunFeed` |
| `Notify` | the bot's notices of runs: claim, send, stamp, repair |
| `MCNotify`, `N_*.cfg` | its instances |
| `Notify_proofs` | theorems about `Notify` |
| `Proposals` | what agents ask to be shared, and what people answer |
| `MCProposals`, `P_proposals.cfg` | its instance |
| `Proposals_proofs` | theorems about `Proposals` |
| `Numbers` | a lemma: a bounded set of numbers has a largest |

### RunLedger

Three actions over run rows: `Create`, `Start`, `End`. No process or command
appears. It says what every reader of `run` may rely on, and `TaskLoop`
implements it with the identity mapping on `runOf`, `runState`, `lastRun`
(`LedgerImplemented`). `runState` joins `status` and `outcome`, which
`STATUS_OF_OUTCOME` ties together.

### TaskLoop

One step is one database transaction or one synchronous stretch of a fiber.
What a process read before an `await` is kept in its own variables and used
later: that is where the races are.

| Variable | Code |
|---|---|
| `status`, `parked` | `task.status`; `task.parkedUntil` in the future |
| `runOf`, `runState`, `lastRun` | the run rows |
| `queue` | pending `run_command` rows, oldest first |
| `lease` | who of the living the lease file of a subject names, whether or not a fiber is behind it |
| `up`, `pump` | a process, and its one fiber that recovers and then sweeps, with what it has read |
| `fiber` | `FiberMap`: the fiber of each subject, with its stage, run, row in hand, terminus |
| `note` | `stopNotes` |
| `mover` | a gateway request between its read, its transition and the stop it asks for |
| `asked`, `wanted` | history: runs a stop acted on; cards a person asked to run |
| `budget` | how many disturbances are left |

A fiber goes `plan` (Dispatch.plan over the row of the sweep; only the liveness
read is fresh), `quota` (the gate may `Defer`), `claim` (has a permit), `open`
(has the lease), `opened` (the row exists, the close hook does not), `turn`,
`close`, `move`, `collect`, `release`. `Abandon` is an interrupt before the close
hook, `TurnInterrupted` one after it, which takes the stop note. `EndFiber` is
what leaving the map does on every path: `withLease` removes the file (`FreeLease`),
the permit goes back, the leftover note is taken. The remove is best effort, and an
interrupted beat may still rename its file into place after it: `FreeLease` may leave
the file naming a living process with no fiber on it, where the budget says
`leftovers`.

The pump is `idle`, `drain`, `command`, then for a stop `interrupt`, `killing`,
`file`, for a rerun or start_session `dispatch`, and after the queue `column`,
`fork`. Boot is the same fiber earlier: `reclaim`, `list`, `lose`, `finish`.

A gateway move is `OpenMove` (reads the status and the live run), `CommitMove`
(the transition), `RequestStop` (maybe enqueues, or the gateway dies first).

`Claim` is one step here. That reading the file, judging it and renaming over it
are three is the subject of `Lease`; its effect, two holders of one subject,
enters `TaskLoop` through `LeaseGoesStale` (the lease of a living holder that stalls,
or the file a fiber left behind, reads as free) and `Heartbeat` (a holder's next beat
takes it back). A late rename that lands when another process has claimed already is
in `Lease` only.

Left out of `TaskLoop`: sessions and their resumption, chat conversations and
their lane (all of these are in `Conversation`), the retry ladder's arithmetic (`parked` is one bit), the drain limit of a pass, the
directory sweep and container reap at boot, artifacts, pull requests, telemetry.

### Lease

One subject's file, any number of instances and of fibers in them. A claim is
`ClaimStart` (in-process gate, in-memory set, read, judge) and `ClaimWrite` (the
rename); a beat is `BeatStart` and `BeatWrite`; a release forgets, then removes.
A write that is interrupted may still land: `End` may leave its rename in `late`
and `LateWrite` performs it after the release. A boot lists (`BootList`), then
judges and removes by path (`BootJudge`). `BeatsWithWork`, a part of `TypeOK`, is what
`withLease` says of the heartbeat fiber: it "stops with the work it is vouching for",
and runs until then. `Crash` loses everything but the file;
`PidReused` gives the dead instance's pid to another program; `FallBehind` is a
suspended host or a starved process.

Time is relative: each stamp carries its age, `Tick` makes all of them older, and
an age stops growing at `StaleAfter`, beyond which `isLive` never looks. A process
that keeps up (`KeepsUp`) has no write on its way and no beat due when the clock
ticks; one in `slow` is not waited for.

`LeaseStore.attach` is not modelled: nothing calls it. The name of the run in a
lease is left out: only messages read it. The temp file a crash may leave is not
modelled either: `listLeases` skips it by its suffix and nothing else reads it.

### QuotaGate

What `TaskLoop` shows as a choice to defer. Each subject has a fiber that walks
through `startWork`: `Ask` (the depth of the pool, the pause, the cached reading),
`ReadUsage` (the answer of the provider), `Judge` (`evaluate`), `Settle` (a healthy
admit clears an old pause), `TakePermit`; then a run that ends (`RunEnds`) or drains
(`RunDrained`, `Note`, `SetPause`: `noteQuota` in the close hook, which still holds
the permit). `Refresh` is the sweep's own read.

| Variable | Code |
|---|---|
| `record` | the provider's entry of `pause.json`: `until` as what is `left`, the trip count as the `cooldown` it earned |
| `attempt` | `state.attempt`, with its age |
| `fiber` | the locals of `startWork` and `admit` across their awaits |
| `source` | what the provider would answer; no state of the program |
| `fiber[s].overtaken` | history: a pause was written while this ask was on its way |

The two windows are one, the fuller: `evaluate` defers on either. There is one
provider, and no lock: the lock keeps two providers' records apart in one file,
and the record itself is read outside it. A provider with no reader, with the
proactive read off, or with the gate off is not modelled; nor are announcements,
the published document, and the readings kept for it.

### Conversation

One loop process, the chat lane, the chat rows of one database.

| Variable | Code |
|---|---|
| `said` | `chat_message`, in the order of (created_at, id); an answer carries its run; a message that is not `posted` has its place and is not committed |
| `sess`, `lastSess` | `agent_session`: status, watermark (`mark`), whether the provider's id is known |
| `run`, `lastRun` | the run rows of conversations, with the session each continues |
| `fiber` | `FiberMap`: each thread's fiber, with what it has read so far |
| `loop` | the fiber that sweeps, handles stops and reconciles at boot |
| `stop`, `event`, `silent` | pending stop commands; runs with a terminal event; runs the bot reported as silent |
| `hasty` | history: runs reported as silent while their row was live |
| `shown`, `cut` | history: what a session's prompts were built from; runs whose ending was not wholly written |
| `beside` | history: positions a session's read passed that were not committed yet |

`created_at` defaults to `now()`, the start of the transaction, and
`ChatMessageRepo.append` is a transaction of two statements that may wait for the
thread's row. So a message takes its place (`Say`) before anybody can read it
(`Committed`), and others may be stamped, committed and read in between. What a run
says is one step: no prompt of its thread is read while its own turn, or the boot, is
writing it.

A sweep reads `awaitingReply` (`ReadQueue`) and forks one fiber for each thread
(`Fork`). The fiber goes `plan` (which session to resume), `admit` (the chat lane),
`attach` (resume and reopen a session, or create one), `create` (the run row, or
`AlreadyLive`), `opened`, `prompt` (`ReadUnread`: the words after the watermark),
`advance` (`advanceWatermark`), `turn`, then the terminal writes in the code's order:
`record` (the provider's session id), `answer`, `close` (the row), `end` (the
session). Each of these may be refused, is then logged and passed over
(`WriteRefused`). A stop interrupts the fiber, waits for it, writes the marker and
closes what is left (`TakeStop`, `Killed`, `StopMarked`, `StopClosed`). A boot
closes the lost runs, then answers and ends each (`Boot`, `LoseRow`,
`Reconciled`, `FinishAnswer`, `FinishEnd`). `BotReads` is the bot hearing of a
terminal event: it waits until the row has ended or its patience has (`settle.ts`, ten
seconds, and two more for the answer), and says that the turn had nothing to say if
it finds no answer of it. A report on a row that is still live makes the run `hasty`.

Left out: the 40-message cap of a fresh prompt, the turn of a local host, the
length of the bot's settle window (it may run out at any moment, as often as
`delays` allows), a second loop process (`TaskLoop` and `Lease` have two), orderly
shutdown (`TaskLoop` has it).

### RunFeed and Timeline

`HarnessWrites` appends a line to the run's file: something said, a line this build
cannot decode, or the result. The reader takes the lines it has not consumed
(`ReadFile`) and stores each (`StoreLine`, or `LineRefused`), once more after the
container is gone (`ContainerEnds`, `LastRead`); then the row is closed
(`CloseRow`) and the whole file ingested (`Collect`, or `CollectFails`). A stop adds
its marker above every line (`StopMarked`). `Crash` and `Reconcile` are the death of
the loop and its next boot. The follower pages through the rows after its cursor
(`ReadPage`), asks on an empty page whether the run is over (`AskRow`), and waits for
a nudge or a tick; it may lose its connection and resume from its cursor. Between the
empty page and the answer rows may land, the run may end and the file be ingested.
`IdleHangup` is the server closing a connection nothing was written on for 255
seconds: an ending to the client of a run stream, which does not open it again.

`Timeline` promises a follower that rows only come, that it is given everything up
to some row beyond the last, and that its stream closes only on a terminal row, or on
a run that is over when the follower had just found nothing ahead (`CatchUp`, then
`Hangup`; `Resume` when the run goes on). `RunFeed` implements it.

### Notify

`closing`, `outcome`, `row`, `card` and `stop` are the close-out of each run as far as
the bot can see it: the terminal event while the container is still closing, the
row, the move to review, the stop marker. `jobs` are notices in the lanes of the
listener: settle (`ReadRun`), describe (`ReadTask`), `Claim`, `Send`, `Stamp`. `ledger`
and `order` are `chat_notification`; a claim ages from `fresh` to `stale`
(`GracePasses`), and a pass takes the oldest stale ones (`RepairTick`) and sends
each afresh. `said` counts messages; `unsure` how often a send and its stamp came
apart, `hasty` the runs described before their row had ended.

Left out: notices about stuck runs and about the system (the pass retires those),
several chats of one task, a task with no chat, rendering.

### Proposals

`hook` is the fiber of a run and then its close hook: read each file of the folder,
then, one by one, look for its digest (`LookUp`) and insert (`Insert`: on conflict
nothing). `click` is a confirm between its read of the row, its write into the
shared directory and its decision under the row lock; `Reject` is one transaction.
Several hooks of one task overlap: a run closes its row before its hook runs, so
the next run can be writing, or collecting, by then.

Left out: parsing and refusing a file, a partial write of a file, the containment
of links, a task with no project or one that is erased, artifacts and their
promotion, the handoff note.

## 3. What TLC checks

Times are with two to four workers on a small machine.

| Run | Module, cfg | Checks | States |
|---|---|---|---|
| `lane` | MCTaskLoop, TL_lane | `TypeOK`, `LaneBounded`, `ReviewAfterClose`, `NoAutoRetry` | 2.3 M, 85 s |
| `two_loops` | MCTaskLoop, TL_two_loops | `OneLiveRun`, `FiberOwnsRun`, `LedgerImplemented` | 1.9 M, 72 s |
| `promises` | MCTaskLoop, TL_promises | `StoppedWasAsked`, `StopEndsTurn`, `EveryRunEnds`, `CardIsTaken`, `CommandsDrain` | 280 k, 120 s |
| `lease` | MCLease, L_lease | `TypeOK`, `OneWorkerPerProcess`, `HolderReadsLive`, `FileFollowsHolder` | 23 k, 7 s |
| `quota` | MCQuotaGate, Q_gate | `TypeOK`, `PauseBindsLaterAsks`, `HealthyIsServed` | 297 k, 16 s |
| `chat` | MCConversation, C_chat | `TypeOK`, `WatermarkIsShown`, `ResumesWholeSession`, `SilenceIsTrue`, `LedgerImplemented` | 942 k, 28 s |
| `chat_lane` | MCConversation, C_lane | `EveryWordShown` | 662 k, 95 s |
| `feed` | MCRunFeed, F_feed | `TypeOK`, `RowIsItsLine`, `TimelineWhole`, `FollowerIsServed`, `TimelineImplemented` | 122 k, 23 s |
| `notify` | MCNotify, N_notify | `TypeOK`, `SaidAsStamped`, `NoticeMatchesOutcome`, `ClaimIsDelivered` | 139 k, 34 s |
| `proposals` | MCProposals, P_proposals | `TypeOK`, `AskedOnce`, `AcceptedWasWritten`, `OnlyWhatWasRead`, `NothingDropped`, `AnsweredOnce` | 1.3 M, 87 s |
| `unclosed_run` | MCTaskLoop, TL_unclosed_run | `EveryRunEnds` violated | |
| `review_notice` | MCNotify, N_review | `ReviewIsAsked` violated | |

Each property of a passing run has a mutant in `PROJECT.json`: an operator
(marked "Mutant of" where it stands) that changes one mapped definition the way
a slip in that code would, and under which TLC finds that property violated.

### What the passing runs show

* `two_loops`: whatever two processes do to one card, with a lease going stale
  under its holder, a lease file left behind, a process killed at any point, a write
  or read that fails, or a button refused, the run table behaves as `RunLedger`. The lock in
  `RunRepo.create` is what carries this; leases only save work. A fiber's run is
  carried by no other fiber.
* `lane`: the bound of the lane, that the loop's own move to review comes when
  nothing is live, and that a card in the column is not run again unless a person
  put it there or asked. In `lane` no write fails, which is the condition those
  two promises have in the code: a failed close leaves a live row until the next
  boot, a failed move leaves the card in the column, parked by `stampStalled`.
* `promises`: under the fairness below, with a person's move and a crash, a button
  and a crash, or a button and a shutdown, a stop ends its run without waiting for
  the agent, every run ends, every card that may run is taken (or parked, or
  moved), and the command queue empties. In the first of these any release may leave
  its file behind: the card is taken when the file has gone stale. No run is filed `stopped` unless a stop
  found it live: stop notes are keyed by subject, so this depends on `forkRun`'s
  ensuring taking a leftover note before the next fiber of the subject can exist.
  It is stated for one process on purpose; see section 6.
* `lease`: within one process at most one fiber claims or works, and its heartbeat
  runs as long as it does. A holder that
  keeps up with the clock is never judged stale by anybody, one failed or lost
  beat included: that is what three beats are for. The file follows the holders: a
  file removed by somebody else comes back, and one nobody stands behind stops
  blocking.
* `quota`: with two dispatches overlapping and reads that take any time, whoever
  asks after a pause was written is held by it, and once a provider has room for
  good no card stays deferred behind an old reading or an old pause.
* `chat`: a message that is begun while a turn is being planned or its prompt read
  stays above the watermark, so it wakes the next turn. One that had its place before
  the read and commits after it may fall below (`beside`): the code does not keep
  that, the property says so, and section 6 says what it means. The session a turn would
  resume is the thread's newest, and is resumed only while it is whole: not after
  a turn that broke or vanished, nor after two walls in a row. The exception
  (`cut`) is the code's: where the write of the row or of the session's end was
  refused, or a crash fell between the two, the session reads as fine. A bot that
  saw the row end and says "nothing to say" is right, for answers are stored before
  the row closes; one whose patience ran out first (`hasty`) may be wrong. The run
  rows of the chat lane implement the same `RunLedger`.
* `chat_lane`: two threads share one slot, and whatever a person says is put before
  a session, through a stop, a crash, a failing dispatch or prompt; a refused close
  of the row is an exception, and lasts until the next boot; a word the watermark
  overtook while it was uncommitted is the other, and is seen only by a fresh session.
* `feed`: live store, close-time ingest and a crash in between put every readable
  line at its own ordinal and nowhere else, and all of them are there when the
  run's fiber has ended. What is stored ahead of a follower that is away, waiting or
  paging reaches it, though every notice is lost and the run ends meanwhile, and its
  stream closes when the run is over: the tick does that. Not promised, because the
  code does not keep it: rows that land between the empty page and the answer about
  the run, rows ingested at the close, and anything to a follower hung up on.
* `notify`: a stamp means a message. A claim is said once, and once more only where
  a send and its stamp came apart or the send outlasted the grace. A notice never
  contradicts the row. Whatever dies between claim, send and stamp, a claim is
  delivered.
* `proposals`: overlapping hooks record a request once (the unique index decides,
  not the look-up) and let go of none whose file and body are not on a row (a change
  of the target path alone is not seen, section 6), and overlapping answers leave one; bytes reach the
  shared directory only off a row somebody confirmed, and before it is accepted.

### What the violations show

* `unclosed_run`. `projectEnvFilesFor` runs after the row exists and before the
  close hook does. When it fails, the row stays `queued`, and the card reads as
  live until a restart reconciles it.
* `review_notice`. `describeNotice` reads the task after the run "so that a task
  moved into `review` by the close-out is seen as reviewable". The row it waits for
  is closed before the messages, the pull-request read and the move: a run whose
  card needs review may be announced as finished.

### Bounds, and why they are enough

* Run rows: `MaxRuns = 2`. The promises relate a run to the one that replaces it
  on the same card; a third would be to the second what the second is to the first.
* Cards: one where the races are between the actors of one card, two with one
  slot where cards compete for the lane. Nothing but the lane, the queue and the
  pump is shared between cards.
* Processes: one as deployed (one systemd unit), two for what the code says about
  two.
* `Slots = 1`: the lane is full whenever a fiber is admitted.
* `Targets` are `backlog` and `in_progress`: `review`, `done` and `ideas` are to the
  loop what `backlog` is, a column that is not the work column. The loop's own
  move to `review` is there.
* `Budgets`: each behaviour starts with one choice of disturbances. In `lane` one
  move or one deferral; in `promises` a move and a crash, a button and a crash, or a
  button and a shutdown, the first with leases that may stay behind; in `two_loops` a
  stalled lease, a crash, a fault with leases that may stay behind, or a button that
  is refused. `leftovers` is a switch and never spent: each release of such a behaviour
  may or may not leave its file. The steps that may fail are those that spend a fault; one
  of them fails, at any point.
* Symmetry: the processes in `two_loops`; files, paths, bodies, hooks and requests in
  `proposals`. Those runs check invariants and action properties only.
* Lease: two processes, three fibers, `BeatEvery = 1`, `StaleAfter = 3`, the ratio
  of the defaults (three beats), and one mishap beyond crashes, which are free.
  Instances are never born again under the same id, as in the code.

* QuotaGate: two cards and two slots, so that two runs can drain at once and an
  ask can overlap either. The refusal of a permit is not reached with as many
  slots as cards; it sends the fiber back to where it started. `Readings` are one
  that leaves room for a full lane and one that leaves room for nobody else. A
  poll interval of one tick, a cooldown of two and a ceiling of three: the ladder
  has a rung below its ceiling, and a doubling that passes it. Two mishaps among
  changes at the provider, failed writes and restarts.

* Conversation: one thread where the races are between a turn, a stop and a word;
  two threads with one slot where they compete. Three runs and four sessions: a
  session opened, resumed, and given up for a next one. Three words, or two words
  with one disturbance (an impatient bot is one), or one word with a stop or a refusal
  and a crash after it. A word may commit at any time or never, so two words are enough
  for one to overtake the other.
* RunFeed: three lines, so that something said, something unreadable and a result
  fit, with pages of two, so that a page may end in between; any two disturbances.
* Notify: two runs and `Limit = 1`, so that one pass of the repair cannot take all
  that is due (the code's 50); one kind of disturbance, twice for refusals and faults,
  so that a retry fails too.
* Proposals: two files, paths, bodies, hooks and requests, three rows, two runs, up
  to three answers, and one crash or fault.

### Fairness, and why the code justifies it

* `RuntimeFairness`: weak fairness of the pump, of the boot, of each run fiber's
  own steps, of heartbeats, of a leftover lease file going stale, and of a park
  running out. `runtime.ts` `pump` repeats
  sweeps forever on a poll as well as on notifications; Effect schedules every
  runnable fiber.
* `Supervised`: a process that is down is started again, `Restart=always` in
  `deploy/atm-loop.service`.
* `TurnDeadline`: `executeRun` races the turn against `timeoutMs`. It is not counted
  on for a run somebody asked to stop, so that `StopEndsTurn` says the stop does
  the work, not the deadline.
* Nothing is assumed of people, of faults, of deferrals or of agents' moves.
* `Lease`'s `FairSpec`: writes on their way land, beats that are due are beaten,
  a boot judges what it listed, and the clock moves. Nobody has to want a lease
  and no work has to end.

* `QuotaGate`'s `FairSpec`: a deferred card is offered again (every sweep offers it),
  a fiber takes its own steps, and the clock moves. A provider need not answer and
  a run need not end.

* `Conversation`'s `FairSpec`: the loop takes its steps (it sweeps on a poll), and each
  thread's fiber its own. Nobody has to say or stop anything, and nothing makes the
  harness answer; that a turn ends is its wall clock.
* `RunFeed`'s `FairSpec`: the run's fiber takes its steps, the container ends (the wall
  clock stops it), and the follower takes its own, of which a tick is one
  (`REFRESH_INTERVAL_MS` in `sse.ts`). A lost notice is never made up for by fairness.
* `Notify`'s `FairSpec`: a close-out that began goes on, a job of the listener is
  handled, the grace passes, the repair pass runs, and the bot listens and boots
  again. No turn has to end.
* `Proposals` has none: nothing obliges a person to answer.

`CHECK_DEADLOCK` is on for `TaskLoop`, `Lease` and `QuotaGate`: the poll and the clock
never stop. It is off in the other runs, where people, harness and disturbances
are bounded and the system does stop, when everything is said and closed.

## 4. What is proved

By TLAPS, for every set of cards, threads, processes, fibers, files and requests,
every length of file and every value of the bounds. The assumptions are the named
`ASSUME`s of the modules: bounds and budgets are naturals, slots, pages and batches
are not zero, there is a card and a thread and there are finitely many, the value for
"nobody" is not a process and the one for "empty" neither a body nor a file,
`0 < BeatEvery < StaleAfter`, intervals and cooldowns are positive and the ceiling is
no less than a cooldown. TLC evaluates them in every run. Where the table says "if",
the theorem has a hypothesis besides these; what it is for is said below.

| Module | Theorem | States | Argument |
|---|---|---|---|
| `TaskLoop_proofs` | `TypeCorrect` | `TypeOK` | one lemma for each action; `ForkNext` needs that a sweep's `left` was positive when it took from it |
| | `LoopImplementsLedger` | `LedgerImplemented` | each action that writes run rows is `Create`, `Start` or `End`; the rest leave them alone |
| | `OneLiveRunCorrect` | `OneLiveRun` | from the ledger alone: `RowInv` |
| | `EndingIsFinalCorrect` | `EndingIsFinal` | from the ledger alone |
| | `FiberOwnsRunCorrect` | `FiberOwnsRun` | `FiberChange` and the ledger |
| | `LaneBoundedCorrect` | `LaneBounded` | `FiberChange` and finite cardinalities |
| | `StoppedWasAskedCorrect` | `StoppedWasAsked`, if `OneProcess` | `StopInv` |
| | `ReviewAfterCloseCorrect` | `ReviewAfterClose`, if `OneProcess` and `NoFaults` | `StopInv`, `FinishMeant` |
| | `NoAutoRetryCorrect` | `NoAutoRetry`, if `OneProcess` and `Orderly` | `RetryInv` |
| | `KillReachesCorrect` | `KillReaches` | `KillInv` |
| | `NoOrphanRunCorrect` | `NoOrphanRun`, if `OneProcess` and `NoFaults` | `HeldInv` over `StopInv` and `BootsUnnamed` |
| | `StopInHandCorrect` | `StopInHand`, if `OneProcess`, `NoFaults` and `NoRejections` | `HeldInv` |
| | `InterruptsMeantCorrect` | `InterruptsMeant`, if `OneProcess` and `NoFaults` | `HeldInv` |
| `Lease_proofs` | `TypeCorrect` | `TypeOK` | `BeatsStep`: a beat begins and stops with its fiber's work |
| | `OneWorkerPerProcessCorrect` | `OneWorkerPerProcess` | `SerialInv` |
| | `HolderReadsLiveWhileFewMishaps` | `HolderReadsLive`, in every state where the mishaps so far are few | `LiveInv` |
| | `HolderReadsLiveCorrect` | `HolderReadsLive`, if `BeatEvery * (Mishaps + 1) < StaleAfter` | the theorem before |
| `QuotaGate_proofs` | `TypeCorrect` | `TypeOK` | `CooldownIsCapped`, `TickAgesRecord` |
| | `PauseBindsLaterAsksCorrect` | `PauseBindsLaterAsks` | `NotOvertaken` |
| `Conversation_proofs` | `TypeCorrect` | `TypeOK` | with `Placed`: where a fiber holds which row |
| | `WatermarkCorrect` | `WatermarkIsShown`, positions not committed at the read (`beside`) excepted | `Handed` |
| | `ChatImplementsLedger` | `LedgerImplemented` | as for the loop |
| | `SilenceCorrect` | `SilenceIsTrue`, reports on a live row (`hasty`) excepted | a run that is over has nobody left to speak for it |
| | `ResumesWholeSessionCorrect` | `ResumesWholeSession` | `WholeInv` |
| | `NoWordForgottenCorrect` | `NoWordForgotten` | what no prompt has shown, and no mark has overtaken, is above the newest watermark |
| | `NoOrphanTurnCorrect` | `NoOrphanTurn` | `TurnInv` |
| `RunFeed_proofs` | `TypeCorrect` | `TypeOK` | |
| | `RowIsItsLineCorrect` | `RowIsItsLine` | all writers take a line's ordinal from the same file |
| | `TimelineWholeCorrect` | `TimelineWhole` | `ReaderInOrder` |
| | `NothingSkippedCorrect` | `NothingSkipped` | `ReaderInOrder`, `CursorIsLast` |
| | `FeedImplementsTimeline` | `TimelineImplemented` | each step is `Grow`, `Give`, `CatchUp`, `Resume`, `Hangup` or a stutter |
| | `NudgeKeptCorrect` | `NudgeKept`, if `NoLosses` | a page is short only when nothing is left |
| `Notify_proofs` | `TypeCorrect` | `TypeOK` | with `RowsEnd`, `JobsHaveKind` |
| | `NoticeMatchesOutcomeCorrect` | `NoticeMatchesOutcome` | `Told`, `Agrees` |
| | `SaidAsStampedCorrect` | `SaidAsStamped` | `OneSender`, `Paid`, `Earned` |
| `Proposals_proofs` | `TypeCorrect` | `TypeOK` | |
| | `AskedOnceCorrect` | `AskedOnce` | the unique index, whatever the look-up saw |
| | `AnsweredOnceCorrect` | `AnsweredOnce` | the shapes a step may give the rows |
| | `AcceptedWasWrittenCorrect` | `AcceptedWasWritten` | `RequestInv` |
| | `OnlyWhatWasReadCorrect` | `OnlyWhatWasRead` | `RequestInv` |
| | `NothingDroppedCorrect` | `NothingDropped` | rows are not removed |

`OneLiveRun` is not inductive: a `Create` in a state where a row beyond `lastRun`
were live would break it. `RowInv` adds `RowsInOrder` (the rows beyond `lastRun`
are exactly the absent ones). It is proved over `RunLedger`'s steps and carried
to `TaskLoop` by the refinement, so no action of the loop is looked at again.

`FiberOwnsRun` and `LaneBounded` need to know what one step may do to the fiber
table. `FiberChange` says it once: every step either gives no fiber a run or a
permit (`FiberKept`), or admits exactly one fiber with room in its lane
(`TakesPermit`), or gives exactly one fiber the row that was just created
(`TakesRun`). The run in `TakesRun` is `lastRun + 1`, which no fiber can hold,
because a fiber's run is at most `lastRun`; that `lastRun` never shrinks and an
owner never changes comes from the ledger. The lane's bound counts: the admitted
set grows by at most one element, and only below `Slots`.

Six properties of `TaskLoop` hold of the deployment and not of every instance of the
module, and their theorems say of which:

* `OneProcess`: the systemd unit runs one loop against one database. With two, the run
  a stop found can end on the other process before `Interrupt`, and the card's next
  run, this process's own, is filed `stopped` with nobody asking.
* `NoFaults`: a close that could not be written leaves its row live, and the close
  hook moves the card to review all the same.
* `Orderly`: `NoFaults`, no crash, no button and at most one shutdown; moves, deferrals,
  stalls and rejections without limit. TLC refutes `NoAutoRetry` with any one part
  dropped: a refused move to review leaves the card to the retry ladder; a crash
  between the close of a row and the move of its card, or a stop button on a run whose
  turn has not begun, leaves it in the column with no run; a second shutdown may cut
  off the boot between a lost row and its card.
* `NoRejections` (of `StopInHand` alone): a command's handler that fails while it files
  a stopped row has consumed the command, and the row stays live with nobody at it.

`StopInv` is what a stop finds when there is one process. A fiber that carries a row it
has not closed carries a live one; before it has one the card has no live run; a note
lies only at an interrupted fiber whose run was asked to stop (`FiberSound`). So the
fiber that `Interrupt` finds by the card's key is the target's own, or one that will
refuse to open a second run, or one past its close (`StopMeant`); and no fiber exists
in front of a boot (`PumpAlone`).

`ReviewAfterClose` has two movers. The run's own move follows its close (`StopInv`, the
`NoFaults` part). The boot's follows a list read earlier: `FinishMeant` says nobody has
opened a run on these cards since, because `LiveOnStep` leaves that to `Open`, and
`PumpAlone` has no fiber at `Open` then.

`NoAutoRetry` needs `CardHeld`: a card in the column nobody has asked to run has its live
run, or a fiber between the close and the move, or a place in the boot's list.
Whoever takes one of the three away must be shown to move the card: `LiveLeaves`,
`MoveLeaves` and `FinishLeaves` name them. A stop is the one that moves nothing, and
is harmless because each stop, in the mover, the queue, the command and the target
alike (`MoverMeant`, `QueueMeant`, `TargetMeant`), names a run that is `Released`: its card
has left the column, or was put back by a person. `Untouched` has that the process
which can still be stopped has nothing to finish when it boots.

`NoOrphanRun`, `StopInHand` and `InterruptsMeant` are the safety under `EveryRunEnds` and
`StopEndsTurn`: while the process works, a live run is carried by a fiber that will
close it, or is the one being stopped at this moment. They are proved together, as
`HeldInv`, because each rests on the others: a fiber lets go of a live run when it is
interrupted on its way to the turn, so an interrupted fiber must be the stop's own;
the stop files its target afterwards, so the target must stay in hand until then; and
no run is left over from before, because a boot sees them all (`BootSees`). For that
the boot must guard nothing that only looks held. A file may outlive its fiber, but it
names the process that wrote it, and only a fiber's step puts that name on a file: the
one process is named by none while it is down or boots (`BootsUnnamed`, from
`PumpAlone`). `KillReaches` holds with any number of processes and anything that goes
wrong. It says a stop at `killing` never waits for a fiber that
nobody interrupted: the pump that would fork a new one is the pump that waits, and the
target keeps its card because the ledger keeps owners (`TargetExists`).

`Lease`'s `TypeOK` holds `BeatsWithWork`: a fiber has a beat exactly as long as it works.
A claim that is written starts both, `End` stops both, a crash and a late write leave
none behind; a heartbeat forked detached from its work would go on vouching for it.

`OneWorkerPerProcess` needs `ClaimCoversWork`: a working fiber's process has the
subject in its in-memory set. `ClaimStart` is refused by the gate while another
fiber is claiming, and by the set while one works. The file plays no part.

`HolderReadsLive` counts too. `Kept` bounds the age of a holder's file by what its beat
is due, plus one heartbeat for each mishap so far (`Slack`); `Prompt` says a process
that keeps up writes what it decided before the clock moves on, and `HeldByWorking`
that a claim has a worker beating under it. The first theorem needs no hypothesis: in
every state, if the mishaps so far leave the age below `StaleAfter`, a holder reads as
live. The second is the design rule for the periods; the code's 30 s and 90 s
(`config.ts:73`, `config.ts:80`) meet it for one missed beat.

`PauseBindsLaterAsks` needs `NotOvertaken`: an ask that is on its way and was not
overtaken by a pause has none in force. `Ask` establishes it by the look at the
record, `SetPause` marks everybody it overtakes, and no other step puts a pause in
force: a tick only makes one older.

`WatermarkIsShown` is about what a prompt was built from, and the advance of the mark is
a later step. `Handed` says what connects them: a fiber between its read and its
advance holds exactly the committed words its session has not seen, so the mark moves
over these and over those that had their place below the newest of them and were not
committed (`beside`); whatever is begun meanwhile has a later place and stays above.
That exception is as narrow as the code is: it is decided at the read, and a word in it
was uncommitted at that moment.

`SilenceIsTrue` speaks of the future of a run. The invariant has that a run the bot
may judge has ended, that while a fiber carries a run the row is not over before the
answer is stored, and that a row no fiber carries belongs to a loop that is at its
boot (`Busy`, `LoopAlone`, `LostAreLost`, `RowsInOrder`, `Over`). An answer written by a
boot to a run that was lost is an exception the property names, and a report on a row
that was still live when the window ran out (`hasty`) is the other.

`ResumesWholeSession` quantifies over the history of a session. `WholeInv` has that a
session with a newer one in its thread is closed to resuming (`OldAreClosed`), that the
session a fiber has chosen is the newest of its thread and stays the one to choose
until it is attached (`FibersFit`), that a run that is live, or lost and not finished,
is the newest of its thread in an open session (`RunsFit`), and that a run that broke
is the last of its session, which is failed or has somebody about to fail it
(`BrokenIsLast`). It holds with crashes, stops and refused writes at any step; the
endings whose write was refused are the ones `cut` names.

`NoWordForgotten` and `NoOrphanTurn` are the safety under `EveryWordShown`, and need no
hypothesis. A word no prompt has shown lies above the watermark of the newest session of
its thread unless that mark overtook it while it was uncommitted (`Overtaken`), and such
a word is lost to the queue; for every other, the thread is in the queue unless a run of it is live (`UnseenIsUnanswered`).
A live run is in the hand of its turn, of the stop taken for it or of the boot
(`InHand`); `TurnInv` adds that an interrupted turn carries the target of the stop that
waits for it, or has a plan ahead that will find the target live (`Meant`). The runs
whose close was refused are the exception, and `cut` names them.

`TimelineWhole` needs `ReaderInOrder`: what the reader consumed is a prefix of the file,
and what it holds is what follows. `TimelineImplemented` maps the follower's cursor to
the last row given (`CursorIsLast`); a page that gives several rows needs its last
one, which `Numbers!LargestExists` finds. `NothingSkipped` allows what it must: a row
refused as it happened and ingested at the close may lie below a cursor.
A follower in `ask` is `caught`: `Hangup` needs that and a run that is over, and `AskRow`
is the one step that closes on such a run.
`NudgeKept` is what the stream's wait rests on: the nudge is taken before the drain
reads, so a row that lands during the drain leaves a new one, and a drain ends only on
a page that holds all there was (`ShortPageIsAll`). `NoLosses` says the listener drops no
notice; where it does, only the tick repairs it, and that is `FollowerIsServed`'s.

`SaidAsStamped` counts. A message is sent by at most one holder of its claim in the
listener (`OneSender`), every message beyond the first is owed to a send whose stamp
did not follow or which outlasted the grace (`Paid`), and a stamp is only written by
a sender whose message went out (`Earned`). `NoticeMatchesOutcome` follows a notice from
the row it read (`Told`) to the claim it made (`Agrees`), with `RowsEnd`: an ended row
stays so.

`RequestInv` ties a request of a person to the row it read: what it is about to write
is the body of a row that exists, and what it is about to accept has been written.

Every invariant and every action property that a passing run checks is stated by a
theorem. Only model-checked is the liveness (the provers have no `ENABLED`):
`StopEndsTurn`, `EveryRunEnds`, `CardIsTaken`, `CommandsDrain`, `FileFollowsHolder`,
`HealthyIsServed`, `EveryWordShown`, `FollowerIsServed` and `ClaimIsDelivered`.
Before its proof each inductive invariant was checked by TLC, on instances wider than
the runs' (`RetryInv` on 10 million states, with two moves, three runs, a deferral, a
stall, a rejection and a shutdown; `WholeInv` and `TurnInv` on 13 million each).
Nine properties are proved and belong to no run. `EndingIsFinal` follows from the ledger
a run checks and `NothingSkipped` from the timeline. `KillReaches`, `NoOrphanRun`, `StopInHand`, `InterruptsMeant`, `NoWordForgotten`, `NoOrphanTurn` and
`NudgeKept` are what the liveness properties rest on, and the runs check those: a run
that nobody carries, a word that nobody awaits or a wake-up that is lost would show
there as a promise not kept.

## 5. Plan

Done: `TaskLoop` with `RunLedger`; `Lease`; `QuotaGate`; sessions and chat turns as one
module, `Conversation`; the event stream, `RunFeed` with `Timeline`; `Notify`;
`Proposals`. Left, in this order:

* Rules of `packages/domain` and `retry.ts` as functions over small inputs
  (`canTransition`, `attemptAfter`, `decideRetry`), against what their docs say.
* The keep sets of the directory sweep and the container reap at boot, against a
  process that is opening runs meanwhile.
* The refresh queue of pull requests, and the cursor and windows of the stuck-run
  watch.
* Theorems about the rules of `packages/domain`, once they are modelled.

## 6. Not modelled, and observations

Access control, containers, git, parsing of agents' output, HTTP, rendering and
user interfaces are not modelled: they are I/O, or text, or outside what these
properties speak of. Repositories of single rows with an audit row have one step
each and nothing that overlaps. The board stream re-reads everything on each
nudge and keeps nothing. Artifacts are an index that each
close hook rebuilds from the directory; two hooks of one project may scan in one
order and replace in the other, and the next scan mends it. Midpoint ranks are floating point, outside TLC's integers. What each
partly modelled component leaves out is in its note in `PROJECT.json`.

Met while modelling. None of these is a run, because the code or its docs promise
nothing about them, or promise it in words that do not settle which state is
meant:

* With two processes over one database a stop for one run interrupts, by the
  subject's key, the run that has replaced it on the other process, which is then
  filed `stopped`. Deployed is one process.
* A move's stop is decided from a read before the move's transaction. A run
  created in between goes on with no stop for it.
* A release whose remove fails, or is followed by a late rename, leaves a fresh file
  that names a living process with no fiber behind it: the card waits until the file
  is stale, and another process's boot leaves that card's runs alone until then.
* A stop that reaches the window between the row and the close hook leaves the
  row to `closeStopped` and the card in the column, so the next sweep runs it
  again. So does a crash between the close of a run and the move of its card.
* `stampStalled` parks a card although a person has just put it back.
* A pending stop answers for a second one on the same subject, whatever run that
  names.
* `withLease` ignores a heartbeat's `lost`. A beat's rename interrupted on its way
  may land after the release, and blocks the subject until it is stale. A boot may
  remove a file claimed between its list and its remove; the next beat heals it.
* The in-flight headroom is counted before the permit is taken, so several
  dispatches of one sweep are judged with the same count, and a sum that passes the
  threshold can be admitted on one reading.
* `setReactivePause` reads the previous record outside the lock. With several runs
  failing on one drain a later write may carry an earlier count, and shorten a
  longer pause.
* `noteError`'s doc says a match means "no retry stamp, no step up the park ladder".
  The close hook stamps the ladder before it asks, and ignores the answer.
* Usage reads have no deadline and the sweep's `refresh` is awaited before commands
  are drained: a read that hangs holds stops and sweeps until it returns.
* A lease left fresh by a dead process whose pid is in use again keeps its run
  guarded at that boot, and only the next boot reconciles it.
* `resolveTask` re-checks the status "against the row in hand", which is the sweep's
  (`dispatch.ts:318`): a card moved away between the column read and the plan gets a
  run.
* A booting process reads the live leases and then the live rows (`lease.ts:548`).
  Another process that claims and opens in between has its run closed as lost.
* `start_session` on a card in the backlog is consumed and starts nothing: the
  handler has no status check (`commands.ts:391`), the plan it forks has one.
* Claiming reads, decides and renames, and the gate around it is per process
  (`lease.ts:5-9`): two processes may both claim. The runs stay single
  (`OneLiveRun` in `two_loops`).
* A healthy `admit` clears the pause, whatever the file says by then
  (`gate.ts:645-649, 674`): one whose usage read was out while a run drained deletes
  the pause that run wrote. `PauseBindsLaterAsks` is what is left of the promise.

Conversations:

* A message stamped earlier may commit later: `created_at` is the start of its
  transaction, which may wait for the thread's row (`schema/columns.ts:34`,
  `chat-message.ts:130-164`). If a prompt reads a later one in between, the watermark
  passes it, no prompt of that session shows it and `awaitingReply` does not count it.
  The doc of `since` says "every message that arrived while a turn ran is unread when
  the next one starts" (`chat-message.ts:208-209`).
* A close-out that takes longer than the bot waits (`bot/src/settle.ts:29-61`, then
  `telegram/answer.ts:308-320`) is reported as a turn that said nothing, and its answer
  is stored afterwards. The doc has it that the answer is there "by the time a run reads
  as ended" (`answer.ts:243-244`), which it is: the bot no longer waits for that.
* A run refused at its creation leaves the session it had reopened `running`.
* A session resumed with no `providerSessionId` starts its provider afresh, and keeps
  its watermark (`open-run.ts:201`): what came before it is not in its prompt.
* A turn that fails before its prompt is built is repeated by every sweep, with no
  ladder (`runtime.ts:622`, `runtime.ts:635`).
* A crash between the close of a row and the end of its session leaves the session
  `running`, so one that broke is resumed (`cut` in `ResumesWholeSession`).
* A run that boot finds lost may be announced as silent and then be answered.

The timeline:

* "A finished run's stream closes once it has caught up" (`api/groups/runs.ts:73`). The
  stream reads an empty page and then the run row (`sse.ts:191-197`): rows stored in
  between, or ingested at the close or later, are not sent before it closes.
* The server closes a connection that is silent for 255 seconds and counts on "a client
  that is hung up on reconnects and misses nothing" (`gateway/layers.ts:67-68`). The
  board's does; to a run's stream it is an ending, and the screen of a live run does not
  open it again (`dashboard/src/api/stream.ts:21-27`, `dashboard/src/api/runs.ts:136-165`).
* A stop's marker written after the row was closed may miss a follower that asked
  in between (`sse.ts:191`). A row refused as it happened and ingested at the close
  lies below the cursors that have passed it, and is never streamed.
* `appendAll` is one statement: a batch with one refused row stores none. The files
  of runs lost in a crash are not ingested.

The bot:

* A run that ends with no terminal event on its timeline is announced by nothing:
  the repair pass knows claims, not runs (`listener.ts:16`).
* One run may get two notices, of different kinds: its finish as read before the
  move to review, and its need of review after a stop's marker.
* 50 claims that Telegram refuses for good stand at the head of every repair batch,
  and those behind them wait.

Proposals:

* A confirm that read `pending` writes the bytes though a rejection lands before its
  decision, which is then refused.
* The digest covers the body. A proposal whose target path alone is edited is
  dropped as recorded, where `schema/proposal.ts` calls an edited one a new request.
* Two accepted rows of one path may be decided in one order and written in the
  other.
