---------------------------- MODULE Conversation ----------------------------
(***************************************************************************)
(* Chat: what is said in a thread, the agent session each turn continues,  *)
(* the watermark that says how far a session has read, and the answer that *)
(* comes back (open-run.ts, prompt.ts, chat-turn.ts, terminal.ts and the   *)
(* session and chat repositories). One loop process runs the chat lane; it *)
(* may crash at any step, be silent to stop a turn, and have writes refused. *)
(*                                                                         *)
(* A position in `said` is the (created_at, id) order of the messages. A    *)
(* message takes its place when its transaction begins (the column defaults *)
(* to now(), the start of it) and can be read once it has committed, so one *)
(* with a lower position may appear after one with a higher was read.       *)
(***************************************************************************)
EXTENDS Naturals, Sequences, FiniteSets

CONSTANTS
  Threads,      \* the chat threads
  ChatSlots,    \* permits of the chat lane
  MaxRuns,      \* bound on the run rows
  MaxSessions,  \* bound on the session rows
  Budgets       \* how often each disturbance may happen: one choice per behaviour

(* Words a person says, stops they press, crashes, dispatches or prompts that *)
(* fail, writes of the terminal path that are refused, close-outs that outlast *)
(* the bot's patience.                                                       *)
Disturbances == {"words", "stops", "crashes", "faults", "refusals", "delays"}

ASSUME BoundsAssumption ==
  /\ MaxRuns \in Nat /\ MaxSessions \in Nat
  /\ ChatSlots \in Nat \ {0}
  /\ Budgets \subseteq [Disturbances -> Nat]
ASSUME ThreadsAssumption == Threads # {} /\ IsFiniteSet(Threads)

VARIABLES
  said,      \* chat_message: who said something where, in the order of the table
  sess,      \* agent_session
  lastSess,  \* the newest session row
  run,       \* run
  lastRun,   \* the newest run row
  fiber,     \* FiberMap "running": the fiber of each thread
  loop,      \* the fiber that sweeps, handles commands and reconciles at boot
  stop,      \* pending stop commands
  event,     \* the runs with a terminal event in their timeline
  silent,    \* the runs of which the bot reported that they said nothing
  hasty,     \* history: those it reported on while their row was still live
  shown,     \* history: the positions prompts of a session were built from
  beside,    \* history: the positions a session's read passed, not committed yet
  cut,       \* history: runs whose ending was not wholly written
  budget     \* disturbances that may still happen

rows == <<said, sess, lastSess, run, lastRun>>
vars == <<said, sess, lastSess, run, lastRun, fiber, loop, stop, event, silent,
          hasty, shown, beside, cut, budget>>

-----------------------------------------------------------------------------
(* Types                                                                     *)

RunIds     == 1..MaxRuns
SessionIds == 1..MaxSessions
None       == 0
User       == 0

LiveStates  == {"queued", "running"}
TurnEndings == {"done", "errored", "timeout", "lost"}
Endings     == TurnEndings \cup {"stopped"}

Message == [in : Threads, by : RunIds \cup {User}, posted : BOOLEAN]
Session == [of : Threads, status : {"absent", "running", "finished", "failed"},
            mark : Nat, provider : BOOLEAN]
Run     == [of : Threads, sess : SessionIds \cup {None},
            state : LiveStates \cup Endings \cup {"absent"}]

BeforeRow == {"plan", "admit", "attach", "create"}
InTurn    == {"prompt", "advance", "turn"}
Terminal  == {"record", "answer", "close", "end"}
Fiber == [step : {"none", "opened"} \cup BeforeRow \cup InTurn \cup Terminal,
          run : RunIds \cup {None}, sess : SessionIds \cup {None},
          resumed : BOOLEAN, unread : SUBSET Nat, ending : Endings,
          speaks : BOOLEAN, interrupted : BOOLEAN]

Loop == [step : {"off", "lose", "finish", "end", "idle", "fork", "killing",
                 "marker", "bury"},
         lost : SUBSET RunIds, finish : SUBSET RunIds,
         waiting : SUBSET Threads, target : RunIds \cup {None}]

TypeOK ==
  /\ said \in Seq(Message)
  /\ sess \in [SessionIds -> Session]
  /\ \A s \in SessionIds : sess[s].mark <= Len(said)
  /\ lastSess \in 0..MaxSessions
  /\ run \in [RunIds -> Run]
  /\ lastRun \in 0..MaxRuns
  /\ fiber \in [Threads -> Fiber]
  /\ loop \in Loop
  /\ stop \subseteq Threads
  /\ event \subseteq RunIds
  /\ silent \subseteq RunIds /\ hasty \subseteq RunIds
  /\ shown \in [SessionIds -> SUBSET Nat]
  /\ beside \in [SessionIds -> SUBSET Nat]
  /\ cut \subseteq RunIds
  /\ budget \in [Disturbances -> Nat]

-----------------------------------------------------------------------------
(* Rows                                                                      *)

Stamped(t)   == {p \in DOMAIN said : said[p].in = t}
Positions(t) == {p \in Stamped(t) : said[p].posted}
WordsOf(t)   == {p \in Positions(t) : said[p].by = User}
After(t, m)  == {p \in Positions(t) : p > m}

Live(r)      == run[r].state \in LiveStates
LiveOn(t)    == {r \in RunIds : run[r].of = t /\ Live(r)}
SessionsOf(t) == {s \in 1..lastSess : sess[s].of = t}
Ended(s)     == {r \in RunIds : run[r].sess = s /\ run[r].state \in Endings}

Newest(S) == IF S = {} THEN None ELSE CHOOSE x \in S : \A y \in S : y <= x
Oldest(S) == CHOOSE x \in S : \A y \in S : x <= y
MarkOf(s) == IF s = None THEN 0 ELSE sess[s].mark

(* Mutant of Resumable: a wall hit twice is run into a third time.           *)
ResumableForever(s) ==
  \/ sess[s].status # "failed"
  \/ \E r \in Ended(s) :
       /\ \A q \in Ended(s) : q <= r
       /\ run[r].state \in {"done", "timeout"}

(* isResumable: any session that did not fail, and a failed one whose newest  *)
(* outcome left the conversation intact and is not met there a second time.   *)
Resumable(s) ==
  \/ sess[s].status # "failed"
  \/ \E r \in Ended(s) :
       /\ \A q \in Ended(s) : q <= r
       /\ run[r].state \in {"done", "timeout"}
       /\ \A q \in Ended(s) \ {r} : run[q].state # run[r].state

LatestResumable(t) == Newest({s \in SessionsOf(t) : Resumable(s)})

(* Mutant of Unanswered: a thread without a session joins nothing.           *)
UnansweredInnerJoin(t) ==
  LET s == Newest(SessionsOf(t)) IN
  IF s = None THEN {} ELSE {p \in WordsOf(t) : p > MarkOf(s)}

(* What a person said that the newest session of the thread was not shown.    *)
Unanswered(t) == {p \in WordsOf(t) : p > MarkOf(Newest(SessionsOf(t)))}

(* awaitingReply, before its limit and its order.                            *)
Awaiting == {t \in Threads : Unanswered(t) # {} /\ LiveOn(t) = {}}

(* Mutant of NextMark: one past the last row rendered.                       *)
NextMarkPast(unread) == Newest(unread) + 1

(* Mutant of NextMark: the newest row on the table.                          *)
NextMarkOfTable(unread) == Newest({p \in DOMAIN said : said[p].posted})

(* nextWatermarkOf: the last row the prompt rendered.                        *)
NextMark(unread) == Newest(unread)

Spend(k) ==
  /\ budget[k] > 0
  /\ budget' = [budget EXCEPT ![k] = @ - 1]

NoFiber == [step |-> "none", run |-> None, sess |-> None, resumed |-> FALSE,
            unread |-> {}, ending |-> "lost", speaks |-> TRUE,
            interrupted |-> FALSE]
LoopAt(step) == [step |-> step, lost |-> {}, finish |-> {}, waiting |-> {},
                 target |-> None]

At(t, step)  == fiber[t].step = step
Leave(t)     == fiber' = [fiber EXCEPT ![t] = NoFiber]
Goto(t, step) == fiber' = [fiber EXCEPT ![t].step = step]
Admitted     == {t \in Threads : fiber[t].step \notin {"none", "plan", "admit"}}

(* Mutant of Close: the row's own outcome is not looked at.                  *)
CloseAnyway(r, ending) == run' = [run EXCEPT ![r].state = ending]

(* RunRepo.close: a row that has ended refuses, which the callers agree with. *)
Close(r, ending) ==
  run' = IF Live(r) THEN [run EXCEPT ![r].state = ending] ELSE run

(* Mutant of EndSession: every ending finishes the session.                  *)
EndSessionFinished(s, ending) ==
  sess' = IF sess[s].status = "running"
          THEN [sess EXCEPT ![s].status = "finished"] ELSE sess

(* AgentSessionRepo.fail for a run that broke, finish for any other; a session *)
(* that is not running refuses both.                                         *)
EndSession(s, ending) ==
  sess' = IF sess[s].status = "running"
          THEN [sess EXCEPT ![s].status =
                 IF ending \in {"errored", "timeout", "lost"}
                 THEN "failed" ELSE "finished"]
          ELSE sess

Init ==
  /\ said = <<>>
  /\ \E t \in Threads :
       /\ sess = [s \in SessionIds |-> [of |-> t, status |-> "absent",
                                        mark |-> 0, provider |-> FALSE]]
       /\ run = [r \in RunIds |-> [of |-> t, sess |-> None, state |-> "absent"]]
  /\ lastSess = 0 /\ lastRun = 0
  /\ fiber = [t \in Threads |-> NoFiber]
  /\ loop = LoopAt("idle")
  /\ stop = {} /\ event = {} /\ silent = {} /\ hasty = {} /\ cut = {}
  /\ shown = [s \in SessionIds |-> {}]
  /\ beside = [s \in SessionIds |-> {}]
  /\ budget \in Budgets

-----------------------------------------------------------------------------
(* People, the bot, and the process going down.                              *)

(* ChatMessageRepo.append for what a person typed: the transaction begins, and *)
(* its message has its place. Committed commits it; one that never does is   *)
(* rolled back. What a run says stays one step: nothing reads its thread for a *)
(* prompt while its own turn or the boot is writing it.                      *)
Say(t) ==
  /\ Spend("words")
  /\ said' = Append(said, [in |-> t, by |-> User, posted |-> FALSE])
  /\ UNCHANGED <<sess, lastSess, run, lastRun, fiber, loop, stop, event,
                 silent, hasty, shown, beside, cut>>

Committed(p) ==
  /\ ~said[p].posted
  /\ said' = [said EXCEPT ![p].posted = TRUE]
  /\ UNCHANGED <<sess, lastSess, run, lastRun, fiber, loop, stop, event, silent,
                 hasty, shown, beside, cut, budget>>

FileStop(t) ==
  /\ LiveOn(t) # {} /\ t \notin stop /\ Spend("stops")
  /\ stop' = stop \cup {t}
  /\ UNCHANGED <<rows, fiber, loop, event, silent, hasty, shown, beside, cut>>

(* deliverAnswer: woken by the terminal event, waits for the row to stop being*)
(* live, but no longer than SETTLE_WINDOW_MS, and looks for what the run said. *)
(* Here: when it finds nothing, in its row's lifetime or after it.           *)
BotReads(r) ==
  /\ r \in event /\ r \notin silent
  /\ \A p \in DOMAIN said : said[p].by # r
  /\ silent' = silent \cup {r}
  /\ IF Live(r) THEN Spend("delays") /\ hasty' = hasty \cup {r}
               ELSE UNCHANGED <<hasty, budget>>
  /\ UNCHANGED <<rows, fiber, loop, stop, event, shown, beside, cut>>

(* The loop process dies with every fiber of it. A run between its row's close *)
(* and its session's end is finished by nobody: its row is no longer live. So *)
(* are the lost runs the boot reconcile had closed and not finished.          *)
Crash ==
  /\ loop.step # "off" /\ Spend("crashes")
  /\ cut' = cut \cup loop.finish
         \cup {fiber[t].run : t \in {u \in Threads : At(u, "end")}}
  /\ fiber' = [t \in Threads |-> NoFiber]
  /\ loop' = LoopAt("off")
  /\ UNCHANGED <<rows, stop, event, silent, hasty, shown, beside>>

-----------------------------------------------------------------------------
(* Boot: reconcileLostRuns closes what nobody is running, closeLostRun then   *)
(* finishes each through the ordinary terminal path.                         *)

Boot ==
  /\ loop.step = "off"
  /\ loop' = [LoopAt("lose") EXCEPT !.lost = {r \in RunIds : Live(r)}]
  /\ UNCHANGED <<rows, fiber, stop, event, silent, hasty, shown, beside, cut,
                 budget>>

LoseRow(r) ==
  /\ loop.step = "lose" /\ r \in loop.lost
  /\ Close(r, "lost")
  /\ loop' = [loop EXCEPT !.lost = @ \ {r},
                          !.finish = IF Live(r) THEN @ \cup {r} ELSE @]
  /\ UNCHANGED <<said, sess, lastSess, lastRun, fiber, stop, event, silent,
                 hasty, shown, beside, cut, budget>>

Reconciled ==
  /\ loop.step = "lose" /\ loop.lost = {}
  /\ loop' = [loop EXCEPT !.step = IF loop.finish = {} THEN "idle" ELSE "finish"]
  /\ UNCHANGED <<rows, fiber, stop, event, silent, hasty, shown, beside, cut,
                 budget>>

(* closeRun for a lost run: "That turn failed", though its row has ended.     *)
FinishAnswer(r) ==
  /\ loop.step = "finish" /\ r \in loop.finish
  /\ said' = Append(said, [in |-> run[r].of, by |-> r, posted |-> TRUE])
  /\ loop' = [loop EXCEPT !.step = "end", !.target = r]
  /\ UNCHANGED <<sess, lastSess, run, lastRun, fiber, stop, event, silent,
                 hasty, shown, beside, cut, budget>>

FinishEnd ==
  LET r == loop.target
      left == loop.finish \ {r} IN
  /\ loop.step = "end"
  /\ EndSession(run[r].sess, "lost")
  /\ loop' = [loop EXCEPT !.step = IF left = {} THEN "idle" ELSE "finish",
                          !.finish = left, !.target = None]
  /\ UNCHANGED <<said, lastSess, run, lastRun, fiber, stop, event, silent,
                 hasty, shown, beside, cut, budget>>

-----------------------------------------------------------------------------
(* A sweep: a pending stop first, then the chat queue.                       *)

(* handleStop finds the live run; control.stop interrupts its fiber, if any.  *)
TakeStop(t) ==
  /\ loop.step = "idle" /\ t \in stop
  /\ stop' = stop \ {t}
  /\ IF LiveOn(t) = {}
       THEN UNCHANGED <<fiber, loop>>
       ELSE /\ loop' = [LoopAt("killing") EXCEPT !.target = Newest(LiveOn(t))]
            /\ fiber' = IF At(t, "none") THEN fiber
                        ELSE [fiber EXCEPT ![t].interrupted = TRUE]
  /\ UNCHANGED <<rows, event, silent, hasty, shown, beside, cut, budget>>

(* FiberMap.remove returns when the run's finalizers have run.               *)
Killed ==
  /\ loop.step = "killing" /\ At(run[loop.target].of, "none")
  /\ loop' = [loop EXCEPT !.step = "marker"]
  /\ UNCHANGED <<rows, fiber, stop, event, silent, hasty, shown, beside, cut,
                 budget>>

(* appendStopped: a terminal event like the harness's own.                   *)
StopMarked ==
  /\ loop.step = "marker"
  /\ event' = event \cup {loop.target}
  /\ loop' = [loop EXCEPT !.step = "bury"]
  /\ UNCHANGED <<rows, fiber, stop, silent, hasty, shown, beside, cut, budget>>

(* closeStopped: for a row nobody was left to close. Its session stays as it is.*)
StopClosed ==
  /\ loop.step = "bury"
  /\ Close(loop.target, "stopped")
  /\ loop' = LoopAt("idle")
  /\ UNCHANGED <<said, sess, lastSess, lastRun, fiber, stop, event, silent,
                 hasty, shown, beside, cut, budget>>

(* chatQueue: as many waiting threads as the lane has free slots, the one that*)
(* has waited longest first.                                                 *)
ReadQueue ==
  /\ loop.step = "idle" /\ Awaiting # {}
  /\ Cardinality(Admitted) < ChatSlots
  /\ \E W \in SUBSET Awaiting :
       /\ W # {} /\ Cardinality(W) <= ChatSlots - Cardinality(Admitted)
       /\ W = Awaiting \/ Cardinality(W) = ChatSlots - Cardinality(Admitted)
       /\ \A t \in W, u \in Awaiting \ W :
            Oldest(Unanswered(t)) < Oldest(Unanswered(u))
       /\ loop' = [LoopAt("fork") EXCEPT !.waiting = W]
  /\ UNCHANGED <<rows, fiber, stop, event, silent, hasty, shown, beside, cut,
                 budget>>

(* forkRun with onlyIfMissing, for each of them.                             *)
Fork ==
  /\ loop.step = "fork"
  /\ fiber' = [t \in Threads |->
       IF t \in loop.waiting /\ At(t, "none")
       THEN [NoFiber EXCEPT !.step = "plan"] ELSE fiber[t]]
  /\ loop' = LoopAt("idle")
  /\ UNCHANGED <<rows, stop, event, silent, hasty, shown, beside, cut, budget>>

-----------------------------------------------------------------------------
(* startWork and openRun.                                                    *)

(* resolveThread: no live run, and something said since the session it would  *)
(* resume was last shown something. The query hands back the row the watermark *)
(* names too when that row's microseconds were cut off: a mark may look unread.*)
Plan(t) ==
  LET m == MarkOf(LatestResumable(t)) IN
  /\ At(t, "plan")
  /\ \/ LiveOn(t) = {} /\ (After(t, m) # {} \/ m > 0) /\ Goto(t, "admit")
     \/ (LiveOn(t) # {} \/ After(t, m) = {}) /\ Leave(t)
  /\ UNCHANGED <<rows, loop, stop, event, silent, hasty, shown, beside, cut,
                 budget>>

(* Mutant of Chosen: a failed session is stepped over.                       *)
ChosenNotFailed(t) ==
  Newest({s \in SessionsOf(t) : sess[s].status # "failed"})

(* selectSession: a thread always continues its newest resumable session.     *)
Chosen(t) == LatestResumable(t)

(* pool.admit: a full lane ends the fiber; openRun begins by choosing.        *)
Admit(t) ==
  /\ At(t, "admit")
  /\ IF Cardinality(Admitted) < ChatSlots
       THEN fiber' = [fiber EXCEPT ![t].step = "attach", ![t].sess = Chosen(t)]
       ELSE Leave(t)
  /\ UNCHANGED <<rows, loop, stop, event, silent, hasty, shown, beside, cut,
                 budget>>

(* A read or write before the run row fails, or the gate defers: a thread is  *)
(* stamped with nothing, the next sweep may fork it again.                   *)
DispatchFails(t) ==
  /\ fiber[t].step \in BeforeRow /\ Spend("faults")
  /\ Leave(t)
  /\ UNCHANGED <<rows, loop, stop, event, silent, hasty, shown, beside, cut>>

(* The session is reopened, or opened. It is resumed only if the provider's   *)
(* own id is on it: one that has none starts fresh on the row it has.         *)
Attach(t) ==
  LET s == fiber[t].sess IN
  /\ At(t, "attach")
  /\ IF s # None
       THEN /\ sess' = [sess EXCEPT ![s].status = "running"]
            /\ fiber' = [fiber EXCEPT ![t].step = "create",
                                      ![t].resumed = sess[s].provider]
            /\ UNCHANGED lastSess
       ELSE /\ lastSess < MaxSessions
            /\ lastSess' = lastSess + 1
            /\ sess' = [sess EXCEPT ![lastSess'] =
                 [of |-> t, status |-> "running", mark |-> 0, provider |-> FALSE]]
            /\ fiber' = [fiber EXCEPT ![t].step = "create", ![t].sess = lastSess']
  /\ UNCHANGED <<said, run, lastRun, loop, stop, event, silent, hasty, shown,
                 beside, cut, budget>>

(* RunRepo.create, refused while a run of the thread is live.                 *)
Create(t) ==
  /\ At(t, "create") /\ lastRun < MaxRuns
  /\ IF LiveOn(t) = {}
       THEN /\ lastRun' = lastRun + 1
            /\ run' = [run EXCEPT ![lastRun'] =
                 [of |-> t, sess |-> fiber[t].sess, state |-> "queued"]]
            /\ fiber' = [fiber EXCEPT ![t].step = "opened", ![t].run = lastRun']
       ELSE Leave(t) /\ UNCHANGED <<run, lastRun>>
  /\ UNCHANGED <<said, sess, lastSess, loop, stop, event, silent, hasty, shown,
                 beside, cut, budget>>

-----------------------------------------------------------------------------
(* runOpened: the directories, the prompt, the turn.                         *)

(* The run is in the hands of its own close from here on; its directories are *)
(* made.                                                                     *)
BeginTurn(t) ==
  /\ At(t, "opened")
  /\ Goto(t, "prompt")
  /\ UNCHANGED <<rows, loop, stop, event, silent, hasty, shown, beside, cut,
                 budget>>

(* The bundle is missing, a mount or a prompt read or write fails: an ending   *)
(* like any other, with the watermark where it was.                          *)
PromptFails(t) ==
  /\ fiber[t].step \in {"prompt", "advance"} /\ Spend("faults")
  /\ fiber' = [fiber EXCEPT ![t].step = "record", ![t].ending = "errored",
                            ![t].unread = {}]
  /\ UNCHANGED <<rows, loop, stop, event, silent, hasty, shown, beside, cut>>

(* buildRunPrompt reads what its session has not been shown, of any author. A   *)
(* message that has its place and has not committed is passed by the read.    *)
ReadUnread(t) ==
  LET s == fiber[t].sess
      unread == After(t, sess[s].mark) IN
  /\ At(t, "prompt")
  /\ fiber' = [fiber EXCEPT ![t].step = "advance", ![t].unread = unread]
  /\ beside' = [beside EXCEPT ![s] =
       {p \in @ : p <= sess[s].mark}
         \cup {p \in Stamped(t) \ Positions(t) : p < Newest(unread)}]
  /\ UNCHANGED <<rows, loop, stop, event, silent, hasty, shown, cut,
                 budget>>

(* advanceWatermark, unless nothing was rendered.                            *)
Advance(t) ==
  LET s == fiber[t].sess
      unread == fiber[t].unread IN
  /\ At(t, "advance")
  /\ fiber' = [fiber EXCEPT ![t].step = "turn", ![t].unread = {}]
  /\ sess' = IF unread = {} THEN sess
             ELSE [sess EXCEPT ![s].mark = NextMark(unread)]
  /\ shown' = [shown EXCEPT ![s] = @ \cup unread]
  /\ UNCHANGED <<said, lastSess, run, lastRun, loop, stop, event, silent,
                 hasty, beside, cut, budget>>

(* session_init: runs.start.                                                 *)
HarnessAnswers(t) ==
  /\ At(t, "turn") /\ run[fiber[t].run].state = "queued"
  /\ run' = [run EXCEPT ![fiber[t].run].state = "running"]
  /\ UNCHANGED <<said, sess, lastSess, lastRun, fiber, loop, stop, event,
                 silent, hasty, shown, beside, cut, budget>>

(* The turn ends. A done turn has said so with a terminal event, one that      *)
(* failed or ran out of time may have (which only lets the bot read: it need   *)
(* not), a vanished harness has not.                                         *)
TurnEnds(t) ==
  LET r == fiber[t].run IN
  /\ At(t, "turn")
  /\ \E e \in TurnEndings, speaks \in BOOLEAN :
       /\ e = "done" => run[r].state = "running"
       /\ speaks \/ e = "done"
       /\ fiber' = [fiber EXCEPT ![t].step = "record", ![t].ending = e,
                                 ![t].speaks = speaks]
       /\ event' = IF e = "lost" THEN event ELSE event \cup {r}
  /\ UNCHANGED <<rows, loop, stop, silent, hasty, shown, beside, cut, budget>>

(* An interrupt: nothing is left of a fiber without a row, the row is left of  *)
(* a fiber that had only just opened it, and a turn is closed as stopped.     *)
Interrupted(t) ==
  /\ fiber[t].interrupted
  /\ \/ fiber[t].step \in BeforeRow \cup {"opened"} /\ Leave(t)
     \/ /\ fiber[t].step \in InTurn
        /\ fiber' = [fiber EXCEPT ![t].step = "record", ![t].ending = "stopped",
                                  ![t].unread = {}]
  /\ UNCHANGED <<rows, loop, stop, event, silent, hasty, shown, beside, cut,
                 budget>>

-----------------------------------------------------------------------------
(* closeRun: provider id, answer, run row, session; each best effort.         *)

(* Mutant of Following: the answer is written once the row has closed.       *)
FollowingRowFirst(step) ==
  CASE step = "record" -> "close" [] step = "close" -> "answer"
    [] step = "answer" -> "end"   [] OTHER -> "none"

(* The order of closeRun.                                                    *)
Following(step) ==
  CASE step = "record" -> "answer" [] step = "answer" -> "close"
    [] step = "close" -> "end"     [] OTHER -> "none"

Proceed(t) ==
  IF Following(fiber[t].step) = "none" THEN Leave(t)
  ELSE Goto(t, Following(fiber[t].step))

RecordProvider(t) ==
  /\ At(t, "record") /\ Proceed(t)
  /\ sess' = [sess EXCEPT ![fiber[t].sess].provider =
       @ \/ run[fiber[t].run].state = "running"]
  /\ UNCHANGED <<said, lastSess, run, lastRun, loop, stop, event, silent,
                 hasty, shown, beside, cut, budget>>

(* closeChatTurn: what the manager said, or that the turn failed; a clean turn *)
(* that said nothing writes nothing.                                         *)
StoreAnswer(t) ==
  /\ At(t, "answer") /\ Proceed(t)
  /\ said' = IF fiber[t].speaks
             THEN Append(said, [in |-> t, by |-> fiber[t].run, posted |-> TRUE]) ELSE said
  /\ UNCHANGED <<sess, lastSess, run, lastRun, loop, stop, event, silent,
                 hasty, shown, beside, cut, budget>>

CloseRow(t) ==
  /\ At(t, "close") /\ Proceed(t)
  /\ Close(fiber[t].run, fiber[t].ending)
  /\ UNCHANGED <<said, sess, lastSess, lastRun, loop, stop, event, silent,
                 hasty, shown, beside, cut, budget>>

CloseSession(t) ==
  /\ At(t, "end") /\ Proceed(t)
  /\ EndSession(fiber[t].sess, fiber[t].ending)
  /\ UNCHANGED <<said, lastSess, run, lastRun, loop, stop, event, silent,
                 hasty, shown, beside, cut, budget>>

(* A write of closeRun is refused, logged and passed over.                   *)
WriteRefused(t) ==
  /\ fiber[t].step \in Terminal /\ Spend("refusals")
  /\ Proceed(t)
  /\ cut' = IF fiber[t].step \in {"close", "end"} THEN cut \cup {fiber[t].run}
            ELSE cut
  /\ UNCHANGED <<rows, loop, stop, event, silent, hasty, shown, beside>>

-----------------------------------------------------------------------------
FiberStep(t) ==
  \/ Plan(t) \/ Admit(t) \/ Attach(t) \/ Create(t) \/ BeginTurn(t)
  \/ ReadUnread(t) \/ Advance(t) \/ TurnEnds(t) \/ Interrupted(t)
  \/ RecordProvider(t) \/ StoreAnswer(t) \/ CloseRow(t) \/ CloseSession(t)

LoopStep ==
  \/ Boot \/ Reconciled \/ FinishEnd \/ Killed \/ StopMarked \/ StopClosed
  \/ ReadQueue \/ Fork
  \/ \E r \in RunIds : LoseRow(r) \/ FinishAnswer(r)
  \/ \E t \in Threads : TakeStop(t)

Disturb ==
  \/ Crash
  \/ \E p \in DOMAIN said : Committed(p)
  \/ \E t \in Threads :
       Say(t) \/ FileStop(t) \/ DispatchFails(t) \/ PromptFails(t) \/ WriteRefused(t)

Next ==
  \/ LoopStep \/ Disturb
  \/ \E t \in Threads : FiberStep(t) \/ HarnessAnswers(t)
  \/ \E r \in RunIds : BotReads(r)

Spec == Init /\ [][Next]_vars

(* Every fiber is scheduled and its turn is bounded by the wall clock; the    *)
(* poll comes round and a dead process is restarted. Nothing makes the harness *)
(* answer.                                                                   *)
FairSpec ==
  /\ Spec
  /\ WF_vars(LoopStep)
  /\ \A t \in Threads : WF_vars(FiberStep(t))

-----------------------------------------------------------------------------
(* Properties                                                                *)

(* A session's watermark passes no message of its thread but those a prompt of *)
(* the session was built from, and those that had their place and had not     *)
(* committed when the read that moved it was made: a message that is begun     *)
(* between the prompt's read and the advance stays unread (nextWatermarkOf,   *)
(* advanceWatermark).                                                        *)
WatermarkIsShown ==
  \A s \in 1..lastSess :
    \A p \in Stamped(sess[s].of) :
      p <= sess[s].mark => p \in shown[s] \cup beside[s]

(* The session a turn would resume is the newest of its thread: awaitingReply  *)
(* asks the newest one what it has been shown and latestResumable hands out    *)
(* the resumable one, and were they two, a thread would be answered for ever,  *)
(* or never. And a session is resumed only while it is whole: not after a turn *)
(* that broke or vanished (RESUMABLE_OUTCOMES), nor after two in a row that ran*)
(* into the wall clock (the repeat guard of isResumable), except where such an *)
(* ending was not wholly written.                                            *)
ResumesWholeSession ==
  /\ \A t \in Threads : LatestResumable(t) \in {None, Newest(SessionsOf(t))}
  /\ \A r, n \in 1..lastRun :
       /\ run[r].sess = run[n].sess /\ r < n
       /\ \/ run[r].state \in {"errored", "lost"}
          \/ /\ run[r].state = "timeout"
             /\ \E q \in 1..(r - 1) :
                  run[q].sess = run[r].sess /\ run[q].state = "timeout"
       => r \in cut

(* A bot that has seen the row of a turn end says that it had nothing to say    *)
(* only of a turn that never says anything; a turn a restart declared lost is  *)
(* the exception (terminal.ts:536).                                          *)
SilenceIsTrue ==
  \A r \in RunIds :
    r \in silent \ hasty /\ run[r].state # "lost"
      => \A p \in DOMAIN said : said[p].by # r

(* Whatever a person says is put before a session, unless the thread carries a *)
(* row whose ending was refused and which no restart has closed, or the        *)
(* watermark overtook the word while its transaction was open.               *)
Overtaken(s) == IF s = None THEN {} ELSE {p \in beside[s] : p <= sess[s].mark}
Unseen(t) ==
  {p \in WordsOf(t) \ Overtaken(Newest(SessionsOf(t))) :
     \A s \in SessionsOf(t) : p \notin shown[s]}
EveryWordShown ==
  \A t \in Threads :
    Unseen(t) # {} ~> Unseen(t) = {} \/ LiveOn(t) \cap cut # {}

(* The run rows of the chat lane keep what RunLedger promises: one live run of *)
(* a thread, one ending each, though the loop, a stop and a boot all close.   *)
Ledger == INSTANCE RunLedger WITH
  Tasks    <- Threads,
  runOf    <- [r \in RunIds |-> run[r].of],
  runState <- [r \in RunIds |-> run[r].state]
LedgerImplemented == Ledger!LedgerSpec

=============================================================================
