------------------------------- MODULE Notify -------------------------------
(***************************************************************************)
(* What the bot volunteers about runs (apps/bot/src/notify): the listener   *)
(* on the run events, the summary that reads what a notice means off the    *)
(* rows, the ledger of claims a send goes through and the pass that repairs *)
(* it. The close-out of the runs is here as far as the bot can see it:      *)
(* terminal event, run row, board move, stop marker. The bot may be down,   *)
(* deaf or slow, Telegram may refuse, a stamp may fail.                     *)
(***************************************************************************)
EXTENDS Naturals, Sequences, FiniteSets

CONSTANTS
  Runs,       \* worker runs, each on a card of its own
  Limit,      \* DEFAULT_LIMIT: claims one repair pass takes up
  Budgets     \* how often each disturbance may happen: one choice per behaviour

(* The loop dies, a button stops a run, a person moves a card, the bot dies,   *)
(* its connection drops, a wait of NOTICE_SETTLE_MS runs out, a send outlasts   *)
(* the grace, Telegram refuses, a stamp fails.                               *)
Disturbances == {"crashes", "stops", "moves", "restarts", "drops", "timeouts",
                 "slow", "refusals", "faults"}

ASSUME BoundsAssumption == Limit \in Nat \ {0} /\ Budgets \subseteq [Disturbances -> Nat]

VARIABLES
  closing,   \* how far the loop is with each run
  outcome,   \* how its turn ended
  row,       \* run.status, as what a reader of the row sees
  card,      \* the column of its card
  stop,      \* a stop command on it
  bot,       \* the bot's process and its LISTEN connection
  jobs,      \* notices being worked on
  ledger,    \* chat_notification: one row per key, once it is claimed
  order,     \* the claims in the order of created_at
  said,      \* messages that reached a chat, per key
  pass,      \* the repair pass in hand: the claims left to it, in that order
  hasty,     \* history: runs described before their row had ended
  unsure,    \* history: how often a send and its stamp came apart, per key
  budget     \* disturbances that may still happen

vars == <<closing, outcome, row, card, stop, bot, jobs, ledger, order, said, pass,
          hasty, unsure, budget>>
loop == <<closing, outcome, row, card, stop>>
history == <<hasty, unsure>>

-----------------------------------------------------------------------------
Outcomes == {"done", "failed", "stopped"}
Columns  == {"in_progress", "review", "elsewhere"}
Events   == {"finished", "failed", "stopped"}
Kinds    == {"run_finished", "needs_review", "run_failed"}
Keys     == Kinds \X Runs    \* dedupeKeyOf; a run has one card
None     == "none"

(* A notice in a lane of the listener: what woke it, what it has read so far.  *)
Jobs == [run : Runs, event : Events, step : {"settle", "task", "claim", "send", "stamp"},
         seen : Outcomes \cup {"live", None}, kind : Kinds \cup {None}]

(* fresh: younger than the retry grace. stale: older, and unsent.             *)
Claims == {None, "fresh", "stale", "stamped"}

TypeOK ==
  /\ closing \in [Runs -> {"turn", "ended", "closed", "over", "lost"}]
  /\ outcome \in [Runs -> Outcomes \cup {None}]
  /\ row \in [Runs -> Outcomes \cup {"live"}]
  /\ card \in [Runs -> Columns]
  /\ stop \in [Runs -> {None, "asked", "marked"}]
  /\ bot \in {"listening", "deaf", "down"}
  /\ jobs \subseteq Jobs
  /\ ledger \in [Keys -> Claims]
  /\ order \in Seq(Keys)
  /\ \A i, j \in DOMAIN order : order[i] = order[j] => i = j
  /\ {order[i] : i \in DOMAIN order} = {k \in Keys : ledger[k] # None}
  /\ said \in [Keys -> Nat]
  /\ pass \in [left : SUBSET (DOMAIN order), step : {"send", "stamp"}]
  /\ hasty \subseteq Runs /\ unsure \in [Keys -> Nat]
  /\ budget \in [Disturbances -> Nat]

(* No pass, or one that is through.                                           *)
Idle == [left |-> {}, step |-> "send"]

Init ==
  /\ closing = [r \in Runs |-> "turn"] /\ outcome = [r \in Runs |-> None]
  /\ row = [r \in Runs |-> "live"] /\ card = [r \in Runs |-> "in_progress"]
  /\ stop = [r \in Runs |-> None]
  /\ bot = "listening" /\ jobs = {}
  /\ ledger = [k \in Keys |-> None] /\ order = << >>
  /\ said = [k \in Keys |-> 0] /\ pass = Idle
  /\ hasty = {} /\ unsure = [k \in Keys |-> 0]
  /\ budget \in Budgets

(* A pass takes its claims up one after the other.                            *)
InHand(i) == i \in pass.left /\ \A j \in pass.left : i <= j

Spend(d) == budget[d] > 0 /\ budget' = [budget EXCEPT ![d] = @ - 1]

-----------------------------------------------------------------------------
(* The loop.                                                                *)

(* A terminal event is stored: whoever listens at that instant hears of it.    *)
Store(r, event) ==
  jobs' = IF bot = "listening"
          THEN jobs \cup {[run |-> r, event |-> event, step |-> "settle",
                           seen |-> None, kind |-> None]}
          ELSE jobs

(* The turn's last line is stored while the container is still closing.       *)
TurnEnds(r, how) ==
  /\ closing[r] = "turn"
  /\ closing' = [closing EXCEPT ![r] = "ended"]
  /\ outcome' = [outcome EXCEPT ![r] = how]
  /\ Store(r, IF how = "done" THEN "finished" ELSE "failed")
  /\ UNCHANGED <<row, card, stop, bot, ledger, order, said, pass, budget, history>>

(* A turn that breaks, or that a stop interrupts, leaves no terminal event.    *)
TurnBreaks(r) ==
  /\ closing[r] = "turn"
  /\ closing' = [closing EXCEPT ![r] = "ended"]
  /\ outcome' = [outcome EXCEPT ![r] = IF stop[r] = "asked" THEN "stopped" ELSE "failed"]
  /\ UNCHANGED <<row, card, stop, bot, jobs, ledger, order, said, pass, budget, history>>

(* A stop that lands while the container is still shutting down is its ending.  *)
CloseRow(r) ==
  /\ closing[r] = "ended"
  /\ closing' = [closing EXCEPT ![r] = "closed"]
  /\ \/ row' = [row EXCEPT ![r] = outcome[r]]
     \/ stop[r] = "asked" /\ row' = [row EXCEPT ![r] = "stopped"]
  /\ UNCHANGED <<outcome, card, stop, bot, jobs, ledger, order, said, pass, budget, history>>

(* The messages, then the move to review, refused from any other column.      *)
MoveToReview(r) ==
  /\ closing[r] = "closed"
  /\ closing' = [closing EXCEPT ![r] = "over"]
  /\ card' = [card EXCEPT ![r] = IF @ = "in_progress" THEN "review" ELSE @]
  /\ UNCHANGED <<outcome, row, stop, bot, jobs, ledger, order, said, pass, budget, history>>

Stop(r) ==
  /\ row[r] = "live" /\ closing[r] # "lost" /\ stop[r] = None /\ Spend("stops")
  /\ stop' = [stop EXCEPT ![r] = "asked"]
  /\ UNCHANGED <<closing, outcome, row, card, bot, jobs, ledger, order, said, pass, history>>

(* The marker follows the close-out the interrupt waited for.                 *)
StopMarked(r) ==
  /\ stop[r] = "asked" /\ closing[r] = "over"
  /\ stop' = [stop EXCEPT ![r] = "marked"]
  /\ Store(r, "stopped")
  /\ UNCHANGED <<closing, outcome, row, card, bot, ledger, order, said, pass, budget, history>>

(* The agent puts its card in review itself, or a person moves it anywhere.    *)
AgentMoves(r) ==
  /\ closing[r] = "turn" /\ card[r] = "in_progress"
  /\ card' = [card EXCEPT ![r] = "review"]
  /\ UNCHANGED <<closing, outcome, row, stop, bot, jobs, ledger, order, said, pass, budget, history>>

PersonMoves(r) ==
  /\ card[r] # "elsewhere" /\ Spend("moves")
  /\ card' = [card EXCEPT ![r] = "elsewhere"]
  /\ UNCHANGED <<closing, outcome, row, stop, bot, jobs, ledger, order, said, pass, history>>

(* The loop dies. What it was closing stays where it was; what it carried is   *)
(* lost, and the next boot closes the row, with no event, and moves the card.  *)
LoopDies ==
  /\ \E r \in Runs : closing[r] # "over"
  /\ Spend("crashes")
  /\ closing' = [r \in Runs |-> IF row[r] = "live" THEN "lost" ELSE "over"]
  /\ stop' = [r \in Runs |-> IF stop[r] = "asked" THEN None ELSE stop[r]]
  /\ UNCHANGED <<outcome, row, card, bot, jobs, ledger, order, said, pass, history>>

Reconcile(r) ==
  /\ closing[r] = "lost"
  /\ closing' = [closing EXCEPT ![r] = "closed"]
  /\ row' = [row EXCEPT ![r] = "failed"]
  /\ UNCHANGED <<outcome, card, stop, bot, jobs, ledger, order, said, pass, budget, history>>

-----------------------------------------------------------------------------
(* The bot's process and its connection.                                     *)

KeyOf(job) == <<job.kind, job.run>>

ChannelDrops ==
  /\ bot = "listening" /\ Spend("drops")
  /\ bot' = "deaf"
  /\ UNCHANGED <<loop, jobs, ledger, order, said, pass, history>>

(* Stream.retry, or a process that has just started.                          *)
Listens ==
  /\ bot = "deaf"
  /\ bot' = "listening"
  /\ UNCHANGED <<loop, jobs, ledger, order, said, pass, budget, history>>

BotDies ==
  /\ bot # "down" /\ Spend("restarts")
  /\ bot' = "down" /\ jobs' = {} /\ pass' = Idle
  /\ unsure' = [k \in Keys |->
       unsure[k] + (IF \E job \in jobs : job.step = "stamp" /\ KeyOf(job) = k THEN 1 ELSE 0)
                 + (IF pass.step = "stamp" /\ \E i \in pass.left : InHand(i) /\ order[i] = k
                    THEN 1 ELSE 0)]
  /\ UNCHANGED <<loop, ledger, order, said, hasty>>

BotBoots ==
  /\ bot = "down"
  /\ bot' = "deaf"
  /\ UNCHANGED <<loop, jobs, ledger, order, said, pass, budget, history>>

-----------------------------------------------------------------------------
(* A notice: settle, describe, claim, send, stamp.                           *)

Becomes(job, next) == jobs' = (jobs \ {job}) \cup {next}
Done(job)          == jobs' = jobs \ {job}
Doubt(k)           == unsure' = [unsure EXCEPT ![k] = @ + 1]

(* settledRun: the row once it has ended, or the live row after the wait.     *)
ReadRun(job) ==
  /\ job.step = "settle"
  /\ \/ row[job.run] # "live" /\ UNCHANGED <<budget, hasty>>
     \/ row[job.run] = "live" /\ Spend("timeouts") /\ hasty' = hasty \cup {job.run}
  /\ Becomes(job, [job EXCEPT !.step = "task", !.seen = row[job.run]])
  /\ UNCHANGED <<loop, bot, ledger, order, said, pass, unsure>>

(* Mutant of KindOf: the event is believed before the row.                    *)
KindOfEvent(seen, event, column) ==
  IF event = "finished" \/ seen = "done"
  THEN IF column = "review" THEN "needs_review" ELSE "run_finished"
  ELSE IF event = "stopped" THEN "run_finished" ELSE "run_failed"

(* notifyKindOf, on the run as it was read and the card as it is now.         *)
KindOf(seen, event, column) ==
  IF seen = "done" \/ (seen = "live" /\ event = "finished")
  THEN IF column = "review" THEN "needs_review" ELSE "run_finished"
  ELSE "run_failed"

ReadTask(job) ==
  /\ job.step = "task"
  /\ Becomes(job, [job EXCEPT !.step = "claim",
                              !.kind = KindOf(job.seen, job.event, card[job.run])])
  /\ UNCHANGED <<loop, bot, ledger, order, said, pass, budget, history>>

(* Mutant of Take: the conflict is an update, and hands the row to both.       *)
TakeAnyway(k) ==
  /\ ledger' = [ledger EXCEPT ![k] = IF @ = None THEN "fresh" ELSE @]
  /\ order' = Append(order, k)

(* ChatNotificationRepo.claim: on conflict do nothing.                        *)
Take(k) ==
  /\ ledger[k] = None
  /\ ledger' = [ledger EXCEPT ![k] = "fresh"]
  /\ order' = Append(order, k)

Claim(job) ==
  /\ job.step = "claim"
  /\ Take(KeyOf(job))
  /\ Becomes(job, [job EXCEPT !.step = "send"])
  /\ UNCHANGED <<loop, bot, said, pass, budget, history>>

ClaimTaken(job) ==
  /\ job.step = "claim" /\ ledger[KeyOf(job)] # None
  /\ Done(job)
  /\ UNCHANGED <<loop, bot, ledger, order, said, pass, budget, history>>

(* A message that reached a chat is stamped afterwards; one that none took is  *)
(* left to the repair pass.                                                  *)
Send(job) ==
  /\ job.step = "send"
  /\ said' = [said EXCEPT ![KeyOf(job)] = @ + 1]
  /\ Becomes(job, [job EXCEPT !.step = "stamp"])
  /\ UNCHANGED <<loop, bot, ledger, order, pass, budget, history>>

(* Mutant of SendRefused: a notice no chat took is stamped as well.           *)
SendRefusedStamped(job) ==
  /\ job.step = "send" /\ Spend("refusals")
  /\ ledger' = [ledger EXCEPT ![KeyOf(job)] = "stamped"]
  /\ Done(job)
  /\ UNCHANGED <<loop, bot, order, said, pass, history>>

SendRefused(job) ==
  /\ job.step = "send" /\ Spend("refusals")
  /\ Done(job)
  /\ UNCHANGED <<loop, bot, ledger, order, said, pass, history>>

Stamp(job) ==
  /\ job.step = "stamp"
  /\ ledger' = [ledger EXCEPT ![KeyOf(job)] = "stamped"]
  /\ Done(job)
  /\ UNCHANGED <<loop, bot, order, said, pass, budget, history>>

StampFails(job) ==
  /\ job.step = "stamp" /\ Spend("faults")
  /\ Done(job) /\ Doubt(KeyOf(job))
  /\ UNCHANGED <<loop, bot, ledger, order, said, pass, hasty>>

-----------------------------------------------------------------------------
(* The repair pass, on its tick.                                             *)

Held(k) == \E job \in jobs : job.step \in {"send", "stamp"} /\ KeyOf(job) = k

(* DEFAULT_NOTIFY_RETRY_GRACE_MS passes over a claim, unsent: nobody holds it   *)
(* any more, or its send is slow.                                            *)
GracePasses(k) ==
  /\ ledger[k] = "fresh"
  /\ IF Held(k) THEN Spend("slow") /\ Doubt(k) ELSE UNCHANGED <<budget, unsure>>
  /\ ledger' = [ledger EXCEPT ![k] = "stale"]
  /\ UNCHANGED <<loop, bot, jobs, order, said, pass, hasty>>

(* Mutant of UnsentBefore: the grace is not asked for.                        *)
UnsentAtAll ==
  LET old == {i \in DOMAIN order : ledger[order[i]] \in {"fresh", "stale"}}
  IN  {i \in old : Cardinality({j \in old : j < i}) < Limit}

(* Mutant of UnsentBefore: a batch from the head of the ledger, then the age.  *)
UnsentOfHead == {i \in DOMAIN order : i <= Limit /\ ledger[order[i]] = "stale"}

(* unsentBefore: oldest first, one batch.                                    *)
UnsentBefore ==
  LET old == {i \in DOMAIN order : ledger[order[i]] = "stale"}
  IN  {i \in old : Cardinality({j \in old : j < i}) < Limit}

(* The pass works off the list it read, each claim sent afresh to its chat.    *)
RepairTick ==
  /\ bot # "down" /\ pass.left = {} /\ UnsentBefore # {}
  /\ pass' = [left |-> UnsentBefore, step |-> "send"]
  /\ UNCHANGED <<loop, bot, jobs, ledger, order, said, budget, history>>

Resend(i) ==
  /\ pass.step = "send"
  /\ said' = [said EXCEPT ![order[i]] = @ + 1]
  /\ pass' = [pass EXCEPT !.step = "stamp"]
  /\ UNCHANGED <<loop, bot, jobs, ledger, order, budget, history>>

GoOn(i) == pass' = [left |-> pass.left \ {i}, step |-> "send"]

ResendStamped(i) ==
  /\ pass.step = "stamp"
  /\ ledger' = [ledger EXCEPT ![order[i]] = "stamped"]
  /\ GoOn(i)
  /\ UNCHANGED <<loop, bot, jobs, order, said, budget, history>>

(* Refused, or unstamped: logged, and the pass goes on.                       *)
ResendFails(i) ==
  /\ \/ pass.step = "send" /\ Spend("refusals") /\ UNCHANGED unsure
     \/ pass.step = "stamp" /\ Spend("faults") /\ Doubt(order[i])
  /\ GoOn(i)
  /\ UNCHANGED <<loop, bot, jobs, ledger, order, said, hasty>>

-----------------------------------------------------------------------------
Handle(job) == ReadRun(job) \/ ReadTask(job) \/ Claim(job) \/ ClaimTaken(job)
               \/ Send(job) \/ Stamp(job)

Repair == RepairTick \/ \E i \in pass.left : InHand(i) /\ (Resend(i) \/ ResendStamped(i))

CloseOut(r) == CloseRow(r) \/ MoveToReview(r) \/ StopMarked(r) \/ Reconcile(r)

Next ==
  \/ \E r \in Runs :
       \/ CloseOut(r) \/ TurnBreaks(r) \/ Stop(r) \/ AgentMoves(r) \/ PersonMoves(r)
       \/ \E how \in {"done", "failed"} : TurnEnds(r, how)
  \/ \E job \in jobs : Handle(job) \/ SendRefused(job) \/ StampFails(job)
  \/ \E k \in Keys : GracePasses(k)
  \/ Repair \/ \E i \in pass.left : InHand(i) /\ ResendFails(i)
  \/ LoopDies \/ ChannelDrops \/ Listens \/ BotDies \/ BotBoots

Spec == Init /\ [][Next]_vars

(* The loop closes what it opened, time passes, the bot's service restarts it   *)
(* and its fibers run. No turn has to end, and nobody has to be listening then. *)
FairSpec ==
  /\ Spec
  /\ \A r \in Runs : WF_vars(CloseOut(r))
  /\ WF_vars(\E job \in jobs : Handle(job))
  /\ \A k \in Keys : WF_vars(GracePasses(k))
  /\ WF_vars(Repair) /\ WF_vars(Listens \/ BotBoots)

-----------------------------------------------------------------------------
(* The ledger and the chats agree. A notice counts as delivered only when some  *)
(* chat took the message: no refusal, restart or failed stamp leaves a claim   *)
(* marked sent that nobody was told. And it is said once, and once more at most*)
(* for each time its send and its stamp came apart: the bot died or the stamp  *)
(* failed between the two, or the send was still in flight when the grace ran  *)
(* out. Two terminal events of one run, a reconnect or a repair pass repeat    *)
(* nothing by themselves.                                                    *)
SaidAsStamped ==
  \A k \in Keys : /\ ledger[k] = "stamped" => said[k] > 0
                  /\ said[k] <= 1 + unsure[k]

(* What a notice claims about the ending is how the run's row ended: good news *)
(* is never claimed for a run that failed or was stopped, nor a failure for one*)
(* that is done, unless the wait for the row ran out first.                   *)
NoticeMatchesOutcome ==
  \A kind \in Kinds, r \in Runs \ hasty :
    ledger[<<kind, r>>] # None => ((row[r] = "done") <=> (kind # "run_failed"))

(* A claim is delivered in the end, whatever dies between its steps: the next  *)
(* pass finds it once it is older than the grace.                             *)
ClaimIsDelivered ==
  \A k \in Keys : ledger[k] # None ~> ledger[k] = "stamped"

(* The stated reason for reading the task after the run: a card the close-out   *)
(* moves into review is announced as one to review, never only as finished.    *)
ReviewIsAsked ==
  \A r \in Runs : closing[r] = "over" /\ card[r] = "review" /\ row[r] = "done" =>
                    ledger[<<"run_finished", r>>] = None

=============================================================================
