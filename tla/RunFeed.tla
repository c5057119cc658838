------------------------------- MODULE RunFeed ------------------------------
(***************************************************************************)
(* The timeline of one run: the event file its container writes, the reader *)
(* that stores each line while the turn runs, the close and the ingest that *)
(* follow it, the marker a stop leaves (container-turn.ts, run.ts,         *)
(* ingest.ts, commands.ts), and the stream a dashboard follows it with      *)
(* (sse.ts, notices.ts). The loop may die, a row may be refused, a notice or *)
(* a connection may be lost.                                               *)
(***************************************************************************)
EXTENDS Naturals, Sequences, FiniteSets, FiniteSetsExt

CONSTANTS
  MaxLines,   \* bound on the lines of the event file
  Page,       \* DRAIN_PAGE
  Budgets     \* how often each disturbance may happen: one choice per behaviour

(* Rows or ingests refused, stops pressed, crashes of the loop, connections    *)
(* dropped, notices lost while the listener reconnects, silent connections     *)
(* closed by the server.                                                     *)
Disturbances == {"refusals", "stops", "crashes", "drops", "losses", "hangups"}

ASSUME BoundsAssumption ==
  /\ MaxLines \in Nat /\ Page \in Nat \ {0}
  /\ Budgets \subseteq [Disturbances -> Nat]

VARIABLES
  file,      \* the event file, a line each
  stored,    \* run_event: the line behind each ordinal, NoRow if there is none
  live,      \* run.status is queued or running
  turn,      \* the run's fiber
  reader,    \* consumed, and the lines the pass in hand has read
  stopping,  \* a stop command that has interrupted the run
  follower,  \* one subscriber of the stream
  nudge,     \* the one-slot sliding buffer of wake-ups
  refused,   \* history: the ordinals whose row was refused as it happened, and
             \* Marker for a refused ingest
  budget     \* disturbances that may still happen

vars == <<file, stored, live, turn, reader, stopping, follower, nudge, refused,
          budget>>

-----------------------------------------------------------------------------
(* A line is something the agent said, a line this build cannot decode, or the*)
(* result that ends the turn.                                                *)
Lines    == {"said", "bad", "result"}
LineSeqs == 1..MaxLines
Marker   == MaxLines + 1    \* STOPPED_SEQ: above every line of every file
Seqs     == 1..Marker
NoRow    == 0

TurnSteps == {"running", "last", "close", "collect", "gone", "dead"}
Follower  == [step : {"off", "wait", "page", "ask", "hung", "closed"},
              at : Seqs \cup {0}, got : SUBSET Seqs]

TypeOK ==
  /\ file \in Seq(Lines) /\ Len(file) <= MaxLines
  /\ stored \in [Seqs -> LineSeqs \cup {NoRow, Marker}]
  /\ live \in BOOLEAN
  /\ turn \in TurnSteps
  /\ reader \in [consumed : 0..MaxLines, upto : 0..MaxLines]
  /\ reader.consumed <= reader.upto /\ reader.upto <= Len(file)
  /\ stopping \in {"no", "asked", "marked"}
  /\ follower \in Follower
  /\ nudge \in BOOLEAN
  /\ refused \subseteq Seqs
  /\ budget \in [Disturbances -> Nat]

Rows == {s \in Seqs : stored[s] # NoRow}

(* TERMINAL_KINDS: the row of a result line, and the marker.                  *)
IsTerminal(s) ==
  \/ stored[s] = Marker
  \/ stored[s] \in DOMAIN file /\ file[stored[s]] = "result"

Readable == {n \in DOMAIN file : file[n] # "bad"}

Spend(k) ==
  /\ budget[k] > 0
  /\ budget' = [budget EXCEPT ![k] = @ - 1]

(* The trigger's notice, to a stream that is connected; one that is not, or   *)
(* that already has a wake-up waiting, has nothing more to be told.          *)
Notify == nudge' = (nudge \/ follower.step \in {"wait", "page", "ask"})

Init ==
  /\ file = <<>>
  /\ stored = [s \in Seqs |-> NoRow]
  /\ live = TRUE /\ turn = "running"
  /\ reader = [consumed |-> 0, upto |-> 0]
  /\ stopping = "no"
  /\ follower = [step |-> "off", at |-> 0, got |-> {}]
  /\ nudge = FALSE /\ refused = {}
  /\ budget \in Budgets

-----------------------------------------------------------------------------
(* The container, and the reader that follows its file.                      *)

HarnessWrites(line) ==
  /\ turn = "running" /\ Len(file) < MaxLines
  /\ \A n \in DOMAIN file : file[n] # "result"
  /\ file' = Append(file, line)
  /\ UNCHANGED <<stored, live, turn, reader, stopping, follower, nudge, refused,
                 budget>>

(* Mutant of ReadFile: the empty tail of the last newline counts as a line.   *)
ReadFileTail ==
  /\ turn \in {"running", "last"}
  /\ reader.consumed = reader.upto /\ reader.upto < Len(file)
  /\ reader' = [reader EXCEPT !.upto = Len(file) + 1]
  /\ UNCHANGED <<file, stored, live, turn, stopping, follower, nudge, refused,
                 budget>>

(* Every line the file has gained since the last pass.                       *)
ReadFile ==
  /\ turn \in {"running", "last"}
  /\ reader.consumed = reader.upto /\ reader.upto < Len(file)
  /\ reader' = [reader EXCEPT !.upto = Len(file)]
  /\ UNCHANGED <<file, stored, live, turn, stopping, follower, nudge, refused,
                 budget>>

(* Mutant of Ordinal: lines that cannot be read are compacted away.          *)
OrdinalCompacted(n) == Cardinality({m \in Readable : m <= n})

(* The ordinal an ingest gives a line: its own, the unreadable ones counted.  *)
Ordinal(n) == n

(* One line of the pass: stored under its ordinal, or already there, or not    *)
(* readable; its ordinal is spent either way.                                *)
StoreLine ==
  LET n == reader.consumed + 1 IN
  /\ turn \in {"running", "last"} /\ n <= reader.upto
  /\ reader' = [reader EXCEPT !.consumed = n]
  /\ IF n \in Readable /\ stored[n] = NoRow
       THEN stored' = [stored EXCEPT ![n] = n] /\ Notify
       ELSE UNCHANGED <<stored, nudge>>
  /\ UNCHANGED <<file, live, turn, stopping, follower, refused, budget>>

(* A row the database refuses: logged, and passed over.                      *)
LineRefused ==
  LET n == reader.consumed + 1 IN
  /\ turn \in {"running", "last"} /\ n <= reader.upto /\ n \in Readable
  /\ Spend("refusals")
  /\ reader' = [reader EXCEPT !.consumed = n]
  /\ refused' = refused \cup {n}
  /\ UNCHANGED <<file, stored, live, turn, stopping, follower, nudge>>

(* The container exits, or its time is up. The pass in hand ends with the tail *)
(* fiber, wherever it was, and the last read takes over.                     *)
ContainerEnds ==
  /\ turn = "running"
  /\ turn' = "last"
  /\ reader' = [reader EXCEPT !.upto = reader.consumed]
  /\ UNCHANGED <<file, stored, live, stopping, follower, nudge, refused, budget>>

-----------------------------------------------------------------------------
(* The close of the run.                                                     *)

(* The last read has reached the end of the file.                            *)
LastRead ==
  /\ turn = "last" /\ reader.consumed = Len(file)
  /\ turn' = "close"
  /\ UNCHANGED <<file, stored, live, reader, stopping, follower, nudge, refused,
                 budget>>

CloseRow ==
  /\ turn = "close"
  /\ turn' = "collect" /\ live' = FALSE
  /\ UNCHANGED <<file, stored, reader, stopping, follower, nudge, refused, budget>>

(* Mutant of Fresh: what the turn has passed over is taken for stored.        *)
FreshTail == {n \in Readable : n > reader.consumed}

(* What onConflictDoNothing lets through of the whole file.                  *)
Fresh == {n \in Readable : stored[Ordinal(n)] = NoRow}

(* ingestRunEvents, after the close: the whole file in one statement.         *)
Collect ==
  /\ turn = "collect"
  /\ turn' = "gone"
  /\ stored' = [s \in Seqs |->
       IF \E n \in Fresh : Ordinal(n) = s
       THEN CHOOSE n \in Fresh : Ordinal(n) = s ELSE stored[s]]
  /\ IF Fresh # {} THEN Notify ELSE UNCHANGED nudge
  /\ UNCHANGED <<file, live, reader, stopping, follower, refused, budget>>

(* It fails as one: the timeline stays as the turn left it.                   *)
CollectFails ==
  /\ turn = "collect" /\ Spend("refusals")
  /\ turn' = "gone" /\ refused' = refused \cup {Marker}
  /\ UNCHANGED <<file, stored, live, reader, stopping, follower, nudge>>

(* A stop command finds the run live and interrupts it; the container is gone  *)
(* by the time its last lines are read.                                      *)
Stop ==
  /\ live /\ turn \in {"running", "last", "close"} /\ stopping = "no"
  /\ Spend("stops")
  /\ stopping' = "asked"
  /\ turn' = IF turn = "running" THEN "last" ELSE turn
  /\ reader' = IF turn = "running" THEN [reader EXCEPT !.upto = reader.consumed]
               ELSE reader
  /\ UNCHANGED <<file, stored, live, follower, nudge, refused>>

(* appendStopped, once the fiber is gone and has closed the row.              *)
StopMarked ==
  /\ stopping = "asked" /\ turn = "gone"
  /\ stopping' = "marked"
  /\ stored' = [stored EXCEPT ![Marker] = Marker] /\ Notify
  /\ UNCHANGED <<file, live, turn, reader, follower, refused, budget>>

(* The loop dies; the container goes with it and nobody reads the file again.  *)
Crash ==
  /\ turn # "dead" /\ (turn # "gone" \/ stopping = "asked") /\ Spend("crashes")
  /\ turn' = "dead" /\ stopping' = "no"
  /\ UNCHANGED <<file, stored, live, reader, follower, nudge, refused>>

(* The boot reconcile closes the row. It ingests nothing.                     *)
Reconcile ==
  /\ turn = "dead" /\ live
  /\ live' = FALSE
  /\ UNCHANGED <<file, stored, turn, reader, stopping, follower, nudge, refused,
                 budget>>

-----------------------------------------------------------------------------
(* A follower: pages back, then follows the stream from where it got to.      *)

(* The pages a screen reads before it opens the stream, and the tick that      *)
(* makes the first drain the catch-up. A connection that failed is opened     *)
(* again from the cursor the screen has come to.                             *)
Connect ==
  /\ follower.step = "off"
  /\ \E seen \in IF follower.at = 0 THEN {{}, Rows} ELSE {follower.got} :
       follower' = [step |-> "wait", got |-> seen, at |-> Max(seen \cup {0})]
  /\ nudge' = TRUE
  /\ UNCHANGED <<file, stored, live, turn, reader, stopping, refused, budget>>

Disconnect ==
  /\ follower.step \in {"wait", "page", "ask"} /\ Spend("drops")
  /\ follower' = [follower EXCEPT !.step = "off"]
  /\ nudge' = FALSE
  /\ UNCHANGED <<file, stored, live, turn, reader, stopping, refused>>

(* IDLE_TIMEOUT_SECONDS: the server closes a connection that nothing was       *)
(* written on, a run that is thinking. To the subscriber that is an ending,    *)
(* not a failure, and it does not open the stream again.                     *)
IdleHangup ==
  /\ follower.step = "wait" /\ Spend("hangups")
  /\ follower' = [follower EXCEPT !.step = "hung"]
  /\ nudge' = FALSE
  /\ UNCHANGED <<file, stored, live, turn, reader, stopping, refused>>

(* The listener's socket drops and the notice with it.                       *)
NoticeLost ==
  /\ nudge /\ Spend("losses")
  /\ nudge' = FALSE
  /\ UNCHANGED <<file, stored, live, turn, reader, stopping, follower, refused>>

(* Mutant of Tick: the tick is only the first drain, not the repair.         *)
TickOnce ==
  /\ follower.step = "wait" /\ ~nudge /\ follower.at = 0 /\ nudge' = TRUE
  /\ UNCHANGED <<file, stored, live, turn, reader, stopping, follower, refused,
                 budget>>

(* REFRESH_INTERVAL_MS.                                                      *)
Tick ==
  /\ follower.step = "wait" /\ ~nudge
  /\ nudge' = TRUE
  /\ UNCHANGED <<file, stored, live, turn, reader, stopping, follower, refused,
                 budget>>

Wake ==
  /\ follower.step = "wait" /\ nudge
  /\ nudge' = FALSE
  /\ follower' = [follower EXCEPT !.step = "page"]
  /\ UNCHANGED <<file, stored, live, turn, reader, stopping, refused, budget>>

Ahead == {s \in Rows : s > follower.at}

(* Mutant of NextPage: any page of rows after the cursor, not the first.      *)
NextPageUnordered ==
  {s \in Ahead : Cardinality({x \in Ahead : x > s}) < Page}

(* listByRun: the first rows after the cursor.                               *)
NextPage == {s \in Ahead : Cardinality({x \in Ahead : x < s}) < Page}

(* pagesAfter: hand the page on, move the cursor to its last row, and go on,   *)
(* end, or wait. An empty page asks whether the run is over.                  *)
ReadPage ==
  LET last == Max(NextPage) IN
  /\ follower.step = "page"
  /\ follower' =
       IF NextPage = {} THEN [follower EXCEPT !.step = "ask"]
       ELSE [got |-> follower.got \cup NextPage, at |-> last,
             step |-> IF IsTerminal(last) THEN "closed"
                      ELSE IF Cardinality(NextPage) = Page THEN "page"
                      ELSE "wait"]
  /\ nudge' = (nudge /\ follower'.step # "closed")
  /\ UNCHANGED <<file, stored, live, turn, reader, stopping, refused, budget>>

(* hasEnded, some time after the page came back empty.                       *)
AskRow ==
  /\ follower.step = "ask"
  /\ follower' = [follower EXCEPT !.step = IF live THEN "wait" ELSE "closed"]
  /\ nudge' = (nudge /\ live)
  /\ UNCHANGED <<file, stored, live, turn, reader, stopping, refused, budget>>

-----------------------------------------------------------------------------
RunStep ==
  ReadFile \/ StoreLine \/ LastRead \/ CloseRow \/ Collect \/ StopMarked \/ Reconcile

FollowerStep == Connect \/ Tick \/ Wake \/ ReadPage \/ AskRow

Next ==
  \/ RunStep \/ FollowerStep
  \/ ContainerEnds \/ Stop \/ Crash \/ LineRefused \/ CollectFails
  \/ Disconnect \/ IdleHangup \/ NoticeLost
  \/ \E line \in Lines : HarnessWrites(line)

Spec == Init /\ [][Next]_vars

(* The wall clock ends a turn, the loop's fibers and its boot run, ticks come  *)
(* round. Nothing makes the harness write.                                   *)
FairSpec == Spec /\ WF_vars(RunStep) /\ WF_vars(ContainerEnds) /\ WF_vars(FollowerStep)

-----------------------------------------------------------------------------
(* Properties                                                                *)

(* Live store, close-time ingest and a repeated pass put every line of the    *)
(* event file at its own ordinal and nowhere else (mapping.ts, ingest.ts:106). *)
RowIsItsLine == \A s \in Rows : stored[s] = s /\ (s = Marker \/ s \in Readable)

(* When the run's fiber has ended, every readable line of its file is on the   *)
(* timeline, what was refused as it happened included, unless the ingest was   *)
(* refused as well (ingest.ts:108, a reconcile rather than a tail).           *)
TimelineWhole == turn = "gone" /\ Marker \notin refused => Readable \subseteq Rows

(* What lies behind a follower's cursor it was given: pages, dropped nudges,   *)
(* lost notices and reconnects skip nothing. Only a row that was refused as it *)
(* happened and came in at the close may lie there unseen (sse.ts pagesAfter).  *)
NothingSkipped ==
  \A s \in Rows : s <= follower.at => s \in follower.got \cup refused

(* Whoever follows a run is served: a row stored ahead of a follower that is   *)
(* away, waiting or reading its pages reaches it, though every notice of it    *)
(* was lost and the run is over meanwhile (liveEvents, the tick). Left out is  *)
(* a row that comes in between the empty page and hasEnded's answer, or after  *)
(* the close; the marker behind a result row on which the stream has closed;   *)
(* and whoever the server hung up on. A run that is over closes its stream     *)
(* though its ending wrote no terminal row (hasEnded).                       *)
FollowerIsServed ==
  /\ \A s \in Seqs :
       s \in Rows /\ s > follower.at /\ follower.step \in {"off", "wait", "page"}
         ~> \/ s \in follower.got \/ follower.step = "hung"
            \/ s = Marker /\ follower.step = "closed"
  /\ ~live ~> follower.step \in {"closed", "hung"}

(* The stream implements Timeline: in order, nothing passed over, closed only  *)
(* on a terminal row, or on a run that is over by a follower that had just     *)
(* found nothing ahead of it.                                                *)
Abstract == INSTANCE Timeline WITH
  Seqs <- Seqs, ends <- {s \in Seqs : IsTerminal(s)}, stored <- Rows,
  over <- ~live, got <- follower.got, at <- follower.at,
  caught <- follower.step = "ask", closed <- follower.step = "closed"
TimelineImplemented == Abstract!TimelineSpec

=============================================================================
