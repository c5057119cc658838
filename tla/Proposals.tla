----------------------------- MODULE Proposals ------------------------------
(***************************************************************************)
(* Proposals: what a run asks for in a directory it cannot write, and the  *)
(* answer a person gives (orchestrator/src/proposals.ts, the proposal      *)
(* repository, gateway/src/handlers/proposals.ts). Runs of one task leave  *)
(* files in its folder; the close hook of each reads them back and records *)
(* rows; people confirm and reject through gateway requests that overlap;  *)
(* either process may die between any two steps.                           *)
(*                                                                         *)
(* The folder is written by the next run while the last one's files are    *)
(* collected: a run closes its row before its hook runs, and two loop      *)
(* processes may follow each other that closely.                           *)
(***************************************************************************)
EXTENDS Naturals, FiniteSets

CONSTANTS
  Files,      \* names in the proposals directory of the task
  Paths,      \* where in the shared scope a proposal may go
  Bodies,     \* what a file of the scope may hold
  Empty,      \* nothing there: no file, or one that is not a proposal
  Hooks,      \* the fibers that carry a run of the task and its close hook
  Clicks,     \* the gateway requests under way at once
  MaxRows,    \* bound on the proposal rows
  Budgets     \* how often each disturbance may happen: one choice per behaviour

(* Runs begun, answers pressed, processes dying, writes that fail.           *)
Disturbances == {"runs", "presses", "crashes", "faults"}

ASSUME BoundsAssumption ==
  /\ MaxRows \in Nat
  /\ Budgets \subseteq [Disturbances -> Nat]
ASSUME NamesAssumption == Empty \notin Bodies \cup [path : Paths, body : Bodies]

VARIABLES
  folder,   \* the proposals directory of the task
  hook,     \* the fibers: the run in its container, then its close hook
  row,      \* the proposal table
  lastRow,  \* the newest row
  scope,    \* the shared directory
  click,    \* confirm requests between their steps
  pressed,  \* history: rows somebody pressed confirm on
  landed,   \* history: rows whose body has been written into the scope
  missed,   \* history: what a hook could not record, or did not live to
  budget    \* disturbances that may still happen

vars == <<folder, hook, row, lastRow, scope, click, pressed, landed, missed, budget>>

-----------------------------------------------------------------------------
(* Types                                                                     *)

RowIds == 1..MaxRows
NoRow  == 0

Text == [path : Paths, body : Bodies]
Found == [file : Files, text : Text]

Row == [file : Files, text : Text, state : {"absent", "pending", "accepted", "rejected"}]

(* A hook reads each file of the directory (unread), then records what it     *)
(* found one by one (todo): a look for the row, then the insert (one).        *)
Hook == [step : {"idle", "working", "reading", "recording", "inserting"},
         unread : SUBSET Files, todo : SUBSET Found, one : Found \cup {Empty}]

Click == [step : {"idle", "writing", "accepting"}, of : RowIds \cup {NoRow}]

TypeOK ==
  /\ folder \in [Files -> Text \cup {Empty}]
  /\ hook \in [Hooks -> Hook]
  /\ \A h \in Hooks : hook[h].step = "inserting" => hook[h].one \in hook[h].todo
  /\ lastRow \in 0..MaxRows
  /\ DOMAIN row = RowIds
  /\ \A r \in 1..lastRow : row[r] \in Row /\ row[r].state # "absent"
  /\ scope \in [Paths -> Bodies \cup {Empty}]
  /\ click \in [Clicks -> Click]
  /\ \A c \in Clicks : click[c].step # "idle" => click[c].of \in 1..lastRow
  /\ pressed \subseteq 1..lastRow
  /\ landed \subseteq 1..lastRow
  /\ missed \subseteq Found
  /\ budget \in [Disturbances -> Nat]

-----------------------------------------------------------------------------

NoHook  == [step |-> "idle", unread |-> {}, todo |-> {}, one |-> Empty]
NoClick == [step |-> "idle", of |-> NoRow]

Spend(k) ==
  /\ budget[k] > 0
  /\ budget' = [budget EXCEPT ![k] = @ - 1]

(* Mutant of Same: the digest alone, whichever file it came out of.          *)
SameBody(r, found) == row[r].text.body = found.text.body

(* What the unique index is on: the task, the file, and the digest of the     *)
(* body. The path in the front matter is in neither.                         *)
Same(r, found) ==
  /\ row[r].file = found.file
  /\ row[r].text.body = found.text.body

Recorded(found) == \E r \in 1..lastRow : Same(r, found)

Init ==
  /\ folder = [f \in Files |-> Empty]
  /\ hook = [h \in Hooks |-> NoHook]
  /\ row = [r \in RowIds |-> [state |-> "absent"]]
  /\ lastRow = 0
  /\ scope = [p \in Paths |-> Empty]
  /\ click = [c \in Clicks |-> NoClick]
  /\ pressed = {} /\ landed = {} /\ missed = {}
  /\ budget \in Budgets

-----------------------------------------------------------------------------
(* A run and its close hook.                                                 *)

(* One run works a task at a time: RunRepo.create refuses a second live one.  *)
RunBegins(h) ==
  /\ hook[h].step = "idle" /\ \A g \in Hooks : hook[g].step # "working"
  /\ Spend("runs")
  /\ hook' = [hook EXCEPT ![h].step = "working"]
  /\ UNCHANGED <<folder, row, lastRow, scope, click, pressed, landed, missed>>

(* The agent writes, edits or deletes a file of its task's folder.            *)
RunWrites(h, f) ==
  /\ hook[h].step = "working"
  /\ \E text \in Text \cup {Empty} :
       folder' = [folder EXCEPT ![f] = text]
  /\ UNCHANGED <<hook, row, lastRow, scope, click, pressed, landed, missed, budget>>

(* The container is gone and the row closed; the hook lists the directory.    *)
RunCloses(h) ==
  /\ hook[h].step = "working"
  /\ hook' = [hook EXCEPT ![h].step = "reading",
                          ![h].unread = {f \in Files : folder[f] # Empty}]
  /\ UNCHANGED <<folder, row, lastRow, scope, click, pressed, landed, missed, budget>>

(* readProposals, one file: gone by now, or not a proposal, is dropped.       *)
ReadFile(h, f) ==
  /\ hook[h].step = "reading" /\ f \in hook[h].unread
  /\ hook' = [hook EXCEPT ![h].unread = @ \ {f},
       ![h].todo = IF folder[f] = Empty THEN @
                   ELSE @ \cup {[file |-> f, text |-> folder[f]]}]
  /\ UNCHANGED <<folder, row, lastRow, scope, click, pressed, landed, missed, budget>>

AllRead(h) ==
  /\ hook[h].step = "reading" /\ hook[h].unread = {}
  /\ hook' = [hook EXCEPT ![h].step = IF hook[h].todo = {} THEN "idle" ELSE "recording"]
  /\ UNCHANGED <<folder, row, lastRow, scope, click, pressed, landed, missed, budget>>

(* What is left for a hook once it is done with one of its proposals.        *)
Dropping(h, found) ==
  LET left == hook[h].todo \ {found} IN
  IF left = {} THEN NoHook
  ELSE [NoHook EXCEPT !.step = "recording", !.todo = left]

(* ProposalRepo.record: the look outside the transaction.                    *)
LookUp(h, found) ==
  /\ hook[h].step = "recording" /\ found \in hook[h].todo
  /\ hook' = [hook EXCEPT ![h] =
       IF Recorded(found) THEN Dropping(h, found)
       ELSE [@ EXCEPT !.step = "inserting", !.one = found]]
  /\ UNCHANGED <<folder, row, lastRow, scope, click, pressed, landed, missed, budget>>

(* Mutant of Insert: no unique index stands behind the look.                  *)
InsertUnindexed(h) ==
  LET found == hook[h].one IN
  /\ hook[h].step = "inserting" /\ lastRow < MaxRows
  /\ lastRow' = lastRow + 1
  /\ row' = [row EXCEPT ![lastRow'] =
       [file |-> found.file, text |-> found.text, state |-> "pending"]]
  /\ hook' = [hook EXCEPT ![h] = Dropping(h, found)]
  /\ UNCHANGED <<folder, scope, click, pressed, landed, missed, budget>>

(* The insert: a row that is there by now collides on the index, and the      *)
(* failure costs this one proposal.                                          *)
Insert(h) ==
  LET found == hook[h].one IN
  /\ hook[h].step = "inserting"
  /\ IF Recorded(found)
       THEN UNCHANGED <<row, lastRow>>
       ELSE /\ lastRow < MaxRows
            /\ lastRow' = lastRow + 1
            /\ row' = [row EXCEPT ![lastRow'] =
                 [file |-> found.file, text |-> found.text, state |-> "pending"]]
  /\ hook' = [hook EXCEPT ![h] = Dropping(h, found)]
  /\ UNCHANGED <<folder, scope, click, pressed, landed, missed, budget>>

(* Read or write refused by the store: logged, and the rest goes on.          *)
RecordFails(h) ==
  \E found \in hook[h].todo :
    /\ hook[h].step \in {"recording", "inserting"} /\ Spend("faults")
    /\ hook[h].step = "inserting" => found = hook[h].one
    /\ hook' = [hook EXCEPT ![h] = Dropping(h, found)]
    /\ missed' = missed \cup {found}
    /\ UNCHANGED <<folder, row, lastRow, scope, click, pressed, landed>>

(* The loop process dies, and with it what its hook was about to record.      *)
LoopDies(h) ==
  /\ hook[h].step # "idle" /\ Spend("crashes")
  /\ missed' = missed \cup hook[h].todo
  /\ hook' = [hook EXCEPT ![h] = NoHook]
  /\ UNCHANGED <<folder, row, lastRow, scope, click, pressed, landed>>

-----------------------------------------------------------------------------
(* People, through the gateway.                                              *)

(* Mutant of Following: the row first, the bytes second.                     *)
FollowingRowFirst(step) ==
  CASE step = "idle" -> "accepting" [] step = "accepting" -> "writing"
    [] OTHER -> "idle"

(* The order of confirmProposal: bytes first, row second.                    *)
Following(step) ==
  CASE step = "idle" -> "writing" [] step = "writing" -> "accepting"
    [] OTHER -> "idle"

Proceed(c, r) ==
  click' = [click EXCEPT ![c] =
    IF Following(@.step) = "idle" THEN NoClick
    ELSE [step |-> Following(@.step), of |-> r]]

(* Mutant of Confirm: a proposal nobody has made is taken for a pending one.  *)
ConfirmUnseen(c, r) ==
  /\ click[c].step = "idle" /\ (r > lastRow \/ row[r].state = "pending")
  /\ Spend("presses")
  /\ Proceed(c, r)
  /\ pressed' = pressed \cup {r}
  /\ UNCHANGED <<folder, hook, row, lastRow, scope, landed, missed>>

(* confirmProposal: the row, and the check that stops a doomed call.          *)
Confirm(c, r) ==
  /\ click[c].step = "idle" /\ r \in 1..lastRow /\ row[r].state = "pending"
  /\ Spend("presses")
  /\ Proceed(c, r)
  /\ pressed' = pressed \cup {r}
  /\ UNCHANGED <<folder, hook, row, lastRow, scope, landed, missed>>

(* Mutant of BodyOf: the file as it is now, if it is there.                   *)
BodyOnDisk(r) ==
  IF folder[row[r].file] = Empty THEN row[r].text.body
  ELSE folder[row[r].file].body

(* The bytes recorded, never the file on disk.                               *)
BodyOf(r) == row[r].text.body

(* writeIntoScope, whatever the row says by now.                             *)
WriteBytes(c) ==
  LET r == click[c].of IN
  /\ click[c].step = "writing"
  /\ scope' = [scope EXCEPT ![row[r].text.path] = BodyOf(r)]
  /\ landed' = landed \cup {r}
  /\ Proceed(c, r)
  /\ UNCHANGED <<folder, hook, row, lastRow, pressed, missed, budget>>

(* Mutant of Decide: the check made before the lock is the only one.          *)
DecideUnlocked(r, answer) == row' = [row EXCEPT ![r].state = answer]

(* decide: the row is locked and read again, and only a pending one moves.    *)
Decide(r, answer) ==
  row' = IF row[r].state = "pending" THEN [row EXCEPT ![r].state = answer] ELSE row

Accept(c) ==
  /\ click[c].step = "accepting"
  /\ Decide(click[c].of, "accepted")
  /\ Proceed(c, click[c].of)
  /\ UNCHANGED <<folder, hook, lastRow, scope, pressed, landed, missed, budget>>

(* rejectProposal: one read, then the same lock.                             *)
Reject(r) ==
  /\ r \in 1..lastRow /\ Spend("presses")
  /\ Decide(r, "rejected")
  /\ UNCHANGED <<folder, hook, lastRow, scope, click, pressed, landed, missed>>

(* The directory cannot be made or the file not written: a 500, and the row   *)
(* as it was. Or the gateway dies with the request.                          *)
ConfirmBreaks(c) ==
  /\ \/ click[c].step = "writing" /\ Spend("faults")
     \/ click[c].step # "idle" /\ Spend("crashes")
  /\ click' = [click EXCEPT ![c] = NoClick]
  /\ UNCHANGED <<folder, hook, row, lastRow, scope, pressed, landed, missed>>

-----------------------------------------------------------------------------

HookStep(h) ==
  \/ RunCloses(h) \/ AllRead(h) \/ Insert(h)
  \/ \E f \in Files : ReadFile(h, f)
  \/ \E found \in hook[h].todo : LookUp(h, found)

Next ==
  \/ \E h \in Hooks : \/ HookStep(h) \/ RunBegins(h) \/ RecordFails(h) \/ LoopDies(h)
                      \/ \E f \in Files : RunWrites(h, f)
  \/ \E c \in Clicks : \/ WriteBytes(c) \/ Accept(c) \/ ConfirmBreaks(c)
                       \/ \E r \in RowIds : Confirm(c, r)
  \/ \E r \in RowIds : Reject(r)

Spec == Init /\ [][Next]_vars

-----------------------------------------------------------------------------
(* Properties                                                                *)

(* The same bytes in the same file are one request, however often runs of the  *)
(* task meet them and however closely their hooks follow each other: the look *)
(* is outside the transaction, and two hooks may both find nothing.           *)
AskedOnce ==
  \A r, q \in 1..lastRow :
    row[r].file = row[q].file /\ row[r].text.body = row[q].text.body => r = q

(* "Collected": a proposal a hook has read and lets go of is on a row of its   *)
(* own file and body, unless the store refused it or the process died.        *)
NothingDropped ==
  [][\A h \in Hooks : \A found \in hook[h].todo \ hook'[h].todo :
       \/ found \in missed'
       \/ \E r \in 1..lastRow' :
            /\ row'[r].file = found.file
            /\ row'[r].text.body = found.text.body]_vars

(* "Answered once": two people and their overlapping requests never move a row *)
(* out of an answer it has, and no step makes it ask for something else.       *)
AnsweredOnce ==
  [][\A r \in 1..lastRow :
       /\ row[r].state # "pending" => row'[r] = row[r]
       /\ row'[r].file = row[r].file /\ row'[r].text = row[r].text]_vars

(* "A row claiming an accepted proposal whose file is not there reads to every *)
(* later run as an absence": the body has been written by the time the row is *)
(* accepted, wherever the gateway died and whoever else pressed.              *)
AcceptedWasWritten ==
  \A r \in 1..lastRow : row[r].state = "accepted" => r \in landed

(* What the shared directory holds is what a person read on a row and pressed *)
(* confirm on, whatever runs do to the file it came from in the meantime.     *)
OnlyWhatWasRead ==
  \A p \in Paths :
    scope[p] # Empty =>
      \E r \in pressed : row[r].text = [path |-> p, body |-> scope[p]]

=============================================================================
