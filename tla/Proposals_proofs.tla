--------------------------- MODULE Proposals_proofs --------------------------
(***************************************************************************)
(* Theorems about Proposals, for any number of files, paths, bodies, hooks *)
(* and requests, any bound on the rows and any budget of disturbances.     *)
(***************************************************************************)
EXTENDS Proposals, TLAPS

-----------------------------------------------------------------------------
(* Types.                                                                    *)

LEMMA SpendType == TypeOK /\ (\E k \in Disturbances : Spend(k)) => budget' \in [Disturbances -> Nat]
  BY DEF TypeOK, Spend

(* A hook that lets go of a proposal goes back to recording or is done.       *)
LEMMA DroppingType ==
  ASSUME TypeOK, NEW h \in Hooks, NEW found
  PROVE  /\ Dropping(h, found) \in Hook
         /\ Dropping(h, found).step # "inserting"
         /\ Dropping(h, found).todo = hook[h].todo \ {found}
  BY DEF TypeOK, Dropping, NoHook, Hook

LEMMA InitType == Init => TypeOK
  <1> SUFFICES ASSUME Init PROVE TypeOK
    OBVIOUS
  <1>1. NoHook \in Hook /\ NoHook.step # "inserting"
    BY DEF NoHook, Hook
  <1>2. NoClick \in Click /\ NoClick.step = "idle"
    BY DEF NoClick, Click
  <1>3. lastRow = 0 /\ lastRow \in 0..MaxRows
    BY BoundsAssumption DEF Init
  <1>4. /\ hook \in [Hooks -> Hook]
        /\ \A h \in Hooks : hook[h].step = "inserting" => hook[h].one \in hook[h].todo
    BY <1>1 DEF Init
  <1>5. /\ click \in [Clicks -> Click]
        /\ \A c \in Clicks : click[c].step # "idle" => click[c].of \in 1..lastRow
    BY <1>2 DEF Init
  <1>6. DOMAIN row = RowIds /\ 1..lastRow = {}
    BY <1>3 DEF Init
  <1>7. budget \in [Disturbances -> Nat]
    BY BoundsAssumption DEF Init
  <1> QED
    BY <1>3, <1>4, <1>5, <1>6, <1>7 DEF Init, TypeOK

LEMMA RunType ==
  ASSUME TypeOK, NEW h \in Hooks,
         \/ RunBegins(h) \/ RunCloses(h) \/ AllRead(h)
         \/ \E f \in Files : RunWrites(h, f) \/ ReadFile(h, f)
  PROVE  TypeOK'
  <1> USE DEF TypeOK
  <1>0. ASSUME NEW f \in Hook, hook' = [hook EXCEPT ![h] = f], f.step # "inserting"
        PROVE  /\ hook' \in [Hooks -> Hook]
               /\ \A g \in Hooks : hook'[g].step = "inserting" => hook'[g].one \in hook'[g].todo
    BY <1>0 DEF TypeOK
  <1>1. CASE RunBegins(h)
    <2>1. [hook[h] EXCEPT !.step = "working"] \in Hook
      BY DEF Hook
    <2> QED
      BY <1>0, <1>1, <2>1, SpendType DEF RunBegins, Disturbances
  <1>2. CASE RunCloses(h)
    <2> DEFINE unread == {f \in Files : folder[f] # Empty}
               next   == [[hook[h] EXCEPT !.step = "reading"] EXCEPT !.unread = unread]
    <2>1. hook' = [hook EXCEPT ![h] = next]
      BY <1>2 DEF RunCloses
    <2>2. next \in Hook /\ next.step # "inserting"
      BY DEF Hook
    <2> HIDE DEF next
    <2> QED
      BY <1>0, <1>2, <2>1, <2>2 DEF RunCloses
  <1>3. CASE AllRead(h)
    <2> DEFINE step == IF hook[h].todo = {} THEN "idle" ELSE "recording"
    <2>1. step \in {"idle", "recording"} /\ hook' = [hook EXCEPT ![h].step = step]
      BY <1>3 DEF AllRead
    <2> HIDE DEF step
    <2>2. [hook[h] EXCEPT !.step = step] \in Hook
      BY <2>1 DEF Hook
    <2> QED
      BY <1>0, <1>3, <2>1, <2>2 DEF AllRead
  <1>4. CASE \E f \in Files : RunWrites(h, f)
    BY <1>4 DEF RunWrites
  <1>5. CASE \E f \in Files : ReadFile(h, f)
    <2>1. PICK f \in Files : ReadFile(h, f)
      BY <1>5
    <2> DEFINE todo == IF folder[f] = Empty THEN hook[h].todo
                       ELSE hook[h].todo \cup {[file |-> f, text |-> folder[f]]}
    <2>2. folder[f] # Empty => [file |-> f, text |-> folder[f]] \in Found
      BY DEF Found
    <2>3. todo \subseteq Found /\ hook[h] \in Hook
      BY <2>2 DEF Hook
    <2>4. /\ hook' = [hook EXCEPT ![h].unread = @ \ {f}, ![h].todo = todo]
          /\ hook[h].step = "reading"
      BY <2>1 DEF ReadFile
    <2> HIDE DEF todo
    <2> DEFINE next == [[hook[h] EXCEPT !.unread = @ \ {f}] EXCEPT !.todo = todo]
    <2>6. hook' = [hook EXCEPT ![h] = next]
      BY <2>4
    <2>7. next \in Hook /\ next.step = "reading"
      BY <2>3, <2>4 DEF Hook
    <2> HIDE DEF next
    <2>5. /\ hook' \in [Hooks -> Hook]
          /\ \A g \in Hooks : hook'[g].step = "inserting" => hook'[g].one \in hook'[g].todo
      BY <2>6, <2>7
    <2> QED
      BY <2>1, <2>5 DEF ReadFile, Found
  <1> QED
    BY <1>1, <1>2, <1>3, <1>4, <1>5

LEMMA RecordType ==
  ASSUME TypeOK, NEW h \in Hooks,
         \/ Insert(h) \/ RecordFails(h) \/ LoopDies(h)
         \/ \E found \in hook[h].todo : LookUp(h, found)
  PROVE  TypeOK'
  <1> USE DEF TypeOK
  <1>1. CASE Insert(h)
    <2> DEFINE found == hook[h].one
    <2>1. found \in Found /\ Dropping(h, found) \in Hook
          /\ Dropping(h, found).step # "inserting"
      BY <1>1, DroppingType DEF Insert, Hook
    <2>2. hook' \in [Hooks -> Hook]
          /\ \A g \in Hooks : hook'[g].step = "inserting" => hook'[g].one \in hook'[g].todo
      BY <1>1, <2>1 DEF Insert
    <2>3. CASE Recorded(found)
      BY <1>1, <2>2, <2>3 DEF Insert
    <2>4. CASE ~Recorded(found)
      <3>1. /\ lastRow < MaxRows /\ lastRow' = lastRow + 1
            /\ row' = [row EXCEPT ![lastRow + 1] =
                 [file |-> found.file, text |-> found.text, state |-> "pending"]]
        BY <1>1, <2>4 DEF Insert
      <3>2. lastRow' \in 0..MaxRows /\ lastRow + 1 \in RowIds
        BY <3>1, BoundsAssumption DEF RowIds
      <3>3. row'[lastRow + 1] \in Row /\ row'[lastRow + 1].state = "pending"
        BY <2>1, <3>1, <3>2 DEF Row, Found
      <3> QED
        BY <1>1, <2>2, <3>1, <3>2, <3>3 DEF Insert
    <2> QED
      BY <2>3, <2>4
  <1>2. CASE RecordFails(h)
    <2>1. PICK found \in hook[h].todo :
            /\ hook' = [hook EXCEPT ![h] = Dropping(h, found)]
            /\ missed' = missed \cup {found} /\ Spend("faults")
      BY <1>2 DEF RecordFails
    <2>2. found \in Found
      BY DEF Hook
    <2> QED
      BY <1>2, <2>1, <2>2, DroppingType, SpendType DEF RecordFails, Disturbances
  <1>3. CASE LoopDies(h)
    <2>1. hook[h].todo \subseteq Found /\ NoHook \in Hook /\ NoHook.step = "idle"
      BY DEF Hook, NoHook
    <2> QED
      BY <1>3, <2>1, SpendType DEF LoopDies, Disturbances
  <1>4. CASE \E found \in hook[h].todo : LookUp(h, found)
    <2>1. PICK found \in hook[h].todo : LookUp(h, found)
      BY <1>4
    <2>2. CASE Recorded(found)
      <3>1. hook' = [hook EXCEPT ![h] = Dropping(h, found)]
        BY <2>1, <2>2 DEF LookUp
      <3>2. /\ hook' \in [Hooks -> Hook]
            /\ \A g \in Hooks : hook'[g].step = "inserting" => hook'[g].one \in hook'[g].todo
        BY <3>1, DroppingType
      <3> QED
        BY <2>1, <3>2 DEF LookUp
    <2>3. CASE ~Recorded(found)
      <3>1. found \in Found
        BY DEF Hook
      <3>2. [hook[h] EXCEPT !.step = "inserting", !.one = found] \in Hook
        BY <3>1 DEF Hook
      <3>3. hook' = [hook EXCEPT ![h] = [hook[h] EXCEPT !.step = "inserting", !.one = found]]
        BY <2>1, <2>3 DEF LookUp
      <3>4. /\ hook' \in [Hooks -> Hook]
            /\ \A g \in Hooks : hook'[g].step = "inserting" => hook'[g].one \in hook'[g].todo
        BY <3>2, <3>3 DEF Hook
      <3> QED
        BY <2>1, <3>4 DEF LookUp
    <2> QED
      BY <2>2, <2>3
  <1> QED
    BY <1>1, <1>2, <1>3, <1>4

(* An answer moves the state of one row and nothing else of any.              *)
LEMMA DecideType ==
  ASSUME TypeOK, NEW r \in 1..lastRow, NEW answer \in {"accepted", "rejected"},
         Decide(r, answer)
  PROVE  /\ DOMAIN row' = RowIds
         /\ \A q \in 1..lastRow :
              /\ row'[q] \in Row /\ row'[q].state # "absent"
              /\ row'[q].file = row[q].file /\ row'[q].text = row[q].text
              /\ row[q].state # "pending" => row'[q] = row[q]
              /\ row'[q].state # row[q].state => q = r /\ row'[q].state = answer
  <1>1. CASE row[r].state = "pending"
    <2>1. r \in RowIds
      BY BoundsAssumption DEF TypeOK, RowIds
    <2>2. row' = [row EXCEPT ![r] = [row[r] EXCEPT !.state = answer]]
      BY <1>1 DEF Decide
    <2>3. \A q \in 1..lastRow : q # r => row'[q] = row[q]
      BY <2>2, BoundsAssumption DEF TypeOK, RowIds
    <2>4. row'[r] = [row[r] EXCEPT !.state = answer]
      BY <2>1, <2>2 DEF TypeOK
    <2>5. row[r] \in Row
      BY DEF TypeOK
    <2>6. /\ row'[r] \in Row /\ row'[r].state = answer
          /\ row'[r].file = row[r].file /\ row'[r].text = row[r].text
      BY <2>4, <2>5 DEF Row
    <2> QED
      BY <1>1, <2>2, <2>3, <2>6 DEF TypeOK
  <1>2. CASE row[r].state # "pending"
    BY <1>2 DEF Decide, TypeOK
  <1> QED
    BY <1>1, <1>2

LEMMA AnswerType ==
  ASSUME TypeOK,
         \/ \E c \in Clicks : \/ WriteBytes(c) \/ Accept(c) \/ ConfirmBreaks(c)
                              \/ \E r \in RowIds : Confirm(c, r)
         \/ \E r \in RowIds : Reject(r)
  PROVE  TypeOK'
  <1>0. NoClick \in Click /\ NoClick.step = "idle"
    BY DEF NoClick, Click
  <1>1. ASSUME NEW c \in Clicks, NEW r \in 1..lastRow, Proceed(c, r)
        PROVE  /\ click' \in [Clicks -> Click]
               /\ \A d \in Clicks : click'[d].step # "idle" => click'[d].of \in 1..lastRow
    <2>1. Following(click[c].step) \in {"idle", "writing", "accepting"}
      BY DEF Following
    <2>2. r \in RowIds
      BY BoundsAssumption DEF TypeOK, RowIds
    <2> QED
      BY <1>0, <1>1, <2>1, <2>2 DEF Proceed, TypeOK, Click
  <1>2. ASSUME NEW c \in Clicks, WriteBytes(c)
        PROVE  TypeOK'
    <2> DEFINE r == click[c].of
    <2>1. r \in 1..lastRow
      BY <1>2 DEF WriteBytes, TypeOK
    <2>2. row[r].text.path \in Paths /\ BodyOf(r) \in Bodies
      BY <2>1 DEF TypeOK, Row, Text, BodyOf
    <2> QED
      BY <1>1, <1>2, <2>1, <2>2 DEF WriteBytes, TypeOK
  <1>3. ASSUME NEW c \in Clicks, Accept(c)
        PROVE  TypeOK'
    <2>1. click[c].of \in 1..lastRow
      BY <1>3 DEF Accept, TypeOK
    <2> QED
      BY <1>1, <1>3, <2>1, DecideType DEF Accept, TypeOK
  <1>4. ASSUME NEW c \in Clicks, ConfirmBreaks(c)
        PROVE  TypeOK'
    BY <1>0, <1>4, SpendType DEF ConfirmBreaks, TypeOK, Disturbances
  <1>5. ASSUME NEW c \in Clicks, NEW r \in RowIds, Confirm(c, r)
        PROVE  TypeOK'
    BY <1>1, <1>5, SpendType DEF Confirm, TypeOK, Disturbances
  <1>6. ASSUME NEW r \in RowIds, Reject(r)
        PROVE  TypeOK'
    BY <1>6, DecideType, SpendType DEF Reject, TypeOK, Disturbances
  <1> QED
    BY <1>2, <1>3, <1>4, <1>5, <1>6

(* Every variable keeps its type (TypeOK): among that, a hook inserts only what *)
(* it has found, and a request under way is about a row that exists.          *)
THEOREM TypeCorrect == Spec => []TypeOK
  <1>1. TypeOK /\ [Next]_vars => TypeOK'
    <2> SUFFICES ASSUME TypeOK, [Next]_vars PROVE TypeOK'
      OBVIOUS
    <2>1. CASE UNCHANGED vars
      BY <2>1 DEF vars, TypeOK
    <2>2. CASE Next
      BY <2>2, RunType, RecordType, AnswerType DEF Next, HookStep
    <2> QED
      BY <2>1, <2>2
  <1> QED
    BY InitType, <1>1, PTL DEF Spec

-----------------------------------------------------------------------------
(* What a step does to the rows: it leaves them alone, adds one behind the    *)
(* newest, or answers one.                                                   *)

Unmoved == row' = row /\ lastRow' = lastRow

Asked(found) ==
  /\ found \in Found /\ ~Recorded(found)
  /\ lastRow' = lastRow + 1 /\ lastRow < MaxRows
  /\ row' = [row EXCEPT ![lastRow + 1] =
               [file |-> found.file, text |-> found.text, state |-> "pending"]]

Answered ==
  /\ lastRow' = lastRow
  /\ \A q \in 1..lastRow :
       /\ row'[q].file = row[q].file /\ row'[q].text = row[q].text
       /\ row[q].state # "pending" => row'[q] = row[q]

LEMMA AskedIsNewest ==
  ASSUME TypeOK, NEW found, Asked(found)
  PROVE  /\ \A q \in 1..lastRow : row'[q] = row[q]
         /\ row'[lastRow + 1] =
              [file |-> found.file, text |-> found.text, state |-> "pending"]
         /\ lastRow \in Nat
  BY BoundsAssumption DEF Asked, TypeOK, RowIds

LEMMA InsertAsks ==
  ASSUME TypeOK, NEW h \in Hooks, Insert(h)
  PROVE  Unmoved \/ Asked(hook[h].one)
  <1>1. hook[h].one \in Found
    BY DEF TypeOK, Insert, Hook
  <1> QED
    BY <1>1 DEF Insert, Unmoved, Asked

LEMMA RowSteps ==
  ASSUME TypeOK, [Next]_vars
  PROVE  \/ Unmoved \/ Answered
         \/ \E h \in Hooks : Insert(h) /\ Asked(hook[h].one)
  <1>1. ASSUME NEW c \in Clicks, Accept(c)
        PROVE  Answered
    <2>1. click[c].of \in 1..lastRow
      BY <1>1 DEF Accept, TypeOK
    <2> QED
      BY <1>1, <2>1, DecideType DEF Accept, Answered
  <1>2. ASSUME NEW r \in RowIds, Reject(r)
        PROVE  Answered
    BY <1>2, DecideType DEF Reject, Answered
  <1>3. ASSUME NEW h \in Hooks, HookStep(h)
        PROVE  Unmoved \/ (Insert(h) /\ Asked(hook[h].one))
    BY <1>3, InsertAsks DEF HookStep, RunCloses, AllRead, ReadFile, LookUp, Unmoved
  <1>4. ASSUME NEW h \in Hooks,
               \/ RunBegins(h) \/ RecordFails(h) \/ LoopDies(h)
               \/ \E f \in Files : RunWrites(h, f)
        PROVE  Unmoved
    BY <1>4 DEF RunBegins, RecordFails, LoopDies, RunWrites, Unmoved
  <1>5. ASSUME NEW c \in Clicks,
               \/ WriteBytes(c) \/ ConfirmBreaks(c) \/ \E r \in RowIds : Confirm(c, r)
        PROVE  Unmoved
    BY <1>5 DEF WriteBytes, ConfirmBreaks, Confirm, Unmoved
  <1>6. UNCHANGED vars => Unmoved
    BY DEF vars, Unmoved
  <1> QED
    BY <1>1, <1>2, <1>3, <1>4, <1>5, <1>6 DEF Next

-----------------------------------------------------------------------------
(* The same bytes in the same file are one request (AskedOnce): the index      *)
(* decides where the look outside the transaction could not.                 *)
THEOREM AskedOnceCorrect == Spec => []AskedOnce
  <1>1. Init => AskedOnce
    BY DEF Init, AskedOnce
  <1>2. TypeOK /\ AskedOnce /\ [Next]_vars => AskedOnce'
    <2> SUFFICES ASSUME TypeOK, AskedOnce, [Next]_vars PROVE AskedOnce'
      OBVIOUS
    <2>1. CASE Unmoved
      BY <2>1 DEF Unmoved, AskedOnce
    <2>2. CASE Answered
      BY <2>2 DEF Answered, AskedOnce
    <2>3. ASSUME NEW h \in Hooks, Asked(hook[h].one)
          PROVE  AskedOnce'
      <3> DEFINE found == hook[h].one
      <3>0. /\ \A q \in 1..lastRow : row'[q] = row[q]
            /\ row'[lastRow + 1] =
                 [file |-> found.file, text |-> found.text, state |-> "pending"]
            /\ lastRow \in Nat
        BY <2>3, AskedIsNewest
      <3>1. /\ \A q \in 1..lastRow : row'[q] = row[q]
            /\ row'[lastRow + 1].file = found.file
            /\ row'[lastRow + 1].text.body = found.text.body
            /\ lastRow' = lastRow + 1 /\ lastRow \in Nat
        BY <2>3, <3>0 DEF Asked
      <3>2. \A q \in 1..lastRow :
              ~(row[q].file = found.file /\ row[q].text.body = found.text.body)
        BY <2>3 DEF Asked, Recorded, Same
      <3> HIDE DEF found
      <3>3. \A q \in 1..lastRow' : q \in 1..lastRow \/ q = lastRow + 1
        BY <3>1
      <3> QED
        BY <3>1, <3>2, <3>3 DEF AskedOnce
    <2> QED
      BY <2>1, <2>2, <2>3, RowSteps
  <1> QED
    BY <1>1, <1>2, TypeCorrect, PTL DEF Spec

(* A row leaves "pending" once, and no step makes it ask for something else     *)
(* (AnsweredOnce): the lock and the second read in decide.                    *)
THEOREM AnsweredOnceCorrect == Spec => AnsweredOnce
  <1>1. TypeOK /\ [Next]_vars =>
          \A r \in 1..lastRow :
            /\ row[r].state # "pending" => row'[r] = row[r]
            /\ row'[r].file = row[r].file /\ row'[r].text = row[r].text
    <2> SUFFICES ASSUME TypeOK, [Next]_vars, NEW r \in 1..lastRow
                 PROVE  /\ row[r].state # "pending" => row'[r] = row[r]
                        /\ row'[r].file = row[r].file /\ row'[r].text = row[r].text
      OBVIOUS
    <2> QED
      BY RowSteps, AskedIsNewest DEF Unmoved, Answered
  <1> QED
    BY <1>1, TypeCorrect, PTL DEF Spec, AnsweredOnce

-----------------------------------------------------------------------------
(* What a request has done when it reaches its second step: somebody pressed   *)
(* confirm on its row, and the bytes are there before the row is asked.       *)
RequestInv ==
  /\ \A c \in Clicks :
       /\ click[c].step # "idle" => click[c].of \in pressed
       /\ click[c].step = "accepting" => click[c].of \in landed
  /\ AcceptedWasWritten

LEMMA RowsKept ==
  ASSUME TypeOK, [Next]_vars, NEW r \in 1..lastRow
  PROVE  row'[r].text = row[r].text
  BY RowSteps, AskedIsNewest DEF Unmoved, Answered

LEMMA RequestStep ==
  ASSUME TypeOK, RequestInv, [Next]_vars
  PROVE  RequestInv'
  <1> USE DEF RequestInv, AcceptedWasWritten
  <1>1. ASSUME row' = row, lastRow' = lastRow, click' = click,
               pressed' = pressed, landed' = landed
        PROVE  RequestInv'
    BY <1>1
  <1>2. ASSUME NEW c \in Clicks, NEW r \in RowIds, Confirm(c, r)
        PROVE  RequestInv'
    BY <1>2 DEF Confirm, Proceed, Following, TypeOK, Click
  <1>3. ASSUME NEW c \in Clicks, WriteBytes(c)
        PROVE  RequestInv'
    BY <1>3 DEF WriteBytes, Proceed, Following, TypeOK, Click
  <1>4. ASSUME NEW c \in Clicks, ConfirmBreaks(c)
        PROVE  RequestInv'
    BY <1>4 DEF ConfirmBreaks, NoClick, TypeOK, Click
  <1>5. ASSUME NEW c \in Clicks, Accept(c)
        PROVE  RequestInv'
    <2> DEFINE r == click[c].of
    <2>1. r \in 1..lastRow /\ r \in landed /\ Decide(r, "accepted")
      BY <1>5 DEF Accept, TypeOK
    <2>2. \A q \in 1..lastRow : row'[q].state = "accepted" => q \in landed
      BY <2>1, DecideType
    <2>3. click' = [click EXCEPT ![c] = NoClick]
      BY <1>5 DEF Accept, Proceed, Following
    <2> QED
      BY <1>5, <2>2, <2>3 DEF Accept, NoClick, TypeOK, Click
  <1>6. ASSUME NEW r \in RowIds, Reject(r)
        PROVE  RequestInv'
    <2>1. \A q \in 1..lastRow : row'[q].state = "accepted" => q \in landed
      BY <1>6, DecideType DEF Reject
    <2> QED
      BY <1>6, <2>1 DEF Reject
  <1>7. ASSUME NEW h \in Hooks, Insert(h)
        PROVE  RequestInv'
    <2>1. CASE Unmoved
      BY <1>1, <1>7, <2>1 DEF Insert, Unmoved
    <2>2. CASE Asked(hook[h].one)
      <3> DEFINE found == hook[h].one
      <3>a. /\ \A q \in 1..lastRow : row'[q] = row[q]
            /\ row'[lastRow + 1] =
                 [file |-> found.file, text |-> found.text, state |-> "pending"]
            /\ lastRow \in Nat
        BY <2>2, AskedIsNewest
      <3> HIDE DEF found
      <3>0. /\ \A q \in 1..lastRow : row'[q] = row[q]
            /\ row'[lastRow + 1].state = "pending"
            /\ lastRow \in Nat
        BY <3>a
      <3>1. \A q \in 1..lastRow' : q \in 1..lastRow \/ q = lastRow + 1
        BY <2>2, <3>0 DEF Asked
      <3>3. \A q \in 1..lastRow' : row'[q].state = "accepted" => q \in landed
        BY <3>0, <3>1
      <3> QED
        BY <1>7, <3>3 DEF Insert
    <2> QED
      BY <1>7, <2>1, <2>2, InsertAsks
  <1>8. CASE UNCHANGED vars
    BY <1>1, <1>8 DEF vars
  <1>9. ASSUME NEW h \in Hooks,
               \/ RunCloses(h) \/ AllRead(h) \/ RunBegins(h) \/ RecordFails(h) \/ LoopDies(h)
               \/ \E f \in Files : ReadFile(h, f) \/ RunWrites(h, f)
               \/ \E found \in hook[h].todo : LookUp(h, found)
        PROVE  RequestInv'
    BY <1>1, <1>9 DEF RunCloses, AllRead, RunBegins, RecordFails, LoopDies, ReadFile,
                      RunWrites, LookUp
  <1> QED
    BY <1>2, <1>3, <1>4, <1>5, <1>6, <1>7, <1>8, <1>9 DEF Next, HookStep

LEMMA RequestInvCorrect == Spec => []RequestInv
  <1>1. Init => RequestInv
    BY DEF Init, RequestInv, AcceptedWasWritten, NoClick
  <1> QED
    BY <1>1, RequestStep, TypeCorrect, PTL DEF Spec

(* Bytes first, row second (AcceptedWasWritten): a row says accepted only when  *)
(* its body has been written, whatever died in between and whoever else        *)
(* answered.                                                                 *)
THEOREM AcceptedWasWrittenCorrect == Spec => []AcceptedWasWritten
  <1>1. RequestInv => AcceptedWasWritten
    BY DEF RequestInv
  <1> QED
    BY <1>1, RequestInvCorrect, PTL

(* What the shared directory holds is what somebody pressed confirm on         *)
(* (OnlyWhatWasRead), however the file it came from has changed since.        *)
THEOREM OnlyWhatWasReadCorrect == Spec => []OnlyWhatWasRead
  <1>1. Init => OnlyWhatWasRead
    BY DEF Init, OnlyWhatWasRead
  <1>2. TypeOK /\ RequestInv /\ OnlyWhatWasRead /\ [Next]_vars => OnlyWhatWasRead'
    <2> SUFFICES ASSUME TypeOK, RequestInv, OnlyWhatWasRead, [Next]_vars
                 PROVE  OnlyWhatWasRead'
      OBVIOUS
    <2>1. \A r \in pressed : row'[r].text = row[r].text
      BY RowsKept DEF TypeOK
    <2>2. pressed \subseteq pressed'
      BY DEF Next, HookStep, vars, RunCloses, AllRead, RunBegins, RecordFails, LoopDies,
             ReadFile, RunWrites, LookUp, Insert, Confirm, WriteBytes, Accept,
             ConfirmBreaks, Reject
    <2>3. CASE scope' = scope
      BY <2>1, <2>2, <2>3 DEF OnlyWhatWasRead
    <2>4. ASSUME NEW c \in Clicks, WriteBytes(c)
          PROVE  OnlyWhatWasRead'
      <3> DEFINE r == click[c].of
      <3>1. r \in pressed /\ r \in 1..lastRow
        BY <2>4 DEF WriteBytes, RequestInv, TypeOK
      <3>2. row[r].text = [path |-> row[r].text.path, body |-> BodyOf(r)]
        BY <3>1 DEF TypeOK, Row, Text, BodyOf
      <3>3. scope' = [scope EXCEPT ![row[r].text.path] = BodyOf(r)]
        BY <2>4 DEF WriteBytes
      <3> HIDE DEF r
      <3>4. ASSUME NEW p \in Paths, scope'[p] # Empty
            PROVE  \E q \in pressed : row[q].text = [path |-> p, body |-> scope'[p]]
        <4>1. CASE p = row[r].text.path
          BY <3>1, <3>2, <3>3, <4>1 DEF TypeOK
        <4>2. CASE p # row[r].text.path
          BY <3>3, <3>4, <4>2 DEF TypeOK, OnlyWhatWasRead
        <4> QED
          BY <4>1, <4>2
      <3> QED
        BY <2>1, <2>2, <3>4 DEF OnlyWhatWasRead
    <2>5. scope' = scope \/ \E c \in Clicks : WriteBytes(c)
      BY DEF Next, HookStep, vars, RunCloses, AllRead, RunBegins, RecordFails, LoopDies,
             ReadFile, RunWrites, LookUp, Insert, Confirm, Accept, ConfirmBreaks, Reject
    <2> QED
      BY <2>3, <2>4, <2>5
  <1> QED
    BY <1>1, <1>2, TypeCorrect, RequestInvCorrect, PTL DEF Spec

-----------------------------------------------------------------------------
(* Nothing a hook has read is let go of without a row of its file and body,     *)
(* a refusal of the store or the death of the process (NothingDropped).       *)
THEOREM NothingDroppedCorrect == Spec => NothingDropped
  <1>1. TypeOK /\ [Next]_vars =>
          \A h \in Hooks : \A found \in hook[h].todo \ hook'[h].todo :
            \/ found \in missed'
            \/ \E r \in 1..lastRow' :
                 /\ row'[r].file = found.file
                 /\ row'[r].text.body = found.text.body
    <2> DEFINE Kept(found) ==
          \/ found \in missed'
          \/ \E r \in 1..lastRow' :
               row'[r].file = found.file /\ row'[r].text.body = found.text.body
    <2> SUFFICES ASSUME TypeOK, [Next]_vars,
                        NEW h \in Hooks, NEW found \in hook[h].todo \ hook'[h].todo
                 PROVE  Kept(found)
      OBVIOUS
    <2>1. ASSUME NEW g \in Hooks, LookUp(g, found), Recorded(found)
          PROVE  Kept(found)
      BY <2>1 DEF LookUp, Recorded, Same
    <2>2. ASSUME NEW g \in Hooks, NEW one \in hook[g].todo, LookUp(g, one)
          PROVE  Kept(found)
      <3>1. CASE Recorded(one)
        <4>1. hook' = [hook EXCEPT ![g] = Dropping(g, one)]
          BY <2>2, <3>1 DEF LookUp
        <4>2. found = one
          BY <4>1, DroppingType DEF TypeOK
        <4> QED
          BY <2>1, <2>2, <3>1, <4>2
      <3>2. CASE ~Recorded(one)
        BY <2>2, <3>2 DEF LookUp, TypeOK, Hook
      <3> QED
        BY <3>1, <3>2
    <2>3. ASSUME NEW g \in Hooks, Insert(g)
          PROVE  Kept(found)
      <3> DEFINE one == hook[g].one
      <3>1. hook' = [hook EXCEPT ![g] = Dropping(g, one)]
        BY <2>3 DEF Insert
      <3>2. found = one
        BY <3>1, DroppingType DEF TypeOK
      <3>3. CASE Recorded(one)
        BY <2>3, <3>2, <3>3 DEF Insert, Recorded, Same
      <3>4. CASE ~Recorded(one)
        <4>1. Asked(one)
          BY <2>3, <3>4 DEF Insert, Asked, TypeOK, Hook
        <4>2. /\ row'[lastRow + 1] =
                   [file |-> one.file, text |-> one.text, state |-> "pending"]
              /\ lastRow \in Nat
          BY <4>1, AskedIsNewest
        <4>3. lastRow + 1 \in 1..lastRow'
          BY <4>1, <4>2 DEF Asked
        <4> HIDE DEF one
        <4> QED
          BY <3>2, <4>2, <4>3
      <3> QED
        BY <3>3, <3>4
    <2>4. ASSUME NEW g \in Hooks, RecordFails(g)
          PROVE  Kept(found)
      <3>1. PICK one \in hook[g].todo :
              /\ hook' = [hook EXCEPT ![g] = Dropping(g, one)]
              /\ missed' = missed \cup {one}
        BY <2>4 DEF RecordFails
      <3>2. found = one
        BY <3>1, DroppingType DEF TypeOK
      <3> QED
        BY <3>1, <3>2
    <2>5. ASSUME NEW g \in Hooks, LoopDies(g)
          PROVE  Kept(found)
      BY <2>5 DEF LoopDies, TypeOK
    <2>6. ASSUME NEW g \in Hooks,
                 \/ RunCloses(g) \/ AllRead(g) \/ RunBegins(g)
                 \/ \E f \in Files : ReadFile(g, f) \/ RunWrites(g, f)
          PROVE  FALSE
      <3>1. ASSUME RunCloses(g) \/ AllRead(g) \/ RunBegins(g) \/ \E f \in Files : RunWrites(g, f)
            PROVE  hook'[h].todo = hook[h].todo
        BY <3>1 DEF RunCloses, AllRead, RunBegins, RunWrites, TypeOK, Hook
      <3>2. ASSUME NEW f \in Files, ReadFile(g, f)
            PROVE  hook[h].todo \subseteq hook'[h].todo
        <4>1. CASE folder[f] = Empty
          BY <3>2, <4>1 DEF ReadFile, TypeOK, Hook
        <4>2. CASE folder[f] # Empty
          BY <3>2, <4>2 DEF ReadFile, TypeOK, Hook
        <4> QED
          BY <4>1, <4>2
      <3> QED
        BY <2>6, <3>1, <3>2
    <2>7. hook' # hook
      OBVIOUS
    <2>8. \E g \in Hooks :
            \/ \E one \in hook[g].todo : LookUp(g, one)
            \/ Insert(g) \/ RecordFails(g) \/ LoopDies(g)
      BY <2>6, <2>7 DEF Next, HookStep, vars, Confirm, WriteBytes, Accept, ConfirmBreaks,
                        Reject
    <2> QED
      BY <2>2, <2>3, <2>4, <2>5, <2>8
  <1> QED
    BY <1>1, TypeCorrect, PTL DEF Spec, NothingDropped

=============================================================================
