---------------------------- MODULE RunFeed_proofs ---------------------------
(***************************************************************************)
(* Theorems about RunFeed, for files of any length, pages of any size and  *)
(* any budget of disturbances.                                             *)
(***************************************************************************)
EXTENDS RunFeed, Numbers, FiniteSetTheorems

-----------------------------------------------------------------------------
(* Facts about the operators the model is built from.                        *)

LEMMA SeqsFact == /\ Marker \in Nat \ {0} /\ MaxLines \in Nat /\ Page \in Nat \ {0}
                  /\ Seqs \cup {0} = 0..Marker /\ LineSeqs \subseteq Seqs
                  /\ Marker \notin LineSeqs /\ NoRow \notin Seqs
  BY BoundsAssumption DEF Seqs, Marker, LineSeqs, NoRow

LEMMA MaxIsLargest ==
  ASSUME NEW n \in Nat, NEW S \in SUBSET (0..n), S # {}
  PROVE  Max(S) \in S /\ \A y \in S : Max(S) >= y
  <1>1. PICK x \in S : \A y \in S : y <= x
    BY LargestExists
  <1>2. \A y \in S : x >= y
    BY <1>1
  <1> QED
    BY <1>2 DEF Max

LEMMA RowsType == Rows \subseteq Seqs
  BY DEF Rows

(* A page is what comes next: it leaves out no row before its last one.       *)
LEMMA PageIsNext ==
  ASSUME TypeOK, NextPage # {}
  PROVE  /\ Max(NextPage) \in NextPage /\ Max(NextPage) \in Rows
         /\ Max(NextPage) \in Seqs /\ Max(NextPage) > follower.at
         /\ NextPage = {s \in Rows : s > follower.at /\ s <= Max(NextPage)}
  <1> DEFINE Before(s) == {x \in Ahead : x < s}
  <1>1. Ahead \subseteq Seqs /\ IsFiniteSet(Ahead)
    <2>1. IsFiniteSet(Seqs)
      BY SeqsFact, FS_Interval DEF Seqs
    <2> QED
      BY <2>1, RowsType, FS_Subset DEF Ahead
  <1>2. NextPage \in SUBSET (0..Marker) /\ NextPage \subseteq Ahead
    BY <1>1, SeqsFact DEF NextPage
  <1>3. Max(NextPage) \in NextPage /\ \A y \in NextPage : Max(NextPage) >= y
    BY <1>2, SeqsFact, MaxIsLargest
  <1>4. ASSUME NEW s \in NextPage, NEW x \in Ahead, x <= s
        PROVE  x \in NextPage
    <2>0. Ahead \subseteq Nat /\ s \in Nat
      BY <1>1, <1>2, SeqsFact
    <2>1. Before(x) \subseteq Before(s) /\ Before(s) \subseteq Ahead
      <3>1. ASSUME NEW y \in Ahead, y < x PROVE y < s
        <4>1. y \in Nat /\ x \in Nat
          BY <2>0
        <4> QED
          BY <4>1, <2>0, <1>4, <3>1
      <3> QED
        BY <3>1
    <2>2. IsFiniteSet(Before(s)) /\ Before(x) \in SUBSET Before(s)
      BY <1>1, <2>1, FS_Subset
    <2>3. Cardinality(Before(x)) <= Cardinality(Before(s))
      BY <2>2, FS_Subset
    <2>4. Cardinality(Before(x)) \in Nat /\ Cardinality(Before(s)) \in Nat
      BY <2>2, FS_Subset, FS_CardinalityType
    <2>5. Cardinality(Before(s)) < Page
      BY DEF NextPage
    <2>6. Cardinality(Before(x)) < Page
      BY <2>3, <2>4, <2>5, SeqsFact
    <2> QED
      BY <2>6 DEF NextPage
  <1>5. NextPage = {s \in Rows : s > follower.at /\ s <= Max(NextPage)}
    <2> DEFINE last == Max(NextPage)
    <2> HIDE DEF last
    <2>1. last \in NextPage /\ \A y \in NextPage : last >= y
      BY <1>3 DEF last
    <2>2. \A s \in NextPage : s \in Rows /\ s > follower.at /\ s <= last
      BY <1>1, <1>2, <2>1 DEF Ahead, Seqs
    <2>3. \A s \in Rows : s > follower.at /\ s <= last => s \in NextPage
      BY <1>4, <2>1 DEF Ahead
    <2>4. NextPage = {s \in Rows : s > follower.at /\ s <= last}
      BY <2>2, <2>3
    <2> QED
      BY <2>4 DEF last
  <1> QED
    BY <1>1, <1>2, <1>3, <1>5 DEF Ahead

LEMMA LeastExists ==
  ASSUME NEW n \in Nat, NEW S \in SUBSET (0..n), S # {}
  PROVE  \E x \in S : \A y \in S : x <= y
  <1> DEFINE T == {n - s : s \in S}
  <1>1. T \in SUBSET (0..n) /\ T # {}
    <2>1. \A s \in S : n - s \in 0..n
      OBVIOUS
    <2>2. PICK s \in S : TRUE
      OBVIOUS
    <2> QED
      BY <2>1, <2>2
  <1>2. PICK x \in T : \A y \in T : y <= x
    <2> HIDE DEF T
    <2> QED
      BY <1>1, LargestExists
  <1>3. PICK s \in S : x = n - s
    BY <1>2
  <1>4. \A y \in S : n - y <= n - s
    BY <1>2, <1>3
  <1> QED
    BY <1>4

LEMMA AheadFact ==
  TypeOK => /\ Ahead \in SUBSET (0..Marker) /\ Ahead \subseteq Nat /\ IsFiniteSet(Ahead)
            /\ \A s \in Seqs : s \in Nat
  <1> SUFFICES ASSUME TypeOK
               PROVE  /\ Ahead \in SUBSET (0..Marker) /\ Ahead \subseteq Nat
                      /\ IsFiniteSet(Ahead) /\ \A s \in Seqs : s \in Nat
    OBVIOUS
  <1>1. IsFiniteSet(Seqs) /\ \A s \in Seqs : s \in Nat /\ s \in 0..Marker
    BY SeqsFact, FS_Interval DEF Seqs
  <1>2. Ahead \subseteq Seqs
    BY RowsType DEF Ahead
  <1> QED
    BY <1>1, <1>2, FS_Subset

(* The first row ahead is on the page, so an empty page means nothing is ahead. *)
LEMMA EmptyPageMeansNone ==
  ASSUME TypeOK, NextPage = {}
  PROVE  Ahead = {}
  <1> SUFFICES ASSUME Ahead # {} PROVE FALSE
    OBVIOUS
  <1>1. PICK x \in Ahead : \A y \in Ahead : x <= y
    BY AheadFact, LeastExists, SeqsFact
  <1>2. {y \in Ahead : y < x} = {}
    BY <1>1, AheadFact
  <1>3. Cardinality({y \in Ahead : y < x}) = 0
    BY <1>2, FS_EmptySet
  <1> QED
    BY <1>3, SeqsFact DEF NextPage

-----------------------------------------------------------------------------
(* Types.                                                                    *)

LEMMA SpendType ==
  ASSUME TypeOK, NEW k \in Disturbances, Spend(k)
  PROVE  budget' \in [Disturbances -> Nat]
  BY DEF TypeOK, Spend

LEMMA NotifyType == TypeOK /\ Notify => nudge' \in BOOLEAN
  BY DEF TypeOK, Notify

LEMMA InitType == Init => TypeOK
  <1> SUFFICES ASSUME Init PROVE TypeOK
    OBVIOUS
  <1>1. file \in Seq(Lines) /\ Len(file) = 0
    BY DEF Init
  <1>2. follower \in Follower
    BY DEF Init, Follower
  <1>3. stored \in [Seqs -> LineSeqs \cup {NoRow, Marker}]
    BY DEF Init
  <1>4. reader \in [consumed : 0..MaxLines, upto : 0..MaxLines]
        /\ reader.consumed = 0 /\ reader.upto = 0
    BY SeqsFact DEF Init
  <1>5. budget \in [Disturbances -> Nat]
    BY BoundsAssumption DEF Init
  <1>6. turn \in TurnSteps /\ live \in BOOLEAN /\ nudge \in BOOLEAN /\ refused \subseteq Seqs
        /\ stopping \in {"no", "asked", "marked"}
    BY DEF Init, TurnSteps
  <1> QED
    BY <1>1, <1>2, <1>3, <1>4, <1>5, <1>6, SeqsFact DEF TypeOK

(* The file is a sequence of lines, each at its own place.                    *)
LEMMA FileFact ==
  ASSUME TypeOK
  PROVE  /\ Len(file) \in Nat /\ DOMAIN file = 1..Len(file)
         /\ DOMAIN file \subseteq LineSeqs /\ Readable \subseteq DOMAIN file
         /\ \A n \in DOMAIN file : file[n] \in Lines
  BY BoundsAssumption DEF TypeOK, Readable, LineSeqs

LEMMA FreshFact ==
  ASSUME TypeOK
  PROVE  /\ Fresh \subseteq Readable
         /\ \A s \in Seqs :
              (IF \E n \in Fresh : Ordinal(n) = s
               THEN CHOOSE n \in Fresh : Ordinal(n) = s ELSE stored[s])
              = IF s \in Fresh THEN s ELSE stored[s]
  <1>1. \A s : (\E n \in Fresh : Ordinal(n) = s) => (CHOOSE n \in Fresh : Ordinal(n) = s) = s
    BY DEF Ordinal
  <1>2. \A s : (\E n \in Fresh : Ordinal(n) = s) <=> s \in Fresh
    BY DEF Ordinal
  <1> QED
    BY <1>1, <1>2 DEF Fresh

LEMMA CollectFact ==
  ASSUME TypeOK, Collect
  PROVE  stored' = [s \in Seqs |-> IF s \in Fresh THEN s ELSE stored[s]]
  BY FreshFact DEF Collect

LEMMA FileType ==
  ASSUME TypeOK, NEW line \in Lines, HarnessWrites(line)
  PROVE  TypeOK'
  <1>1. file' \in Seq(Lines) /\ Len(file') = Len(file) + 1
    BY DEF HarnessWrites, TypeOK
  <1> QED
    BY <1>1, FileFact, BoundsAssumption DEF HarnessWrites, TypeOK

(* The pass in hand is given up where it was.                                *)
LEMMA CutType ==
  ASSUME TypeOK
  PROVE  LET cut == [reader EXCEPT !.upto = reader.consumed] IN
         /\ cut \in [consumed : 0..MaxLines, upto : 0..MaxLines]
         /\ cut.consumed = cut.upto /\ cut.upto <= Len(file)
  BY FileFact, BoundsAssumption DEF TypeOK

LEMMA TurnType ==
  ASSUME TypeOK,
         \/ ReadFile \/ StoreLine \/ LineRefused \/ ContainerEnds \/ LastRead \/ CloseRow
         \/ Stop \/ Crash \/ Reconcile
  PROVE  TypeOK'
  <1> USE FileFact, BoundsAssumption, SeqsFact DEF TypeOK, TurnSteps
  <1>1. CASE ReadFile
    BY <1>1 DEF ReadFile
  <1>2. CASE StoreLine
    <2> DEFINE n == reader.consumed + 1
    <2>1. reader' = [reader EXCEPT !.consumed = n] /\ n \in 1..reader.upto
      BY <1>2 DEF StoreLine
    <2>2. reader' \in [consumed : 0..MaxLines, upto : 0..MaxLines]
          /\ reader'.consumed <= reader'.upto /\ reader'.upto <= Len(file)
      BY <2>1
    <2>3. stored' \in [Seqs -> LineSeqs \cup {NoRow, Marker}] /\ nudge' \in BOOLEAN
      BY <1>2, <2>1, NotifyType DEF StoreLine, LineSeqs, Seqs
    <2> QED
      BY <1>2, <2>2, <2>3 DEF StoreLine
  <1>3. CASE LineRefused
    <2> DEFINE n == reader.consumed + 1
    <2>1. reader' = [reader EXCEPT !.consumed = n] /\ n \in 1..reader.upto
      BY <1>3 DEF LineRefused
    <2>2. reader' \in [consumed : 0..MaxLines, upto : 0..MaxLines]
          /\ reader'.consumed <= reader'.upto /\ reader'.upto <= Len(file)
      BY <2>1
    <2>3. refused' \subseteq Seqs
      BY <1>3, <2>1 DEF LineRefused, LineSeqs, Seqs
    <2>4. budget' \in [Disturbances -> Nat]
      BY <1>3, SpendType DEF LineRefused, Disturbances
    <2> QED
      BY <1>3, <2>2, <2>3, <2>4 DEF LineRefused
  <1>4. CASE ContainerEnds
    BY <1>4, CutType DEF ContainerEnds
  <1>5. CASE LastRead
    BY <1>5 DEF LastRead
  <1>6. CASE CloseRow
    BY <1>6 DEF CloseRow
  <1>7. CASE Stop
    <2>1. budget' \in [Disturbances -> Nat]
      BY <1>7, SpendType DEF Stop, Disturbances
    <2>2. reader' \in [consumed : 0..MaxLines, upto : 0..MaxLines]
          /\ reader'.consumed <= reader'.upto /\ reader'.upto <= Len(file)
      BY <1>7, CutType DEF Stop
    <2> QED
      BY <1>7, <2>1, <2>2 DEF Stop
  <1>8. CASE Crash
    BY <1>8, SpendType DEF Crash, Disturbances
  <1>9. CASE Reconcile
    BY <1>9 DEF Reconcile
  <1> QED
    BY <1>1, <1>2, <1>3, <1>4, <1>5, <1>6, <1>7, <1>8, <1>9

LEMMA CloseType ==
  ASSUME TypeOK, Collect \/ CollectFails \/ StopMarked
  PROVE  TypeOK'
  <1>1. CASE Collect
    <2>1. stored' \in [Seqs -> LineSeqs \cup {NoRow, Marker}]
      BY <1>1, CollectFact, FreshFact, FileFact DEF TypeOK
    <2>2. nudge' \in BOOLEAN
      BY <1>1, NotifyType DEF Collect, TypeOK
    <2> QED
      BY <1>1, <2>1, <2>2 DEF Collect, TypeOK, TurnSteps
  <1>2. CASE CollectFails
    <2>1. Marker \in Seqs
      BY SeqsFact DEF Seqs
    <2>2. budget' \in [Disturbances -> Nat]
      BY <1>2, SpendType DEF CollectFails, Disturbances, TypeOK
    <2>3. turn' \in TurnSteps /\ refused' \subseteq Seqs
      BY <1>2, <2>1 DEF CollectFails, TurnSteps, TypeOK
    <2> QED
      BY <1>2, <2>2, <2>3 DEF CollectFails, TypeOK
  <1>3. CASE StopMarked
    BY <1>3, NotifyType, SeqsFact DEF StopMarked, TypeOK
  <1> QED
    BY <1>1, <1>2, <1>3

(* Where a follower is when it opens the stream.                              *)
LEMMA ConnectFact ==
  ASSUME TypeOK, Connect
  PROVE  \E seen \in SUBSET Seqs :
           /\ follower' = [step |-> "wait", got |-> seen, at |-> Max(seen \cup {0})]
           /\ seen = IF follower.at = 0 THEN seen ELSE follower.got
           /\ follower.at = 0 => seen \in {{}, Rows}
           /\ Max(seen \cup {0}) \in seen \cup {0}
           /\ \A s \in seen : s <= Max(seen \cup {0})
  <1>1. PICK seen \in IF follower.at = 0 THEN {{}, Rows} ELSE {follower.got} :
          follower' = [step |-> "wait", got |-> seen, at |-> Max(seen \cup {0})]
    BY DEF Connect
  <1>2. seen \subseteq Seqs
    BY <1>1, RowsType DEF TypeOK, Follower
  <1>3. seen \cup {0} \in SUBSET (0..Marker) /\ seen \cup {0} # {}
    BY <1>2, SeqsFact
  <1>4. /\ Max(seen \cup {0}) \in seen \cup {0}
        /\ \A s \in seen \cup {0} : Max(seen \cup {0}) >= s
    BY <1>3, SeqsFact, MaxIsLargest
  <1>5. \A s \in seen : s <= Max(seen \cup {0})
    BY <1>3, <1>4
  <1> QED
    BY <1>1, <1>2, <1>4, <1>5

LEMMA FollowerType ==
  ASSUME TypeOK,
         \/ Connect \/ Disconnect \/ IdleHangup \/ NoticeLost \/ Tick \/ Wake \/ ReadPage \/ AskRow
  PROVE  TypeOK'
  <1>1. CASE Connect
    <2>0. PICK seen \in SUBSET Seqs :
            /\ follower' = [step |-> "wait", got |-> seen, at |-> Max(seen \cup {0})]
            /\ Max(seen \cup {0}) \in seen \cup {0}
      BY <1>1, ConnectFact
    <2>1. follower' \in Follower
      BY <2>0 DEF Follower
    <2> QED
      BY <1>1, <2>1 DEF Connect, TypeOK
  <1>2. CASE Disconnect
    BY <1>2, SpendType DEF Disconnect, TypeOK, Follower, Disturbances
  <1>8. CASE IdleHangup
    BY <1>8, SpendType DEF IdleHangup, TypeOK, Follower, Disturbances
  <1>3. CASE NoticeLost
    BY <1>3, SpendType DEF NoticeLost, TypeOK, Disturbances
  <1>4. CASE Tick
    BY <1>4 DEF Tick, TypeOK
  <1>5. CASE Wake
    BY <1>5 DEF Wake, TypeOK, Follower
  <1>6. CASE ReadPage
    <2>1. CASE NextPage = {}
      BY <1>6, <2>1 DEF ReadPage, TypeOK, Follower
    <2>2. CASE NextPage # {}
      <3>1. Max(NextPage) \in Seqs /\ NextPage \subseteq Seqs
        BY <2>2, PageIsNext, RowsType DEF NextPage, Ahead
      <3>2. follower'.got = follower.got \cup NextPage /\ follower'.at = Max(NextPage)
            /\ follower'.step \in {"closed", "page", "wait"}
            /\ follower' = [got |-> follower'.got, at |-> follower'.at, step |-> follower'.step]
        BY <1>6, <2>2 DEF ReadPage
      <3>3. follower' \in Follower
        BY <3>1, <3>2 DEF TypeOK, Follower
      <3> QED
        BY <1>6, <3>3 DEF ReadPage, TypeOK
    <2> QED
      BY <2>1, <2>2
  <1>7. CASE AskRow
    BY <1>7 DEF AskRow, TypeOK, Follower
  <1> QED
    BY <1>1, <1>2, <1>3, <1>4, <1>5, <1>6, <1>7, <1>8

LEMMA TypeStep == TypeOK /\ [Next]_vars => TypeOK'
  <1> SUFFICES ASSUME TypeOK, [Next]_vars PROVE TypeOK'
    OBVIOUS
  <1>1. CASE UNCHANGED vars
    BY <1>1 DEF vars, TypeOK
  <1>2. CASE Next
    BY <1>2, FileType, TurnType, CloseType, FollowerType DEF Next, RunStep, FollowerStep
  <1> QED
    BY <1>1, <1>2

(* Every variable keeps its type (TypeOK): among that, the reader never passes  *)
(* the end of the file, nor stores a line before it has read it.              *)
THEOREM TypeCorrect == Spec => []TypeOK
  BY InitType, TypeStep, PTL DEF Spec

-----------------------------------------------------------------------------
(* What a step does to the file and to the rows.                             *)

(* The steps that leave file, rows and the run's own progress alone.          *)
FollowerMoves ==
  Connect \/ Disconnect \/ IdleHangup \/ NoticeLost \/ Tick \/ Wake \/ ReadPage \/ AskRow

LEMMA FollowerLeaves ==
  ASSUME FollowerMoves
  PROVE  UNCHANGED <<file, stored, live, turn, reader, stopping, refused>>
  BY DEF FollowerMoves, Connect, Disconnect, IdleHangup, NoticeLost, Tick, Wake, ReadPage, AskRow

(* The steps that leave the rows and the file alone.                         *)
Quiet ==
  \/ ReadFile \/ LineRefused \/ ContainerEnds \/ LastRead \/ CloseRow \/ CollectFails
  \/ Stop \/ Crash \/ Reconcile

LEMMA QuietLeaves == Quiet => UNCHANGED <<file, stored, follower>>
  BY DEF Quiet, ReadFile, LineRefused, ContainerEnds, LastRead, CloseRow, CollectFails,
         Stop, Crash, Reconcile

LEMMA NextCases ==
  ASSUME [Next]_vars
  PROVE  \/ UNCHANGED vars \/ FollowerMoves \/ Quiet
         \/ StoreLine \/ Collect \/ StopMarked
         \/ \E line \in Lines : HarnessWrites(line)
  BY DEF Next, RunStep, FollowerStep, FollowerMoves, Quiet

(* A file only grows at its end, and a row is only ever added.                *)
Grown ==
  /\ DOMAIN file \subseteq DOMAIN file'
  /\ \A n \in DOMAIN file : file'[n] = file[n]
  /\ \A s \in Rows : s \in Rows' /\ stored'[s] = stored[s]

LEMMA WriteFact ==
  ASSUME TypeOK, NEW line \in Lines, HarnessWrites(line)
  PROVE  /\ DOMAIN file' = DOMAIN file \cup {Len(file) + 1}
         /\ \A n \in DOMAIN file : file'[n] = file[n]
         /\ file'[Len(file) + 1] = line
  BY DEF HarnessWrites, TypeOK

LEMMA StoreLineFact ==
  ASSUME TypeOK, StoreLine
  PROVE  LET n == reader.consumed + 1 IN
         /\ n \in DOMAIN file /\ n \in LineSeqs /\ n \in Seqs /\ n # Marker
         /\ file' = file
         /\ IF n \in Readable /\ stored[n] = NoRow
              THEN stored' = [stored EXCEPT ![n] = n]
              ELSE stored' = stored
  <1>1. reader.consumed + 1 \in DOMAIN file
    BY FileFact, BoundsAssumption DEF StoreLine, TypeOK
  <1> QED
    BY <1>1, FileFact, SeqsFact DEF StoreLine

(* Every row is behind its own ordinal, and its line can be read.             *)
LEMMA RowIsItsLineStep ==
  ASSUME TypeOK, RowIsItsLine, [Next]_vars
  PROVE  RowIsItsLine'
  <1>1. CASE UNCHANGED vars
    BY <1>1 DEF vars, RowIsItsLine, Rows, Readable
  <1>2. CASE FollowerMoves
    BY <1>2, FollowerLeaves DEF RowIsItsLine, Rows, Readable
  <1>3. CASE Quiet
    BY <1>3, QuietLeaves DEF RowIsItsLine, Rows, Readable
  <1>4. CASE StoreLine
    BY <1>4, StoreLineFact DEF RowIsItsLine, Rows, Readable, TypeOK
  <1>5. CASE Collect
    <2>1. file' = file /\ stored' = [s \in Seqs |-> IF s \in Fresh THEN s ELSE stored[s]]
      BY <1>5, CollectFact DEF Collect
    <2> QED
      BY <2>1, FreshFact DEF RowIsItsLine, Rows, Readable
  <1>6. CASE StopMarked
    <2>1. file' = file /\ stored' = [stored EXCEPT ![Marker] = Marker]
      BY <1>6 DEF StopMarked
    <2> QED
      BY <2>1 DEF RowIsItsLine, Rows, Readable, TypeOK
  <1>7. ASSUME NEW line \in Lines, HarnessWrites(line) PROVE RowIsItsLine'
    <2>1. Readable \subseteq Readable' /\ stored' = stored
      BY <1>7, WriteFact DEF HarnessWrites, Readable
    <2> QED
      BY <2>1 DEF RowIsItsLine, Rows
  <1> QED
    BY <1>1, <1>2, <1>3, <1>4, <1>5, <1>6, <1>7, NextCases

(* However often a line is read, by the live store, a repeated pass or the     *)
(* ingest at the close, it is stored at its own ordinal and nowhere else.     *)
THEOREM RowIsItsLineCorrect == Spec => []RowIsItsLine
  <1>1. Init => RowIsItsLine
    BY DEF Init, RowIsItsLine, Rows
  <1> QED
    BY <1>1, TypeCorrect, RowIsItsLineStep, PTL DEF Spec

LEMMA GrownStep ==
  ASSUME TypeOK, RowIsItsLine, [Next]_vars
  PROVE  Grown
  <1>1. CASE UNCHANGED vars
    BY <1>1 DEF vars, Grown, Rows
  <1>2. CASE FollowerMoves
    BY <1>2, FollowerLeaves DEF Grown, Rows
  <1>3. CASE Quiet
    BY <1>3, QuietLeaves DEF Grown, Rows
  <1>4. CASE StoreLine
    <2>1. file' = file
      BY <1>4, StoreLineFact
    <2>2. \A s \in Rows : stored'[s] = stored[s]
      BY <1>4, StoreLineFact DEF Rows, TypeOK
    <2> QED
      BY <2>1, <2>2 DEF Grown, Rows
  <1>5. CASE Collect
    <2>1. file' = file
      BY <1>5 DEF Collect
    <2>2. \A s \in Rows : s \notin Fresh
      BY DEF Rows, Fresh, Ordinal
    <2>3. \A s \in Rows : s \in Seqs /\ stored'[s] = stored[s]
      BY <1>5, <2>2, CollectFact DEF Rows
    <2> QED
      BY <2>1, <2>3 DEF Grown, Rows
  <1>6. CASE StopMarked
    <2>1. file' = file /\ stored' = [stored EXCEPT ![Marker] = Marker]
      BY <1>6 DEF StopMarked
    <2>2. \A s \in Rows : s \in Seqs /\ stored'[s] = stored[s]
      BY <2>1 DEF Rows, TypeOK, RowIsItsLine
    <2> QED
      BY <2>1, <2>2 DEF Grown, Rows
  <1>7. ASSUME NEW line \in Lines, HarnessWrites(line) PROVE Grown
    BY <1>7, WriteFact DEF HarnessWrites, Grown, Rows
  <1> QED
    BY <1>1, <1>2, <1>3, <1>4, <1>5, <1>6, <1>7, NextCases

(* Only a reader and a writer that is still running change what can be read,   *)
(* so nothing is behind the close that ended the run.                        *)
LEMMA TimelineWholeStep ==
  ASSUME TypeOK, RowIsItsLine, TimelineWhole, [Next]_vars
  PROVE  TimelineWhole'
  <1>1. CASE UNCHANGED vars
    BY <1>1 DEF vars, TimelineWhole, Rows, Readable
  <1>2. CASE FollowerMoves
    BY <1>2, FollowerLeaves DEF TimelineWhole, Rows, Readable
  <1>3. CASE Quiet
    <2>1. turn' = "gone" => Marker \in refused' \/ (turn = "gone" /\ refused' = refused)
      BY <1>3 DEF Quiet, ReadFile, LineRefused, ContainerEnds, LastRead, CloseRow,
                  CollectFails, Stop, Crash, Reconcile
    <2>2. Rows' = Rows /\ Readable' = Readable
      BY <1>3, QuietLeaves DEF Rows, Readable
    <2> QED
      BY <2>1, <2>2 DEF TimelineWhole
  <1>4. CASE StoreLine
    BY <1>4 DEF StoreLine, TimelineWhole
  <1>5. CASE Collect
    <2>1. file' = file /\ stored' = [s \in Seqs |-> IF s \in Fresh THEN s ELSE stored[s]]
      BY <1>5, CollectFact DEF Collect
    <2>2. \A n \in Readable : n \in Seqs /\ stored'[n] # NoRow
      BY <2>1, FileFact, SeqsFact DEF Fresh, Ordinal
    <2> QED
      BY <2>1, <2>2 DEF TimelineWhole, Rows, Readable
  <1>6. CASE StopMarked
    <2>1. file' = file /\ turn' = turn /\ refused' = refused
      BY <1>6 DEF StopMarked
    <2>2. Rows \subseteq Rows'
      BY GrownStep, <1>6 DEF Grown, Next, RunStep
    <2> QED
      BY <2>1, <2>2 DEF TimelineWhole, Readable
  <1>7. ASSUME NEW line \in Lines, HarnessWrites(line) PROVE TimelineWhole'
    BY <1>7 DEF HarnessWrites, TimelineWhole
  <1> QED
    BY <1>1, <1>2, <1>3, <1>4, <1>5, <1>6, <1>7, NextCases

(* Once a turn's fiber has ended, every readable line of its file is a row,    *)
(* whatever the live store passed over, unless the ingest was refused too.    *)
THEOREM TimelineWholeCorrect == Spec => []TimelineWhole
  <1>1. Init => TimelineWhole
    BY DEF Init, TimelineWhole
  <1> QED
    BY <1>1, TypeCorrect, RowIsItsLineCorrect, TimelineWholeStep, PTL DEF Spec

-----------------------------------------------------------------------------
(* The reader and the rows, and the follower's cursor.                       *)

(* The live store goes up the file: what it has passed is a row or refused,    *)
(* and while the turn runs no row is ahead of it.                            *)
ReaderInOrder ==
  /\ \A n \in Readable : n <= reader.consumed => n \in Rows \cup refused
  /\ turn \notin {"gone", "dead"} => \A s \in Rows : s <= reader.consumed
  /\ turn \in {"close", "collect"} => reader.consumed = Len(file)

(* The cursor is the last row that was handed over.                          *)
CursorIsLast ==
  /\ follower.got \subseteq Rows
  /\ follower.at \in follower.got \cup {0}
  /\ \A s \in follower.got : s <= follower.at

LEMMA ReaderInOrderStep ==
  ASSUME TypeOK, RowIsItsLine, ReaderInOrder, [Next]_vars
  PROVE  ReaderInOrder'
  <1>0. reader.consumed \in Nat /\ reader.upto \in Nat /\ Len(file) \in Nat
        /\ reader.consumed <= reader.upto /\ reader.upto <= Len(file)
    BY FileFact, BoundsAssumption DEF TypeOK
  <1>1. CASE UNCHANGED vars
    BY <1>1 DEF vars, ReaderInOrder, Rows, Readable
  <1>2. CASE FollowerMoves
    BY <1>2, FollowerLeaves DEF ReaderInOrder, Rows, Readable
  <1>3. CASE Quiet
    <2>0. file' = file /\ Rows' = Rows /\ Readable' = Readable
      BY <1>3, QuietLeaves DEF Rows, Readable
    <2>1. CASE ReadFile
      BY <2>0, <2>1 DEF ReadFile, ReaderInOrder, TypeOK
    <2>2. CASE LineRefused
      <3>1. reader'.consumed = reader.consumed + 1 /\ refused' = refused \cup {reader'.consumed}
            /\ turn' = turn /\ turn \in {"running", "last"}
        BY <2>2 DEF LineRefused, TypeOK
      <3>2. ASSUME NEW n \in Readable, n <= reader'.consumed PROVE n \in Rows \cup refused'
        <4>1. n \in Nat
          BY FileFact DEF LineSeqs
        <4> QED
          BY <1>0, <3>1, <3>2, <4>1 DEF ReaderInOrder
      <3>3. \A s \in Rows : s <= reader'.consumed
        BY <1>0, <3>1, RowsType, SeqsFact DEF ReaderInOrder, Seqs
      <3> QED
        BY <2>0, <3>1, <3>2, <3>3 DEF ReaderInOrder
    <2>3. CASE ContainerEnds \/ Stop
      <3>1. reader'.consumed = reader.consumed /\ refused' = refused
            /\ (turn' = turn \/ (turn = "running" /\ turn' = "last"))
        BY <2>3 DEF ContainerEnds, Stop, TypeOK
      <3> QED
        BY <2>0, <3>1 DEF ReaderInOrder
    <2>4. CASE LastRead
      BY <2>0, <2>4 DEF LastRead, ReaderInOrder
    <2>5. CASE CloseRow
      BY <2>0, <2>5 DEF CloseRow, ReaderInOrder
    <2>6. CASE CollectFails \/ Crash \/ Reconcile
      <3>1. reader' = reader /\ refused \subseteq refused'
            /\ (turn' = turn \/ turn' \in {"gone", "dead"})
        BY <2>6 DEF CollectFails, Crash, Reconcile
      <3> QED
        BY <2>0, <3>1 DEF ReaderInOrder
    <2> QED
      BY <1>3, <2>1, <2>2, <2>3, <2>4, <2>5, <2>6 DEF Quiet
  <1>4. CASE StoreLine
    <2> DEFINE m == reader.consumed + 1
    <2>1. /\ reader'.consumed = m /\ refused' = refused /\ file' = file
          /\ turn' = turn /\ turn \in {"running", "last"}
      BY <1>4 DEF StoreLine, TypeOK
    <2>2. Rows \subseteq Rows' /\ Rows' \subseteq Rows \cup {m}
      BY <1>4, StoreLineFact, GrownStep DEF Next, RunStep, Grown, Rows, TypeOK
    <2>3. m \in Readable => m \in Rows'
      BY <1>4, StoreLineFact, SeqsFact DEF Rows, TypeOK, NoRow, Seqs
    <2>4. ASSUME NEW n \in Readable, n <= m PROVE n \in Rows' \cup refused
      <3>1. n \in Nat
        BY FileFact DEF LineSeqs
      <3> QED
        BY <1>0, <2>2, <2>3, <2>4, <3>1 DEF ReaderInOrder
    <2>5. \A s \in Rows' : s <= m
      BY <1>0, <2>1, <2>2, RowsType, SeqsFact DEF ReaderInOrder, Seqs
    <2> QED
      BY <2>1, <2>4, <2>5 DEF ReaderInOrder, Readable
  <1>5. CASE Collect \/ StopMarked
    <2>1. file' = file /\ reader' = reader /\ refused' = refused /\ turn' = "gone"
      BY <1>5 DEF Collect, StopMarked
    <2>2. Rows \subseteq Rows'
      BY <1>5, GrownStep DEF Next, RunStep, Grown
    <2> QED
      BY <2>1, <2>2 DEF ReaderInOrder, Readable
  <1>6. ASSUME NEW line \in Lines, HarnessWrites(line) PROVE ReaderInOrder'
    <2>1. Readable' \subseteq Readable \cup {Len(file) + 1} /\ Rows' = Rows
          /\ turn' = "running" /\ reader' = reader /\ refused' = refused /\ turn = "running"
      BY <1>6, WriteFact DEF HarnessWrites, Readable, Rows
    <2> QED
      BY <1>0, <2>1 DEF ReaderInOrder
  <1> QED
    BY <1>1, <1>2, <1>3, <1>4, <1>5, <1>6, NextCases

LEMMA ReaderInOrderAlways == Spec => []ReaderInOrder
  <1>1. Init => ReaderInOrder
    BY DEF Init, ReaderInOrder, Rows, Readable
  <1> QED
    BY <1>1, TypeCorrect, RowIsItsLineCorrect, ReaderInOrderStep, PTL DEF Spec

(* Opening the stream takes everything there is, or goes on from the cursor.  *)
LEMMA ConnectCases ==
  ASSUME TypeOK, CursorIsLast, Connect
  PROVE  \/ follower'.got = follower.got /\ follower'.at = follower.at
         \/ /\ follower.at = 0 /\ follower.got = {} /\ Rows # {}
            /\ follower'.got = Rows /\ follower'.at \in Rows
            /\ \A s \in Rows : s <= follower'.at
  <1>1. PICK seen \in SUBSET Seqs :
          /\ follower' = [step |-> "wait", got |-> seen, at |-> Max(seen \cup {0})]
          /\ seen = IF follower.at = 0 THEN seen ELSE follower.got
          /\ follower.at = 0 => seen \in {{}, Rows}
          /\ Max(seen \cup {0}) \in seen \cup {0}
          /\ \A s \in seen : s <= Max(seen \cup {0})
    BY ConnectFact
  <1>2. follower'.got = seen /\ follower'.at \in seen \cup {0}
        /\ \A s \in seen : s <= follower'.at
    BY <1>1
  <1>3. \A s \in Seqs : s \in Nat /\ s > 0
    BY SeqsFact DEF Seqs
  <1>4. follower.at \in Seqs \cup {0} /\ follower.got \subseteq Seqs
    BY DEF TypeOK, Follower
  <1>5. CASE follower.at = 0
    <2>1. follower.got = {}
      BY <1>3, <1>4, <1>5 DEF CursorIsLast
    <2>2. CASE seen = {}
      BY <1>2, <1>5, <2>1, <2>2
    <2>3. CASE seen # {}
      <3>1. seen = Rows /\ Rows # {}
        BY <1>1, <1>5, <2>3
      <3>2. PICK s \in seen : s <= follower'.at
        BY <1>2, <2>3
      <3>3. follower'.at # 0
        BY <1>3, <3>2
      <3> QED
        BY <1>2, <1>5, <2>1, <3>1, <3>3
    <2> QED
      BY <2>2, <2>3
  <1>6. CASE follower.at # 0
    <2>1. seen = follower.got
      BY <1>1, <1>6
    <2>2. follower.at \in follower.got /\ \A s \in follower.got : s <= follower.at
      BY <1>6 DEF CursorIsLast
    <2>3. follower'.at >= follower.at /\ follower'.at \in follower.got
      BY <1>2, <1>3, <1>4, <2>1, <2>2
    <2>4. follower'.at = follower.at
      BY <1>3, <1>4, <2>2, <2>3
    <2> QED
      BY <1>2, <2>1, <2>4
  <1> QED
    BY <1>5, <1>6

(* What a page hands over.                                                   *)
LEMMA ReadPageCases ==
  ASSUME TypeOK, ReadPage
  PROVE  \/ follower'.got = follower.got /\ follower'.at = follower.at
            /\ follower'.step = "ask" /\ Ahead = {}
         \/ /\ follower'.at \in Rows /\ follower'.at > follower.at
            /\ follower'.got = follower.got
                 \cup {s \in Rows : s > follower.at /\ s <= follower'.at}
            /\ follower'.step = "closed" => IsTerminal(follower'.at)
            /\ follower'.step # "ask"
  <1>1. CASE NextPage = {}
    BY <1>1, EmptyPageMeansNone DEF ReadPage, TypeOK, Follower
  <1>2. CASE NextPage # {}
    <2>1. /\ follower'.at = Max(NextPage)
          /\ follower'.got = follower.got \cup NextPage
          /\ follower'.step = "closed" => IsTerminal(Max(NextPage))
          /\ follower'.step # "ask"
      BY <1>2 DEF ReadPage
    <2> QED
      BY <1>2, <2>1, PageIsNext
  <1> QED
    BY <1>1, <1>2

(* The follower's other steps leave its cursor where it is.                   *)
LEMMA OtherMoves ==
  ASSUME TypeOK, Disconnect \/ IdleHangup \/ NoticeLost \/ Tick \/ Wake \/ AskRow
  PROVE  /\ follower'.got = follower.got /\ follower'.at = follower.at
         /\ follower'.step = "closed" =>
              follower.step = "closed" \/ (follower.step = "ask" /\ ~live)
         /\ follower.step = "closed" => follower'.step = "closed"
         /\ follower'.step = "ask" => follower.step = "ask"
  <1>1. follower.step \in {"off", "wait", "page", "ask", "hung", "closed"}
    BY DEF TypeOK, Follower
  <1>2. \E step : follower' = [follower EXCEPT !.step = step]
    BY DEF Disconnect, IdleHangup, NoticeLost, Tick, Wake, AskRow, TypeOK, Follower
  <1>3. follower'.got = follower.got /\ follower'.at = follower.at
    BY <1>2 DEF TypeOK, Follower
  <1>4. CASE Disconnect \/ IdleHangup \/ Wake
    BY <1>1, <1>3, <1>4 DEF Disconnect, IdleHangup, Wake, TypeOK, Follower
  <1>5. CASE NoticeLost \/ Tick
    <2>1. follower' = follower
      BY <1>5 DEF NoticeLost, Tick
    <2> QED
      BY <2>1
  <1>6. CASE AskRow
    BY <1>1, <1>3, <1>6 DEF AskRow, TypeOK, Follower
  <1> QED
    BY <1>4, <1>5, <1>6

LEMMA RunLeavesFollower ==
  ASSUME \/ Quiet \/ StoreLine \/ Collect \/ StopMarked
         \/ \E line \in Lines : HarnessWrites(line)
  PROVE  follower' = follower
  BY QuietLeaves DEF StoreLine, Collect, StopMarked, HarnessWrites

LEMMA CursorIsLastStep ==
  ASSUME TypeOK, RowIsItsLine, CursorIsLast, [Next]_vars
  PROVE  CursorIsLast'
  <1>1. CASE UNCHANGED vars
    BY <1>1 DEF vars, CursorIsLast, Rows
  <1>2. CASE \/ Quiet \/ StoreLine \/ Collect \/ StopMarked
             \/ \E line \in Lines : HarnessWrites(line)
    <2>1. Rows \subseteq Rows'
      BY GrownStep DEF Grown
    <2> QED
      BY <1>2, <2>1, RunLeavesFollower DEF CursorIsLast
  <1>3. CASE FollowerMoves
    <2>1. Rows' = Rows
      BY <1>3, FollowerLeaves DEF Rows
    <2>2. CASE Connect
      BY <2>1, <2>2, ConnectCases DEF CursorIsLast
    <2>3. CASE ReadPage
      <3>1. \A s \in Rows \cup {0} : s \in Nat
        BY RowsType, SeqsFact DEF Seqs
      <3>2. follower.at \in Nat /\ follower.got \subseteq Rows
        BY <3>1 DEF CursorIsLast
      <3>3. CASE follower'.got = follower.got /\ follower'.at = follower.at
        BY <2>1, <3>3 DEF CursorIsLast
      <3>4. CASE /\ follower'.at \in Rows /\ follower'.at > follower.at
                 /\ follower'.got = follower.got
                      \cup {s \in Rows : s > follower.at /\ s <= follower'.at}
        <4>1. \A s \in follower'.got : s <= follower'.at
          BY <3>1, <3>2, <3>4 DEF CursorIsLast
        <4>2. follower'.at \in follower'.got
          BY <3>1, <3>4
        <4> QED
          BY <2>1, <3>2, <3>4, <4>1, <4>2 DEF CursorIsLast
      <3> QED
        BY <2>3, <3>3, <3>4, ReadPageCases
    <2>4. CASE Disconnect \/ IdleHangup \/ NoticeLost \/ Tick \/ Wake \/ AskRow
      BY <2>1, <2>4, OtherMoves DEF CursorIsLast
    <2> QED
      BY <1>3, <2>2, <2>3, <2>4 DEF FollowerMoves
  <1> QED
    BY <1>1, <1>2, <1>3, NextCases

LEMMA CursorIsLastAlways == Spec => []CursorIsLast
  <1>1. Init => CursorIsLast
    BY DEF Init, CursorIsLast
  <1> QED
    BY <1>1, TypeCorrect, RowIsItsLineCorrect, CursorIsLastStep, PTL DEF Spec

(* A new row comes in ahead of the cursor, unless it was refused before.      *)
LEMMA NewRowsAhead ==
  ASSUME TypeOK, RowIsItsLine, ReaderInOrder, CursorIsLast, [Next]_vars,
         NEW s \in Rows', s \notin Rows, s <= follower.at
  PROVE  s \in refused
  <1>0. /\ \A x \in Rows : x \in Nat /\ x \in 1..Marker
        /\ follower.at \in Rows \cup {0} /\ s \in 1..Marker
        /\ Marker \in Nat /\ reader.consumed \in Nat
    BY SeqsFact, BoundsAssumption DEF CursorIsLast, TypeOK, Rows, Seqs
  <1>1. CASE UNCHANGED vars
    BY <1>1 DEF vars, Rows
  <1>2. CASE FollowerMoves
    BY <1>2, FollowerLeaves DEF Rows
  <1>3. CASE Quiet
    BY <1>3, QuietLeaves DEF Rows
  <1>4. CASE StoreLine
    <2>1. s = reader.consumed + 1
      BY <1>4, StoreLineFact DEF Rows, TypeOK
    <2>2. \A x \in Rows : x <= reader.consumed
      BY <1>4 DEF StoreLine, ReaderInOrder
    <2>3. follower.at <= reader.consumed
      BY <1>0, <2>2
    <2> QED
      BY <1>0, <2>1, <2>3
  <1>5. CASE Collect
    <2>1. s \in Readable /\ s \in DOMAIN file
      BY <1>5, CollectFact, FreshFact, FileFact DEF Rows
    <2>2. s <= reader.consumed
      BY <1>5, <2>1, FileFact DEF Collect, ReaderInOrder
    <2> QED
      BY <2>1, <2>2 DEF ReaderInOrder
  <1>6. CASE StopMarked
    <2>1. s = Marker
      BY <1>6 DEF StopMarked, Rows, TypeOK
    <2>2. follower.at = Marker
      BY <1>0, <2>1
    <2> QED
      BY <1>0, <2>1, <2>2
  <1>7. ASSUME NEW line \in Lines, HarnessWrites(line) PROVE FALSE
    BY <1>7 DEF HarnessWrites, Rows
  <1> QED
    BY <1>1, <1>2, <1>3, <1>4, <1>5, <1>6, <1>7, NextCases

LEMMA NothingSkippedStep ==
  ASSUME TypeOK, RowIsItsLine, ReaderInOrder, CursorIsLast, NothingSkipped, [Next]_vars
  PROVE  NothingSkipped'
  <1>1. CASE UNCHANGED vars
    BY <1>1 DEF vars, NothingSkipped, Rows
  <1>2. CASE \/ Quiet \/ StoreLine \/ Collect \/ StopMarked
             \/ \E line \in Lines : HarnessWrites(line)
    <2>1. follower' = follower
      BY <1>2, RunLeavesFollower
    <2>2. refused \subseteq refused'
      BY <1>2 DEF Quiet, ReadFile, LineRefused, ContainerEnds, LastRead, CloseRow,
                  CollectFails, Stop, Crash, Reconcile, StoreLine, Collect, StopMarked,
                  HarnessWrites
    <2>3. ASSUME NEW s \in Rows', s <= follower.at
          PROVE  s \in follower.got \cup refused
      BY <2>3, NewRowsAhead DEF NothingSkipped
    <2> QED
      BY <2>1, <2>2, <2>3 DEF NothingSkipped
  <1>3. CASE FollowerMoves
    <2>1. Rows' = Rows /\ refused' = refused
      BY <1>3, FollowerLeaves DEF Rows
    <2>2. CASE Connect
      BY <2>1, <2>2, ConnectCases DEF NothingSkipped
    <2>3. CASE ReadPage
      <3>1. \A s \in Rows \cup {0} : s \in Nat
        BY RowsType, SeqsFact DEF Seqs
      <3>2. follower.at \in Nat
        BY <3>1 DEF CursorIsLast
      <3> QED
        BY <2>1, <2>3, <3>1, <3>2, ReadPageCases DEF NothingSkipped
    <2>4. CASE Disconnect \/ IdleHangup \/ NoticeLost \/ Tick \/ Wake \/ AskRow
      BY <2>1, <2>4, OtherMoves DEF NothingSkipped
    <2> QED
      BY <1>3, <2>2, <2>3, <2>4 DEF FollowerMoves
  <1> QED
    BY <1>1, <1>2, <1>3, NextCases

(* What lies behind a follower's cursor it was given, whatever nudges were     *)
(* dropped and whenever it reconnected; the only exception is a row that was   *)
(* refused as it happened and came in at the close.                          *)
THEOREM NothingSkippedCorrect == Spec => []NothingSkipped
  <1>1. Init => NothingSkipped
    BY DEF Init, NothingSkipped, Rows
  <1> QED
    BY <1>1, TypeCorrect, RowIsItsLineCorrect, ReaderInOrderAlways, CursorIsLastAlways,
       NothingSkippedStep, PTL DEF Spec

-----------------------------------------------------------------------------
(* Every step of the feed is a step of Timeline, or leaves it alone.          *)

Ends == {s \in Seqs : IsTerminal(s)}

LEMMA EndsAreRows == TypeOK => Ends \subseteq Rows
  BY FileFact, SeqsFact DEF Ends, IsTerminal, Rows, NoRow, LineSeqs

LEMMA EndsStayRows == TypeOK' => (Ends \subseteq Rows)'
  BY EndsAreRows, PTL

LEMMA RunStepGrows ==
  ASSUME TypeOK, RowIsItsLine, [Next]_vars,
         \/ Quiet \/ StoreLine \/ Collect \/ StopMarked
         \/ \E line \in Lines : HarnessWrites(line)
  PROVE  Abstract!Grow
  <1>1. Rows \subseteq Rows' /\ Rows' \subseteq Seqs
    BY GrownStep DEF Grown, Rows
  <1>2. Ends \subseteq Ends' /\ Ends' \subseteq Rows'
    <2>1. Ends' \subseteq Rows'
      BY TypeStep, EndsStayRows
    <2>2. ASSUME NEW s \in Ends PROVE s \in Ends'
      <3>1. s \in Rows /\ IsTerminal(s)
        BY EndsAreRows DEF Ends
      <3>2. stored'[s] = stored[s]
        BY <3>1, GrownStep DEF Grown
      <3>3. IsTerminal(s)'
        BY <3>1, <3>2, GrownStep DEF Grown, IsTerminal
      <3> QED
        BY <3>3 DEF Ends
    <2> QED
      BY <2>1, <2>2
  <1>3. ~live => ~live'
    BY DEF Quiet, ReadFile, LineRefused, ContainerEnds, LastRead, CloseRow,
           CollectFails, Stop, Crash, Reconcile, StoreLine, Collect, StopMarked,
           HarnessWrites
  <1>4. follower' = follower
    BY RunLeavesFollower
  <1> QED
    BY <1>1, <1>2, <1>3, <1>4 DEF Abstract!Grow, Ends

LEMMA FollowerStepGives ==
  ASSUME TypeOK, CursorIsLast, FollowerMoves
  PROVE  [Abstract!TimelineNext]_(Abstract!timeline)
  <1>1. Rows' = Rows /\ Ends' = Ends /\ live' = live
    BY FollowerLeaves DEF Rows, Ends, IsTerminal
  <1>2. \A s \in Rows : s \in Nat /\ s > 0 /\ s \in Seqs
    BY RowsType, SeqsFact DEF Seqs
  <1>3. CASE Connect
    <2>1. follower.step = "off" /\ follower'.step = "wait"
      BY <1>3, ConnectFact DEF Connect
    <2>2. CASE follower'.got = follower.got /\ follower'.at = follower.at
      BY <1>1, <2>1, <2>2 DEF Abstract!timeline, Ends
    <2>3. CASE /\ follower.at = 0 /\ follower.got = {}
               /\ follower'.got = Rows /\ follower'.at \in Rows
               /\ \A s \in Rows : s <= follower'.at
      <3>1. Rows = {s \in Rows : s > follower.at /\ s <= follower'.at}
        BY <1>2, <2>3
      <3>2. follower'.at > follower.at
        BY <1>2, <2>3
      <3>3. Abstract!Give(follower'.at)
        BY <1>1, <2>1, <2>3, <3>1, <3>2 DEF Abstract!Give, Ends
      <3> QED
        BY <1>2, <2>3, <3>3 DEF Abstract!TimelineNext
    <2> QED
      BY <1>3, <2>2, <2>3, ConnectCases
  <1>4. CASE ReadPage
    <2>1. follower.step = "page"
      BY <1>4 DEF ReadPage
    <2>2. CASE follower'.got = follower.got /\ follower'.at = follower.at
               /\ follower'.step = "ask" /\ Ahead = {}
      <3>1. \A s \in Rows : s <= follower.at
        <4>1. follower.at \in Nat
          BY <1>2 DEF CursorIsLast
        <4> QED
          BY <1>2, <2>2, <4>1 DEF Ahead
      <3>2. Abstract!CatchUp
        BY <1>1, <2>1, <2>2, <3>1 DEF Abstract!CatchUp, Ends
      <3> QED
        BY <3>2 DEF Abstract!TimelineNext
    <2>3. CASE /\ follower'.at \in Rows /\ follower'.at > follower.at
               /\ follower'.got = follower.got
                    \cup {s \in Rows : s > follower.at /\ s <= follower'.at}
               /\ follower'.step = "closed" => IsTerminal(follower'.at)
               /\ follower'.step # "ask"
      <3>1. follower'.step = "closed" => follower'.at \in Ends
        BY <1>2, <2>3 DEF Ends
      <3>2. Abstract!Give(follower'.at)
        BY <1>1, <2>1, <2>3, <3>1 DEF Abstract!Give, Ends
      <3> QED
        BY <1>2, <2>3, <3>2 DEF Abstract!TimelineNext
    <2> QED
      BY <1>4, <2>2, <2>3, ReadPageCases
  <1>5. CASE Disconnect \/ IdleHangup \/ NoticeLost \/ Tick \/ Wake \/ AskRow
    <2>1. follower'.got = follower.got /\ follower'.at = follower.at
      BY <1>5, OtherMoves
    <2>2. CASE (follower'.step = "closed") # (follower.step = "closed")
      <3>1. follower'.step = "closed" /\ follower.step = "ask" /\ ~live
        BY <1>5, <2>2, OtherMoves
      <3>2. Abstract!Hangup
        BY <1>1, <2>1, <3>1 DEF Abstract!Hangup, Ends
      <3> QED
        BY <3>2 DEF Abstract!TimelineNext
    <2>3. CASE /\ (follower'.step = "closed") = (follower.step = "closed")
               /\ (follower'.step = "ask") = (follower.step = "ask")
      BY <1>1, <2>1, <2>3 DEF Abstract!timeline, Ends
    <2>4. CASE /\ (follower'.step = "closed") = (follower.step = "closed")
               /\ follower.step = "ask" /\ follower'.step # "ask"
      <3>1. Abstract!Resume
        BY <1>1, <2>1, <2>4 DEF Abstract!Resume, Ends
      <3> QED
        BY <3>1 DEF Abstract!TimelineNext
    <2> QED
      BY <1>5, <2>2, <2>3, <2>4, OtherMoves
  <1> QED
    BY <1>3, <1>4, <1>5 DEF FollowerMoves

(* TimelineImplemented: rows are only ever added, a follower gets them in      *)
(* order with nothing left out, and its stream closes only on a row that ends  *)
(* the run, or on a run that is over when it had just found nothing ahead.     *)
THEOREM FeedImplementsTimeline == Spec => TimelineImplemented
  <1>1. Init => Abstract!TimelineInit
    <2>1. ASSUME Init PROVE Rows = {} /\ Ends = {}
      BY <2>1, InitType, EndsAreRows DEF Init, Rows
    <2>2. ASSUME Init PROVE (~live) = FALSE /\ (follower.step = "closed") = FALSE
                            /\ (follower.step = "ask") = FALSE
                            /\ follower.got = {} /\ follower.at = 0
      BY <2>2 DEF Init
    <2> QED
      BY <2>1, <2>2 DEF Abstract!TimelineInit, Ends
  <1>2. ASSUME TypeOK, RowIsItsLine, CursorIsLast, [Next]_vars
        PROVE  [Abstract!TimelineNext]_(Abstract!timeline)
    <2>1. CASE UNCHANGED vars
      BY <2>1 DEF vars, Abstract!timeline, Rows, IsTerminal
    <2>2. CASE \/ Quiet \/ StoreLine \/ Collect \/ StopMarked
               \/ \E line \in Lines : HarnessWrites(line)
      BY <1>2, <2>2, RunStepGrows DEF Abstract!TimelineNext
    <2>3. CASE FollowerMoves
      BY <1>2, <2>3, FollowerStepGives
    <2> QED
      BY <1>2, <2>1, <2>2, <2>3, NextCases
  <1> QED
    BY <1>1, <1>2, TypeCorrect, RowIsItsLineCorrect, CursorIsLastAlways, PTL
    DEF Spec, TimelineImplemented, Abstract!TimelineSpec


-----------------------------------------------------------------------------
(* No wake-up is lost between the drain and the wait.                         *)

(* As long as the listener loses no notice of its own: the case the tick is    *)
(* there to repair.                                                          *)
NoLosses == \A b \in Budgets : b["losses"] = 0

(* NudgeKept: a follower that waits, or asks whether the run is over after an   *)
(* empty page, has a wake-up in the buffer if a row is ahead of its cursor     *)
(* (the nudge is taken before the drain reads, pagesAfter reads on until a     *)
(* page is short, and the trigger's notice slides into the one slot).         *)
NudgeKept == follower.step \in {"wait", "ask"} /\ Ahead # {} => nudge

(* A page that is not full holds everything ahead.                            *)
LEMMA ShortPageIsAll ==
  ASSUME TypeOK, NextPage # {}, Cardinality(NextPage) # Page
  PROVE  Ahead \subseteq NextPage
  <1> DEFINE Before(s) == {x \in Ahead : x < s}
             rest == Ahead \ NextPage
  <1> SUFFICES ASSUME rest # {} PROVE FALSE
    OBVIOUS
  <1>0. /\ Ahead \subseteq Nat /\ IsFiniteSet(Ahead) /\ NextPage \subseteq Ahead
        /\ IsFiniteSet(NextPage) /\ Cardinality(NextPage) \in Nat /\ Page \in Nat
    <2>1. NextPage \subseteq Ahead
      BY DEF NextPage
    <2> QED
      BY <2>1, AheadFact, SeqsFact, FS_Subset, FS_CardinalityType
  <1>1. PICK x \in rest : \A y \in rest : x <= y
    <2>1. rest \in SUBSET (0..Marker)
      BY AheadFact
    <2> HIDE DEF rest
    <2> QED
      BY <2>1, LeastExists, SeqsFact
  <1>2. Before(x) \subseteq NextPage
    <2> SUFFICES ASSUME NEW y \in Ahead, y < x, y \notin NextPage PROVE FALSE
      OBVIOUS
    <2>1. x <= y /\ x \in Nat /\ y \in Nat
      BY <1>0, <1>1
    <2> QED
      BY <2>1
  <1>3. Cardinality(Before(x)) <= Cardinality(NextPage)
    BY <1>0, <1>2, FS_Subset
  <1>4. Cardinality(Before(x)) \in Nat /\ ~(Cardinality(Before(x)) < Page)
    <2>1. IsFiniteSet(Before(x))
      BY <1>0, <1>2, FS_Subset
    <2>2. ~(Cardinality(Before(x)) < Page)
      BY <1>1 DEF NextPage
    <2> QED
      BY <2>1, <2>2, FS_CardinalityType
  <1> DEFINE last == Max(NextPage)
  <1>5. last \in NextPage /\ \A s \in NextPage : s \in Rows /\ s <= last
    BY PageIsNext
  <1>6. last \in Ahead /\ last \in Nat /\ NextPage \subseteq Before(last) \cup {last}
    <2> HIDE DEF last
    <2> QED
      BY <1>0, <1>5
  <1>7. IsFiniteSet(Before(last)) /\ Cardinality(Before(last)) \in Nat
    <2> HIDE DEF last
    <2>1. Before(last) \subseteq Ahead
      OBVIOUS
    <2> QED
      BY <1>0, <2>1, FS_Subset, FS_CardinalityType
  <1>8. Cardinality(Before(last)) < Page
    BY <1>5 DEF NextPage
  <1>9. /\ IsFiniteSet(Before(last) \cup {last})
        /\ Cardinality(Before(last) \cup {last}) <= Cardinality(Before(last)) + 1
        /\ Cardinality(Before(last) \cup {last}) \in Nat
    <2>1. IsFiniteSet(Before(last) \cup {last}) /\ last \notin Before(last)
          /\ Cardinality(Before(last) \cup {last}) = Cardinality(Before(last)) + 1
      <3> HIDE DEF last
      <3>1. last \notin Before(last)
        BY <1>6
      <3> QED
        BY <1>7, <3>1, FS_AddElement
    <2> QED
      BY <1>7, <2>1
  <1>10. Cardinality(NextPage) <= Cardinality(Before(last) \cup {last})
    BY <1>6, <1>9, FS_Subset
  <1> QED
    BY <1>0, <1>3, <1>4, <1>7, <1>8, <1>9, <1>10

LEMMA NoLossesStep ==
  ASSUME TypeOK, budget["losses"] = 0, [Next]_vars
  PROVE  budget'["losses"] = 0 /\ ~NoticeLost
  <1>1. ~NoticeLost
    BY DEF NoticeLost, Spend
  <1>2. budget' = budget \/ \E k \in Disturbances \ {"losses"} : Spend(k)
    <2>1. CASE UNCHANGED vars
      BY <2>1 DEF vars
    <2>2. CASE FollowerMoves
      BY <1>1, <2>2 DEF FollowerMoves, Connect, Disconnect, IdleHangup, Tick, Wake, ReadPage,
                        AskRow, Disturbances
    <2>3. CASE Quiet
      BY <2>3 DEF Quiet, ReadFile, LineRefused, ContainerEnds, LastRead, CloseRow,
                  CollectFails, Stop, Crash, Reconcile, Disturbances
    <2>4. CASE StoreLine \/ Collect \/ StopMarked \/ \E line \in Lines : HarnessWrites(line)
      BY <2>4 DEF StoreLine, Collect, StopMarked, HarnessWrites
    <2> QED
      BY <2>1, <2>2, <2>3, <2>4, NextCases
  <1>3. ASSUME NEW k \in Disturbances \ {"losses"}, Spend(k) PROVE budget'["losses"] = 0
    BY <1>3 DEF Spend, TypeOK
  <1> QED
    BY <1>1, <1>2, <1>3

LEMMA NudgeKeptStep ==
  ASSUME TypeOK, budget["losses"] = 0, NudgeKept, [Next]_vars
  PROVE  NudgeKept'
  <1>1. CASE UNCHANGED vars
    BY <1>1 DEF vars, NudgeKept, Ahead, Rows
  <1>2. CASE Quiet \/ \E line \in Lines : HarnessWrites(line)
    <2>1. UNCHANGED <<stored, follower, nudge>>
      BY <1>2 DEF Quiet, ReadFile, LineRefused, ContainerEnds, LastRead, CloseRow,
                  CollectFails, Stop, Crash, Reconcile, HarnessWrites
    <2> QED
      BY <2>1 DEF NudgeKept, Ahead, Rows
  <1>3. CASE StoreLine \/ Collect \/ StopMarked
    <2>1. follower' = follower /\ (Notify \/ UNCHANGED <<stored, nudge>>)
      <3>1. CASE StoreLine
        BY <3>1 DEF StoreLine
      <3>2. CASE StopMarked
        BY <3>2 DEF StopMarked
      <3>3. CASE Collect /\ Fresh # {}
        BY <3>3 DEF Collect
      <3>4. CASE Collect /\ Fresh = {}
        <4>1. stored' = [s \in Seqs |-> stored[s]] /\ follower' = follower /\ nudge' = nudge
          BY <3>4 DEF Collect
        <4>2. stored' = stored
          BY <4>1 DEF TypeOK
        <4> QED
          BY <4>1, <4>2
      <3> QED
        BY <1>3, <3>1, <3>2, <3>3, <3>4
    <2>2. CASE Notify
      BY <2>1, <2>2 DEF Notify, NudgeKept
    <2>3. CASE UNCHANGED <<stored, nudge>>
      BY <2>1, <2>3 DEF NudgeKept, Ahead, Rows
    <2> QED
      BY <2>1, <2>2, <2>3
  <1>4. CASE Connect \/ Tick
    BY <1>4 DEF Connect, Tick, NudgeKept
  <1>5. CASE Disconnect \/ IdleHangup \/ Wake
    <2>1. follower'.step \in {"off", "hung", "page"}
      BY <1>5 DEF Disconnect, IdleHangup, Wake, TypeOK, Follower
    <2> QED
      BY <2>1 DEF NudgeKept
  <1>6. CASE ReadPage
    <2>0. Rows' = Rows
      BY <1>6 DEF ReadPage, Rows
    <2>1. CASE NextPage = {}
      <3>1. Ahead = {} /\ follower'.at = follower.at
        BY <1>6, <2>1, EmptyPageMeansNone DEF ReadPage, TypeOK, Follower
      <3> QED
        BY <2>0, <3>1 DEF NudgeKept, Ahead
    <2>2. CASE NextPage # {} /\ Cardinality(NextPage) = Page
      <3>1. follower'.step \in {"closed", "page"}
        BY <1>6, <2>2 DEF ReadPage
      <3> QED
        BY <3>1 DEF NudgeKept
    <2>3. CASE NextPage # {} /\ Cardinality(NextPage) # Page
      <3> DEFINE last == Max(NextPage)
      <3>1. follower'.at = last
        BY <1>6, <2>3 DEF ReadPage
      <3>2. last \in Rows /\ last > follower.at /\ \A s \in Ahead : s <= last
        BY <2>3, PageIsNext, ShortPageIsAll
      <3>3. \A s \in Rows : s \in Nat /\ follower.at \in Nat /\ last \in Nat
        <4> HIDE DEF last
        <4> QED
          BY <3>2, AheadFact, RowsType DEF TypeOK, Follower
      <3>4. \A s \in Rows : ~(s > last)
        <4> HIDE DEF last
        <4> QED
          BY <3>2, <3>3 DEF Ahead
      <3>5. Ahead' = {}
        BY <2>0, <3>1, <3>4 DEF Ahead
      <3> QED
        BY <3>5 DEF NudgeKept
    <2> QED
      BY <2>1, <2>2, <2>3
  <1>7. CASE AskRow
    <2>1. follower'.at = follower.at /\ follower.step = "ask" /\ Rows' = Rows
      BY <1>7 DEF AskRow, TypeOK, Follower, Rows
    <2>2. follower'.step \in {"wait", "ask"} => live
      BY <1>7 DEF AskRow, TypeOK, Follower
    <2>3. nudge' = (nudge /\ live) /\ Ahead' = Ahead
      BY <1>7, <2>1 DEF AskRow, Ahead
    <2> QED
      BY <2>1, <2>2, <2>3 DEF NudgeKept
  <1> QED
    BY <1>1, <1>2, <1>3, <1>4, <1>5, <1>6, <1>7, NextCases, NoLossesStep DEF FollowerMoves

(* NudgeKept: unless the listener loses a notice of its own, no row is ever    *)
(* stored for a follower that goes to wait without being told, wherever        *)
(* between its last page and the wait the row comes in; the tick is needed     *)
(* only for lost notices and for runs that end without a row.                 *)
THEOREM NudgeKeptCorrect == ASSUME NoLosses PROVE Spec => []NudgeKept
  <1>1. Init => NudgeKept /\ budget["losses"] = 0
    BY DEF Init, NudgeKept, NoLosses
  <1>2. TypeOK /\ NudgeKept /\ budget["losses"] = 0 /\ [Next]_vars
          => (NudgeKept /\ budget["losses"] = 0)'
    BY NudgeKeptStep, NoLossesStep
  <1> QED
    BY <1>1, <1>2, TypeCorrect, PTL DEF Spec
=============================================================================
