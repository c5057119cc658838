------------------------- MODULE Conversation_proofs ------------------------
(***************************************************************************)
(* Theorems about Conversation, for every set of threads, every number of  *)
(* slots, runs and sessions, and any budget of disturbances.               *)
(***************************************************************************)
EXTENDS Conversation, Numbers

-----------------------------------------------------------------------------
(* Facts about the operators the model is built from.                        *)

LEMMA IdsFact == /\ MaxRuns \in Nat /\ MaxSessions \in Nat
                 /\ RunIds \subseteq Nat /\ SessionIds \subseteq Nat
                 /\ None \notin RunIds /\ None \notin SessionIds
  BY BoundsAssumption DEF RunIds, SessionIds, None

LEMMA RowIdsFact == TypeOK => 1..lastRun \subseteq RunIds /\ 1..lastSess \subseteq SessionIds
  BY BoundsAssumption DEF TypeOK, RunIds, SessionIds

LEMMA NewestIsLast ==
  ASSUME NEW n \in Nat, NEW S \in SUBSET (0..n), S # {}
  PROVE  Newest(S) \in S /\ \A y \in S : y <= Newest(S)
  <1>1. PICK x \in S : \A y \in S : y <= x
    BY LargestExists
  <1> QED
    BY <1>1 DEF Newest

LEMMA NewestOrNone ==
  ASSUME NEW n \in Nat, NEW S \in SUBSET (0..n)
  PROVE  Newest(S) \in S \cup {None}
  BY NewestIsLast DEF Newest

LEMMA SpendType ==
  ASSUME TypeOK, NEW k \in Disturbances, Spend(k)
  PROVE  budget' \in [Disturbances -> Nat]
  BY DEF TypeOK, Spend

LEMMA FiberOf == TypeOK => \A t \in Threads : fiber[t] \in Fiber
  BY DEF TypeOK

LEMMA PositionsFact ==
  ASSUME TypeOK, NEW t
  PROVE  /\ Len(said) \in Nat /\ DOMAIN said = 1..Len(said)
         /\ Stamped(t) \subseteq DOMAIN said /\ Positions(t) \subseteq Stamped(t)
         /\ Positions(t) \in SUBSET (0..Len(said))
  BY DEF TypeOK, Stamped, Positions

LEMMA ChosenFact ==
  ASSUME TypeOK, NEW t \in Threads
  PROVE  Chosen(t) \in SessionsOf(t) \cup {None} /\ Chosen(t) \in SessionIds \cup {None}
  <1>1. SessionsOf(t) \in SUBSET (0..MaxSessions) /\ SessionsOf(t) \subseteq SessionIds
    BY IdsFact DEF TypeOK, SessionsOf, SessionIds
  <1>2. {s \in SessionsOf(t) : Resumable(s)} \in SUBSET (0..MaxSessions)
    BY <1>1
  <1>3. LatestResumable(t) \in {s \in SessionsOf(t) : Resumable(s)} \cup {None}
    BY <1>2, IdsFact, NewestOrNone DEF LatestResumable
  <1> QED
    BY <1>1, <1>3 DEF Chosen

LEMMA NewestLiveFact ==
  ASSUME TypeOK, NEW t \in Threads, LiveOn(t) # {}
  PROVE  Newest(LiveOn(t)) \in LiveOn(t) /\ Newest(LiveOn(t)) \in RunIds
  <1>1. LiveOn(t) \in SUBSET (0..MaxRuns) /\ LiveOn(t) \subseteq RunIds
    BY IdsFact DEF LiveOn, RunIds
  <1> QED
    BY <1>1, IdsFact, NewestIsLast

-----------------------------------------------------------------------------
(* What a fiber holds: the rows its step says it has. This is the part of the *)
(* state that TypeOK leans on.                                               *)

WithSession == {"create", "opened"} \cup InTurn \cup Terminal
WithRun     == {"opened"} \cup InTurn \cup Terminal

PlacedIn(f, t, sessions, newestSession, newestRun) ==
  /\ f.step = "attach" =>
       f.sess = None \/ (f.sess \in 1..newestSession /\ sessions[f.sess].of = t)
  /\ f.step \in WithSession => f.sess \in 1..newestSession /\ sessions[f.sess].of = t
  /\ f.step \in WithRun => f.run \in 1..newestRun

Placed ==
  /\ \A t \in Threads : PlacedIn(fiber[t], t, sess, lastSess, lastRun)
  /\ loop.step \in {"killing", "marker", "bury", "end"} => loop.target \in RunIds

(* A session keeps its thread, and rows are not taken back.                  *)
OwnersKept ==
  /\ \A s \in 1..lastSess : s \in 1..lastSess' /\ sess'[s].of = sess[s].of
  /\ \A r \in 1..lastRun : r \in 1..lastRun'

LEMMA PlacedKept ==
  ASSUME OwnersKept, NEW f, NEW t, PlacedIn(f, t, sess, lastSess, lastRun)
  PROVE  PlacedIn(f, t, sess', lastSess', lastRun')
  BY DEF OwnersKept, PlacedIn

LEMMA NoFiberPlaced ==
  ASSUME NEW t, NEW sessions, NEW m, NEW n
  PROVE  NoFiber \in Fiber /\ PlacedIn(NoFiber, t, sessions, m, n)
  BY DEF NoFiber, Fiber, PlacedIn, WithSession, WithRun, InTurn, Terminal, BeforeRow,
         Endings, TurnEndings, None

(* One fiber changes to f.                                                   *)
LEMMA SetFiber ==
  ASSUME TypeOK, Placed, OwnersKept, NEW t \in Threads, NEW f \in Fiber,
         fiber' = [fiber EXCEPT ![t] = f], PlacedIn(f, t, sess', lastSess', lastRun')
  PROVE  /\ fiber' \in [Threads -> Fiber]
         /\ \A u \in Threads : PlacedIn(fiber'[u], u, sess', lastSess', lastRun')
  <1>1. fiber' \in [Threads -> Fiber]
    BY DEF TypeOK
  <1>2. ASSUME NEW u \in Threads
        PROVE  PlacedIn(fiber'[u], u, sess', lastSess', lastRun')
    <2>1. CASE u = t
      BY <2>1 DEF TypeOK
    <2>2. CASE u # t
      <3>1. fiber'[u] = fiber[u] /\ PlacedIn(fiber[u], u, sess, lastSess, lastRun)
        BY <2>2 DEF TypeOK, Placed
      <3> QED
        BY <3>1, PlacedKept
    <2> QED
      BY <2>1, <2>2
  <1> QED
    BY <1>1, <1>2

(* A fiber moves to a step for which it has what it needs.                   *)
LEMMA GotoFiber ==
  ASSUME TypeOK, Placed, OwnersKept, NEW t \in Threads,
         NEW step \in InTurn \cup Terminal, Goto(t, step), fiber[t].step \in WithRun
  PROVE  /\ fiber' \in [Threads -> Fiber]
         /\ \A u \in Threads : PlacedIn(fiber'[u], u, sess', lastSess', lastRun')
  <1> DEFINE f == [fiber[t] EXCEPT !.step = step]
  <1>1. f \in Fiber
    BY FiberOf DEF Fiber
  <1>2. fiber' = [fiber EXCEPT ![t] = f]
    BY DEF Goto, TypeOK
  <1>3. PlacedIn(fiber[t], t, sess, lastSess, lastRun)
    BY DEF Placed
  <1>4. PlacedIn(f, t, sess, lastSess, lastRun)
    BY <1>3, FiberOf DEF PlacedIn, Fiber, WithSession, WithRun, InTurn, Terminal
  <1>5. PlacedIn(f, t, sess', lastSess', lastRun')
    BY <1>4, PlacedKept
  <1> HIDE DEF f
  <1> QED
    BY <1>1, <1>2, <1>5, SetFiber

LEMMA LeaveFiber ==
  ASSUME TypeOK, Placed, OwnersKept, NEW t \in Threads, Leave(t)
  PROVE  /\ fiber' \in [Threads -> Fiber]
         /\ \A u \in Threads : PlacedIn(fiber'[u], u, sess', lastSess', lastRun')
  BY SetFiber, NoFiberPlaced DEF Leave

LEMMA FibersKept ==
  ASSUME TypeOK, Placed, OwnersKept, fiber' = fiber
  PROVE  /\ fiber' \in [Threads -> Fiber]
         /\ \A u \in Threads : PlacedIn(fiber'[u], u, sess', lastSess', lastRun')
  BY PlacedKept DEF TypeOK, Placed

-----------------------------------------------------------------------------
(* Types, one step at a time.                                                *)

TypeInv == TypeOK /\ Placed

LEMMA RowsKept ==
  ASSUME UNCHANGED <<sess, lastSess, lastRun>>
  PROVE  OwnersKept
  BY DEF OwnersKept

LEMMA LoopAtType ==
  ASSUME NEW step \in {"off", "lose", "finish", "end", "idle", "fork", "killing",
                       "marker", "bury"}
  PROVE  LoopAt(step) \in Loop
  BY DEF LoopAt, Loop

LEMMA PeopleType ==
  ASSUME TypeInv, NEW t \in Threads, Say(t) \/ FileStop(t)
  PROVE  TypeInv'
  <1> USE DEF TypeInv
  <1>1. CASE Say(t)
    <2>1. [in |-> t, by |-> User, posted |-> FALSE] \in Message
      BY DEF Message
    <2>2. said' \in Seq(Message) /\ Len(said') = Len(said) + 1
      BY <1>1, <2>1 DEF Say, TypeOK
    <2>3. budget' \in [Disturbances -> Nat]
      BY <1>1, SpendType DEF Say, Disturbances
    <2>4. \A s \in SessionIds : sess[s].mark <= Len(said')
      BY <2>2, PositionsFact DEF TypeOK, Session
    <2>5. UNCHANGED <<sess, lastSess, run, lastRun, fiber, loop, stop, event, silent,
                      hasty, shown, beside, cut>>
      BY <1>1 DEF Say
    <2> QED
      BY <2>2, <2>3, <2>4, <2>5 DEF TypeOK, Placed
  <1>2. CASE FileStop(t)
    BY <1>2, SpendType DEF FileStop, rows, TypeOK, Placed, Disturbances
  <1> QED
    BY <1>1, <1>2

LEMMA PostType ==
  ASSUME TypeInv, NEW p \in DOMAIN said, Committed(p)
  PROVE  TypeInv'
  <1> USE DEF TypeInv
  <1>1. /\ UNCHANGED <<sess, lastSess, run, lastRun, fiber, loop, stop, event, silent>>
        /\ UNCHANGED <<hasty, shown, beside, cut, budget>>
        /\ said' = [said EXCEPT ![p].posted = TRUE]
    BY DEF Committed
  <1>2. said' \in Seq(Message) /\ Len(said') = Len(said)
    <2>1. said \in [1..Len(said) -> Message] /\ p \in 1..Len(said) /\ Len(said) \in Nat
      BY DEF TypeOK
    <2>2. [said[p] EXCEPT !.posted = TRUE] \in Message
      BY <2>1 DEF Message
    <2>3. said' \in [1..Len(said) -> Message]
      BY <1>1, <2>1, <2>2
    <2> QED
      BY <2>1, <2>3
  <1> QED
    BY <1>1, <1>2 DEF TypeOK, Placed

LEMMA BotType ==
  ASSUME TypeInv, NEW r \in RunIds, BotReads(r)
  PROVE  TypeInv'
  BY SpendType DEF TypeInv, BotReads, rows, TypeOK, Placed, Disturbances

LEMMA CrashType ==
  ASSUME TypeInv, Crash
  PROVE  TypeInv'
  <1>1. OwnersKept
    BY RowsKept DEF Crash, rows
  <1>2. fiber' \in [Threads -> Fiber]
        /\ \A u \in Threads : PlacedIn(fiber'[u], u, sess', lastSess', lastRun')
    BY NoFiberPlaced DEF Crash, TypeOK
  <1>3. loop' \in Loop /\ loop'.step = "off"
    BY LoopAtType DEF Crash, LoopAt
  <1>4. \A t \in Threads : At(t, "end") => fiber[t].run \in RunIds
    BY RowIdsFact DEF TypeInv, Placed, PlacedIn, At, WithRun, Terminal
  <1>5. cut' \subseteq RunIds
    BY <1>4 DEF Crash, TypeInv, TypeOK, Loop
  <1>6. budget' \in [Disturbances -> Nat]
    BY SpendType DEF TypeInv, Crash, Disturbances
  <1>7. UNCHANGED <<rows, stop, event, silent, hasty, shown, beside>>
    BY DEF Crash
  <1> QED
    BY <1>1, <1>2, <1>3, <1>5, <1>6, <1>7 DEF TypeInv, TypeOK, Placed, rows

LEMMA CloseType ==
  ASSUME TypeOK, NEW r, NEW e \in Endings, Close(r, e)
  PROVE  run' \in [RunIds -> Run]
  BY DEF TypeOK, Close, Run

LEMMA EndSessionType ==
  ASSUME TypeOK, NEW s, NEW e \in Endings, EndSession(s, e)
  PROVE  /\ sess' \in [SessionIds -> Session]
         /\ \A x \in SessionIds : sess'[x].of = sess[x].of /\ sess'[x].mark = sess[x].mark
  <1> DEFINE left == IF e \in {"errored", "timeout", "lost"} THEN "failed" ELSE "finished"
  <1>1. /\ left \in {"absent", "running", "finished", "failed"}
        /\ sess' = sess \/ sess' = [sess EXCEPT ![s].status = left]
    BY DEF EndSession
  <1> HIDE DEF left
  <1>2. \A x \in SessionIds :
          sess'[x] = sess[x] \/ sess'[x] = [sess[x] EXCEPT !.status = left]
    BY <1>1 DEF TypeOK
  <1>3. \A old \in Session :
          LET new == [old EXCEPT !.status = left] IN
          new \in Session /\ new.of = old.of /\ new.mark = old.mark
    BY <1>1 DEF Session
  <1>4. DOMAIN sess' = SessionIds /\ sess' = [x \in SessionIds |-> sess'[x]]
    BY <1>1 DEF TypeOK
  <1>5. ASSUME NEW x \in SessionIds
        PROVE  sess'[x] \in Session /\ sess'[x].of = sess[x].of /\ sess'[x].mark = sess[x].mark
    <2>1. sess[x] \in Session
      BY DEF TypeOK
    <2> QED
      BY <1>2, <1>3, <2>1
  <1> QED
    BY <1>4, <1>5

LEMMA BootType ==
  ASSUME TypeInv,
         \/ Boot \/ Reconciled \/ FinishEnd
         \/ \E r \in RunIds : LoseRow(r) \/ FinishAnswer(r)
  PROVE  TypeInv'
  <1> USE DEF TypeInv
  <1>1. CASE Boot
    BY <1>1, RowsKept DEF Boot, rows, TypeOK, Placed, LoopAt, Loop
  <1>2. CASE Reconciled
    BY <1>2, RowsKept DEF Reconciled, rows, TypeOK, Placed, Loop
  <1>3. CASE FinishEnd
    <2>1. "lost" \in Endings
      BY DEF Endings, TurnEndings
    <2>2. /\ sess' \in [SessionIds -> Session]
          /\ \A x \in SessionIds : sess'[x].of = sess[x].of /\ sess'[x].mark = sess[x].mark
      BY <1>3, <2>1, EndSessionType DEF FinishEnd
    <2>3. 1..lastSess \subseteq SessionIds
      BY IdsFact DEF TypeOK, SessionIds
    <2>4. OwnersKept
      BY <1>3, <2>2, <2>3 DEF FinishEnd, OwnersKept
    <2>5. fiber' = fiber
      BY <1>3 DEF FinishEnd
    <2>6. loop' \in Loop /\ loop'.step \in {"idle", "finish"}
      BY <1>3 DEF FinishEnd, TypeOK, Loop
    <2>7. UNCHANGED <<said, lastSess, run, lastRun, stop, event, silent, hasty, shown,
                      beside, cut, budget>>
      BY <1>3 DEF FinishEnd
    <2> QED
      BY <2>2, <2>4, <2>5, <2>6, <2>7, FibersKept DEF TypeOK, Placed
  <1>4. ASSUME NEW r \in RunIds, LoseRow(r) PROVE TypeInv'
    <2>1. run' \in [RunIds -> Run]
      BY <1>4, CloseType DEF LoseRow, Endings, TurnEndings
    <2>2. loop' \in Loop /\ loop'.step = "lose"
      BY <1>4 DEF LoseRow, TypeOK, Loop
    <2> QED
      BY <1>4, <2>1, <2>2 DEF LoseRow, TypeOK, Placed
  <1>5. ASSUME NEW r \in RunIds, FinishAnswer(r) PROVE TypeInv'
    <2>1. run[r].of \in Threads
      BY DEF TypeOK, Run
    <2> DEFINE m == [in |-> run[r].of, by |-> r, posted |-> TRUE]
    <2>2. m \in Message /\ said' = Append(said, m)
      BY <1>5, <2>1 DEF FinishAnswer, Message
    <2>3. said' \in Seq(Message) /\ Len(said') = Len(said) + 1
      <3> HIDE DEF m
      <3> QED
        BY <2>2 DEF TypeOK
    <2>4. \A s \in SessionIds : sess[s].mark <= Len(said')
      BY <2>3, PositionsFact DEF TypeOK, Session
    <2>5. loop' \in Loop /\ loop'.target = r
      BY <1>5 DEF FinishAnswer, TypeOK, Loop
    <2>6. UNCHANGED <<sess, lastSess, run, lastRun, fiber, stop, event, silent, hasty,
                      shown, beside, cut, budget>>
      BY <1>5 DEF FinishAnswer
    <2> QED
      BY <2>3, <2>4, <2>5, <2>6 DEF TypeOK, Placed
  <1> QED
    BY <1>1, <1>2, <1>3, <1>4, <1>5

LEMMA TakeStopType ==
  ASSUME TypeInv, NEW t \in Threads, TakeStop(t)
  PROVE  TypeInv'
  <1> USE DEF TypeInv
  <1>1. UNCHANGED <<rows, event, silent, hasty, shown, beside, cut, budget>> /\ stop' \subseteq Threads
    BY DEF TakeStop, TypeOK
  <1>2. CASE LiveOn(t) = {}
    BY <1>1, <1>2 DEF TakeStop, rows, TypeOK, Placed
  <1>3. CASE LiveOn(t) # {}
    <2>1. loop' = [LoopAt("killing") EXCEPT !.target = Newest(LiveOn(t))]
      BY <1>3 DEF TakeStop
    <2>2. loop' \in Loop /\ loop'.target \in RunIds
      BY <1>3, <2>1, NewestLiveFact DEF LoopAt, Loop
    <2>3. OwnersKept
      BY <1>1, RowsKept DEF rows
    <2>4. /\ fiber' \in [Threads -> Fiber]
          /\ \A u \in Threads : PlacedIn(fiber'[u], u, sess', lastSess', lastRun')
      <3>1. CASE At(t, "none")
        <4>1. fiber' = fiber
          BY <1>3, <3>1 DEF TakeStop
        <4> QED
          BY <2>3, <4>1, FibersKept
      <3>2. CASE ~At(t, "none")
        <4> DEFINE f == [fiber[t] EXCEPT !.interrupted = TRUE]
        <4>1. f \in Fiber
          BY FiberOf DEF Fiber
        <4>2. fiber' = [fiber EXCEPT ![t] = f]
          BY <1>3, <3>2 DEF TakeStop, TypeOK
        <4>3. PlacedIn(fiber[t], t, sess, lastSess, lastRun)
          BY DEF Placed
        <4>4. PlacedIn(f, t, sess, lastSess, lastRun)
          BY <4>3, FiberOf DEF PlacedIn, Fiber
        <4>5. PlacedIn(f, t, sess', lastSess', lastRun')
          BY <2>3, <4>4, PlacedKept
        <4> HIDE DEF f
        <4> QED
          BY <2>3, <4>1, <4>2, <4>5, SetFiber
      <3> QED
        BY <3>1, <3>2
    <2> QED
      BY <1>1, <2>2, <2>4 DEF rows, TypeOK, Placed
  <1> QED
    BY <1>2, <1>3

LEMMA ForkType ==
  ASSUME TypeInv, Fork
  PROVE  TypeInv'
  <1>1. UNCHANGED <<rows, stop, event, silent, hasty, shown, beside, cut, budget>>
        /\ loop' = LoopAt("idle")
    BY DEF Fork
  <1>2. loop' \in Loop /\ loop'.step = "idle"
    BY <1>1, LoopAtType DEF LoopAt
  <1> DEFINE new == [NoFiber EXCEPT !.step = "plan"]
  <1>3. new \in Fiber /\ PlacedIn(new, 0, sess, lastSess, lastRun) /\ new.step = "plan"
    BY NoFiberPlaced DEF NoFiber, Fiber, PlacedIn, WithSession, WithRun, InTurn, Terminal,
                         BeforeRow
  <1>4. \A u \in Threads : fiber'[u] = fiber[u] \/ fiber'[u] = new
    BY DEF Fork
  <1>5. fiber' = [u \in Threads |-> fiber'[u]]
    BY DEF Fork
  <1> HIDE DEF new
  <1>6. fiber' \in [Threads -> Fiber]
    BY <1>3, <1>4, <1>5, FiberOf DEF TypeInv
  <1>7. ASSUME NEW u \in Threads
        PROVE  PlacedIn(fiber'[u], u, sess', lastSess', lastRun')
    BY <1>1, <1>3, <1>4 DEF TypeInv, Placed, PlacedIn, rows, WithSession, WithRun,
                            InTurn, Terminal
  <1> QED
    BY <1>1, <1>2, <1>6, <1>7 DEF TypeInv, TypeOK, Placed, rows

LEMMA LoopType ==
  ASSUME TypeInv, Killed \/ StopMarked \/ StopClosed \/ ReadQueue
  PROVE  TypeInv'
  <1> USE DEF TypeInv
  <1>1. CASE Killed
    BY <1>1 DEF Killed, rows, TypeOK, Placed, Loop
  <1>2. CASE StopMarked
    BY <1>2 DEF StopMarked, rows, TypeOK, Placed, Loop
  <1>3. CASE StopClosed
    <2>1. run' \in [RunIds -> Run]
      BY <1>3, CloseType DEF StopClosed, Endings
    <2>2. loop' \in Loop /\ loop'.step = "idle"
      BY <1>3, LoopAtType DEF StopClosed, LoopAt
    <2> QED
      BY <1>3, <2>1, <2>2 DEF StopClosed, TypeOK, Placed
  <1>4. CASE ReadQueue
    <2>1. loop' \in Loop /\ loop'.step = "fork"
      BY <1>4 DEF ReadQueue, LoopAt, Loop, Awaiting
    <2> QED
      BY <1>4, <2>1 DEF ReadQueue, rows, TypeOK, Placed
  <1> QED
    BY <1>1, <1>2, <1>3, <1>4

LEMMA PlanType ==
  ASSUME TypeInv, NEW t \in Threads, Plan(t) \/ Admit(t) \/ DispatchFails(t)
  PROVE  TypeInv'
  <1> USE DEF TypeInv
  <1>0. UNCHANGED <<rows, loop, stop, event, silent, hasty, shown, beside, cut>>
        /\ budget' \in [Disturbances -> Nat]
    BY SpendType DEF Plan, Admit, DispatchFails, TypeOK, Disturbances
  <1>1. OwnersKept
    BY <1>0, RowsKept DEF rows
  <1>2. \/ Leave(t)
        \/ Goto(t, "admit") /\ fiber[t].step = "plan"
        \/ fiber' = [fiber EXCEPT ![t].step = "attach", ![t].sess = Chosen(t)]
    BY DEF Plan, Admit, DispatchFails, At
  <1>3. /\ fiber' \in [Threads -> Fiber]
        /\ \A u \in Threads : PlacedIn(fiber'[u], u, sess', lastSess', lastRun')
    <2>1. CASE Leave(t)
      BY <1>1, <2>1, LeaveFiber
    <2>2. CASE Goto(t, "admit") /\ fiber[t].step = "plan"
      <3> DEFINE f == [fiber[t] EXCEPT !.step = "admit"]
      <3>1. f \in Fiber /\ PlacedIn(f, t, sess', lastSess', lastRun')
        BY FiberOf DEF Fiber, PlacedIn, WithSession, WithRun, InTurn, Terminal, BeforeRow
      <3>2. fiber' = [fiber EXCEPT ![t] = f]
        BY <2>2 DEF Goto, TypeOK
      <3> HIDE DEF f
      <3> QED
        BY <1>1, <3>1, <3>2, SetFiber
    <2>3. CASE fiber' = [fiber EXCEPT ![t].step = "attach", ![t].sess = Chosen(t)]
      <3> DEFINE f == [fiber[t] EXCEPT !.step = "attach", !.sess = Chosen(t)]
      <3>1. f \in Fiber /\ f.step = "attach" /\ f.sess = Chosen(t)
        BY FiberOf, ChosenFact DEF Fiber, BeforeRow
      <3>2. fiber' = [fiber EXCEPT ![t] = f]
        BY <2>3 DEF TypeOK
      <3> HIDE DEF f
      <3>3. PlacedIn(f, t, sess, lastSess, lastRun)
        BY <3>1, ChosenFact DEF PlacedIn, SessionsOf, WithSession, WithRun, InTurn, Terminal
      <3>4. PlacedIn(f, t, sess', lastSess', lastRun')
        BY <1>1, <3>3, PlacedKept
      <3> QED
        BY <1>1, <3>1, <3>2, <3>4, SetFiber
    <2> QED
      BY <1>2, <2>1, <2>2, <2>3
  <1> QED
    BY <1>0, <1>3 DEF TypeOK, Placed, rows

LEMMA AttachType ==
  ASSUME TypeInv, NEW t \in Threads, Attach(t)
  PROVE  TypeInv'
  <1> USE DEF TypeInv
  <1> DEFINE s == fiber[t].sess
  <1>0. UNCHANGED <<said, run, lastRun, loop, stop, event, silent, hasty, shown, beside,
                    cut, budget>>
    BY DEF Attach
  <1>1. fiber[t].step = "attach" /\ fiber[t] \in Fiber
    BY FiberOf DEF Attach, At
  <1>2. CASE s # None
    <2>1. s \in 1..lastSess /\ s \in SessionIds /\ sess[s].of = t
      BY <1>1, <1>2, RowIdsFact DEF Placed, PlacedIn
    <2>2. sess' = [sess EXCEPT ![s].status = "running"] /\ lastSess' = lastSess
      BY <1>2 DEF Attach
    <2>3. sess' \in [SessionIds -> Session]
          /\ \A x \in SessionIds : sess'[x].of = sess[x].of /\ sess'[x].mark = sess[x].mark
      <3>1. \A old \in Session :
              LET new == [old EXCEPT !.status = "running"] IN
              new \in Session /\ new.of = old.of /\ new.mark = old.mark
        BY DEF Session
      <3>2. ASSUME NEW x \in SessionIds
            PROVE  sess'[x] \in Session /\ sess'[x].of = sess[x].of /\ sess'[x].mark = sess[x].mark
        <4>1. sess'[x] = sess[x] \/ sess'[x] = [sess[x] EXCEPT !.status = "running"]
          BY <2>2 DEF TypeOK
        <4>2. sess[x] \in Session
          BY DEF TypeOK
        <4> QED
          BY <3>1, <4>1, <4>2
      <3>3. sess' = [x \in SessionIds |-> sess'[x]]
        BY <2>2 DEF TypeOK
      <3> QED
        BY <3>2, <3>3
    <2>4. OwnersKept
      BY <1>0, <2>2, <2>3, RowIdsFact DEF OwnersKept
    <2> DEFINE f == [fiber[t] EXCEPT !.step = "create", !.resumed = sess[s].provider]
    <2>5. sess[s].provider \in BOOLEAN
      BY <2>1 DEF TypeOK, Session
    <2>6. f \in Fiber /\ f.step = "create" /\ f.sess = s
      BY <1>1, <2>5 DEF Fiber, BeforeRow
    <2>7. fiber' = [fiber EXCEPT ![t] = f]
      BY <1>2 DEF Attach, TypeOK
    <2> HIDE DEF f
    <2>8. PlacedIn(f, t, sess, lastSess, lastRun)
      BY <2>1, <2>6 DEF PlacedIn, WithRun, InTurn, Terminal
    <2>9. /\ fiber' \in [Threads -> Fiber]
          /\ \A u \in Threads : PlacedIn(fiber'[u], u, sess', lastSess', lastRun')
      BY <2>4, <2>6, <2>7, <2>8, PlacedKept, SetFiber
    <2> QED
      BY <1>0, <2>2, <2>3, <2>9 DEF TypeOK, Placed
  <1>3. CASE s = None
    <2> DEFINE new == [of |-> t, status |-> "running", mark |-> 0, provider |-> FALSE]
    <2>1. lastSess < MaxSessions /\ lastSess' = lastSess + 1
          /\ sess' = [sess EXCEPT ![lastSess'] = new]
          /\ fiber' = [fiber EXCEPT ![t].step = "create", ![t].sess = lastSess']
      BY <1>3 DEF Attach
    <2>2. new \in Session /\ new.of = t /\ new.mark = 0
      BY DEF Session
    <2>3. lastSess' \in SessionIds /\ lastSess' \in 0..MaxSessions /\ lastSess' \in 1..lastSess'
          /\ lastSess' \notin 1..lastSess /\ 1..lastSess \subseteq 1..lastSess'
      BY <2>1, IdsFact DEF TypeOK, SessionIds
    <2> HIDE DEF new
    <2>4. /\ sess' \in [SessionIds -> Session] /\ sess'[lastSess'] = new
          /\ \A x \in SessionIds : x # lastSess' => sess'[x] = sess[x]
      BY <2>1, <2>2, <2>3 DEF TypeOK
    <2>5. OwnersKept
      BY <1>0, <2>3, <2>4, RowIdsFact DEF OwnersKept
    <2>6. \A x \in SessionIds : sess'[x].mark <= Len(said)
      BY <2>2, <2>4, PositionsFact DEF TypeOK
    <2> DEFINE f == [fiber[t] EXCEPT !.step = "create", !.sess = lastSess']
    <2>7. f \in Fiber /\ f.step = "create" /\ f.sess = lastSess'
      BY <1>1, <2>3 DEF Fiber, BeforeRow
    <2>8. fiber' = [fiber EXCEPT ![t] = f]
      BY <2>1 DEF TypeOK
    <2> HIDE DEF f
    <2>9. PlacedIn(f, t, sess', lastSess', lastRun')
      BY <2>2, <2>3, <2>4, <2>7 DEF PlacedIn, WithRun, InTurn, Terminal
    <2>10. /\ fiber' \in [Threads -> Fiber]
           /\ \A u \in Threads : PlacedIn(fiber'[u], u, sess', lastSess', lastRun')
      BY <2>5, <2>7, <2>8, <2>9, SetFiber
    <2> QED
      BY <1>0, <2>3, <2>4, <2>6, <2>10 DEF TypeOK, Placed
  <1> QED
    BY <1>2, <1>3

LEMMA CreateType ==
  ASSUME TypeInv, NEW t \in Threads, Create(t)
  PROVE  TypeInv'
  <1> USE DEF TypeInv
  <1>0. UNCHANGED <<said, sess, lastSess, loop, stop, event, silent, hasty, shown, beside,
                    cut, budget>>
    BY DEF Create
  <1>1. fiber[t].step = "create" /\ fiber[t] \in Fiber
        /\ PlacedIn(fiber[t], t, sess, lastSess, lastRun)
    BY FiberOf DEF Create, At, Placed
  <1>2. CASE LiveOn(t) = {}
    <2> DEFINE new == [of |-> t, sess |-> fiber[t].sess, state |-> "queued"]
    <2>1. lastRun < MaxRuns /\ lastRun' = lastRun + 1
          /\ run' = [run EXCEPT ![lastRun'] = new]
          /\ fiber' = [fiber EXCEPT ![t].step = "opened", ![t].run = lastRun']
      BY <1>2 DEF Create
    <2>2. new \in Run
      BY <1>1 DEF Run, Fiber, LiveStates
    <2>3. lastRun' \in RunIds /\ lastRun' \in 0..MaxRuns /\ lastRun' \in 1..lastRun'
          /\ 1..lastRun \subseteq 1..lastRun'
      BY <2>1, IdsFact DEF TypeOK, RunIds
    <2> HIDE DEF new
    <2>4. run' \in [RunIds -> Run]
      BY <2>1, <2>2, <2>3 DEF TypeOK
    <2>5. OwnersKept
      BY <1>0, <2>3 DEF OwnersKept
    <2> DEFINE f == [fiber[t] EXCEPT !.step = "opened", !.run = lastRun']
    <2>6. f \in Fiber /\ f.step = "opened" /\ f.run = lastRun' /\ f.sess = fiber[t].sess
      BY <1>1, <2>3 DEF Fiber
    <2>7. fiber' = [fiber EXCEPT ![t] = f]
      BY <2>1 DEF TypeOK
    <2> HIDE DEF f
    <2>8. PlacedIn(f, t, sess', lastSess', lastRun')
      BY <1>0, <1>1, <2>3, <2>6 DEF PlacedIn, WithSession
    <2>9. /\ fiber' \in [Threads -> Fiber]
          /\ \A u \in Threads : PlacedIn(fiber'[u], u, sess', lastSess', lastRun')
      BY <2>5, <2>6, <2>7, <2>8, SetFiber
    <2> QED
      BY <1>0, <2>3, <2>4, <2>9 DEF TypeOK, Placed
  <1>3. CASE LiveOn(t) # {}
    <2>1. Leave(t) /\ run' = run /\ lastRun' = lastRun
      BY <1>3 DEF Create
    <2>2. OwnersKept
      BY <1>0, <2>1, RowsKept
    <2> QED
      BY <1>0, <2>1, <2>2, LeaveFiber DEF TypeOK, Placed
  <1> QED
    BY <1>2, <1>3

(* A fiber with a run changes to f and keeps its run and its session.         *)
LEMMA MoveFiber ==
  ASSUME TypeOK, Placed, OwnersKept, NEW t \in Threads, NEW f \in Fiber,
         fiber' = [fiber EXCEPT ![t] = f], fiber[t].step \in WithRun,
         f.step \in InTurn \cup Terminal, f.run = fiber[t].run, f.sess = fiber[t].sess
  PROVE  /\ fiber' \in [Threads -> Fiber]
         /\ \A u \in Threads : PlacedIn(fiber'[u], u, sess', lastSess', lastRun')
  <1>1. PlacedIn(fiber[t], t, sess, lastSess, lastRun)
    BY DEF Placed
  <1>2. PlacedIn(f, t, sess, lastSess, lastRun)
    BY <1>1 DEF PlacedIn, WithSession, WithRun, InTurn, Terminal
  <1> QED
    BY <1>2, PlacedKept, SetFiber

LEMMA FiberHas ==
  ASSUME TypeInv, NEW t \in Threads, fiber[t].step \in WithRun
  PROVE  /\ fiber[t] \in Fiber
         /\ fiber[t].run \in 1..lastRun /\ fiber[t].run \in RunIds
         /\ fiber[t].sess \in 1..lastSess /\ fiber[t].sess \in SessionIds
         /\ sess[fiber[t].sess].of = t
  BY FiberOf, RowIdsFact DEF TypeInv, Placed, PlacedIn, WithRun, WithSession

LEMMA PromptType ==
  ASSUME TypeInv, NEW t \in Threads, BeginTurn(t) \/ PromptFails(t) \/ ReadUnread(t)
  PROVE  TypeInv'
  <1> USE DEF TypeInv
  <1>0. UNCHANGED <<rows, loop, stop, event, silent, hasty, shown, cut>>
        /\ budget' \in [Disturbances -> Nat]
    BY SpendType DEF BeginTurn, PromptFails, ReadUnread, TypeOK, Disturbances
  <1>1. OwnersKept
    BY <1>0, RowsKept DEF rows
  <1>2. fiber[t].step \in WithRun
    BY DEF BeginTurn, PromptFails, ReadUnread, At, WithRun, InTurn
  <1>3. /\ fiber' \in [Threads -> Fiber]
        /\ \A u \in Threads : PlacedIn(fiber'[u], u, sess', lastSess', lastRun')
    <2>1. CASE BeginTurn(t)
      BY <1>1, <1>2, <2>1, GotoFiber DEF BeginTurn, InTurn
    <2>2. CASE PromptFails(t)
      <3> DEFINE f == [fiber[t] EXCEPT !.step = "record", !.ending = "errored", !.unread = {}]
      <3>1. f \in Fiber /\ f.step \in InTurn \cup Terminal /\ f.run = fiber[t].run
            /\ f.sess = fiber[t].sess
        BY FiberOf DEF Fiber, Terminal, Endings, TurnEndings
      <3>2. fiber' = [fiber EXCEPT ![t] = f]
        BY <2>2 DEF PromptFails, TypeOK
      <3> HIDE DEF f
      <3> QED
        BY <1>1, <1>2, <3>1, <3>2, MoveFiber
    <2>3. CASE ReadUnread(t)
      <3> DEFINE unread == After(t, sess[fiber[t].sess].mark)
                 f == [fiber[t] EXCEPT !.step = "advance", !.unread = unread]
      <3>0. unread \in SUBSET Nat
        BY PositionsFact DEF After
      <3>1. f \in Fiber /\ f.step \in InTurn \cup Terminal /\ f.run = fiber[t].run
            /\ f.sess = fiber[t].sess
        BY FiberOf, <3>0 DEF Fiber, InTurn
      <3>2. fiber' = [fiber EXCEPT ![t] = f]
        BY <2>3 DEF ReadUnread, TypeOK
      <3> HIDE DEF f
      <3> QED
        BY <1>1, <1>2, <3>1, <3>2, MoveFiber
    <2> QED
      BY <2>1, <2>2, <2>3
  <1>4. beside' \in [SessionIds -> SUBSET Nat]
    <2>1. CASE ReadUnread(t)
      <3>1. Stamped(t) \subseteq Nat
        BY PositionsFact DEF TypeOK
      <3>2. \E P \in SUBSET Nat :
              beside' = [beside EXCEPT ![fiber[t].sess] =
                           {p \in @ : p <= sess[fiber[t].sess].mark} \cup P]
        BY <2>1, <3>1 DEF ReadUnread
      <3> QED
        BY <3>2 DEF TypeOK
    <2>2. CASE ~ReadUnread(t)
      BY <2>2 DEF BeginTurn, PromptFails, TypeOK
    <2> QED
      BY <2>1, <2>2
  <1> QED
    BY <1>0, <1>3, <1>4 DEF TypeOK, Placed, rows

(* What a prompt was built from, with what its read passed, is all up to its    *)
(* last message.                                                             *)
Handed(t) ==
  At(t, "advance") =>
    /\ fiber[t].unread \subseteq Stamped(t)
    /\ \A p \in Stamped(t), u \in fiber[t].unread :
         p > sess[fiber[t].sess].mark /\ p <= u
           => p \in fiber[t].unread \cup beside[fiber[t].sess]

LEMMA AdvanceFact ==
  ASSUME TypeInv, NEW t \in Threads, Handed(t), Advance(t)
  PROVE  LET s == fiber[t].sess
             unread == fiber[t].unread
         IN /\ s \in 1..lastSess /\ s \in SessionIds /\ sess[s].of = t
            /\ shown' = [shown EXCEPT ![s] = @ \cup unread]
            /\ sess' \in [SessionIds -> Session]
            /\ \A x \in SessionIds : sess'[x].of = sess[x].of
            /\ \A x \in SessionIds \ {s} : sess'[x] = sess[x]
            /\ \/ sess'[s].mark = sess[s].mark
               \/ /\ sess'[s].mark \in unread /\ sess'[s].mark <= Len(said)
                  /\ \A p \in unread : p <= sess'[s].mark
  <1> DEFINE s == fiber[t].sess
             unread == fiber[t].unread
  <1>1. fiber[t].step = "advance" /\ fiber[t].step \in WithRun
    BY DEF Advance, At, WithRun, InTurn
  <1>2. s \in 1..lastSess /\ s \in SessionIds /\ sess[s].of = t
    BY <1>1, FiberHas
  <1>3. shown' = [shown EXCEPT ![s] = @ \cup unread]
    BY DEF Advance
  <1>4. CASE unread = {}
    BY <1>2, <1>3, <1>4 DEF Advance, TypeInv, TypeOK, Session
  <1>5. CASE unread # {}
    <2>1. unread \in SUBSET (0..Len(said)) /\ Len(said) \in Nat
      BY <1>1, PositionsFact DEF Handed, At, TypeInv
    <2>2. Newest(unread) \in unread /\ \A p \in unread : p <= Newest(unread)
      BY <1>5, <2>1, NewestIsLast
    <2>3. Newest(unread) \in Nat /\ Newest(unread) <= Len(said)
      BY <2>1, <2>2
    <2>4. sess' = [sess EXCEPT ![s].mark = Newest(unread)]
      BY <1>5 DEF Advance, NextMark
    <2> HIDE DEF unread, s
    <2>5. /\ sess' \in [SessionIds -> Session]
          /\ sess'[s].mark = Newest(unread)
          /\ \A x \in SessionIds : sess'[x].of = sess[x].of
          /\ \A x \in SessionIds \ {s} : sess'[x] = sess[x]
      BY <1>2, <2>3, <2>4 DEF TypeInv, TypeOK, Session
    <2> QED
      BY <1>2, <1>3, <2>2, <2>3, <2>5 DEF s, unread
  <1> QED
    BY <1>4, <1>5

LEMMA AdvanceType ==
  ASSUME TypeInv, NEW t \in Threads, Handed(t), Advance(t)
  PROVE  TypeInv'
  <1> USE DEF TypeInv
  <1>0. UNCHANGED <<said, lastSess, run, lastRun, loop, stop, event, silent, hasty,
                    beside, cut, budget>>
    BY DEF Advance
  <1>1. fiber[t].step \in WithRun
    BY DEF Advance, At, WithRun, InTurn
  <1>2. sess' \in [SessionIds -> Session] /\ \A x \in SessionIds : sess'[x].of = sess[x].of
    BY AdvanceFact
  <1>3. \A x \in SessionIds : sess'[x].mark <= Len(said)
    BY AdvanceFact DEF TypeOK
  <1>4. OwnersKept
    BY <1>0, <1>2, RowIdsFact DEF OwnersKept
  <1>5. shown' \in [SessionIds -> SUBSET Nat]
    <2> DEFINE s == fiber[t].sess
               unread == fiber[t].unread
    <2>1. unread \in SUBSET Nat /\ s \in SessionIds
          /\ shown' = [shown EXCEPT ![s] = @ \cup unread]
      BY <1>1, AdvanceFact, FiberHas DEF Fiber
    <2> HIDE DEF s, unread
    <2> QED
      BY <2>1 DEF TypeOK
  <1> DEFINE f == [fiber[t] EXCEPT !.step = "turn", !.unread = {}]
  <1>6. f \in Fiber /\ f.step \in InTurn \cup Terminal /\ f.run = fiber[t].run
        /\ f.sess = fiber[t].sess
    BY FiberOf DEF Fiber, InTurn
  <1>7. fiber' = [fiber EXCEPT ![t] = f]
    BY DEF Advance, TypeOK
  <1> HIDE DEF f
  <1>8. /\ fiber' \in [Threads -> Fiber]
        /\ \A u \in Threads : PlacedIn(fiber'[u], u, sess', lastSess', lastRun')
    BY <1>1, <1>4, <1>6, <1>7, MoveFiber
  <1> QED
    BY <1>0, <1>2, <1>3, <1>5, <1>8 DEF TypeOK, Placed

LEMMA TurnType ==
  ASSUME TypeInv, NEW t \in Threads, HarnessAnswers(t) \/ TurnEnds(t) \/ Interrupted(t)
  PROVE  TypeInv'
  <1> USE DEF TypeInv
  <1>1. CASE HarnessAnswers(t)
    <2>1. run' \in [RunIds -> Run]
      <3>1. run' = [run EXCEPT ![fiber[t].run].state = "running"]
        BY <1>1 DEF HarnessAnswers
      <3>2. \A old \in Run : [old EXCEPT !.state = "running"] \in Run
        BY DEF Run, LiveStates
      <3> QED
        BY <3>1, <3>2 DEF TypeOK
    <2> QED
      BY <1>1, <2>1 DEF HarnessAnswers, TypeOK, Placed
  <1>2. CASE TurnEnds(t)
    <2>0. UNCHANGED <<rows, loop, stop, silent, hasty, shown, beside, cut, budget>>
      BY <1>2 DEF TurnEnds
    <2>1. fiber[t].step \in WithRun
      BY <1>2 DEF TurnEnds, At, WithRun, InTurn
    <2>2. PICK e \in TurnEndings, speaks \in BOOLEAN :
            /\ fiber' = [fiber EXCEPT ![t].step = "record", ![t].ending = e,
                                      ![t].speaks = speaks]
            /\ event' = IF e = "lost" THEN event ELSE event \cup {fiber[t].run}
      BY <1>2 DEF TurnEnds
    <2>3. event' \subseteq RunIds
      BY <2>1, <2>2, FiberHas DEF TypeOK
    <2> DEFINE f == [fiber[t] EXCEPT !.step = "record", !.ending = e, !.speaks = speaks]
    <2>4. f \in Fiber /\ f.step \in InTurn \cup Terminal /\ f.run = fiber[t].run
          /\ f.sess = fiber[t].sess
      BY FiberOf DEF Fiber, Terminal, Endings
    <2>5. fiber' = [fiber EXCEPT ![t] = f]
      BY <2>2 DEF TypeOK
    <2> HIDE DEF f
    <2>6. OwnersKept
      BY <2>0, RowsKept DEF rows
    <2> QED
      BY <2>0, <2>1, <2>3, <2>4, <2>5, <2>6, MoveFiber DEF TypeOK, Placed, rows
  <1>3. CASE Interrupted(t)
    <2>0. UNCHANGED <<rows, loop, stop, event, silent, hasty, shown, beside, cut, budget>>
      BY <1>3 DEF Interrupted
    <2>1. OwnersKept
      BY <2>0, RowsKept DEF rows
    <2>2. CASE Leave(t)
      BY <2>0, <2>1, <2>2, LeaveFiber DEF TypeOK, Placed, rows
    <2>3. CASE ~Leave(t)
      <3>1. fiber[t].step \in WithRun
            /\ fiber' = [fiber EXCEPT ![t].step = "record", ![t].ending = "stopped",
                                      ![t].unread = {}]
        BY <1>3, <2>3 DEF Interrupted, WithRun
      <3> DEFINE f == [fiber[t] EXCEPT !.step = "record", !.ending = "stopped", !.unread = {}]
      <3>2. f \in Fiber /\ f.step \in InTurn \cup Terminal /\ f.run = fiber[t].run
            /\ f.sess = fiber[t].sess
        BY FiberOf DEF Fiber, Terminal, Endings
      <3>3. fiber' = [fiber EXCEPT ![t] = f]
        BY <3>1 DEF TypeOK
      <3> HIDE DEF f
      <3> QED
        BY <2>0, <2>1, <3>1, <3>2, <3>3, MoveFiber DEF TypeOK, Placed, rows
    <2> QED
      BY <2>2, <2>3
  <1> QED
    BY <1>1, <1>2, <1>3

(* The close-out goes on to its next step, or the fiber is done.              *)
LEMMA ProceedFiber ==
  ASSUME TypeInv, OwnersKept, NEW t \in Threads, fiber[t].step \in Terminal, Proceed(t)
  PROVE  /\ fiber' \in [Threads -> Fiber]
         /\ \A u \in Threads : PlacedIn(fiber'[u], u, sess', lastSess', lastRun')
  <1>1. Following(fiber[t].step) \in Terminal \cup {"none"}
    BY DEF Following, Terminal
  <1>2. fiber[t].step \in WithRun
    BY DEF WithRun
  <1>3. CASE Following(fiber[t].step) = "none"
    BY <1>3, LeaveFiber DEF Proceed, TypeInv
  <1>4. CASE Following(fiber[t].step) # "none"
    BY <1>1, <1>2, <1>4, GotoFiber DEF Proceed, TypeInv
  <1> QED
    BY <1>3, <1>4

LEMMA CloseOutType ==
  ASSUME TypeInv, NEW t \in Threads,
         \/ RecordProvider(t) \/ StoreAnswer(t) \/ CloseRow(t) \/ CloseSession(t)
         \/ WriteRefused(t)
  PROVE  TypeInv'
  <1> USE DEF TypeInv
  <1>0. fiber[t].step \in Terminal /\ Proceed(t) /\ fiber[t].step \in WithRun
    BY DEF RecordProvider, StoreAnswer, CloseRow, CloseSession, WriteRefused, At, Terminal,
           WithRun
  <1>f. /\ fiber[t] \in Fiber /\ fiber[t].run \in RunIds /\ fiber[t].sess \in SessionIds
        /\ fiber[t].ending \in Endings
    BY <1>0, FiberHas DEF Fiber
  <1>1. CASE RecordProvider(t)
    <2>1. sess' \in [SessionIds -> Session]
          /\ \A x \in SessionIds : sess'[x].of = sess[x].of /\ sess'[x].mark = sess[x].mark
      <3> DEFINE b == sess[fiber[t].sess].provider \/ run[fiber[t].run].state = "running"
      <3>1. b \in BOOLEAN /\ sess' = [sess EXCEPT ![fiber[t].sess].provider = b]
        BY <1>1 DEF RecordProvider
      <3> HIDE DEF b
      <3>2. \A old \in Session :
              LET new == [old EXCEPT !.provider = b] IN
              new \in Session /\ new.of = old.of /\ new.mark = old.mark
        BY <3>1 DEF Session
      <3>3. \A x \in SessionIds :
              sess'[x] = sess[x] \/ sess'[x] = [sess[x] EXCEPT !.provider = b]
        BY <1>f, <3>1 DEF TypeOK
      <3>4. sess' = [x \in SessionIds |-> sess'[x]]
        BY <3>1 DEF TypeOK
      <3>5. \A x \in SessionIds :
              sess'[x] \in Session /\ sess'[x].of = sess[x].of /\ sess'[x].mark = sess[x].mark
        <4> SUFFICES ASSUME NEW x \in SessionIds
                     PROVE  /\ sess'[x] \in Session /\ sess'[x].of = sess[x].of
                            /\ sess'[x].mark = sess[x].mark
          OBVIOUS
        <4>1. sess[x] \in Session
          BY DEF TypeOK
        <4> QED
          BY <3>2, <3>3, <4>1
      <3> QED
        BY <3>4, <3>5
    <2>2. UNCHANGED <<said, lastSess, run, lastRun, loop, stop, event, silent, hasty,
                      shown, beside, cut, budget>>
      BY <1>1 DEF RecordProvider
    <2>3. OwnersKept
      BY <2>1, <2>2, RowIdsFact DEF OwnersKept
    <2> QED
      BY <1>0, <2>1, <2>2, <2>3, ProceedFiber DEF TypeOK, Placed
  <1>2. CASE StoreAnswer(t)
    <2> DEFINE m == [in |-> t, by |-> fiber[t].run, posted |-> TRUE]
    <2>1. m \in Message /\ (said' = Append(said, m) \/ said' = said)
      BY <1>2, <1>f DEF StoreAnswer, Message
    <2>2. said' \in Seq(Message) /\ Len(said') >= Len(said)
      <3> HIDE DEF m
      <3>1. Len(said) \in Nat
        BY PositionsFact
      <3>2. CASE said' = said
        BY <3>1, <3>2 DEF TypeOK
      <3>3. CASE said' = Append(said, m)
        BY <2>1, <3>1, <3>3 DEF TypeOK
      <3> QED
        BY <2>1, <3>2, <3>3
    <2>3. \A s \in SessionIds : sess[s].mark <= Len(said')
      BY <2>2, PositionsFact DEF TypeOK, Session
    <2>4. UNCHANGED <<sess, lastSess, run, lastRun, loop, stop, event, silent, hasty,
                      shown, beside, cut, budget>>
      BY <1>2 DEF StoreAnswer
    <2>5. OwnersKept
      BY <2>4, RowsKept
    <2> QED
      BY <1>0, <2>2, <2>3, <2>4, <2>5, ProceedFiber DEF TypeOK, Placed
  <1>3. CASE CloseRow(t)
    <2>1. run' \in [RunIds -> Run]
      BY <1>3, <1>f, CloseType DEF CloseRow
    <2>2. UNCHANGED <<said, sess, lastSess, lastRun, loop, stop, event, silent, hasty,
                      shown, beside, cut, budget>>
      BY <1>3 DEF CloseRow
    <2>3. OwnersKept
      BY <2>2, RowsKept
    <2> QED
      BY <1>0, <2>1, <2>2, <2>3, ProceedFiber DEF TypeOK, Placed
  <1>4. CASE CloseSession(t)
    <2>1. /\ sess' \in [SessionIds -> Session]
          /\ \A x \in SessionIds : sess'[x].of = sess[x].of /\ sess'[x].mark = sess[x].mark
      BY <1>4, <1>f, EndSessionType DEF CloseSession
    <2>2. UNCHANGED <<said, lastSess, run, lastRun, loop, stop, event, silent, hasty,
                      shown, beside, cut, budget>>
      BY <1>4 DEF CloseSession
    <2>3. OwnersKept
      BY <2>1, <2>2, RowIdsFact DEF OwnersKept
    <2> QED
      BY <1>0, <2>1, <2>2, <2>3, ProceedFiber DEF TypeOK, Placed
  <1>5. CASE WriteRefused(t)
    <2>1. UNCHANGED <<rows, loop, stop, event, silent, hasty, shown, beside>>
          /\ budget' \in [Disturbances -> Nat] /\ cut' \subseteq RunIds
      BY <1>5, <1>f, SpendType DEF WriteRefused, Disturbances, TypeOK
    <2>2. OwnersKept
      BY <2>1, RowsKept DEF rows
    <2> QED
      BY <1>0, <2>1, <2>2, ProceedFiber DEF TypeOK, Placed, rows
  <1> QED
    BY <1>1, <1>2, <1>3, <1>4, <1>5

-----------------------------------------------------------------------------
(* What no step but the prompt's own read and advance changes: what a session *)
(* was shown and how far, and what a fiber that is about to advance holds.     *)

SaidGrows ==
  \/ said' = said
  \/ \E m \in Message : said' = Append(said, m)
  \/ \E p \in DOMAIN said : said' = [said EXCEPT ![p].posted = TRUE]

MarksKept ==
  /\ \A x \in 1..lastSess :
       /\ sess'[x].of = sess[x].of /\ sess'[x].mark = sess[x].mark
       /\ shown'[x] = shown[x] /\ beside'[x] = beside[x]
  /\ \A x \in 1..lastSess' : x \notin 1..lastSess => sess'[x].mark = 0

HandKept ==
  \A t \in Threads : fiber'[t].step = "advance" =>
    /\ fiber[t].step = "advance"
    /\ fiber'[t].unread = fiber[t].unread /\ fiber'[t].sess = fiber[t].sess

StampsGrow == \A t \in Threads : \A p \in Stamped(t)' :
                p \in Stamped(t) \/ p > Len(said)

LEMMA SaidFact ==
  ASSUME TypeOK, SaidGrows
  PROVE  /\ StampsGrow
         /\ \A t : Stamped(t) \subseteq Stamped(t)'
         /\ DOMAIN said' \subseteq Nat \ {0}
  <1>1. CASE said' = said
    BY <1>1 DEF StampsGrow, Stamped, TypeOK
  <1>2. ASSUME NEW m \in Message, said' = Append(said, m)
        PROVE  /\ StampsGrow /\ \A t : Stamped(t) \subseteq Stamped(t)'
               /\ DOMAIN said' \subseteq Nat \ {0}
    <2>1. /\ DOMAIN said' = 1..(Len(said) + 1) /\ DOMAIN said = 1..Len(said)
          /\ Len(said) \in Nat
          /\ \A p \in DOMAIN said : said'[p] = said[p]
      BY <1>2 DEF TypeOK
    <2> QED
      BY <2>1 DEF StampsGrow, Stamped
  <1>3. ASSUME NEW q \in DOMAIN said, said' = [said EXCEPT ![q].posted = TRUE]
        PROVE  /\ StampsGrow /\ \A t : Stamped(t) \subseteq Stamped(t)'
               /\ DOMAIN said' \subseteq Nat \ {0}
    <2>1. DOMAIN said' = DOMAIN said /\ DOMAIN said \subseteq Nat \ {0}
      BY <1>3 DEF TypeOK
    <2>2. \A p \in DOMAIN said : said'[p].in = said[p].in
      BY <1>3 DEF TypeOK, Message
    <2> QED
      BY <2>1, <2>2 DEF StampsGrow, Stamped
  <1> QED
    BY <1>1, <1>2, <1>3 DEF SaidGrows

LEMMA RowsHeld ==
  ASSUME UNCHANGED <<sess, lastSess, shown, beside>>
  PROVE  MarksKept
  BY DEF MarksKept

LEMMA FibersHeld ==
  ASSUME fiber' = fiber
  PROVE  HandKept
  BY DEF HandKept

LEMMA FiberElsewhere ==
  ASSUME TypeOK, NEW t \in Threads, NEW f, fiber' = [fiber EXCEPT ![t] = f],
         f.step # "advance"
  PROVE  HandKept
  BY DEF TypeOK, HandKept

LEMMA LeaveElsewhere == ASSUME TypeOK, NEW t \in Threads, Leave(t) PROVE HandKept
  <1>1. NoFiber.step # "advance"
    BY DEF NoFiber
  <1>2. fiber' = [fiber EXCEPT ![t] = NoFiber]
    BY DEF Leave
  <1> QED
    BY <1>1, <1>2, FiberElsewhere

LEMMA GotoElsewhere ==
  ASSUME TypeOK, NEW t \in Threads, NEW step, step # "advance", Goto(t, step)
  PROVE  HandKept
  BY FiberOf DEF TypeOK, HandKept, Goto, Fiber

LEMMA ProceedElsewhere ==
  ASSUME TypeOK, NEW t \in Threads, Proceed(t)
  PROVE  HandKept
  <1>1. Following(fiber[t].step) # "advance"
    BY DEF Following
  <1> QED
    BY <1>1, LeaveElsewhere, GotoElsewhere DEF Proceed

Elsewhere(t) ==
  \/ Plan(t) \/ Admit(t) \/ Attach(t) \/ Create(t) \/ BeginTurn(t)
  \/ TurnEnds(t) \/ Interrupted(t)
  \/ RecordProvider(t) \/ StoreAnswer(t) \/ CloseRow(t) \/ CloseSession(t)
  \/ DispatchFails(t) \/ PromptFails(t) \/ WriteRefused(t)

LEMMA ElsewhereKeeps ==
  ASSUME TypeInv, NEW t \in Threads, Elsewhere(t)
  PROVE  SaidGrows /\ MarksKept /\ HandKept
  <1> USE DEF TypeInv
  <1>1. CASE Plan(t) \/ Admit(t) \/ DispatchFails(t)
    <2>1. UNCHANGED <<said, sess, lastSess, shown, beside>>
      BY <1>1 DEF Plan, Admit, DispatchFails, rows
    <2>2. \/ Leave(t) \/ Goto(t, "admit")
          \/ fiber' = [fiber EXCEPT ![t] = [@ EXCEPT !.step = "attach", !.sess = Chosen(t)]]
      BY <1>1 DEF Plan, Admit, DispatchFails, TypeOK
    <2>3. [fiber[t] EXCEPT !.step = "attach", !.sess = Chosen(t)].step # "advance"
      BY FiberOf DEF Fiber
    <2>4. HandKept
      BY <2>2, <2>3, LeaveElsewhere, GotoElsewhere, FiberElsewhere
    <2> QED
      BY <2>1, <2>4, RowsHeld DEF SaidGrows
  <1>2. CASE Attach(t)
    <2>1. said' = said /\ shown' = shown /\ beside' = beside
      BY <1>2 DEF Attach
    <2>2. HandKept
      <3>1. \A f \in Fiber :
              \A x, y : /\ [f EXCEPT !.step = "create", !.sess = x].step # "advance"
                        /\ [f EXCEPT !.step = "create", !.resumed = y].step # "advance"
        BY DEF Fiber
      <3>2. \E x, y :
              \/ fiber' = [fiber EXCEPT ![t] = [@ EXCEPT !.step = "create", !.sess = x]]
              \/ fiber' = [fiber EXCEPT ![t] = [@ EXCEPT !.step = "create", !.resumed = y]]
        BY <1>2 DEF Attach, TypeOK
      <3>3. \E f : fiber' = [fiber EXCEPT ![t] = f] /\ f.step # "advance"
        <4>1. ASSUME NEW x, fiber' = [fiber EXCEPT ![t] = [@ EXCEPT !.step = "create", !.sess = x]]
              PROVE  \E f : fiber' = [fiber EXCEPT ![t] = f] /\ f.step # "advance"
          BY <3>1, <4>1, FiberOf
        <4>2. ASSUME NEW x,
                     fiber' = [fiber EXCEPT ![t] = [@ EXCEPT !.step = "create", !.resumed = x]]
              PROVE  \E f : fiber' = [fiber EXCEPT ![t] = f] /\ f.step # "advance"
          BY <3>1, <4>2, FiberOf
        <4> QED
          BY <3>2, <4>1, <4>2
      <3> QED
        BY <3>3, FiberElsewhere
    <2>3. MarksKept
      <3>1. CASE fiber[t].sess # None
        <4>1. lastSess' = lastSess
              /\ sess' = [sess EXCEPT ![fiber[t].sess].status = "running"]
          BY <1>2, <3>1 DEF Attach
        <4>2. \A x \in SessionIds : sess'[x].of = sess[x].of /\ sess'[x].mark = sess[x].mark
          BY <4>1 DEF TypeOK, Session
        <4> QED
          BY <2>1, <4>1, <4>2, RowIdsFact DEF MarksKept
      <3>2. CASE fiber[t].sess = None
        <4> DEFINE new == [of |-> t, status |-> "running", mark |-> 0, provider |-> FALSE]
        <4>1. lastSess < MaxSessions /\ lastSess' = lastSess + 1
              /\ sess' = [sess EXCEPT ![lastSess'] = new]
          BY <1>2, <3>2 DEF Attach
        <4>2. lastSess' \in SessionIds /\ lastSess' \notin 1..lastSess
              /\ \A x \in 1..lastSess' : x \notin 1..lastSess => x = lastSess'
          BY <4>1, IdsFact DEF TypeOK, SessionIds
        <4>3. new.mark = 0
          OBVIOUS
        <4> HIDE DEF new
        <4> QED
          BY <2>1, <4>1, <4>2, <4>3, RowIdsFact DEF MarksKept, TypeOK
      <3> QED
        BY <3>1, <3>2
    <2> QED
      BY <2>1, <2>2, <2>3 DEF SaidGrows
  <1>3. CASE Create(t)
    <2>1. UNCHANGED <<said, sess, lastSess, shown, beside>>
      BY <1>3 DEF Create
    <2>2. HandKept
      <3>1. CASE Leave(t)
        BY <3>1, LeaveElsewhere
      <3>2. CASE fiber' = [fiber EXCEPT ![t].step = "opened", ![t].run = lastRun']
        BY <3>2, FiberOf DEF HandKept, TypeOK, Fiber
      <3> QED
        BY <1>3, <3>1, <3>2 DEF Create
    <2> QED
      BY <2>1, <2>2, RowsHeld DEF SaidGrows
  <1>4. CASE BeginTurn(t)
    BY <1>4, GotoElsewhere, RowsHeld DEF BeginTurn, rows, SaidGrows
  <1>5. CASE TurnEnds(t) \/ PromptFails(t) \/ Interrupted(t)
    <2>1. UNCHANGED <<said, sess, lastSess, shown, beside>>
      BY <1>5 DEF TurnEnds, PromptFails, Interrupted, rows
    <2>2. CASE Leave(t)
      BY <2>1, <2>2, LeaveElsewhere, RowsHeld DEF SaidGrows
    <2>3. CASE ~Leave(t)
      <3>1. \A u \in Threads : fiber'[u].step = "advance" => u # t /\ fiber'[u] = fiber[u]
        <4>1. \E e, unread, speaks :
                fiber' = [fiber EXCEPT ![t] = [@ EXCEPT !.step = "record", !.ending = e,
                                               !.unread = unread, !.speaks = speaks]]
          <5>1. CASE TurnEnds(t)
            <6>1. PICK e \in TurnEndings, speaks \in BOOLEAN :
                    fiber' = [fiber EXCEPT ![t].step = "record", ![t].ending = e,
                                           ![t].speaks = speaks]
              BY <5>1 DEF TurnEnds
            <6>2. fiber' = [fiber EXCEPT ![t] = [@ EXCEPT !.step = "record", !.ending = e,
                              !.unread = fiber[t].unread, !.speaks = speaks]]
              BY <6>1, FiberOf DEF TypeOK, Fiber
            <6> QED
              BY <6>2
          <5>2. CASE ~TurnEnds(t)
            <6>1. \E e : fiber' = [fiber EXCEPT ![t].step = "record", ![t].ending = e,
                                                ![t].unread = {}]
              BY <1>5, <2>3, <5>2 DEF PromptFails, Interrupted
            <6>2. PICK e : fiber' = [fiber EXCEPT ![t].step = "record", ![t].ending = e,
                                                  ![t].unread = {}]
              BY <6>1
            <6>3. fiber' = [fiber EXCEPT ![t] = [@ EXCEPT !.step = "record", !.ending = e,
                              !.unread = {}, !.speaks = fiber[t].speaks]]
              BY <6>2, FiberOf DEF TypeOK, Fiber
            <6> QED
              BY <6>3
          <5> QED
            BY <5>1, <5>2
        <4>2. \A e, unread, speaks :
                [fiber[t] EXCEPT !.step = "record", !.ending = e, !.unread = unread,
                                 !.speaks = speaks].step # "advance"
          BY FiberOf DEF Fiber
        <4> QED
          BY <4>1, <4>2 DEF TypeOK
      <3> QED
        BY <2>1, <3>1, RowsHeld DEF SaidGrows, HandKept
    <2> QED
      BY <2>2, <2>3
  <1>6. CASE RecordProvider(t) \/ CloseSession(t) \/ CloseRow(t) \/ WriteRefused(t)
    <2>1. HandKept
      BY <1>6, ProceedElsewhere DEF RecordProvider, CloseSession, CloseRow, WriteRefused
    <2>2. /\ said' = said /\ lastSess' = lastSess
          /\ shown' = shown /\ beside' = beside
      BY <1>6 DEF RecordProvider, CloseSession, CloseRow, WriteRefused, rows
    <2>3. \A x \in SessionIds : sess'[x].of = sess[x].of /\ sess'[x].mark = sess[x].mark
      BY <1>6 DEF RecordProvider, CloseSession, CloseRow, WriteRefused, rows, EndSession,
                  TypeOK, Session
    <2> QED
      BY <2>1, <2>2, <2>3, RowIdsFact DEF SaidGrows, MarksKept
  <1>7. CASE StoreAnswer(t)
    <2>1. HandKept
      BY <1>7, ProceedElsewhere DEF StoreAnswer
    <2>2. UNCHANGED <<sess, lastSess, shown, beside>>
      BY <1>7 DEF StoreAnswer
    <2>3. [in |-> t, by |-> fiber[t].run, posted |-> TRUE] \in Message
      BY <1>7, FiberHas DEF StoreAnswer, At, WithRun, Terminal, Message
    <2>4. SaidGrows
      BY <1>7, <2>3 DEF StoreAnswer, SaidGrows
    <2> QED
      BY <2>1, <2>2, <2>4, RowsHeld
  <1> QED
    BY <1>1, <1>2, <1>3, <1>4, <1>5, <1>6, <1>7 DEF Elsewhere

LEMMA LoopKeeps ==
  ASSUME TypeInv,
         \/ LoopStep \/ Crash
         \/ \E t \in Threads : Say(t) \/ FileStop(t) \/ HarnessAnswers(t)
         \/ \E r \in RunIds : BotReads(r)
         \/ \E p \in DOMAIN said : Committed(p)
  PROVE  SaidGrows /\ MarksKept /\ HandKept
  <1> USE DEF TypeInv
  <1>1. CASE \/ Boot \/ Reconciled \/ Killed \/ StopMarked \/ StopClosed \/ ReadQueue
             \/ \E r \in RunIds : LoseRow(r) \/ BotReads(r)
             \/ \E t \in Threads : FileStop(t) \/ HarnessAnswers(t)
    BY <1>1, RowsHeld, FibersHeld
    DEF Boot, Reconciled, Killed, StopMarked, StopClosed, ReadQueue, LoseRow, BotReads,
        FileStop, HarnessAnswers, rows, SaidGrows
  <1>2. CASE Crash \/ Fork
    <2>1. UNCHANGED <<said, sess, lastSess, shown, beside>>
      BY <1>2 DEF Crash, Fork, rows
    <2>2. \A u \in Threads : fiber'[u] = fiber[u] \/ fiber'[u].step \in {"none", "plan"}
      BY <1>2 DEF Crash, Fork, NoFiber
    <2> QED
      BY <2>1, <2>2, RowsHeld DEF SaidGrows, HandKept
  <1>3. CASE \E t \in Threads : TakeStop(t)
    <2>1. PICK t \in Threads : TakeStop(t)
      BY <1>3
    <2>2. UNCHANGED <<said, sess, lastSess, shown, beside>>
      BY <2>1 DEF TakeStop, rows
    <2>3. fiber' = fiber \/ fiber' = [fiber EXCEPT ![t].interrupted = TRUE]
      BY <2>1 DEF TakeStop
    <2>4. ASSUME NEW u \in Threads
          PROVE  /\ fiber'[u].step = fiber[u].step
                 /\ fiber'[u].unread = fiber[u].unread
                 /\ fiber'[u].sess = fiber[u].sess
      <3>1. fiber'[u] = fiber[u] \/ fiber'[u] = [fiber[u] EXCEPT !.interrupted = TRUE]
        BY <2>3 DEF TypeOK
      <3> QED
        BY <3>1, FiberOf DEF Fiber
    <2> QED
      BY <2>2, <2>4, RowsHeld DEF SaidGrows, HandKept
  <1>4. CASE FinishEnd
    <2>1. UNCHANGED <<said, lastSess, shown, beside, fiber>>
      BY <1>4 DEF FinishEnd
    <2>2. \A x \in SessionIds : sess'[x].of = sess[x].of /\ sess'[x].mark = sess[x].mark
      BY <1>4 DEF FinishEnd, EndSession, TypeOK, Session
    <2> QED
      BY <2>1, <2>2, RowIdsFact, FibersHeld DEF SaidGrows, MarksKept
  <1>5. ASSUME NEW r \in RunIds, FinishAnswer(r) PROVE SaidGrows /\ MarksKept /\ HandKept
    <2>1. run[r].of \in Threads
      BY DEF TypeOK, Run
    <2>2. [in |-> run[r].of, by |-> r, posted |-> TRUE] \in Message
      BY <2>1 DEF Message
    <2> QED
      BY <1>5, <2>2, RowsHeld, FibersHeld DEF FinishAnswer, SaidGrows
  <1>6. ASSUME NEW t \in Threads, Say(t) PROVE SaidGrows /\ MarksKept /\ HandKept
    <2>1. [in |-> t, by |-> User, posted |-> FALSE] \in Message
      BY DEF Message
    <2> QED
      BY <1>6, <2>1, RowsHeld, FibersHeld DEF Say, SaidGrows
  <1>7. ASSUME NEW p \in DOMAIN said, Committed(p)
        PROVE  SaidGrows /\ MarksKept /\ HandKept
    BY <1>7, RowsHeld, FibersHeld DEF Committed, SaidGrows
  <1> QED
    BY <1>1, <1>2, <1>3, <1>4, <1>5, <1>6, <1>7 DEF LoopStep

LEMMA NextCases ==
  ASSUME Next
  PROVE  \/ \E t \in Threads : Elsewhere(t) \/ ReadUnread(t) \/ Advance(t)
         \/ LoopStep \/ Crash
         \/ \E t \in Threads : Say(t) \/ FileStop(t) \/ HarnessAnswers(t)
         \/ \E r \in RunIds : BotReads(r)
         \/ \E p \in DOMAIN said : Committed(p)
  BY DEF Next, FiberStep, Elsewhere, Disturb

(* Who writes what.                                                          *)
RunWriter ==
  \/ run' = run
  \/ \E t \in Threads : CloseRow(t) \/ HarnessAnswers(t) \/ Create(t)
  \/ \E r \in RunIds : LoseRow(r)
  \/ StopClosed
RowWriter ==
  \/ lastRun' = lastRun
  \/ lastRun' = lastRun + 1 /\ \E t \in Threads : Create(t) /\ LiveOn(t) = {}
SessWriter ==
  \/ sess' = sess \/ FinishEnd
  \/ \E t \in Threads : Attach(t) \/ Advance(t) \/ RecordProvider(t) \/ CloseSession(t)
NewSessWriter == lastSess' = lastSess \/ \E t \in Threads : Attach(t) /\ fiber[t].sess = None
SaidWriter ==
  \/ said' = said
  \/ \E t \in Threads : Say(t) \/ StoreAnswer(t)
  \/ \E r \in RunIds : FinishAnswer(r)
  \/ \E p \in DOMAIN said : Committed(p)
LoopWriter ==
  \/ loop' = loop
  \/ \E t \in Threads : TakeStop(t)
  \/ Killed \/ StopMarked \/ Crash \/ Boot \/ StopClosed \/ ReadQueue \/ Fork
  \/ Reconciled \/ FinishEnd \/ \E r \in RunIds : LoseRow(r) \/ FinishAnswer(r)
EventWriter == event' = event \/ StopMarked \/ \E t \in Threads : TurnEnds(t)
BotWriter ==
  \/ silent' = silent /\ hasty' = hasty
  \/ \E r \in RunIds : BotReads(r) /\ silent' = silent \cup {r}

Writers ==
  /\ RunWriter /\ RowWriter /\ SessWriter /\ NewSessWriter
  /\ SaidWriter /\ LoopWriter /\ EventWriter /\ BotWriter
  /\ event \subseteq event' /\ cut \subseteq cut'

LEMMA FiberWriters ==
  ASSUME NEW t \in Threads, Elsewhere(t) \/ ReadUnread(t) \/ Advance(t)
  PROVE  Writers
  <1> USE DEF Writers, RunWriter, RowWriter, SessWriter, NewSessWriter, SaidWriter,
              LoopWriter, EventWriter, BotWriter
  <1>1. CASE Plan(t)
    BY <1>1 DEF Plan, rows
  <1>2. CASE Admit(t)
    BY <1>2 DEF Admit, rows
  <1>3. CASE Attach(t)
    BY <1>3 DEF Attach, rows
  <1>4. CASE Create(t)
    BY <1>4 DEF Create, rows
  <1>5. CASE BeginTurn(t)
    BY <1>5 DEF BeginTurn, rows
  <1>6. CASE TurnEnds(t)
    BY <1>6 DEF TurnEnds, rows
  <1>7. CASE Interrupted(t)
    BY <1>7 DEF Interrupted, rows
  <1>8. CASE RecordProvider(t)
    BY <1>8 DEF RecordProvider, rows
  <1>9. CASE StoreAnswer(t)
    BY <1>9 DEF StoreAnswer, rows
  <1>10. CASE CloseRow(t)
    BY <1>10 DEF CloseRow, rows
  <1>11. CASE CloseSession(t)
    BY <1>11 DEF CloseSession, rows
  <1>12. CASE DispatchFails(t)
    BY <1>12 DEF DispatchFails, rows
  <1>13. CASE PromptFails(t)
    BY <1>13 DEF PromptFails, rows
  <1>14. CASE WriteRefused(t)
    BY <1>14 DEF WriteRefused, rows
  <1>15. CASE ReadUnread(t)
    BY <1>15 DEF ReadUnread, rows
  <1>16. CASE Advance(t)
    BY <1>16 DEF Advance, rows
  <1> QED
    BY <1>1, <1>2, <1>3, <1>4, <1>5, <1>6, <1>7, <1>8,
       <1>9, <1>10, <1>11, <1>12, <1>13, <1>14, <1>15, <1>16 DEF Elsewhere

LEMMA LoopWriters ==
  ASSUME LoopStep \/ Crash
  PROVE  Writers
  <1> USE DEF Writers, RunWriter, RowWriter, SessWriter, NewSessWriter, SaidWriter,
              LoopWriter, EventWriter, BotWriter
  <1>1. CASE Boot
    BY <1>1 DEF Boot, rows
  <1>2. CASE Reconciled
    BY <1>2 DEF Reconciled, rows
  <1>3. CASE FinishEnd
    BY <1>3 DEF FinishEnd, rows
  <1>4. CASE Killed
    BY <1>4 DEF Killed, rows
  <1>5. CASE StopMarked
    BY <1>5 DEF StopMarked, rows
  <1>6. CASE StopClosed
    BY <1>6 DEF StopClosed, rows
  <1>7. CASE ReadQueue
    BY <1>7 DEF ReadQueue, rows
  <1>8. CASE Fork
    BY <1>8 DEF Fork, rows
  <1>9. CASE Crash
    BY <1>9 DEF Crash, rows
  <1>10. ASSUME NEW r \in RunIds, LoseRow(r) \/ FinishAnswer(r) PROVE Writers
    BY <1>10 DEF LoseRow, FinishAnswer
  <1>11. ASSUME NEW t \in Threads, TakeStop(t) PROVE Writers
    BY <1>11 DEF TakeStop, rows
  <1> QED
    BY <1>1, <1>2, <1>3, <1>4, <1>5, <1>6, <1>7, <1>8, <1>9, <1>10, <1>11 DEF LoopStep

LEMMA WritersHold ==
  ASSUME Next
  PROVE  Writers
  <1>1. ASSUME NEW t \in Threads, Say(t) \/ FileStop(t) \/ HarnessAnswers(t)
        PROVE  Writers
    BY <1>1 DEF Say, FileStop, HarnessAnswers, rows, Writers, RunWriter, RowWriter,
                SessWriter, NewSessWriter, SaidWriter, LoopWriter, EventWriter, BotWriter
  <1>2. ASSUME NEW r \in RunIds, BotReads(r) PROVE Writers
    BY <1>2 DEF BotReads, rows, Writers, RunWriter, RowWriter,
                SessWriter, NewSessWriter, SaidWriter, LoopWriter, EventWriter, BotWriter
  <1>3. ASSUME NEW p \in DOMAIN said, Committed(p) PROVE Writers
    BY <1>3 DEF Committed, Writers, RunWriter, RowWriter,
                SessWriter, NewSessWriter, SaidWriter, LoopWriter, EventWriter, BotWriter
  <1> QED
    BY <1>1, <1>2, <1>3, FiberWriters, LoopWriters, NextCases

-----------------------------------------------------------------------------
(* The watermark.                                                            *)

ShownInv ==
  /\ TypeInv
  /\ \A t \in Threads : Handed(t)
  /\ WatermarkIsShown

LEMMA InitShown == Init => ShownInv
  <1> SUFFICES ASSUME Init PROVE ShownInv
    OBVIOUS
  <1>1. said = <<>> /\ lastSess = 0 /\ lastRun = 0 /\ fiber = [t \in Threads |-> NoFiber]
    BY DEF Init
  <1>2. PICK t \in Threads :
          /\ sess = [s \in SessionIds |-> [of |-> t, status |-> "absent",
                                           mark |-> 0, provider |-> FALSE]]
          /\ run = [r \in RunIds |-> [of |-> t, sess |-> None, state |-> "absent"]]
    BY DEF Init
  <1>3. sess \in [SessionIds -> Session] /\ \A s \in SessionIds : sess[s].mark = 0
    BY <1>2 DEF Session
  <1>4. run \in [RunIds -> Run]
    BY <1>2 DEF Run
  <1>5. fiber \in [Threads -> Fiber]
        /\ \A u \in Threads : PlacedIn(fiber[u], u, sess, lastSess, lastRun)
    BY <1>1, NoFiberPlaced
  <1>6. loop \in Loop /\ loop.step = "idle"
    BY LoopAtType DEF Init, LoopAt
  <1>7. budget \in [Disturbances -> Nat]
    BY BoundsAssumption DEF Init
  <1>8. /\ stop = {} /\ event = {} /\ silent = {} /\ hasty = {} /\ cut = {}
        /\ shown = [s \in SessionIds |-> {}] /\ beside = [s \in SessionIds |-> {}]
    BY DEF Init
  <1>9. said \in Seq(Message) /\ Len(said) = 0
    BY <1>1
  <1>10. TypeInv
    BY <1>1, <1>3, <1>4, <1>5, <1>6, <1>7, <1>8, <1>9, IdsFact DEF TypeInv, TypeOK, Placed
  <1>11. \A u \in Threads : Handed(u)
    BY <1>1 DEF Handed, At, NoFiber
  <1>12. WatermarkIsShown
    BY <1>1 DEF WatermarkIsShown
  <1> QED
    BY <1>10, <1>11, <1>12 DEF ShownInv

(* A step that neither reads nor advances leaves every prompt in hand as it    *)
(* was: what is said from now on is beyond all of it.                        *)
LEMMA HandedKept ==
  ASSUME ShownInv, SaidGrows, MarksKept, HandKept
  PROVE  (\A t \in Threads : Handed(t))' /\ WatermarkIsShown'
  <1> USE DEF ShownInv
  <1>0. /\ TypeOK /\ StampsGrow /\ \A t : Stamped(t) \subseteq Stamped(t)'
        /\ DOMAIN said' \subseteq Nat \ {0}
    BY SaidFact DEF TypeInv
  <1>1. ASSUME NEW t \in Threads, fiber'[t].step = "advance"
        PROVE  /\ fiber'[t].unread \subseteq Stamped(t)'
               /\ \A p \in Stamped(t)', u \in fiber'[t].unread :
                    p > sess'[fiber'[t].sess].mark /\ p <= u
                      => p \in fiber'[t].unread \cup beside'[fiber'[t].sess]
    <2>1. /\ fiber[t].step = "advance"
          /\ fiber'[t].unread = fiber[t].unread /\ fiber'[t].sess = fiber[t].sess
      BY <1>1 DEF HandKept
    <2>2. fiber[t].sess \in 1..lastSess
      BY <2>1, FiberHas DEF WithRun, InTurn
    <2>3. /\ sess'[fiber[t].sess].mark = sess[fiber[t].sess].mark
          /\ beside'[fiber[t].sess] = beside[fiber[t].sess]
      BY <2>2 DEF MarksKept
    <2>4. fiber[t].unread \subseteq Stamped(t) /\ Stamped(t) \subseteq 1..Len(said)
          /\ Len(said) \in Nat
      BY <1>0, <2>1, PositionsFact DEF Handed, At
    <2>5. ASSUME NEW p \in Stamped(t)', NEW u \in fiber[t].unread, p <= u
          PROVE  p \in Stamped(t)
      <3>1. u \in 1..Len(said)
        BY <2>4
      <3>2. p \in Nat
        BY <1>0, <2>4 DEF StampsGrow, Stamped, SaidGrows
      <3> QED
        BY <1>0, <2>4, <2>5, <3>1, <3>2 DEF StampsGrow
    <2> QED
      BY <1>0, <2>1, <2>3, <2>4, <2>5 DEF Handed, At
  <1>2. ASSUME NEW s \in 1..lastSess', NEW p \in Stamped(sess[s].of)', p <= sess'[s].mark
        PROVE  p \in shown'[s] \cup beside'[s]
    <2>1. CASE s \in 1..lastSess
      <3>1. /\ sess'[s].of = sess[s].of /\ sess'[s].mark = sess[s].mark
            /\ shown'[s] = shown[s] /\ beside'[s] = beside[s]
        BY <2>1 DEF MarksKept
      <3>2. s \in SessionIds /\ sess[s].mark \in Nat /\ sess[s].mark <= Len(said)
            /\ sess[s].of \in Threads /\ Len(said) \in Nat
        BY <1>0, <2>1, RowIdsFact, PositionsFact DEF TypeOK, Session
      <3>3. p \in Stamped(sess[s].of)
        <4>1. PICK u \in Threads : u = sess[s].of
          BY <3>2
        <4>2. p \in Stamped(u)'
          BY <3>1, <4>1 DEF Stamped
        <4>3. p <= Len(said) /\ p \in Nat
          BY <1>0, <1>2, <3>1, <3>2 DEF Stamped
        <4>4. p \in Stamped(u)
          BY <1>0, <3>2, <4>2, <4>3 DEF StampsGrow
        <4> QED
          BY <4>1, <4>4
      <3> QED
        BY <1>2, <2>1, <3>1, <3>3 DEF WatermarkIsShown
    <2>2. CASE s \notin 1..lastSess
      BY <1>0, <1>2, <2>2 DEF MarksKept, Stamped
    <2> QED
      BY <2>1, <2>2
  <1> QED
    BY <1>1, <1>2 DEF Handed, At, WatermarkIsShown

LEMMA ReadUnreadShown ==
  ASSUME ShownInv, NEW t \in Threads, ReadUnread(t)
  PROVE  (\A u \in Threads : Handed(u))' /\ WatermarkIsShown'
  <1> USE DEF ShownInv
  <1> DEFINE s == fiber[t].sess
             unread == After(t, sess[s].mark)
             passed == {p \in Stamped(t) \ Positions(t) : p < Newest(unread)}
  <1>1. UNCHANGED <<said, sess, lastSess, shown>> /\ fiber[t].step = "prompt"
    BY DEF ReadUnread, rows, At
  <1>2. /\ fiber' = [fiber EXCEPT ![t].step = "advance", ![t].unread = unread]
        /\ beside' = [beside EXCEPT ![s] = {p \in @ : p <= sess[s].mark} \cup passed]
    BY DEF ReadUnread
  <1>3. s \in SessionIds /\ sess[s].of = t
    BY <1>1, FiberHas DEF WithRun, InTurn
  <1>4. /\ \A x \in SessionIds \ {s} : beside'[x] = beside[x]
        /\ beside'[s] = {p \in beside[s] : p <= sess[s].mark} \cup passed
    <2> HIDE DEF s, passed
    <2> QED
      BY <1>2, <1>3 DEF TypeInv, TypeOK
  <1>5. ASSUME NEW p \in Stamped(t), NEW u \in unread, p > sess[s].mark, p <= u
        PROVE  p \in unread \cup beside'[s]
    <2>1. CASE p \in Positions(t)
      BY <1>5, <2>1 DEF After
    <2>2. CASE p \notin Positions(t)
      <3>1. unread \in SUBSET (0..Len(said)) /\ Len(said) \in Nat /\ u \in Positions(t)
            /\ p \in Nat
        BY PositionsFact DEF After, TypeInv
      <3>2. Newest(unread) \in unread /\ u <= Newest(unread)
        <4> HIDE DEF unread
        <4> QED
          BY <3>1, NewestIsLast
      <3>3. p # u /\ u \in Nat /\ Newest(unread) \in Nat
        BY <2>2, <3>1, <3>2
      <3>4. p < Newest(unread)
        <4> HIDE DEF unread
        <4> QED
          BY <1>5, <3>1, <3>2, <3>3
      <3> QED
        BY <1>4, <2>2, <3>4
    <2> QED
      BY <2>1, <2>2
  <1>6. ASSUME NEW u \in Threads PROVE Handed(u)'
    <2>1. CASE u = t
      <3>1. fiber'[t].unread = unread /\ fiber'[t].sess = s
        <4> HIDE DEF unread
        <4> QED
          BY <1>2, FiberOf DEF TypeInv, TypeOK, Fiber
      <3>2. unread \subseteq Stamped(t)
        BY PositionsFact DEF After, TypeInv
      <3>3. Stamped(t)' = Stamped(t)
        BY <1>1 DEF Stamped
      <3> HIDE DEF unread
      <3> QED
        BY <1>1, <1>5, <2>1, <3>1, <3>2, <3>3 DEF Handed
    <2>2. CASE u # t
      <3>1. fiber'[u] = fiber[u]
        BY <1>2, <2>2 DEF TypeInv, TypeOK
      <3>2. CASE fiber[u].step = "advance"
        <4>1. fiber[u].sess \in SessionIds /\ sess[fiber[u].sess].of = u
          BY <3>2, FiberHas DEF WithRun, InTurn
        <4>2. beside'[fiber[u].sess] = beside[fiber[u].sess]
          BY <1>3, <1>4, <2>2, <4>1
        <4> QED
          BY <1>1, <3>1, <4>2 DEF Handed, At, Stamped
      <3> QED
        BY <3>1, <3>2 DEF Handed, At
    <2> QED
      BY <2>1, <2>2
  <1>7. ASSUME NEW x \in 1..lastSess, NEW p \in Stamped(sess[x].of), p <= sess[x].mark
        PROVE  p \in shown[x] \cup beside'[x]
    <2>1. p \in shown[x] \cup beside[x] /\ x \in SessionIds
      BY <1>7, RowIdsFact DEF WatermarkIsShown, TypeInv
    <2> HIDE DEF passed
    <2> QED
      BY <1>4, <1>7, <2>1
  <1>8. WatermarkIsShown'
    BY <1>1, <1>7 DEF WatermarkIsShown, Stamped
  <1> QED
    BY <1>6, <1>8

LEMMA AdvanceShown ==
  ASSUME ShownInv, NEW t \in Threads, Advance(t)
  PROVE  (\A u \in Threads : Handed(u))' /\ WatermarkIsShown'
  <1> USE DEF ShownInv
  <1> DEFINE s == fiber[t].sess
             unread == fiber[t].unread
  <1>1. /\ s \in 1..lastSess /\ s \in SessionIds /\ sess[s].of = t
        /\ shown' = [shown EXCEPT ![s] = @ \cup unread]
        /\ sess' \in [SessionIds -> Session]
        /\ \A x \in SessionIds : sess'[x].of = sess[x].of
        /\ \A x \in SessionIds \ {s} : sess'[x] = sess[x]
        /\ \/ sess'[s].mark = sess[s].mark
           \/ /\ sess'[s].mark \in unread /\ sess'[s].mark <= Len(said)
              /\ \A p \in unread : p <= sess'[s].mark
    BY AdvanceFact
  <1>2. said' = said /\ lastSess' = lastSess /\ beside' = beside
        /\ fiber' = [fiber EXCEPT ![t].step = "turn", ![t].unread = {}]
        /\ fiber[t].step = "advance"
    BY DEF Advance, At
  <1>3. ASSUME NEW u \in Threads PROVE Handed(u)'
    <2>1. CASE u = t
      <3>1. fiber'[t].step = "turn"
        BY <1>2, FiberOf DEF TypeInv, TypeOK, Fiber
      <3> QED
        BY <2>1, <3>1 DEF Handed, At
    <2>2. CASE u # t
      <3>1. fiber'[u] = fiber[u]
        BY <1>2, <2>2 DEF TypeInv, TypeOK
      <3>2. CASE fiber[u].step = "advance"
        <4>1. fiber[u].sess \in SessionIds /\ sess[fiber[u].sess].of = u
          BY <3>2, FiberHas DEF WithRun, InTurn
        <4>2. sess'[fiber[u].sess] = sess[fiber[u].sess]
          BY <1>1, <2>2, <4>1
        <4> QED
          BY <1>2, <3>1, <4>2 DEF Handed, At, Stamped
      <3> QED
        BY <3>1, <3>2 DEF Handed, At
    <2> QED
      BY <2>1, <2>2
  <1>4. ASSUME NEW x \in 1..lastSess, NEW p \in Stamped(sess[x].of), p <= sess'[x].mark
        PROVE  p \in shown'[x] \cup beside'[x]
    <2>1. x \in SessionIds /\ shown \in [SessionIds -> SUBSET Nat] /\ p \in Nat
          /\ sess[x].mark \in Nat
      BY RowIdsFact, PositionsFact DEF TypeInv, TypeOK, Session, Stamped
    <2>2. beside'[x] = beside[x] /\ shown[x] \subseteq shown'[x]
          /\ (x = s => unread \subseteq shown'[x])
      <3> HIDE DEF s, unread
      <3> QED
        BY <1>1, <1>2, <2>1
    <2>3. CASE p <= sess[x].mark
      BY <2>2, <2>3 DEF WatermarkIsShown
    <2>4. CASE ~(p <= sess[x].mark)
      <3>1. x = s /\ sess'[s].mark \in unread
        BY <1>1, <1>4, <2>1, <2>4
      <3>2. p \in unread \cup beside[s]
        BY <1>1, <1>2, <1>4, <2>1, <2>4, <3>1 DEF Handed, At
      <3> QED
        BY <2>2, <3>1, <3>2
    <2> QED
      BY <2>3, <2>4
  <1>5. WatermarkIsShown'
    <2>1. \A x \in 1..lastSess : sess'[x].of = sess[x].of
      BY <1>1, RowIdsFact DEF TypeInv
    <2> QED
      BY <1>2, <1>4, <2>1 DEF WatermarkIsShown, Stamped
  <1> QED
    BY <1>3, <1>5

LEMMA TypeStep ==
  ASSUME ShownInv, Next
  PROVE  TypeInv'
  <1> USE DEF ShownInv
  <1>1. ASSUME NEW t \in Threads, Elsewhere(t) \/ ReadUnread(t) \/ Advance(t)
        PROVE  TypeInv'
    BY <1>1, PlanType, AttachType, CreateType, PromptType, AdvanceType, TurnType,
       CloseOutType DEF Elsewhere
  <1>2. CASE LoopStep \/ Crash
    BY <1>2, BootType, LoopType, ForkType, TakeStopType, CrashType DEF LoopStep
  <1>3. ASSUME NEW t \in Threads, Say(t) \/ FileStop(t) \/ HarnessAnswers(t)
        PROVE  TypeInv'
    BY <1>3, PeopleType, TurnType
  <1>4. ASSUME NEW r \in RunIds, BotReads(r) PROVE TypeInv'
    BY <1>4, BotType
  <1>5. ASSUME NEW p \in DOMAIN said, Committed(p) PROVE TypeInv'
    BY <1>5, PostType
  <1> QED
    BY <1>1, <1>2, <1>3, <1>4, <1>5, NextCases

LEMMA ShownStep ==
  ASSUME ShownInv, [Next]_vars
  PROVE  ShownInv'
  <1>1. CASE UNCHANGED vars
    BY <1>1 DEF vars, rows, ShownInv, TypeInv, TypeOK, Placed, Handed, At, Stamped,
                WatermarkIsShown
  <1>2. CASE Next
    <2>1. TypeInv'
      BY <1>2, TypeStep
    <2>2. (\A t \in Threads : Handed(t))' /\ WatermarkIsShown'
      <3>1. ASSUME NEW t \in Threads, Elsewhere(t)
            PROVE  (\A u \in Threads : Handed(u))' /\ WatermarkIsShown'
        BY <3>1, ElsewhereKeeps, HandedKept DEF ShownInv
      <3>2. CASE \/ LoopStep \/ Crash
                 \/ \E t \in Threads : Say(t) \/ FileStop(t) \/ HarnessAnswers(t)
                 \/ \E r \in RunIds : BotReads(r)
                 \/ \E p \in DOMAIN said : Committed(p)
        BY <3>2, LoopKeeps, HandedKept DEF ShownInv
      <3> QED
        BY <1>2, <3>1, <3>2, NextCases, ReadUnreadShown, AdvanceShown
    <2> QED
      BY <2>1, <2>2 DEF ShownInv
  <1> QED
    BY <1>1, <1>2

LEMMA ShownAlways == Spec => []ShownInv
  BY InitShown, ShownStep, PTL DEF Spec

(* Every variable keeps its type (TypeOK): among that, no session's watermark   *)
(* is beyond the last message.                                               *)
THEOREM TypeCorrect == Spec => []TypeOK
  BY ShownAlways, PTL DEF ShownInv, TypeInv

(* WatermarkIsShown: between a prompt's read and its advance words may begin    *)
(* and commit, other turns may end, the loop may crash; a session's watermark  *)
(* still passes no message of its thread but what a prompt of it was built     *)
(* from and what the read passed because its transaction was still open.      *)
THEOREM WatermarkCorrect == Spec => []WatermarkIsShown
  BY ShownAlways, PTL DEF ShownInv

-----------------------------------------------------------------------------
(* The run rows of the chat lane: every step is a step of RunLedger or leaves  *)
(* them alone.                                                               *)

OnLedger == [Ledger!LedgerNext]_(Ledger!ledger)

LEMMA RowsAlone ==
  ASSUME run' = run, lastRun' = lastRun
  PROVE  OnLedger
  BY DEF OnLedger, Ledger!ledger

LEMMA CloseIsEnd ==
  ASSUME TypeOK, NEW r, NEW e \in Endings, Close(r, e), lastRun' = lastRun
  PROVE  OnLedger
  <1>1. CASE Live(r) /\ r \in RunIds
    <2>1. run' = [run EXCEPT ![r].state = e]
      BY <1>1 DEF Close
    <2>2. /\ [x \in RunIds |-> run'[x].of] = [x \in RunIds |-> run[x].of]
          /\ [x \in RunIds |-> run'[x].state]
             = [[x \in RunIds |-> run[x].state] EXCEPT ![r] = e]
      BY <1>1, <2>1 DEF TypeOK, Run
    <2>3. Ledger!Live(r)
      BY <1>1 DEF Live, LiveStates, Ledger!Live
    <2>4. Ledger!End(r)
      BY <2>2, <2>3 DEF Ledger!End, Endings, TurnEndings
    <2> QED
      BY <1>1, <2>4 DEF OnLedger, Ledger!LedgerNext, RunIds
  <1>2. CASE ~(Live(r) /\ r \in RunIds)
    <2>1. run' = run
      BY <1>2 DEF Close, TypeOK
    <2> QED
      BY <2>1, RowsAlone
  <1> QED
    BY <1>1, <1>2

LEMMA CreateOnLedger ==
  ASSUME TypeInv, NEW t \in Threads, Create(t)
  PROVE  OnLedger
  <1>1. CASE LiveOn(t) = {}
    <2> DEFINE new == [of |-> t, sess |-> fiber[t].sess, state |-> "queued"]
    <2>1. lastRun < MaxRuns /\ lastRun' = lastRun + 1
          /\ run' = [run EXCEPT ![lastRun'] = new]
      BY <1>1 DEF Create
    <2>2. lastRun' \in RunIds /\ new.of = t /\ new.state = "queued"
      BY <2>1, IdsFact DEF TypeInv, TypeOK, RunIds
    <2> HIDE DEF new
    <2>3. /\ [x \in RunIds |-> run'[x].of]
             = [[x \in RunIds |-> run[x].of] EXCEPT ![lastRun'] = t]
          /\ [x \in RunIds |-> run'[x].state]
             = [[x \in RunIds |-> run[x].state] EXCEPT ![lastRun'] = "queued"]
      BY <2>1, <2>2 DEF TypeInv, TypeOK, Run
    <2>4. \A r \in 1..lastRun : Ledger!Live(r) => [x \in RunIds |-> run[x].of][r] # t
      BY <1>1, RowIdsFact DEF TypeInv, LiveOn, Live, LiveStates, Ledger!Live
    <2>5. Ledger!Create(t)
      BY <2>1, <2>3, <2>4 DEF Ledger!Create
    <2> QED
      BY <2>5 DEF OnLedger, Ledger!LedgerNext
  <1>2. CASE LiveOn(t) # {}
    BY <1>2, RowsAlone DEF Create
  <1> QED
    BY <1>1, <1>2

LEMMA AnswerOnLedger ==
  ASSUME TypeInv, NEW t \in Threads, HarnessAnswers(t)
  PROVE  OnLedger
  <1>1. PICK r \in RunIds : r = fiber[t].run
    BY FiberHas DEF HarnessAnswers, At, WithRun, InTurn
  <1>2. run[r].state = "queued" /\ lastRun' = lastRun
        /\ run' = [run EXCEPT ![r].state = "running"]
    BY <1>1 DEF HarnessAnswers
  <1>3. /\ [x \in RunIds |-> run'[x].of] = [x \in RunIds |-> run[x].of]
        /\ [x \in RunIds |-> run'[x].state]
           = [[x \in RunIds |-> run[x].state] EXCEPT ![r] = "running"]
    BY <1>1, <1>2 DEF TypeInv, TypeOK, Run
  <1>4. Ledger!Start(r)
    BY <1>1, <1>2, <1>3 DEF Ledger!Start
  <1> QED
    BY <1>1, <1>4 DEF OnLedger, Ledger!LedgerNext, RunIds

LEMMA NextOnLedger ==
  ASSUME TypeInv, [Next]_vars
  PROVE  OnLedger
  <1> USE DEF TypeInv
  <1>1. CASE UNCHANGED vars
    BY <1>1, RowsAlone DEF vars, rows
  <1>2. ASSUME NEW t \in Threads, Elsewhere(t) \/ ReadUnread(t) \/ Advance(t)
        PROVE  OnLedger
    <2>1. CASE CloseRow(t)
      <3>1. fiber[t].ending \in Endings
        BY FiberOf DEF Fiber
      <3> QED
        BY <2>1, <3>1, CloseIsEnd DEF CloseRow
    <2>2. CASE Create(t)
      BY <2>2, CreateOnLedger
    <2>3. CASE ~CloseRow(t) /\ ~Create(t)
      <3>1. run' = run /\ lastRun' = lastRun
        BY <1>2, <2>3 DEF Elsewhere, Plan, Admit, Attach, BeginTurn, TurnEnds, Interrupted,
           RecordProvider, StoreAnswer, CloseSession, DispatchFails, PromptFails,
           WriteRefused, ReadUnread, Advance, rows
      <3> QED
        BY <3>1, RowsAlone
    <2> QED
      BY <2>1, <2>2, <2>3
  <1>3. CASE LoopStep \/ Crash
    <2>1. CASE StopClosed
      BY <2>1, CloseIsEnd DEF StopClosed, Endings
    <2>2. CASE \E r \in RunIds : LoseRow(r)
      BY <2>2, CloseIsEnd DEF LoseRow, Endings, TurnEndings
    <2>3. CASE ~StopClosed /\ ~(\E r \in RunIds : LoseRow(r))
      <3>1. run' = run /\ lastRun' = lastRun
        BY <1>3, <2>3 DEF LoopStep, Boot, Reconciled, FinishEnd, Killed, StopMarked,
           ReadQueue, Fork, FinishAnswer, TakeStop, Crash, rows
      <3> QED
        BY <3>1, RowsAlone
    <2> QED
      BY <2>1, <2>2, <2>3
  <1>4. ASSUME NEW t \in Threads, Say(t) \/ FileStop(t) \/ HarnessAnswers(t)
        PROVE  OnLedger
    BY <1>4, AnswerOnLedger, RowsAlone DEF Say, FileStop, rows
  <1>5. ASSUME NEW r \in RunIds, BotReads(r) PROVE OnLedger
    BY <1>5, RowsAlone DEF BotReads, rows
  <1>6. ASSUME NEW p \in DOMAIN said, Committed(p) PROVE OnLedger
    BY <1>6, RowsAlone DEF Committed
  <1> QED
    BY <1>1, <1>2, <1>3, <1>4, <1>5, <1>6, NextCases

(* LedgerImplemented of Conversation: the loop, a stop, a boot and the turns    *)
(* themselves all close rows, and a row still ends once, one live row a thread.*)
THEOREM ChatImplementsLedger == Spec => LedgerImplemented
  <1>1. Init => Ledger!LedgerInit
    <2> SUFFICES ASSUME Init PROVE Ledger!LedgerInit
      OBVIOUS
    <2>1. PICK t \in Threads :
            run = [r \in RunIds |-> [of |-> t, sess |-> None, state |-> "absent"]]
      BY DEF Init
    <2> QED
      BY <2>1 DEF Init, Ledger!LedgerInit, RunIds
  <1>2. ShownInv /\ [Next]_vars => [Ledger!LedgerNext]_(Ledger!ledger)
    BY NextOnLedger DEF ShownInv, OnLedger
  <1> QED
    BY <1>1, <1>2, ShownAlways, PTL DEF Spec, LedgerImplemented, Ledger!LedgerSpec

-----------------------------------------------------------------------------
(* The answer and the row. A turn that may still speak has a live row of its   *)
(* own thread, and nobody else closes that row under it.                     *)

Speaking == {"opened"} \cup InTurn \cup {"record", "answer", "close"}

Busy ==
  \A t \in Threads : fiber[t].step \in Speaking =>
    Live(fiber[t].run) /\ run[fiber[t].run].of = t

LoopAlone ==
  /\ loop.step \in {"off", "lose", "finish", "end"} =>
       \A t \in Threads : fiber[t].step = "none"
  /\ loop.step \in {"marker", "bury"} => fiber[run[loop.target].of].step = "none"

LostAreLost ==
  /\ \A r \in loop.finish : run[r].state = "lost"
  /\ loop.step = "end" => run[loop.target].state = "lost"

RowsInOrder ==
  /\ \A r \in RunIds : r > lastRun => run[r].state = "absent"
  /\ event \subseteq 1..lastRun
  /\ loop.step \in {"killing", "marker", "bury"} => loop.target \in 1..lastRun

Over == hasty \subseteq silent /\ silent \subseteq event
        /\ \A r \in silent \ hasty : ~Live(r)

(* What a step does to the fibers.                                           *)
StillSpeaks ==
  \A u \in Threads : fiber'[u].step \in Speaking =>
    \/ fiber[u].step \in Speaking /\ fiber'[u].run = fiber[u].run
    \/ Create(u) /\ LiveOn(u) = {} /\ fiber'[u].run = lastRun'

StaysNone == \A u \in Threads : fiber[u].step = "none" => fiber'[u].step = "none"

LEMMA FiberSpeaks ==
  ASSUME TypeOK, NEW t \in Threads, NEW f, fiber' = [fiber EXCEPT ![t] = f],
         fiber[t].step # "none",
         f.step \in Speaking =>
           \/ fiber[t].step \in Speaking /\ f.run = fiber[t].run
           \/ Create(t) /\ LiveOn(t) = {} /\ f.run = lastRun'
  PROVE  StillSpeaks /\ StaysNone
  BY DEF TypeOK, StillSpeaks, StaysNone

LEMMA FibersSpeak == fiber' = fiber => StillSpeaks /\ StaysNone
  BY DEF StillSpeaks, StaysNone

LEMMA LeaveSpeaks ==
  ASSUME TypeOK, NEW t \in Threads, Leave(t), fiber[t].step # "none"
  PROVE  StillSpeaks /\ StaysNone
  <1>1. NoFiber.step \notin Speaking /\ fiber' = [fiber EXCEPT ![t] = NoFiber]
    BY DEF NoFiber, Speaking, InTurn, Leave
  <1> QED
    BY <1>1, FiberSpeaks

LEMMA GotoSpeaks ==
  ASSUME TypeOK, NEW t \in Threads, NEW step, Goto(t, step), fiber[t].step # "none",
         step \in Speaking => fiber[t].step \in Speaking
  PROVE  StillSpeaks /\ StaysNone
  <1> DEFINE f == [fiber[t] EXCEPT !.step = step]
  <1>1. fiber' = [fiber EXCEPT ![t] = f]
    BY DEF Goto, TypeOK
  <1>2. f.step = step /\ f.run = fiber[t].run
    BY FiberOf DEF Fiber
  <1> HIDE DEF f
  <1> QED
    BY <1>1, <1>2, FiberSpeaks

LEMMA ProceedSpeaks ==
  ASSUME TypeOK, NEW t \in Threads, Proceed(t), fiber[t].step \in Terminal
  PROVE  StillSpeaks /\ StaysNone
  <1>1. Following(fiber[t].step) \in Speaking => fiber[t].step \in Speaking
    BY DEF Following, Terminal, Speaking, InTurn
  <1>2. fiber[t].step # "none"
    BY DEF Terminal
  <1> QED
    BY <1>1, <1>2, LeaveSpeaks, GotoSpeaks DEF Proceed

LEMMA ElsewhereSpeaks ==
  ASSUME TypeInv, NEW t \in Threads, Elsewhere(t) \/ ReadUnread(t) \/ Advance(t)
  PROVE  StillSpeaks /\ StaysNone
  <1> USE DEF TypeInv
  <1>0. fiber[t] \in Fiber
    BY FiberOf
  <1>1. CASE RecordProvider(t) \/ StoreAnswer(t) \/ CloseRow(t) \/ CloseSession(t)
             \/ WriteRefused(t)
    BY <1>1, ProceedSpeaks DEF RecordProvider, StoreAnswer, CloseRow, CloseSession,
                               WriteRefused, At, Terminal
  <1>2. CASE Plan(t) \/ DispatchFails(t) \/ BeginTurn(t)
    <2>1. fiber[t].step # "none"
      BY <1>2 DEF Plan, DispatchFails, BeginTurn, At, BeforeRow
    <2>2. \/ Leave(t) \/ Goto(t, "admit")
          \/ Goto(t, "prompt") /\ fiber[t].step \in Speaking
      BY <1>2 DEF Plan, DispatchFails, BeginTurn, At, Speaking
    <2>3. "admit" \notin Speaking
      BY DEF Speaking, InTurn
    <2> QED
      BY <2>1, <2>2, <2>3, LeaveSpeaks, GotoSpeaks
  <1>3. CASE Admit(t)
    <2>1. fiber[t].step # "none"
      BY <1>3 DEF Admit, At
    <2>2. CASE Leave(t)
      BY <2>1, <2>2, LeaveSpeaks
    <2>3. CASE ~Leave(t)
      <3> DEFINE f == [fiber[t] EXCEPT !.step = "attach", !.sess = Chosen(t)]
      <3>1. fiber' = [fiber EXCEPT ![t] = f]
        BY <1>3, <2>3 DEF Admit, TypeOK
      <3>2. f.step \notin Speaking
        BY <1>0 DEF Fiber, Speaking, InTurn
      <3> HIDE DEF f
      <3> QED
        BY <2>1, <3>1, <3>2, FiberSpeaks
    <2> QED
      BY <2>2, <2>3
  <1>4. CASE Attach(t)
    <2>1. fiber[t].step # "none"
      BY <1>4 DEF Attach, At
    <2>2. \E f : fiber' = [fiber EXCEPT ![t] = f] /\ f.step = "create"
      <3>1. CASE fiber[t].sess # None
        <4> DEFINE f == [fiber[t] EXCEPT !.step = "create",
                                         !.resumed = sess[fiber[t].sess].provider]
        <4>1. fiber' = [fiber EXCEPT ![t] = f] /\ f.step = "create"
          BY <1>0, <1>4, <3>1 DEF Attach, TypeOK, Fiber
        <4> QED
          BY <4>1
      <3>2. CASE fiber[t].sess = None
        <4> DEFINE f == [fiber[t] EXCEPT !.step = "create", !.sess = lastSess']
        <4>1. fiber' = [fiber EXCEPT ![t] = f] /\ f.step = "create"
          BY <1>0, <1>4, <3>2 DEF Attach, TypeOK, Fiber
        <4> QED
          BY <4>1
      <3> QED
        BY <3>1, <3>2
    <2>3. "create" \notin Speaking
      BY DEF Speaking, InTurn
    <2> QED
      BY <2>1, <2>2, <2>3, FiberSpeaks
  <1>5. CASE Create(t)
    <2>1. fiber[t].step # "none"
      BY <1>5 DEF Create, At
    <2>2. CASE LiveOn(t) = {}
      <3> DEFINE f == [fiber[t] EXCEPT !.step = "opened", !.run = lastRun']
      <3>1. fiber' = [fiber EXCEPT ![t] = f]
        BY <1>5, <2>2 DEF Create, TypeOK
      <3>2. f.run = lastRun'
        BY <1>0 DEF Fiber
      <3> HIDE DEF f
      <3> QED
        BY <1>5, <2>1, <2>2, <3>1, <3>2, FiberSpeaks
    <2>3. CASE LiveOn(t) # {}
      BY <1>5, <2>1, <2>3, LeaveSpeaks DEF Create
    <2> QED
      BY <2>2, <2>3
  <1>6. CASE TurnEnds(t) \/ PromptFails(t) \/ ReadUnread(t) \/ Advance(t)
    <2>1. fiber[t].step # "none" /\ fiber[t].step \in Speaking
      BY <1>6 DEF TurnEnds, PromptFails, ReadUnread, Advance, At, Speaking, InTurn
    <2>2. \E f : fiber' = [fiber EXCEPT ![t] = f] /\ f.run = fiber[t].run
      <3>1. CASE TurnEnds(t)
        <4>1. PICK e \in TurnEndings, speaks \in BOOLEAN :
                fiber' = [fiber EXCEPT ![t].step = "record", ![t].ending = e,
                                       ![t].speaks = speaks]
          BY <3>1 DEF TurnEnds
        <4> DEFINE f == [fiber[t] EXCEPT !.step = "record", !.ending = e, !.speaks = speaks]
        <4>2. fiber' = [fiber EXCEPT ![t] = f] /\ f.run = fiber[t].run
          BY <1>0, <4>1 DEF TypeOK, Fiber
        <4> QED
          BY <4>2
      <3>2. CASE PromptFails(t)
        <4> DEFINE f == [fiber[t] EXCEPT !.step = "record", !.ending = "errored", !.unread = {}]
        <4>1. fiber' = [fiber EXCEPT ![t] = f] /\ f.run = fiber[t].run
          BY <1>0, <3>2 DEF PromptFails, TypeOK, Fiber
        <4> QED
          BY <4>1
      <3>3. CASE ReadUnread(t)
        <4> DEFINE unread == After(t, sess[fiber[t].sess].mark)
                   f == [fiber[t] EXCEPT !.step = "advance", !.unread = unread]
        <4>1. fiber' = [fiber EXCEPT ![t].step = "advance", ![t].unread = unread]
          BY <3>3 DEF ReadUnread
        <4> HIDE DEF unread
        <4>2. fiber' = [fiber EXCEPT ![t] = f] /\ f.run = fiber[t].run
          BY <1>0, <4>1 DEF TypeOK, Fiber
        <4> QED
          BY <4>2
      <3>4. CASE Advance(t)
        <4> DEFINE f == [fiber[t] EXCEPT !.step = "turn", !.unread = {}]
        <4>1. fiber' = [fiber EXCEPT ![t] = f] /\ f.run = fiber[t].run
          BY <1>0, <3>4 DEF Advance, TypeOK, Fiber
        <4> QED
          BY <4>1
      <3> QED
        BY <1>6, <3>1, <3>2, <3>3, <3>4
    <2> QED
      BY <2>1, <2>2, FiberSpeaks
  <1>7. CASE Interrupted(t)
    <2>1. fiber[t].step # "none"
      BY <1>7 DEF Interrupted, BeforeRow, InTurn
    <2>2. CASE Leave(t)
      BY <2>1, <2>2, LeaveSpeaks
    <2>3. CASE ~Leave(t)
      <3> DEFINE f == [fiber[t] EXCEPT !.step = "record", !.ending = "stopped", !.unread = {}]
      <3>1. fiber' = [fiber EXCEPT ![t] = f] /\ f.run = fiber[t].run
        BY <1>0, <1>7, <2>3 DEF Interrupted, TypeOK, Fiber
      <3>2. fiber[t].step \in Speaking
        BY <1>7, <2>3 DEF Interrupted, Speaking
      <3> HIDE DEF f
      <3> QED
        BY <2>1, <3>1, <3>2, FiberSpeaks
    <2> QED
      BY <2>2, <2>3
  <1> QED
    BY <1>1, <1>2, <1>3, <1>4, <1>5, <1>6, <1>7 DEF Elsewhere

LEMMA NextSpeaks ==
  ASSUME TypeInv, Next
  PROVE  StillSpeaks /\ (StaysNone \/ Fork)
  <1> USE DEF TypeInv
  <1>1. ASSUME NEW t \in Threads, Elsewhere(t) \/ ReadUnread(t) \/ Advance(t)
        PROVE  StillSpeaks /\ StaysNone
    BY <1>1, ElsewhereSpeaks
  <1>2. CASE Crash \/ Fork
    <2>1. \A u \in Threads : \/ fiber'[u] = fiber[u] \/ fiber'[u].step = "none"
                             \/ Fork /\ fiber'[u].step = "plan"
      <3>1. NoFiber.step = "none" /\ [NoFiber EXCEPT !.step = "plan"].step = "plan"
        BY DEF NoFiber
      <3>2. CASE Crash
        BY <3>1, <3>2 DEF Crash
      <3>3. CASE Fork
        BY <3>1, <3>3 DEF Fork
      <3> QED
        BY <1>2, <3>2, <3>3
    <2>2. "none" \notin Speaking /\ "plan" \notin Speaking
      BY DEF Speaking, InTurn
    <2> QED
      BY <2>1, <2>2 DEF StillSpeaks, StaysNone
  <1>3. ASSUME NEW t \in Threads, TakeStop(t) PROVE StillSpeaks /\ StaysNone
    <2>1. fiber' = fiber \/ fiber' = [fiber EXCEPT ![t].interrupted = TRUE]
      BY <1>3 DEF TakeStop
    <2>2. ASSUME NEW u \in Threads
          PROVE  fiber'[u].step = fiber[u].step /\ fiber'[u].run = fiber[u].run
      <3>1. fiber'[u] = fiber[u] \/ fiber'[u] = [fiber[u] EXCEPT !.interrupted = TRUE]
        BY <2>1 DEF TypeOK
      <3> QED
        BY <3>1, FiberOf DEF Fiber
    <2> QED
      BY <2>2 DEF StillSpeaks, StaysNone
  <1>4. CASE \/ Boot \/ Reconciled \/ FinishEnd \/ Killed \/ StopMarked \/ StopClosed
             \/ ReadQueue
             \/ \E r \in RunIds : LoseRow(r) \/ FinishAnswer(r) \/ BotReads(r)
             \/ \E p \in DOMAIN said : Committed(p)
             \/ \E t \in Threads : Say(t) \/ FileStop(t) \/ HarnessAnswers(t)
    <2>1. fiber' = fiber
      BY <1>4 DEF Boot, Reconciled, FinishEnd, Killed, StopMarked, StopClosed,
                  ReadQueue, LoseRow, FinishAnswer, Say, FileStop, HarnessAnswers, BotReads,
                Committed
    <2> QED
      BY <2>1, FibersSpeak
  <1> QED
    BY <1>1, <1>2, <1>3, <1>4, NextCases DEF LoopStep

(* What a step does to one row.                                              *)
Kept(r)    == run'[r] = run[r]
Created(r) == /\ r = lastRun + 1 /\ lastRun' = r /\ run'[r].state = "queued"
              /\ Create(run'[r].of) /\ LiveOn(run'[r].of) = {}
              /\ run'[r].sess = fiber[run'[r].of].sess
Moved(r)   == Live(r) /\ run'[r].of = run[r].of /\ run'[r].sess = run[r].sess
Closed(r)  == /\ Moved(r) /\ run'[r].state \in Endings
              /\ \/ \E t \in Threads :
                       CloseRow(t) /\ r = fiber[t].run /\ run'[r].state = fiber[t].ending
                 \/ LoseRow(r) /\ run'[r].state = "lost"
                 \/ StopClosed /\ r = loop.target /\ run'[r].state = "stopped"

LEMMA CloseMoves ==
  ASSUME TypeOK, NEW c, NEW e, Close(c, e), NEW r \in RunIds
  PROVE  Kept(r) \/ (Moved(r) /\ run'[r].state = e /\ r = c)
  BY DEF TypeOK, Run, Close, Kept, Moved

LEMMA RowMoves ==
  ASSUME TypeInv, Next, NEW r \in RunIds
  PROVE  Kept(r) \/ Created(r) \/ Closed(r) \/ (Moved(r) /\ run'[r].state = "running")
  <1> USE DEF TypeInv
  <1>1. CASE run' = run
    BY <1>1 DEF Kept
  <1>2. ASSUME NEW t \in Threads, CloseRow(t) PROVE Kept(r) \/ Closed(r)
    BY <1>2, CloseMoves, FiberOf DEF CloseRow, Closed, Fiber
  <1>3. ASSUME NEW q \in RunIds, LoseRow(q) PROVE Kept(r) \/ Closed(r)
    <2>1. Close(q, "lost")
      BY <1>3 DEF LoseRow
    <2>2. Kept(r) \/ (Moved(r) /\ run'[r].state = "lost" /\ r = q)
      BY <2>1, CloseMoves
    <2> QED
      BY <1>3, <2>2 DEF Closed, Endings, TurnEndings
  <1>4. CASE StopClosed
    BY <1>4, CloseMoves DEF StopClosed, Closed, Endings
  <1>5. ASSUME NEW t \in Threads, HarnessAnswers(t)
        PROVE  Kept(r) \/ (Moved(r) /\ run'[r].state = "running")
    <2>1. run' = [run EXCEPT ![fiber[t].run].state = "running"]
          /\ run[fiber[t].run].state = "queued"
      BY <1>5 DEF HarnessAnswers
    <2> QED
      BY <2>1 DEF TypeOK, Run, Kept, Moved, Live, LiveStates
  <1>6. ASSUME NEW t \in Threads, Create(t) PROVE Kept(r) \/ Created(r)
    <2>1. CASE LiveOn(t) = {}
      <3> DEFINE new == [of |-> t, sess |-> fiber[t].sess, state |-> "queued"]
      <3>1. lastRun' = lastRun + 1 /\ run' = [run EXCEPT ![lastRun'] = new]
        BY <1>6, <2>1 DEF Create
      <3>2. new.of = t /\ new.state = "queued"
        OBVIOUS
      <3>5. new.sess = fiber[t].sess
        OBVIOUS
      <3> HIDE DEF new
      <3>3. CASE r = lastRun'
        <4>1. run'[r] = new
          BY <3>1, <3>3 DEF TypeOK
        <4> QED
          BY <1>6, <2>1, <3>1, <3>2, <3>3, <3>5, <4>1 DEF Created
      <3>4. CASE r # lastRun'
        BY <3>1, <3>4 DEF TypeOK, Kept
      <3> QED
        BY <3>3, <3>4
    <2>2. CASE LiveOn(t) # {}
      BY <1>6, <2>2 DEF Create, Kept
    <2> QED
      BY <2>1, <2>2
  <1>7. \/ run' = run
        \/ \E t \in Threads : CloseRow(t) \/ HarnessAnswers(t) \/ Create(t)
        \/ \E q \in RunIds : LoseRow(q)
        \/ StopClosed
    BY WritersHold DEF Writers, RunWriter
  <1> QED
    BY <1>1, <1>2, <1>3, <1>4, <1>5, <1>6, <1>7

LEMMA NewestMoves ==
  ASSUME TypeInv, Next
  PROVE  lastRun' \in {lastRun, lastRun + 1} /\ lastRun \in Nat /\ lastRun' \in Nat
  <1>1. lastRun' = lastRun \/ lastRun' = lastRun + 1
    BY WritersHold DEF Writers, RowWriter
  <1> QED
    BY <1>1 DEF TypeInv, TypeOK

AnswerInv ==
  /\ TypeInv
  /\ Busy /\ LoopAlone /\ LostAreLost /\ RowsInOrder /\ Over

(* Nobody but the turn closes the row of a turn that may speak.               *)
LEMMA BusyStep ==
  ASSUME AnswerInv, Next
  PROVE  Busy'
  <1> USE DEF AnswerInv
  <1> SUFFICES ASSUME NEW u \in Threads, fiber'[u].step \in Speaking
               PROVE  Live(fiber[u].run)' /\ run'[fiber'[u].run].of = u
    BY DEF Busy
  <1>1. CASE fiber[u].step \in Speaking /\ fiber'[u].run = fiber[u].run
    <2>0. "none" \notin Speaking /\ "end" \notin Speaking
          /\ \A step \in Speaking : step \in WithRun
      BY DEF Speaking, InTurn, WithRun, Terminal
    <2>1. PICK r \in RunIds : r = fiber[u].run /\ r \in 1..lastRun
      BY <1>1, <2>0, FiberHas
    <2>2. Live(r) /\ run[r].of = u
      BY <1>1, <2>1 DEF Busy
    <2>3. ~Created(r)
      BY <2>1 DEF Created, TypeInv, TypeOK
    <2>4. ~Closed(r)
      <3>1. ASSUME NEW t \in Threads, CloseRow(t), r = fiber[t].run PROVE FALSE
        <4>1. fiber[t].step = "close" /\ Goto(t, "end")
          BY <3>1 DEF CloseRow, At, Proceed, Following
        <4>2. run[r].of = t
          BY <3>1, <4>1 DEF Busy, Speaking
        <4>3. fiber'[t].step = "end"
          BY <4>1, FiberOf DEF Goto, TypeInv, TypeOK, Fiber
        <4> QED
          BY <2>0, <2>2, <4>2, <4>3
      <3>2. ~LoseRow(r)
        BY <1>1, <2>0 DEF LoseRow, LoopAlone
      <3>3. ~(StopClosed /\ r = loop.target)
        BY <1>1, <2>0, <2>2 DEF StopClosed, LoopAlone
      <3> QED
        BY <3>1, <3>2, <3>3 DEF Closed
    <2>5. run'[r].of = u /\ run'[r].state \in LiveStates
      BY <2>2, <2>3, <2>4, RowMoves DEF Kept, Moved, Live, LiveStates
    <2> QED
      BY <1>1, <2>1, <2>5 DEF Live
  <1>2. CASE Create(u) /\ LiveOn(u) = {} /\ fiber'[u].run = lastRun'
    <2> DEFINE new == [of |-> u, sess |-> fiber[u].sess, state |-> "queued"]
    <2>1. lastRun < MaxRuns /\ lastRun' = lastRun + 1 /\ run' = [run EXCEPT ![lastRun'] = new]
      BY <1>2 DEF Create
    <2>2. lastRun' \in RunIds /\ new.of = u /\ new.state = "queued"
      BY <2>1, IdsFact DEF TypeInv, TypeOK, RunIds
    <2> HIDE DEF new
    <2>3. run'[lastRun'] = new
      BY <2>1, <2>2 DEF TypeInv, TypeOK
    <2> QED
      BY <1>2, <2>2, <2>3 DEF Live, LiveStates
  <1> QED
    BY <1>1, <1>2, NextSpeaks DEF StillSpeaks

LEMMA RowsInOrderStep ==
  ASSUME AnswerInv, Next
  PROVE  RowsInOrder'
  <1> USE DEF AnswerInv
  <1>1. ASSUME NEW r \in RunIds, r > lastRun' PROVE run'[r].state = "absent"
    <2>1. r > lastRun /\ ~Created(r) /\ r \in Nat
      BY <1>1, NewestMoves, IdsFact DEF Created
    <2>2. run[r].state = "absent"
      BY <2>1 DEF RowsInOrder
    <2> QED
      BY <2>1, <2>2, RowMoves DEF Kept, Moved, Closed, Live, LiveStates
  <1>2. event' \subseteq event \cup 1..lastRun
    <2>1. ASSUME NEW t \in Threads, TurnEnds(t) PROVE event' \subseteq event \cup 1..lastRun
      <3>1. fiber[t].run \in 1..lastRun
        BY <2>1, FiberHas DEF TurnEnds, At, WithRun, InTurn
      <3> QED
        BY <2>1, <3>1 DEF TurnEnds
    <2>2. CASE StopMarked
      BY <2>2 DEF StopMarked, RowsInOrder
    <2>3. \/ event' = event \/ StopMarked \/ \E t \in Threads : TurnEnds(t)
      BY WritersHold DEF Writers, EventWriter
    <2> QED
      BY <2>1, <2>2, <2>3
  <1>3. loop'.step \in {"killing", "marker", "bury"} => loop'.target \in 1..lastRun
    <2>1. ASSUME NEW t \in Threads, TakeStop(t)
          PROVE  loop' = loop \/ loop'.target \in 1..lastRun
      <3>1. CASE LiveOn(t) # {}
        <4>1. loop' = [LoopAt("killing") EXCEPT !.target = Newest(LiveOn(t))]
          BY <2>1, <3>1 DEF TakeStop
        <4>2. loop'.target = Newest(LiveOn(t))
          BY <4>1 DEF LoopAt
        <4>3. Newest(LiveOn(t)) \in RunIds /\ Live(Newest(LiveOn(t)))
          BY <3>1, NewestLiveFact DEF TypeInv, LiveOn
        <4>4. ~(Newest(LiveOn(t)) > lastRun)
          BY <4>3 DEF RowsInOrder, Live, LiveStates
        <4> QED
          BY <4>2, <4>3, <4>4, IdsFact DEF RunIds, TypeInv, TypeOK
      <3>2. CASE LiveOn(t) = {}
        BY <2>1, <3>2 DEF TakeStop
      <3> QED
        BY <3>1, <3>2
    <2>2. CASE Killed \/ StopMarked
      BY <2>2 DEF Killed, StopMarked, TypeInv, TypeOK, Loop, RowsInOrder
    <2>3. CASE Crash \/ Boot \/ StopClosed \/ ReadQueue \/ Fork
      BY <2>3 DEF Crash, Boot, StopClosed, ReadQueue, Fork, LoopAt
    <2>4. CASE Reconciled \/ FinishEnd \/ \E r \in RunIds : LoseRow(r) \/ FinishAnswer(r)
      BY <2>4 DEF Reconciled, FinishEnd, LoseRow, FinishAnswer, TypeInv, TypeOK, Loop
    <2>5. CASE loop' = loop
      BY <2>5 DEF RowsInOrder
    <2>6. \/ loop' = loop
          \/ \E t \in Threads : TakeStop(t)
          \/ Killed \/ StopMarked \/ Crash \/ Boot \/ StopClosed \/ ReadQueue \/ Fork
          \/ Reconciled \/ FinishEnd \/ \E r \in RunIds : LoseRow(r) \/ FinishAnswer(r)
      BY WritersHold DEF Writers, LoopWriter
    <2> QED
      BY <2>1, <2>2, <2>3, <2>4, <2>5, <2>6 DEF RowsInOrder
  <1>4. 1..lastRun \subseteq 1..lastRun'
    BY NewestMoves
  <1> QED
    BY <1>1, <1>2, <1>3, <1>4 DEF RowsInOrder

(* What a step does to the loop.                                             *)
LEMMA LoopMoves ==
  ASSUME TypeInv, Next
  PROVE  \/ loop' = loop /\ ~Fork
         \/ Crash \/ Boot \/ Reconciled \/ FinishEnd \/ Killed \/ StopMarked
         \/ StopClosed /\ loop'.step = "idle" /\ loop'.finish = {}
         \/ ReadQueue /\ loop'.step = "fork" /\ loop'.finish = {}
         \/ Fork /\ loop.step = "fork" /\ loop'.step = "idle" /\ loop'.finish = {}
         \/ \E r \in RunIds : LoseRow(r) \/ FinishAnswer(r)
         \/ \E t \in Threads : TakeStop(t) /\ loop'.step = "killing" /\ loop'.finish = {}
  <1>1. ASSUME NEW t \in Threads, TakeStop(t)
        PROVE  \/ loop' = loop /\ ~Fork
               \/ loop'.step = "killing" /\ loop'.finish = {}
    <2>1. ~Fork
      BY <1>1 DEF TakeStop, Fork
    <2>2. [LoopAt("killing") EXCEPT !.target = Newest(LiveOn(t))].step = "killing"
          /\ [LoopAt("killing") EXCEPT !.target = Newest(LiveOn(t))].finish = {}
      BY DEF LoopAt
    <2> QED
      BY <1>1, <2>1, <2>2 DEF TakeStop
  <1>2. ReadQueue => loop'.step = "fork" /\ loop'.finish = {}
    BY DEF ReadQueue, LoopAt
  <1>3. /\ Fork => loop.step = "fork" /\ loop'.step = "idle" /\ loop'.finish = {}
        /\ StopClosed => loop'.step = "idle" /\ loop'.finish = {}
    BY DEF Fork, StopClosed, LoopAt
  <1>4. \/ loop' = loop
        \/ \E t \in Threads : TakeStop(t)
        \/ Killed \/ StopMarked \/ Crash \/ Boot \/ StopClosed \/ ReadQueue \/ Fork
        \/ Reconciled \/ FinishEnd \/ \E r \in RunIds : LoseRow(r) \/ FinishAnswer(r)
    BY WritersHold DEF Writers, LoopWriter
  <1> QED
    BY <1>1, <1>2, <1>3, <1>4

LEMMA LoopAloneStep ==
  ASSUME AnswerInv, Next
  PROVE  LoopAlone'
  <1> USE DEF AnswerInv
  <1>1. ASSUME loop'.step \in {"off", "lose", "finish", "end"}, NEW u \in Threads
        PROVE  fiber'[u].step = "none"
    <2>1. CASE Crash
      <3>1. fiber'[u] = NoFiber
        BY <2>1 DEF Crash
      <3> QED
        BY <3>1 DEF NoFiber
    <2>2. CASE ~Crash
      <3>1. loop.step \in {"off", "lose", "finish", "end"} /\ ~Fork
        BY <1>1, <2>2, LoopMoves DEF Boot, Reconciled, FinishEnd, Killed, StopMarked,
           LoseRow, FinishAnswer, TypeInv, TypeOK, Loop, Fork, LoopAt
      <3> QED
        BY <3>1, NextSpeaks DEF LoopAlone, StaysNone
    <2> QED
      BY <2>1, <2>2
  <1>2. ASSUME loop'.step \in {"marker", "bury"}
        PROVE  fiber'[run'[loop'.target].of].step = "none"
    <2>1. /\ fiber[run[loop.target].of].step = "none" /\ loop'.target = loop.target
          /\ loop.step \in {"killing", "marker", "bury"} /\ ~Fork
      <3>1. CASE loop' = loop /\ ~Fork
        BY <1>2, <3>1 DEF LoopAlone
      <3>2. CASE Killed
        BY <3>2 DEF Killed, At, Fork, TypeInv, TypeOK, Loop
      <3>3. CASE StopMarked
        BY <3>3 DEF StopMarked, Fork, LoopAlone, TypeInv, TypeOK, Loop
      <3>4. CASE Crash \/ Boot
        BY <1>2, <3>4 DEF Crash, Boot, LoopAt
      <3>5. CASE Reconciled \/ FinishEnd \/ \E r \in RunIds : LoseRow(r) \/ FinishAnswer(r)
        BY <1>2, <3>5 DEF Reconciled, FinishEnd, LoseRow, FinishAnswer, TypeInv, TypeOK, Loop
      <3> QED
        BY <1>2, <3>1, <3>2, <3>3, <3>4, <3>5, LoopMoves
    <2>2. loop.target \in RunIds /\ loop.target \in 1..lastRun /\ loop.target # lastRun + 1
      BY <2>1, RowIdsFact, NewestMoves DEF RowsInOrder, TypeInv
    <2>3. run'[loop.target].of = run[loop.target].of /\ run[loop.target].of \in Threads
      BY <2>2, RowMoves DEF Kept, Created, Closed, Moved, TypeInv, TypeOK, Run
    <2> QED
      BY <2>1, <2>3, NextSpeaks DEF StaysNone
  <1> QED
    BY <1>1, <1>2 DEF LoopAlone

LEMMA LostAreLostStep ==
  ASSUME AnswerInv, Next
  PROVE  LostAreLost'
  <1> USE DEF AnswerInv
  <1>0. ASSUME NEW r \in RunIds, run[r].state = "lost" PROVE run'[r].state = "lost"
    <2>1. ~(r > lastRun) /\ ~Live(r)
      BY <1>0 DEF RowsInOrder, Live, LiveStates
    <2>2. ~Created(r)
      BY <2>1, NewestMoves DEF Created
    <2> QED
      BY <1>0, <2>1, <2>2, RowMoves DEF Kept, Moved, Closed
  <1>1. ASSUME NEW r \in loop'.finish PROVE run'[r].state = "lost"
    <2>1. CASE r \in loop.finish
      BY <1>0, <2>1 DEF LostAreLost, TypeInv, TypeOK, Loop
    <2>2. CASE r \notin loop.finish
      <3>1. LoseRow(r) /\ Live(r) /\ r \in RunIds
        <4>1. CASE Crash \/ Boot
          BY <1>1, <4>1 DEF Crash, Boot, LoopAt
        <4>2. CASE Reconciled \/ FinishEnd \/ Killed \/ StopMarked
          <5>1. loop \in Loop
            BY DEF TypeInv, TypeOK
          <5>2. Reconciled \/ Killed \/ StopMarked => loop'.finish = loop.finish
            BY <5>1 DEF Reconciled, Killed, StopMarked, Loop
          <5>3. FinishEnd => loop'.finish = loop.finish \ {loop.target}
            BY <5>1 DEF FinishEnd, Loop
          <5> QED
            BY <1>1, <2>2, <4>2, <5>2, <5>3
        <4>3. ASSUME NEW q \in RunIds, FinishAnswer(q) PROVE FALSE
          BY <1>1, <2>2, <4>3 DEF FinishAnswer, TypeInv, TypeOK, Loop
        <4>4. ASSUME NEW q \in RunIds, LoseRow(q) PROVE q = r /\ Live(r)
          <5>1. loop'.finish = IF Live(q) THEN loop.finish \cup {q} ELSE loop.finish
            BY <4>4 DEF LoseRow, TypeInv, TypeOK, Loop
          <5> QED
            BY <1>1, <2>2, <5>1
        <4> QED
          BY <1>1, <2>2, <4>1, <4>2, <4>3, <4>4, LoopMoves
      <3> QED
        BY <3>1 DEF LoseRow, Close, TypeInv, TypeOK, Run
    <2> QED
      BY <2>1, <2>2
  <1>2. ASSUME loop'.step = "end" PROVE run'[loop'.target].state = "lost"
    <2>1. \/ loop.step = "end" /\ loop'.target = loop.target
          \/ \E r \in RunIds : r \in loop.finish /\ loop'.target = r
      <3>1. CASE Crash \/ Boot
        BY <1>2, <3>1 DEF Crash, Boot, LoopAt
      <3>2. CASE Reconciled \/ FinishEnd \/ Killed \/ StopMarked
        BY <1>2, <3>2 DEF Reconciled, FinishEnd, Killed, StopMarked, TypeInv, TypeOK, Loop
      <3>3. ASSUME NEW q \in RunIds, FinishAnswer(q)
            PROVE  q \in loop.finish /\ loop'.target = q
        BY <3>3 DEF FinishAnswer, TypeInv, TypeOK, Loop
      <3>4. ASSUME NEW q \in RunIds, LoseRow(q) PROVE FALSE
        BY <1>2, <3>4 DEF LoseRow, TypeInv, TypeOK, Loop
      <3> QED
        BY <1>2, <3>1, <3>2, <3>3, <3>4, LoopMoves
    <2> QED
      BY <1>0, <2>1 DEF LostAreLost, TypeInv, Placed
  <1> QED
    BY <1>1, <1>2 DEF LostAreLost

LEMMA BotMoves ==
  ASSUME Next
  PROVE  /\ event \subseteq event'
         /\ \/ silent' = silent
            \/ \E r \in RunIds : BotReads(r) /\ silent' = silent \cup {r}
         /\ \/ hasty' = hasty
            \/ \E r \in RunIds : BotReads(r)
  BY WritersHold DEF Writers, BotWriter

LEMMA HastyGrows ==
  ASSUME NEW r \in RunIds, BotReads(r)
  PROVE  /\ silent' = silent \cup {r} /\ hasty \subseteq hasty'
         /\ hasty' \subseteq hasty \cup {r} /\ (Live(r) => r \in hasty')
  BY DEF BotReads, Spend

LEMMA OverStep ==
  ASSUME AnswerInv, Next
  PROVE  Over'
  <1> USE DEF AnswerInv
  <1>1. event \subseteq event'
        /\ \/ silent' = silent /\ hasty' = hasty
           \/ \E r \in RunIds : BotReads(r)
    BY BotMoves
  <1>2. ASSUME NEW r \in silent \ hasty PROVE ~Live(r)'
    <2>1. r \in RunIds /\ ~Live(r) /\ r \in 1..lastRun
      BY DEF Over, RowsInOrder, TypeInv, TypeOK
    <2>2. ~Created(r)
      BY <2>1, NewestMoves DEF Created
    <2>3. run'[r] = run[r]
      BY <2>1, <2>2, RowMoves DEF Kept, Moved, Closed
    <2> QED
      BY <2>1, <2>3 DEF Live
  <1>3. ASSUME NEW r \in RunIds, BotReads(r) PROVE Over'
    <2>1. r \in event' /\ run' = run
      BY <1>3 DEF BotReads, rows
    <2> QED
      BY <1>1, <1>2, <1>3, <2>1, HastyGrows DEF Over, Live
  <1>4. CASE silent' = silent /\ hasty' = hasty
    BY <1>1, <1>2, <1>4 DEF Over
  <1> QED
    BY <1>1, <1>3, <1>4

LEMMA AnswerStep ==
  ASSUME ShownInv, AnswerInv, [Next]_vars
  PROVE  AnswerInv'
  <1>1. CASE UNCHANGED vars
    <2>1. TypeInv'
      BY ShownStep DEF ShownInv
    <2> QED
      BY <1>1, <2>1 DEF vars, rows, AnswerInv, Busy, LoopAlone, LostAreLost, RowsInOrder,
                        Over, Live
  <1>2. CASE Next
    BY <1>2, TypeStep, BusyStep, LoopAloneStep, LostAreLostStep, RowsInOrderStep, OverStep
    DEF AnswerInv
  <1> QED
    BY <1>1, <1>2

LEMMA AnswerAlways == Spec => []AnswerInv
  <1>1. Init => AnswerInv
    <2> SUFFICES ASSUME Init PROVE AnswerInv
      OBVIOUS
    <2>1. TypeInv
      BY InitShown DEF ShownInv
    <2>2. \A t \in Threads : fiber[t].step = "none"
      BY DEF Init, NoFiber
    <2>3. loop.step = "idle" /\ loop.finish = {} /\ event = {} /\ silent = {} /\ hasty = {}
      BY DEF Init, LoopAt
    <2>4. \A r \in RunIds : run[r].state = "absent"
      BY DEF Init
    <2> QED
      BY <2>1, <2>2, <2>3, <2>4
      DEF AnswerInv, Busy, LoopAlone, LostAreLost, RowsInOrder, Over, Speaking, InTurn
  <1> QED
    BY <1>1, ShownAlways, AnswerStep, PTL DEF Spec

(* Who speaks: a person, a turn that holds its live row, or a boot for a run    *)
(* that is lost.                                                             *)
LEMMA Speakers ==
  ASSUME AnswerInv, Next
  PROVE  \/ said' = said
         \/ \E m \in Message :
              /\ said' = Append(said, m)
              /\ m.by \in silent \ hasty => run[m.by].state = "lost"
         \/ \E p \in DOMAIN said : said' = [said EXCEPT ![p].posted = TRUE]
  <1> USE DEF AnswerInv
  <1>1. ASSUME NEW t \in Threads, Say(t)
        PROVE  \E m \in Message : said' = Append(said, m)
                                  /\ (m.by \in silent \ hasty => run[m.by].state = "lost")
    <2>1. [in |-> t, by |-> User, posted |-> FALSE] \in Message /\ User \notin silent
      BY IdsFact DEF Message, TypeInv, TypeOK, User, None
    <2> QED
      BY <1>1, <2>1 DEF Say
  <1>2. ASSUME NEW t \in Threads, StoreAnswer(t)
        PROVE  \/ said' = said
               \/ \E m \in Message : said' = Append(said, m)
                                     /\ (m.by \in silent \ hasty => run[m.by].state = "lost")
    <2>1. fiber[t].step = "answer"
      BY <1>2 DEF StoreAnswer, At
    <2>2. Live(fiber[t].run) /\ fiber[t].run \notin silent \ hasty
      BY <2>1 DEF Busy, Speaking, Over
    <2>3. [in |-> t, by |-> fiber[t].run, posted |-> TRUE] \in Message
      BY <2>1, FiberHas DEF WithRun, Terminal, Message
    <2> QED
      BY <1>2, <2>2, <2>3 DEF StoreAnswer
  <1>3. ASSUME NEW r \in RunIds, FinishAnswer(r)
        PROVE  \E m \in Message : said' = Append(said, m)
                                  /\ (m.by \in silent \ hasty => run[m.by].state = "lost")
    <2>1. run[r].of \in Threads
      BY DEF TypeInv, TypeOK, Run
    <2>2. [in |-> run[r].of, by |-> r, posted |-> TRUE] \in Message
      BY <2>1 DEF Message
    <2>3. run[r].state = "lost"
      BY <1>3 DEF FinishAnswer, LostAreLost
    <2> QED
      BY <1>3, <2>2, <2>3 DEF FinishAnswer
  <1>4. \/ said' = said
        \/ \E t \in Threads : Say(t) \/ StoreAnswer(t)
        \/ \E r \in RunIds : FinishAnswer(r)
        \/ \E p \in DOMAIN said : Committed(p)
    BY WritersHold DEF Writers, SaidWriter
  <1>5. ASSUME NEW p \in DOMAIN said, Committed(p)
        PROVE  said' = [said EXCEPT ![p].posted = TRUE]
    BY <1>5 DEF Committed
  <1> QED
    BY <1>1, <1>2, <1>3, <1>4, <1>5

LEMMA SilenceStep ==
  ASSUME AnswerInv, AnswerInv', SilenceIsTrue, [Next]_vars
  PROVE  SilenceIsTrue'
  <1> USE DEF AnswerInv
  <1>1. CASE UNCHANGED vars
    BY <1>1 DEF vars, rows, SilenceIsTrue
  <1>2. CASE Next
    <2> SUFFICES ASSUME NEW r \in silent' \ hasty', r \in RunIds, run'[r].state # "lost",
                        NEW p \in DOMAIN said'
                 PROVE  said'[p].by # r
      BY DEF SilenceIsTrue
    <2>0. hasty \subseteq hasty'
      BY <1>2, BotMoves, HastyGrows
    <2>1. CASE r \in silent
      <3>1. run'[r] = run[r]
        <4>1. ~Live(r) /\ r \in 1..lastRun
          BY <2>0, <2>1 DEF Over, RowsInOrder
        <4>2. ~Created(r)
          BY <4>1, NewestMoves, <1>2 DEF Created
        <4> QED
          BY <1>2, <4>1, <4>2, RowMoves DEF Kept, Moved, Closed
      <3>2. \A x \in DOMAIN said : said[x].by # r
        BY <2>0, <2>1, <3>1 DEF SilenceIsTrue
      <3>3. CASE said' = said
        BY <3>2, <3>3
      <3>4. ASSUME NEW m \in Message, said' = Append(said, m),
                   m.by \in silent \ hasty => run[m.by].state = "lost"
            PROVE  said'[p].by # r
        <4>1. m.by # r
          BY <2>0, <2>1, <3>1, <3>4
        <4>2. p \in DOMAIN said \/ said'[p] = m
          BY <3>4 DEF TypeInv, TypeOK
        <4>3. p \in DOMAIN said => said'[p] = said[p]
          BY <3>4 DEF TypeInv, TypeOK
        <4> QED
          BY <3>2, <4>1, <4>2, <4>3
      <3>5. ASSUME NEW q \in DOMAIN said, said' = [said EXCEPT ![q].posted = TRUE]
            PROVE  said'[p].by # r
        <4>1. p \in DOMAIN said /\ said'[p].by = said[p].by
          BY <3>5 DEF TypeInv, TypeOK, Message
        <4> QED
          BY <3>2, <4>1
      <3> QED
        BY <1>2, <3>3, <3>4, <3>5, Speakers
    <2>2. CASE r \notin silent
      <3>1. BotReads(r)
        BY <1>2, <2>2, BotMoves
      <3> QED
        BY <3>1 DEF BotReads, rows
    <2> QED
      BY <2>1, <2>2
  <1> QED
    BY <1>1, <1>2

(* SilenceIsTrue: a bot whose wait outlasts the close-out reports that a turn   *)
(* said nothing only of one that never says anything, because an answer is stored while its row is live, and *)
(* nobody but the turn closes that row meanwhile; a boot speaks only for runs  *)
(* it declared lost.                                                         *)
THEOREM SilenceCorrect == Spec => []SilenceIsTrue
  <1>1. Init => SilenceIsTrue
    BY DEF Init, SilenceIsTrue
  <1> QED
    BY <1>1, AnswerAlways, SilenceStep, PTL DEF Spec


-----------------------------------------------------------------------------
(* Which session a turn continues. The inductive invariant says, of every     *)
(* step, whose the session of a thread is at that moment: the fiber's that     *)
(* holds it, the boot's that finishes the run it lost, or nobody's.           *)

Superseded(s) == \E n \in 1..lastSess : n > s /\ sess[n].of = sess[s].of

NewestRun(r) == \A n \in 1..lastRun : n > r => run[n].of # run[r].of

RowsOwned == \A r \in 1..lastRun :
  run[r].sess \in 1..lastSess /\ sess[run[r].sess].of = run[r].of

(* The session chosen is still the one to choose when it is attached.         *)
StillChosen(t) ==
  LET s == fiber[t].sess IN
  \/ s = None /\ \A o \in SessionsOf(t) : ~Resumable(o)
  \/ s \in SessionsOf(t) /\ Resumable(s) /\ ~Superseded(s)

(* A fiber that holds a session holds the newest of its thread, open; its run  *)
(* is the newest of its thread and a run of that session.                    *)
Fits(t) ==
  /\ fiber[t].step \in {"admit", "attach", "create"} => LiveOn(t) = {}
  /\ fiber[t].step = "attach" => StillChosen(t)
  /\ fiber[t].step \in WithSession =>
       sess[fiber[t].sess].status = "running" /\ ~Superseded(fiber[t].sess)
  /\ fiber[t].step \in WithRun =>
       /\ run[fiber[t].run].sess = fiber[t].sess
       /\ run[fiber[t].run].of = t
       /\ NewestRun(fiber[t].run)
  /\ fiber[t].step = "end" /\ fiber[t].run \notin cut =>
       run[fiber[t].run].state = fiber[t].ending

FibersFit == \A t \in Threads : Fits(t)

(* A run that is live, or lost and not finished, is the newest of its thread,  *)
(* and its session is open unless a write of its ending was refused.          *)
OpenFor(r) == r \in cut \/ sess[run[r].sess].status = "running"
Pending(r) == Live(r) \/ r \in loop.finish

RunsFit == \A r \in 1..lastRun :
  /\ Pending(r) => NewestRun(r) /\ OpenFor(r)
  /\ Live(r) => ~Superseded(run[r].sess)

BootFits ==
  /\ loop.finish # {} => loop.step \in {"lose", "finish", "end"}
  /\ loop.finish \subseteq 1..lastRun
  /\ loop.step = "end" => loop.target \in loop.finish

(* A session with a newer one in its thread is never resumed again.           *)
OldAreClosed == \A s \in 1..lastSess : Superseded(s) => ~Resumable(s)

(* A turn that broke, vanished, or met the wall clock in a session that had met *)
(* it before: no run follows it in its session, which is failed or is about to *)
(* be.                                                                       *)
Broke(r) ==
  \/ run[r].state \in {"errored", "lost"}
  \/ /\ run[r].state = "timeout"
     /\ \E q \in 1..(r - 1) : run[q].sess = run[r].sess /\ run[q].state = "timeout"

EndingOn(t, r) == fiber[t].step = "end" /\ fiber[t].run = r

BrokenIsLast == \A r \in 1..lastRun : Broke(r) /\ r \notin cut =>
  /\ \/ r \in loop.finish
     \/ \E t \in Threads : EndingOn(t, r)
     \/ sess[run[r].sess].status = "failed"
  /\ \A n \in 1..lastRun : n > r => run[n].sess # run[r].sess

WholeInv ==
  /\ AnswerInv
  /\ RowsOwned /\ FibersFit /\ RunsFit /\ BootFits /\ OldAreClosed /\ BrokenIsLast

(* What a step does to a fiber's hold on its session and its run.             *)
SameHold(t) == fiber'[t].sess = fiber[t].sess /\ fiber'[t].run = fiber[t].run

FiberKeeps(t) ==
  fiber'[t].step = fiber[t].step /\ SameHold(t) /\ fiber'[t].ending = fiber[t].ending

FiberGone(t) ==
  /\ fiber'[t].step \in {"none", "plan"}
  /\ fiber[t].step = "end" => CloseSession(t) \/ fiber[t].run \in cut'

FiberMoves(t) ==
  \/ Plan(t) /\ fiber'[t].step = "admit" /\ LiveOn(t) = {}
  \/ Admit(t) /\ fiber'[t].step = "attach" /\ fiber'[t].sess = Chosen(t)
  \/ /\ Attach(t) /\ fiber'[t].step = "create"
     /\ \/ fiber[t].sess # None /\ fiber'[t].sess = fiber[t].sess
        \/ fiber[t].sess = None /\ fiber'[t].sess = lastSess'
  \/ /\ Create(t) /\ LiveOn(t) = {} /\ fiber'[t].step = "opened"
     /\ fiber'[t].sess = fiber[t].sess /\ fiber'[t].run = lastRun'
  \/ /\ fiber[t].step \in WithRun \ {"end"} /\ fiber'[t].step \in WithRun \ {"end"}
     /\ SameHold(t) /\ ~CloseSession(t)
  \/ /\ CloseRow(t) \/ (WriteRefused(t) /\ fiber[t].run \in cut')
     /\ fiber[t].step = "close" /\ fiber'[t].step = "end"
     /\ SameHold(t) /\ fiber'[t].ending = fiber[t].ending

FiberMay(t) == FiberKeeps(t) \/ FiberGone(t) \/ FiberMoves(t)

LEMMA LeaveMay ==
  ASSUME TypeOK, NEW t \in Threads, Leave(t),
         fiber[t].step = "end" => CloseSession(t) \/ fiber[t].run \in cut'
  PROVE  FiberMay(t)
  <1>1. fiber'[t].step = "none"
    BY DEF Leave, NoFiber, TypeOK
  <1> QED
    BY <1>1 DEF FiberMay, FiberGone

LEMMA GotoHolds ==
  ASSUME TypeOK, NEW t \in Threads, NEW step, Goto(t, step)
  PROVE  fiber'[t].step = step /\ SameHold(t) /\ fiber'[t].ending = fiber[t].ending
  BY FiberOf DEF Goto, TypeOK, SameHold, Fiber

LEMMA ProceedMay ==
  ASSUME TypeOK, NEW t \in Threads,
         RecordProvider(t) \/ StoreAnswer(t) \/ CloseRow(t) \/ CloseSession(t)
         \/ WriteRefused(t)
  PROVE  FiberMay(t)
  <1>1. CASE fiber[t].step \in {"record", "answer"}
    <2>1. /\ \/ Following(fiber[t].step) = "answer" \/ Following(fiber[t].step) = "close"
          /\ Proceed(t) /\ ~CloseSession(t)
      BY <1>1 DEF Following, CloseSession, At, RecordProvider, StoreAnswer, CloseRow,
                  WriteRefused
    <2>2. /\ fiber'[t].step \in {"answer", "close"} /\ SameHold(t)
      BY <2>1, GotoHolds DEF Proceed
    <2> QED
      BY <1>1, <2>1, <2>2 DEF FiberMay, FiberMoves, WithRun, Terminal
  <1>2. CASE fiber[t].step = "close"
    <2>1. Following(fiber[t].step) = "end" /\ Proceed(t)
          /\ (CloseRow(t) \/ (WriteRefused(t) /\ fiber[t].run \in cut'))
      BY <1>2 DEF Following, CloseSession, At, RecordProvider, StoreAnswer, CloseRow,
                  WriteRefused
    <2>2. fiber'[t].step = "end" /\ SameHold(t) /\ fiber'[t].ending = fiber[t].ending
      BY <2>1, GotoHolds DEF Proceed
    <2> QED
      BY <1>2, <2>1, <2>2 DEF FiberMay, FiberMoves
  <1>3. CASE fiber[t].step = "end"
    <2>1. Following(fiber[t].step) = "none" /\ Proceed(t)
          /\ (CloseSession(t) \/ (WriteRefused(t) /\ fiber[t].run \in cut'))
      BY <1>3 DEF Following, CloseSession, At, RecordProvider, StoreAnswer, CloseRow,
                  WriteRefused
    <2> QED
      BY <2>1, LeaveMay DEF Proceed
  <1> QED
    BY <1>1, <1>2, <1>3 DEF CloseSession, At, RecordProvider, StoreAnswer, CloseRow,
                  WriteRefused, Terminal

LEMMA DispatchMay ==
  ASSUME TypeInv, NEW t \in Threads,
         Plan(t) \/ DispatchFails(t) \/ BeginTurn(t) \/ Admit(t) \/ Attach(t) \/ Create(t)
  PROVE  FiberMay(t)
  <1> USE DEF TypeInv
  <1>0. fiber[t] \in Fiber
    BY FiberOf
  <1>a. fiber[t].step # "end"
    BY DEF Plan, DispatchFails, BeginTurn, Admit, Attach, Create, At, BeforeRow
  <1>1. CASE Leave(t)
    BY <1>1, <1>a, LeaveMay
  <1>2. CASE Plan(t) /\ ~Leave(t)
    <2>1. Goto(t, "admit") /\ LiveOn(t) = {}
      BY <1>2 DEF Plan
    <2> QED
      BY <1>2, <2>1, GotoHolds DEF FiberMay, FiberMoves
  <1>3. CASE BeginTurn(t)
    <2>1. fiber'[t].step = "prompt" /\ SameHold(t) /\ fiber[t].step = "opened"
      BY <1>3, GotoHolds DEF BeginTurn, At
    <2> QED
      BY <2>1 DEF FiberMay, FiberMoves, WithRun, InTurn, CloseSession, At
  <1>4. CASE Admit(t) /\ ~Leave(t)
    <2> DEFINE s == Chosen(t)
    <2>1. fiber' = [fiber EXCEPT ![t].step = "attach", ![t].sess = s]
      BY <1>4 DEF Admit
    <2> HIDE DEF s
    <2>2. fiber'[t].step = "attach" /\ fiber'[t].sess = s
      BY <1>0, <2>1 DEF TypeOK, Fiber
    <2> QED
      BY <1>4, <2>2 DEF FiberMay, FiberMoves, s
  <1>5. CASE Attach(t)
    <2>1. CASE fiber[t].sess # None
      <3> DEFINE p == sess[fiber[t].sess].provider
      <3>1. fiber' = [fiber EXCEPT ![t].step = "create", ![t].resumed = p]
        BY <1>5, <2>1 DEF Attach
      <3> HIDE DEF p
      <3>2. fiber'[t].step = "create" /\ fiber'[t].sess = fiber[t].sess
        BY <1>0, <3>1 DEF TypeOK, Fiber
      <3> QED
        BY <1>5, <2>1, <3>2 DEF FiberMay, FiberMoves
    <2>2. CASE fiber[t].sess = None
      <3>1. fiber' = [fiber EXCEPT ![t].step = "create", ![t].sess = lastSess']
        BY <1>5, <2>2 DEF Attach
      <3>2. fiber'[t].step = "create" /\ fiber'[t].sess = lastSess'
        BY <1>0, <3>1 DEF TypeOK, Fiber
      <3> QED
        BY <1>5, <2>2, <3>2 DEF FiberMay, FiberMoves
    <2> QED
      BY <2>1, <2>2
  <1>6. CASE Create(t) /\ ~Leave(t)
    <2>1. fiber' = [fiber EXCEPT ![t].step = "opened", ![t].run = lastRun'] /\ LiveOn(t) = {}
      BY <1>6 DEF Create
    <2>2. fiber'[t].step = "opened" /\ fiber'[t].sess = fiber[t].sess
          /\ fiber'[t].run = lastRun'
      BY <1>0, <2>1 DEF TypeOK, Fiber
    <2> QED
      BY <1>6, <2>1, <2>2 DEF FiberMay, FiberMoves
  <1> QED
    BY <1>1, <1>2, <1>3, <1>4, <1>5, <1>6 DEF DispatchFails

LEMMA TurnMay ==
  ASSUME TypeInv, NEW t \in Threads,
         TurnEnds(t) \/ PromptFails(t) \/ ReadUnread(t) \/ Advance(t) \/ Interrupted(t)
  PROVE  FiberMay(t)
  <1> USE DEF TypeInv
  <1>0. fiber[t] \in Fiber
    BY FiberOf
  <1>a. /\ fiber[t].step # "end" /\ ~CloseSession(t)
        /\ ~Leave(t) => fiber[t].step \in WithRun
    BY DEF TurnEnds, PromptFails, ReadUnread, Advance, Interrupted, At, BeforeRow, InTurn,
           CloseSession, WithRun
  <1>1. CASE Leave(t)
    BY <1>1, <1>a, LeaveMay
  <1>2. ASSUME fiber'[t].step \in {"record", "advance", "turn"}, SameHold(t),
               fiber[t].step \in WithRun
        PROVE  FiberMay(t)
    BY <1>2, <1>a DEF FiberMay, FiberMoves, WithRun, Terminal, InTurn
  <1>3. CASE TurnEnds(t)
    <2>1. PICK e \in TurnEndings, speaks \in BOOLEAN :
            fiber' = [fiber EXCEPT ![t].step = "record", ![t].ending = e,
                                   ![t].speaks = speaks]
      BY <1>3 DEF TurnEnds
    <2>2. fiber'[t].step = "record" /\ SameHold(t)
      BY <1>0, <2>1 DEF TypeOK, Fiber, SameHold
    <2> QED
      BY <1>2, <1>3, <2>2 DEF TurnEnds, At, WithRun, InTurn
  <1>4. CASE PromptFails(t)
    <2>1. fiber'[t].step = "record" /\ SameHold(t)
      BY <1>0, <1>4 DEF PromptFails, TypeOK, Fiber, SameHold
    <2> QED
      BY <1>2, <1>4, <2>1 DEF PromptFails, WithRun, InTurn
  <1>5. CASE ReadUnread(t)
    <2> DEFINE unread == After(t, sess[fiber[t].sess].mark)
    <2>1. fiber' = [fiber EXCEPT ![t].step = "advance", ![t].unread = unread]
      BY <1>5 DEF ReadUnread
    <2> HIDE DEF unread
    <2>2. fiber'[t].step = "advance" /\ SameHold(t)
      BY <1>0, <2>1 DEF TypeOK, Fiber, SameHold
    <2> QED
      BY <1>2, <1>5, <2>2 DEF ReadUnread, At, WithRun, InTurn
  <1>6. CASE Advance(t)
    <2>1. fiber'[t].step = "turn" /\ SameHold(t)
      BY <1>0, <1>6 DEF Advance, TypeOK, Fiber, SameHold
    <2> QED
      BY <1>2, <1>6, <2>1 DEF Advance, At, WithRun, InTurn
  <1>7. CASE Interrupted(t) /\ ~Leave(t)
    <2>1. fiber'[t].step = "record" /\ SameHold(t)
      BY <1>0, <1>7 DEF Interrupted, TypeOK, Fiber, SameHold
    <2> QED
      BY <1>2, <1>7, <1>a, <2>1
  <1> QED
    BY <1>1, <1>3, <1>4, <1>5, <1>6, <1>7

LEMMA OthersKeep ==
  ASSUME TypeOK, NEW t \in Threads, NEW u \in Threads, u # t,
         Elsewhere(t) \/ ReadUnread(t) \/ Advance(t)
  PROVE  FiberKeeps(u)
  <1>1. CASE Leave(t) \/ Proceed(t) \/ \E step : Goto(t, step)
    BY <1>1 DEF Leave, Goto, Proceed, TypeOK, FiberKeeps, SameHold
  <1>2. CASE Admit(t) \/ Attach(t) \/ Create(t)
    <2> DEFINE s == Chosen(t)
               p == sess[fiber[t].sess].provider
    <2>1. \/ Leave(t)
          \/ fiber' = [fiber EXCEPT ![t].step = "attach", ![t].sess = s]
          \/ fiber' = [fiber EXCEPT ![t].step = "create", ![t].resumed = p]
          \/ fiber' = [fiber EXCEPT ![t].step = "create", ![t].sess = lastSess']
          \/ fiber' = [fiber EXCEPT ![t].step = "opened", ![t].run = lastRun']
      BY <1>2 DEF Admit, Attach, Create
    <2> HIDE DEF s, p
    <2> QED
      BY <1>1, <2>1 DEF TypeOK, FiberKeeps, SameHold
  <1>3. CASE TurnEnds(t) \/ PromptFails(t) \/ ReadUnread(t) \/ Advance(t) \/ Interrupted(t)
    <2> DEFINE unread == After(t, sess[fiber[t].sess].mark)
    <2>1. \/ Leave(t)
          \/ \E e, speaks :
               fiber' = [fiber EXCEPT ![t].step = "record", ![t].ending = e,
                                      ![t].speaks = speaks]
          \/ \E e :
               fiber' = [fiber EXCEPT ![t].step = "record", ![t].ending = e,
                                      ![t].unread = {}]
          \/ fiber' = [fiber EXCEPT ![t].step = "advance", ![t].unread = unread]
          \/ fiber' = [fiber EXCEPT ![t].step = "turn", ![t].unread = {}]
      BY <1>3 DEF TurnEnds, PromptFails, ReadUnread, Advance, Interrupted
    <2> HIDE DEF unread
    <2> QED
      BY <1>1, <2>1 DEF TypeOK, FiberKeeps, SameHold
  <1> QED
    BY <1>1, <1>2, <1>3 DEF Elsewhere, Plan, BeginTurn, RecordProvider, StoreAnswer,
       CloseRow, CloseSession, DispatchFails, WriteRefused

LEMMA FiberSteps ==
  ASSUME TypeInv, Next, NEW u \in Threads
  PROVE  FiberMay(u)
  <1> USE DEF TypeInv
  <1>1. ASSUME NEW t \in Threads, Elsewhere(t) \/ ReadUnread(t) \/ Advance(t)
        PROVE  FiberMay(u)
    BY <1>1, ProceedMay, DispatchMay, TurnMay, OthersKeep DEF Elsewhere, FiberMay
  <1>2. CASE Crash
    <2>1. fiber'[u] = NoFiber /\ NoFiber.step = "none"
      BY <1>2 DEF Crash, NoFiber
    <2>2. fiber[u].step = "end" => fiber[u].run \in cut'
      BY <1>2 DEF Crash, At
    <2> QED
      BY <2>1, <2>2 DEF FiberMay, FiberGone
  <1>3. CASE Fork
    <2>1. fiber'[u] = fiber[u] \/ (At(u, "none") /\ fiber'[u].step = "plan")
      BY <1>3 DEF Fork, NoFiber
    <2> QED
      BY <2>1 DEF FiberMay, FiberKeeps, SameHold, FiberGone, At
  <1>4. ASSUME NEW t \in Threads, TakeStop(t) PROVE FiberMay(u)
    <2>1. fiber' = fiber \/ fiber' = [fiber EXCEPT ![t].interrupted = TRUE]
      BY <1>4 DEF TakeStop
    <2>2. fiber'[u] = fiber[u] \/ fiber'[u] = [fiber[u] EXCEPT !.interrupted = TRUE]
      BY <2>1 DEF TypeOK
    <2> QED
      BY <2>2, FiberOf DEF FiberMay, FiberKeeps, SameHold, Fiber
  <1>5. CASE \/ Boot \/ Reconciled \/ FinishEnd \/ Killed \/ StopMarked \/ StopClosed
             \/ ReadQueue
             \/ \E r \in RunIds : LoseRow(r) \/ FinishAnswer(r) \/ BotReads(r)
             \/ \E p \in DOMAIN said : Committed(p)
             \/ \E t \in Threads : Say(t) \/ FileStop(t) \/ HarnessAnswers(t)
    <2>1. fiber' = fiber
      BY <1>5 DEF Boot, Reconciled, FinishEnd, Killed, StopMarked, StopClosed,
                  ReadQueue, LoseRow, FinishAnswer, Say, FileStop, HarnessAnswers, BotReads,
                Committed
    <2> QED
      BY <2>1 DEF FiberMay, FiberKeeps, SameHold
  <1> QED
    BY <1>1, <1>2, <1>3, <1>4, <1>5, NextCases DEF LoopStep

(* What a step does to a session.                                            *)
FailedBy(ending) == IF ending \in {"errored", "timeout", "lost"} THEN "failed" ELSE "finished"

Opens(t) ==
  /\ Attach(t) /\ fiber[t].sess = None
  /\ lastSess' = lastSess + 1 /\ lastSess' \in SessionIds
  /\ sess'[lastSess'].of = t /\ sess'[lastSess'].status = "running"
  /\ \A s \in 1..lastSess : sess'[s] = sess[s]

EndsBy(s) ==
  /\ sess[s].status = "running"
  /\ \/ \E t \in Threads : /\ CloseSession(t) /\ fiber[t].sess = s
                           /\ sess'[s].status = FailedBy(fiber[t].ending)
     \/ /\ FinishEnd /\ run[loop.target].sess = s
        /\ sess'[s].status = "failed"

SessMay(s) ==
  \/ sess'[s].status = sess[s].status
  \/ \E t \in Threads : Attach(t) /\ fiber[t].sess = s /\ sess'[s].status = "running"
  \/ EndsBy(s)

LEMMA OpensOrNot ==
  ASSUME TypeInv, Next
  PROVE  lastSess' = lastSess \/ \E t \in Threads : Opens(t)
  <1> USE DEF TypeInv
  <1>1. ASSUME NEW t \in Threads, Attach(t), fiber[t].sess = None
        PROVE  Opens(t)
    <2> DEFINE new == [of |-> t, status |-> "running", mark |-> 0, provider |-> FALSE]
    <2>1. /\ lastSess < MaxSessions /\ lastSess' = lastSess + 1
          /\ sess' = [sess EXCEPT ![lastSess'] = new]
      BY <1>1 DEF Attach
    <2>2. lastSess' \in SessionIds /\ \A s \in 1..lastSess : s # lastSess'
      BY <2>1, IdsFact DEF TypeOK, SessionIds
    <2>3. new.of = t /\ new.status = "running"
      OBVIOUS
    <2> HIDE DEF new
    <2>4. sess'[lastSess'] = new
      BY <2>1, <2>2 DEF TypeOK
    <2>5. \A s \in 1..lastSess : sess'[s] = sess[s]
      BY <2>1, <2>2, RowIdsFact DEF TypeOK
    <2> QED
      BY <1>1, <2>1, <2>2, <2>3, <2>4, <2>5 DEF Opens
  <1>2. \/ lastSess' = lastSess \/ \E t \in Threads : Attach(t) /\ fiber[t].sess = None
    BY WritersHold DEF Writers, NewSessWriter
  <1> QED
    BY <1>1, <1>2

LEMMA EndMoves ==
  ASSUME TypeOK, NEW c, NEW e, EndSession(c, e), NEW s \in SessionIds
  PROVE  \/ sess'[s].status = sess[s].status
         \/ sess[s].status = "running" /\ s = c /\ sess'[s].status = FailedBy(e)
  <1>1. CASE sess[c].status = "running" /\ c \in SessionIds
    <2>1. sess' = [sess EXCEPT ![c].status = FailedBy(e)]
      BY <1>1 DEF EndSession, FailedBy
    <2> QED
      BY <1>1, <2>1 DEF TypeOK, Session
  <1>2. CASE ~(sess[c].status = "running" /\ c \in SessionIds)
    <2> DEFINE x == FailedBy(e)
    <2>1. sess' = sess \/ sess' = [sess EXCEPT ![c].status = x]
      BY DEF EndSession, FailedBy
    <2> HIDE DEF x
    <2>2. CASE c \in SessionIds
      <3>1. sess' = sess
        BY <1>2, <2>2 DEF EndSession
      <3> QED
        BY <3>1
    <2>3. CASE c \notin SessionIds
      BY <2>1, <2>3 DEF TypeOK
    <2> QED
      BY <2>2, <2>3
  <1> QED
    BY <1>1, <1>2

LEMMA SessMoves ==
  ASSUME TypeInv, Next, NEW s \in 1..lastSess
  PROVE  /\ s \in 1..lastSess' /\ s \in SessionIds
         /\ sess'[s].of = sess[s].of
         /\ SessMay(s)
  <1> USE DEF TypeInv
  <1>0. s \in SessionIds /\ lastSess \in Nat
    BY RowIdsFact DEF TypeOK
  <1>1. s \in 1..lastSess'
    BY OpensOrNot, <1>0 DEF Opens
  <1>2. CASE sess' = sess
    BY <1>0, <1>1, <1>2 DEF SessMay
  <1>3. ASSUME NEW t \in Threads, Attach(t)
        PROVE  sess'[s].of = sess[s].of /\ SessMay(s)
    <2>1. CASE fiber[t].sess = None
      <3> DEFINE new == [of |-> t, status |-> "running", mark |-> 0, provider |-> FALSE]
      <3>1. sess' = [sess EXCEPT ![lastSess'] = new] /\ lastSess' = lastSess + 1
        BY <1>3, <2>1 DEF Attach
      <3> HIDE DEF new
      <3>2. sess'[s] = sess[s]
        BY <1>0, <3>1 DEF TypeOK
      <3> QED
        BY <3>2 DEF SessMay
    <2>2. CASE fiber[t].sess # None
      <3>1. sess' = [sess EXCEPT ![fiber[t].sess].status = "running"]
        BY <1>3, <2>2 DEF Attach
      <3>2. sess'[s].of = sess[s].of
            /\ (sess'[s] = sess[s] \/ (fiber[t].sess = s /\ sess'[s].status = "running"))
        BY <3>1, <1>0 DEF TypeOK, Session
      <3> QED
        BY <1>3, <3>2 DEF SessMay
    <2> QED
      BY <2>1, <2>2
  <1>4. ASSUME NEW t \in Threads, Advance(t) \/ RecordProvider(t)
        PROVE  sess'[s].of = sess[s].of /\ SessMay(s)
    <2> DEFINE m == NextMark(fiber[t].unread)
               p == sess[fiber[t].sess].provider \/ run[fiber[t].run].state = "running"
    <2>1. \/ sess' = sess
          \/ sess' = [sess EXCEPT ![fiber[t].sess].mark = m]
          \/ sess' = [sess EXCEPT ![fiber[t].sess].provider = p]
      BY <1>4 DEF Advance, RecordProvider
    <2> HIDE DEF m, p
    <2>2. \/ sess'[s] = sess[s] \/ sess'[s] = [sess[s] EXCEPT !.mark = m]
          \/ sess'[s] = [sess[s] EXCEPT !.provider = p]
      BY <2>1, <1>0 DEF TypeOK
    <2>3. sess'[s].of = sess[s].of /\ sess'[s].status = sess[s].status
      BY <2>2, <1>0 DEF TypeOK, Session
    <2> QED
      BY <2>3 DEF SessMay
  <1>5. ASSUME NEW t \in Threads, CloseSession(t)
        PROVE  sess'[s].of = sess[s].of /\ SessMay(s)
    <2>1. EndSession(fiber[t].sess, fiber[t].ending)
      BY <1>5 DEF CloseSession
    <2>2. fiber[t].ending \in Endings
      BY FiberOf DEF Fiber
    <2>3. sess'[s].of = sess[s].of
      BY <1>0, <2>1, <2>2, EndSessionType
    <2>4. \/ sess'[s].status = sess[s].status
          \/ /\ sess[s].status = "running" /\ fiber[t].sess = s
             /\ sess'[s].status = FailedBy(fiber[t].ending)
      BY <1>0, <2>1, EndMoves
    <2> QED
      BY <1>5, <2>3, <2>4 DEF SessMay, EndsBy
  <1>6. CASE FinishEnd
    <2>1. EndSession(run[loop.target].sess, "lost") /\ "lost" \in Endings
      BY <1>6 DEF FinishEnd, Endings, TurnEndings
    <2>2. sess'[s].of = sess[s].of
      BY <1>0, <2>1, EndSessionType
    <2>3. FailedBy("lost") = "failed"
      BY DEF FailedBy
    <2>4. \/ sess'[s].status = sess[s].status
          \/ /\ sess[s].status = "running" /\ run[loop.target].sess = s
             /\ sess'[s].status = "failed"
      BY <1>0, <2>1, <2>3, EndMoves
    <2>5. sess'[s].status = sess[s].status \/ EndsBy(s)
      BY <1>6, <2>4, Zenon DEF EndsBy
    <2> QED
      BY <1>0, <1>1, <2>2, <2>5 DEF SessMay
  <1>7. \/ sess' = sess \/ FinishEnd
        \/ \E t \in Threads : Attach(t) \/ Advance(t) \/ RecordProvider(t) \/ CloseSession(t)
    BY WritersHold DEF Writers, SessWriter
  <1> QED
    BY <1>0, <1>1, <1>2, <1>3, <1>4, <1>5, <1>6, <1>7

LEMMA SupersededMoves ==
  ASSUME TypeInv, Next, NEW s \in 1..lastSess
  PROVE  /\ Superseded(s) => Superseded(s)'
         /\ Superseded(s)' => Superseded(s) \/ \E t \in Threads : Opens(t) /\ sess[s].of = t
  <1>1. sess'[s].of = sess[s].of /\ lastSess \in Nat
    BY SessMoves DEF TypeInv, TypeOK
  <1>2. ASSUME NEW n \in 1..lastSess PROVE sess'[n].of = sess[n].of /\ n \in 1..lastSess'
    BY SessMoves
  <1>3. Superseded(s) => Superseded(s)'
    BY <1>1, <1>2 DEF Superseded
  <1>4. ASSUME NEW n \in 1..lastSess', n > s, sess'[n].of = sess'[s].of
        PROVE  Superseded(s) \/ \E t \in Threads : Opens(t) /\ sess[s].of = t
    <2>1. CASE n \in 1..lastSess
      BY <1>1, <1>2, <1>4, <2>1 DEF Superseded
    <2>2. CASE n \notin 1..lastSess
      <3>1. PICK t \in Threads : Opens(t)
        BY <2>2, OpensOrNot
      <3>2. n = lastSess'
        BY <1>1, <2>2, <3>1 DEF Opens
      <3> QED
        BY <1>1, <1>4, <3>1, <3>2 DEF Opens
    <2> QED
      BY <2>1, <2>2
  <1> QED
    BY <1>3, <1>4 DEF Superseded

(* What a step does to a run row.                                            *)
LEMMA RowStays ==
  ASSUME AnswerInv, Next, NEW r \in 1..lastRun
  PROVE  /\ r \in 1..lastRun' /\ r \in RunIds
         /\ run'[r].of = run[r].of /\ run'[r].sess = run[r].sess
         /\ Live(r)' => Live(r)
         /\ ~Live(r) => run'[r] = run[r]
         /\ run'[r] = run[r] \/ Closed(r) \/ run'[r].state = "running"
  <1>1. r \in RunIds /\ r \in 1..lastRun'
    BY RowIdsFact, NewestMoves DEF AnswerInv, TypeInv
  <1>2. ~Created(r)
    BY NewestMoves DEF Created, AnswerInv
  <1>3. Kept(r) \/ Closed(r) \/ (Moved(r) /\ run'[r].state = "running")
    BY <1>1, <1>2, RowMoves DEF AnswerInv
  <1> QED
    BY <1>1, <1>3 DEF Kept, Closed, Moved, Live

LEMMA NewRunByCreate ==
  ASSUME Next, lastRun' # lastRun
  PROVE  \E t \in Threads : Create(t) /\ LiveOn(t) = {}
  BY WritersHold DEF Writers, RowWriter

LEMMA RowNew ==
  ASSUME AnswerInv, TypeInv', Next, NEW r \in 1..lastRun', r \notin 1..lastRun
  PROVE  /\ r = lastRun' /\ r \in RunIds /\ Live(r)' /\ run'[r].state = "queued"
         /\ run'[r].of \in Threads /\ Create(run'[r].of) /\ LiveOn(run'[r].of) = {}
         /\ run'[r].sess = fiber[run'[r].of].sess
         /\ fiber[run'[r].of].step = "create"
  <1>2. r \in RunIds /\ run'[r].of \in Threads
    BY BoundsAssumption DEF TypeInv, TypeOK, RunIds, Run
  <1>3. r > lastRun
    BY NewestMoves DEF AnswerInv
  <1>4. run[r].state = "absent"
    BY <1>2, <1>3 DEF AnswerInv, RowsInOrder
  <1>5. Created(r)
    <2>1. ~Live(r)
      BY <1>4 DEF Live, LiveStates
    <2>2. ~Kept(r)
      <3>1. lastRun' = lastRun + 1 /\ r = lastRun'
        BY <1>3, NewestMoves DEF AnswerInv
      <3>2. PICK t \in Threads : Create(t) /\ LiveOn(t) = {}
        BY <3>1, NewRunByCreate DEF AnswerInv
      <3> DEFINE new == [of |-> t, sess |-> fiber[t].sess, state |-> "queued"]
      <3>3. run' = [run EXCEPT ![lastRun'] = new] /\ new.state = "queued"
        BY <3>2 DEF Create
      <3> HIDE DEF new
      <3> QED
        BY <1>2, <1>4, <3>1, <3>3 DEF Kept, AnswerInv, TypeInv, TypeOK
    <2> QED
      BY <1>2, <2>1, <2>2, RowMoves DEF Closed, Moved, AnswerInv
  <1> QED
    BY <1>2, <1>5 DEF Created, Live, LiveStates, Create, At

(* Whole steps. A fiber's hold on the session of its thread.                  *)
Fitting == WholeInv /\ TypeInv' /\ Next

LEMMA Quiet ==
  ASSUME WholeInv, loop.step \in {"lose", "finish", "end"} \/ loop.finish # {}
  PROVE  \A t \in Threads : fiber[t].step = "none"
  BY DEF WholeInv, BootFits, AnswerInv, LoopAlone

LEMMA FinishEndQuiet ==
  ASSUME WholeInv, FinishEnd
  PROVE  /\ \A t \in Threads : fiber[t].step = "none"
         /\ loop.target \in loop.finish /\ loop.target \in 1..lastRun
         /\ run[loop.target].state = "lost"
  BY Quiet DEF FinishEnd, WholeInv, BootFits, AnswerInv, LostAreLost

LEMMA HeldSession ==
  ASSUME TypeInv, NEW t \in Threads, fiber[t].step \in WithSession
  PROVE  fiber[t].sess \in 1..lastSess /\ sess[fiber[t].sess].of = t
         /\ fiber[t].sess # None
  BY BoundsAssumption DEF TypeInv, TypeOK, Placed, PlacedIn, None

LEMMA NotNone ==
  /\ "none" \notin WithSession /\ "none" \notin WithRun /\ "attach" \notin WithSession
  /\ "create" \in WithSession /\ "end" \in WithRun /\ "create" \notin WithRun
  /\ WithRun \subseteq WithSession
  BY DEF WithSession, WithRun, InTurn, Terminal

LEMMA RunIsOf ==
  ASSUME WholeInv, NEW r \in 1..lastRun
  PROVE  /\ r \in RunIds /\ run[r].sess \in 1..lastSess
         /\ sess[run[r].sess].of = run[r].of /\ run[r].of \in Threads
  BY RowIdsFact DEF WholeInv, AnswerInv, TypeInv, TypeOK, Run, RowsOwned

LEMMA LiveOnKept ==
  ASSUME Fitting, NEW t \in Threads, LiveOn(t) = {}
  PROVE  LiveOn(t)' = {} \/ (Create(t) /\ LiveOn(t) = {})
  <1> USE DEF Fitting
  <1>1. ASSUME NEW r \in RunIds, run'[r].of = t, Live(r)', ~Create(t)
        PROVE  FALSE
    <2>1. r \in 1..lastRun'
      <3>1. r \in 1..lastRun \/ run[r].state = "absent"
        BY IdsFact DEF RunIds, WholeInv, AnswerInv, RowsInOrder, TypeInv, TypeOK
      <3>2. CASE run[r].state = "absent"
        <4>1. ~Live(r) /\ ~Kept(r)
          BY <1>1, <3>2 DEF Live, LiveStates, Kept
        <4>2. Created(r)
          BY <4>1, RowMoves DEF Closed, Moved, WholeInv, AnswerInv
        <4> QED
          BY <1>1, <4>2 DEF Created
      <3> QED
        BY <3>1, <3>2, RowStays DEF WholeInv
    <2>2. r \in 1..lastRun
      BY <1>1, <2>1, RowNew DEF WholeInv
    <2>3. Live(r) /\ run[r].of = t
      BY <1>1, <2>2, RowStays DEF WholeInv
    <2> QED
      BY <2>3 DEF LiveOn
  <1> QED
    BY <1>1 DEF LiveOn

LEMMA NewestKept ==
  ASSUME Fitting, NEW r \in 1..lastRun, NewestRun(r)
  PROVE  NewestRun(r)' \/ (Create(run[r].of) /\ LiveOn(run[r].of) = {})
  <1> USE DEF Fitting
  <1>1. run'[r].of = run[r].of
    BY RowStays DEF WholeInv
  <1>2. ASSUME NEW n \in 1..lastRun', n > r, run'[n].of = run'[r].of
        PROVE  Create(run[r].of) /\ LiveOn(run[r].of) = {}
    <2>1. n \notin 1..lastRun
      BY <1>1, <1>2, RowStays DEF WholeInv, NewestRun
    <2> QED
      BY <1>1, <1>2, <2>1, RowNew DEF WholeInv
  <1> QED
    BY <1>2 DEF NewestRun

(* Whether a session may be resumed changes with its status and with the end of *)
(* a run of it, and with nothing else.                                       *)
LEMMA ResumableKept ==
  ASSUME Fitting, NEW s \in 1..lastSess, sess'[s].status = sess[s].status,
         \A r \in 1..lastRun : run[r].sess = s => ~Live(r)
  PROVE  Resumable(s)' = Resumable(s)
  <1> USE DEF Fitting
  <1>1. ASSUME NEW r \in RunIds
        PROVE  /\ (run'[r].sess = s /\ run'[r].state \in Endings)
                   <=> (run[r].sess = s /\ run[r].state \in Endings)
               /\ run[r].sess = s /\ run[r].state \in Endings => run'[r] = run[r]
    <2>0. \A e \in Endings : e \notin LiveStates /\ e # "absent" /\ e # "queued"
      BY DEF Endings, TurnEndings, LiveStates
    <2>1. CASE r \in 1..lastRun
      <3>1. /\ run'[r].sess = run[r].sess /\ (~Live(r) => run'[r] = run[r])
        BY <2>1, RowStays DEF WholeInv
      <3>2. run[r].sess = s => run'[r] = run[r]
        BY <2>1, <3>1
      <3> QED
        BY <3>1, <3>2
    <2>2. CASE r \notin 1..lastRun
      <3>1. run[r].state = "absent"
        BY <2>2, IdsFact DEF RunIds, WholeInv, AnswerInv, RowsInOrder, TypeInv, TypeOK
      <3>2. Kept(r) \/ Created(r)
        BY <3>1, RowMoves DEF Closed, Moved, Live, LiveStates, WholeInv, AnswerInv
      <3> QED
        BY <2>0, <3>1, <3>2 DEF Kept, Created
    <2> QED
      BY <2>1, <2>2
  <1>2. Ended(s)' = Ended(s) /\ \A r \in Ended(s) : run'[r] = run[r]
    BY <1>1 DEF Ended
  <1>3. \A r \in Ended(s) : run'[r].state = run[r].state
    BY <1>2
  <1> DEFINE E == Ended(s)
  <1>4. Resumable(s) <=> \/ sess[s].status # "failed"
                         \/ \E r \in E : /\ \A q \in E : q <= r
                                         /\ run[r].state \in {"done", "timeout"}
                                         /\ \A q \in E \ {r} : run[q].state # run[r].state
    BY DEF Resumable
  <1>5. Resumable(s)' <=> \/ sess'[s].status # "failed"
                         \/ \E r \in E' : /\ \A q \in E' : q <= r
                                         /\ run'[r].state \in {"done", "timeout"}
                                         /\ \A q \in E' \ {r} : run'[q].state # run'[r].state
    BY DEF Resumable
  <1>6. E' = E /\ \A r \in E : run'[r].state = run[r].state
    BY <1>2, <1>3
  <1> HIDE DEF E
  <1>7. (Resumable(s)') <=> Resumable(s)
    BY <1>4, <1>5, <1>6
  <1> QED
    BY <1>7 DEF Resumable

(* What a thread's fiber holds stays as it is until that fiber lets go.       *)
LEMMA HoldKept ==
  ASSUME Fitting, NEW t \in Threads, fiber[t].step \in WithSession, ~CloseSession(t),
         NEW s, s = fiber[t].sess
  PROVE  s \in 1..lastSess /\ sess'[s].status = "running" /\ ~Superseded(s)'
  <1> USE DEF Fitting
  <1>1. s \in 1..lastSess /\ sess[s].of = t
    BY HeldSession DEF WholeInv, AnswerInv
  <1>2. sess[s].status = "running" /\ ~Superseded(s)
    BY DEF WholeInv, FibersFit, Fits
  <1>3. ~EndsBy(s)
    <2>1. ASSUME NEW u \in Threads, CloseSession(u), fiber[u].sess = s PROVE FALSE
      <3>1. fiber[u].step \in WithSession
        BY <2>1, NotNone DEF CloseSession, At
      <3>2. u = t
        BY <1>1, <2>1, <3>1, HeldSession DEF WholeInv, AnswerInv
      <3> QED
        BY <2>1, <3>2
    <2>2. ~FinishEnd
      BY FinishEndQuiet, NotNone
    <2> QED
      BY <2>1, <2>2 DEF EndsBy
  <1>4. sess'[s].status = "running"
    BY <1>1, <1>2, <1>3, SessMoves DEF SessMay, WholeInv, AnswerInv
  <1>5. ASSUME NEW u \in Threads, Opens(u), sess[s].of = u PROVE FALSE
    BY <1>1, <1>5, NotNone DEF Opens, Attach, At
  <1>6. ~Superseded(s)'
    BY <1>1, <1>2, <1>5, SupersededMoves DEF WholeInv, AnswerInv
  <1> QED
    BY <1>1, <1>4, <1>6

(* A choice of a session stays right until it is attached.                    *)
LEMMA ChoiceKept ==
  ASSUME Fitting, NEW t \in Threads, fiber[t].step = "attach", ~Attach(t),
         fiber'[t].sess = fiber[t].sess
  PROVE  StillChosen(t)'
  <1> USE DEF Fitting
  <1>1. LiveOn(t) = {} /\ StillChosen(t)
    BY DEF WholeInv, FibersFit, Fits
  <1>2. ~FinishEnd
    BY FinishEndQuiet
  <1>3. ASSUME NEW u \in Threads, Opens(u) PROVE u # t
    BY <1>3 DEF Opens
  <1>4. ASSUME NEW s \in 1..lastSess, sess[s].of = t
        PROVE  /\ Resumable(s)' = Resumable(s) /\ sess'[s].of = t /\ s \in 1..lastSess'
               /\ Superseded(s)' => Superseded(s)
    <2>1. sess'[s].status = sess[s].status
      <3>1. ASSUME NEW u \in Threads, Attach(u), fiber[u].sess = s PROVE FALSE
        <4>1. sess[s].of = u
          BY <3>1, BoundsAssumption
          DEF Attach, At, WholeInv, AnswerInv, TypeInv, TypeOK, Placed, PlacedIn, None
        <4> QED
          BY <1>4, <3>1, <4>1
      <3>2. ASSUME NEW u \in Threads, CloseSession(u), fiber[u].sess = s PROVE FALSE
        <4>1. sess[s].of = u
          BY <3>2, HeldSession, NotNone DEF CloseSession, At, WholeInv, AnswerInv
        <4> QED
          BY <1>4, <3>2, <4>1 DEF CloseSession, At
      <3> QED
        BY <1>2, <3>1, <3>2, SessMoves DEF SessMay, EndsBy, WholeInv, AnswerInv
    <2>2. \A r \in 1..lastRun : run[r].sess = s => ~Live(r)
      BY <1>1, <1>4, RunIsOf DEF LiveOn
    <2>3. Resumable(s)' = Resumable(s)
      BY <2>1, <2>2, ResumableKept
    <2> QED
      BY <1>3, <1>4, <2>3, SessMoves, SupersededMoves DEF WholeInv, AnswerInv
  <1>5. SessionsOf(t)' \subseteq SessionsOf(t)
    <2>1. ASSUME NEW s \in 1..lastSess', sess'[s].of = t PROVE s \in SessionsOf(t)
      <3>1. CASE s \in 1..lastSess
        BY <2>1, <3>1, SessMoves DEF SessionsOf, WholeInv, AnswerInv
      <3>2. CASE s \notin 1..lastSess
        <4>1. PICK u \in Threads : Opens(u)
          BY <3>2, OpensOrNot DEF WholeInv, AnswerInv
        <4>2. s = lastSess'
          BY <2>1, <3>2, <4>1 DEF Opens, WholeInv, AnswerInv, TypeInv, TypeOK
        <4> QED
          BY <1>3, <2>1, <4>1, <4>2 DEF Opens
      <3> QED
        BY <3>1, <3>2
    <2> QED
      BY <2>1 DEF SessionsOf
  <1> DEFINE s == fiber[t].sess
  <1>6. CASE s = None /\ \A o \in SessionsOf(t) : ~Resumable(o)
    <2>1. ASSUME NEW o \in SessionsOf(t)' PROVE ~Resumable(o)'
      <3>1. o \in 1..lastSess /\ sess[o].of = t /\ ~Resumable(o)
        BY <1>5, <1>6, <2>1 DEF SessionsOf
      <3> QED
        BY <3>1, <1>4
    <2> QED
      BY <1>6, <2>1 DEF StillChosen
  <1>7. CASE s \in SessionsOf(t) /\ Resumable(s) /\ ~Superseded(s)
    <2>1. s \in SessionsOf(t)' /\ Resumable(s)' /\ ~Superseded(s)'
      BY <1>4, <1>7 DEF SessionsOf
    <2> QED
      BY <2>1 DEF StillChosen
  <1> QED
    BY <1>1, <1>6, <1>7 DEF StillChosen

LEMMA CutGrows ==
  ASSUME Next
  PROVE  cut \subseteq cut'
  BY WritersHold DEF Writers

LEMMA RowsOwnedStep ==
  ASSUME Fitting
  PROVE  RowsOwned'
  <1> USE DEF Fitting
  <1> SUFFICES ASSUME NEW r \in 1..lastRun'
               PROVE  run'[r].sess \in 1..lastSess' /\ sess'[run'[r].sess].of = run'[r].of
    BY DEF RowsOwned
  <1>1. CASE r \in 1..lastRun
    <2>1. run'[r].of = run[r].of /\ run'[r].sess = run[r].sess
      BY <1>1, RowStays DEF WholeInv
    <2>2. run[r].sess \in 1..lastSess /\ sess[run[r].sess].of = run[r].of
      BY <1>1 DEF WholeInv, RowsOwned
    <2> QED
      BY <2>1, <2>2, SessMoves DEF WholeInv, AnswerInv
  <1>2. CASE r \notin 1..lastRun
    <2> DEFINE t == run'[r].of
    <2>1. t \in Threads /\ run'[r].sess = fiber[t].sess /\ fiber[t].step = "create"
      BY <1>2, RowNew DEF WholeInv
    <2>2. fiber[t].sess \in 1..lastSess /\ sess[fiber[t].sess].of = t
      BY <2>1, HeldSession, NotNone DEF WholeInv, AnswerInv
    <2> QED
      BY <2>1, <2>2, SessMoves DEF WholeInv, AnswerInv
  <1> QED
    BY <1>1, <1>2

LEMMA Leaves ==
  ASSUME TypeOK, NEW t \in Threads
  PROVE  /\ CloseSession(t) => fiber[t].step = "end" /\ fiber'[t].step = "none"
         /\ Attach(t) => fiber[t].step = "attach" /\ fiber'[t].step = "create"
         /\ Create(t) /\ LiveOn(t) = {} =>
              fiber[t].step = "create" /\ fiber'[t].step = "opened"
  <1>1. ASSUME CloseSession(t) PROVE fiber[t].step = "end" /\ fiber'[t].step = "none"
    BY <1>1 DEF CloseSession, At, Proceed, Following, Leave, NoFiber, TypeOK
  <1>2. ASSUME Attach(t) PROVE fiber[t].step = "attach" /\ fiber'[t].step = "create"
    <2> DEFINE p == sess[fiber[t].sess].provider
    <2>1. /\ fiber[t].step = "attach"
          /\ \/ fiber' = [fiber EXCEPT ![t].step = "create", ![t].resumed = p]
             \/ fiber' = [fiber EXCEPT ![t].step = "create", ![t].sess = lastSess']
      BY <1>2 DEF Attach, At
    <2> HIDE DEF p
    <2> QED
      BY <2>1, FiberOf DEF TypeOK, Fiber
  <1>3. ASSUME Create(t), LiveOn(t) = {}
        PROVE  fiber[t].step = "create" /\ fiber'[t].step = "opened"
    BY <1>3, FiberOf DEF Create, At, TypeOK, Fiber
  <1> QED
    BY <1>1, <1>2, <1>3

LEMMA BeforeFits ==
  ASSUME Fitting, NEW u \in Threads
  PROVE  /\ fiber'[u].step \in {"admit", "attach", "create"} => LiveOn(u)' = {}
         /\ fiber'[u].step = "attach" => StillChosen(u)'
  <1> USE DEF Fitting
  <1>0. FiberMay(u)
    BY FiberSteps DEF WholeInv, AnswerInv
  <1>t. TypeOK
    BY DEF WholeInv, AnswerInv, TypeInv
  <1>1. ASSUME fiber'[u].step \in {"admit", "attach", "create"} PROVE LiveOn(u)' = {}
    <2>1. LiveOn(u) = {}
      <3>1. CASE FiberKeeps(u)
        BY <1>1, <3>1 DEF FiberKeeps, WholeInv, FibersFit, Fits
      <3>2. CASE FiberMoves(u)
        BY <1>1, <3>2, NotNone
        DEF FiberMoves, WholeInv, FibersFit, Fits, Admit, Attach, At, WithRun, InTurn, Terminal
      <3> QED
        BY <1>0, <1>1, <3>1, <3>2 DEF FiberMay, FiberGone
    <2>2. ~(Create(u) /\ LiveOn(u) = {})
      BY <1>1, <1>t, Leaves
    <2> QED
      BY <2>1, <2>2, LiveOnKept
  <1>2. ASSUME fiber'[u].step = "attach" PROVE StillChosen(u)'
    <2>1. CASE FiberKeeps(u)
      <3>1. ~Attach(u) /\ fiber[u].step = "attach" /\ fiber'[u].sess = fiber[u].sess
        BY <1>2, <1>t, <2>1, Leaves DEF FiberKeeps, SameHold
      <3> QED
        BY <3>1, ChoiceKept
    <2>2. CASE FiberMoves(u)
      <3>1. Admit(u) /\ fiber'[u].sess = Chosen(u)
        BY <1>2, <2>2 DEF FiberMoves, WithRun, InTurn, Terminal
      <3> DEFINE S == {s \in SessionsOf(u) : Resumable(s)}
      <3>2. sess' = sess /\ lastSess' = lastSess /\ run' = run
        BY <3>1 DEF Admit, rows
      <3>3. \A s \in SessionsOf(u) : Superseded(s) => ~Resumable(s)
        BY DEF SessionsOf, WholeInv, OldAreClosed
      <3>4. S \in SUBSET (0..MaxSessions)
        BY <1>t, IdsFact DEF TypeOK, SessionsOf
      <3>5. S = {} \/ Newest(S) \in S
        BY <3>4, IdsFact, NewestIsLast
      <3>6. Newest(S) = Chosen(u) /\ (S = {} => Chosen(u) = None)
        BY DEF Chosen, LatestResumable, Newest
      <3>7. LET s == Chosen(u) IN
            \/ s = None /\ \A o \in SessionsOf(u) : ~Resumable(o)
            \/ s \in SessionsOf(u) /\ Resumable(s) /\ ~Superseded(s)
        BY <3>3, <3>5, <3>6
      <3>8. /\ SessionsOf(u)' = SessionsOf(u)
            /\ \A s : Superseded(s)' = Superseded(s)
            /\ \A s : Resumable(s)' = Resumable(s)
        BY <3>2 DEF SessionsOf, Superseded, Resumable, Ended
      <3> DEFINE c == Chosen(u)
      <3> HIDE DEF c
      <3>9. StillChosen(u)' <=>
              \/ c = None /\ \A o \in SessionsOf(u)' : ~Resumable(o)'
              \/ c \in SessionsOf(u)' /\ Resumable(fiber[u].sess)' /\ ~Superseded(fiber[u].sess)'
        BY <3>1 DEF StillChosen, c
      <3> QED
        BY <3>1, <3>7, <3>8, <3>9 DEF c
    <2> QED
      BY <1>0, <1>2, <2>1, <2>2 DEF FiberMay, FiberGone
  <1> QED
    BY <1>1, <1>2

LEMMA HeldFits ==
  ASSUME Fitting, NEW u \in Threads, fiber'[u].step \in WithSession
  PROVE  sess'[fiber'[u].sess].status = "running" /\ ~Superseded(fiber[u].sess)'
  <1> USE DEF Fitting
  <1>0. FiberMay(u)
    BY FiberSteps DEF WholeInv, AnswerInv
  <1>t. TypeOK
    BY DEF WholeInv, AnswerInv, TypeInv
  <1> SUFFICES ASSUME NEW s, s = fiber'[u].sess
               PROVE  sess'[s].status = "running" /\ ~Superseded(s)'
    OBVIOUS
  <1>1. ASSUME fiber[u].step \in WithSession, fiber'[u].sess = fiber[u].sess,
               ~CloseSession(u)
        PROVE  sess'[s].status = "running" /\ ~Superseded(s)'
    BY <1>1, HoldKept
  <1>2. CASE FiberKeeps(u)
    BY <1>1, <1>2, <1>t, Leaves DEF FiberKeeps, SameHold, WithSession, InTurn, Terminal
  <1>3. CASE Attach(u) /\ fiber[u].sess = None
    <2>1. Opens(u) /\ s = lastSess'
      <3>1. FiberMoves(u) => fiber'[u].sess = lastSess'
        BY <1>3, <1>t, Leaves, NotNone
        DEF FiberMoves, Plan, Admit, Create, CloseRow, WriteRefused, At, WithRun, InTurn, Terminal
      <3>2. FiberMoves(u)
        BY <1>0, <1>3, <1>t, Leaves DEF FiberMay, FiberKeeps, FiberGone
      <3>3. lastSess' # lastSess
        BY <1>3, <1>t DEF Attach, TypeOK
      <3>4. PICK v \in Threads : Opens(v)
        BY <3>3, OpensOrNot DEF WholeInv, AnswerInv
      <3>5. sess'[lastSess'].of = u
        <4> DEFINE new == [of |-> u, status |-> "running", mark |-> 0, provider |-> FALSE]
        <4>1. sess' = [sess EXCEPT ![lastSess'] = new] /\ new.of = u
          BY <1>3 DEF Attach
        <4> HIDE DEF new
        <4> QED
          BY <3>4, <4>1, <1>t DEF Opens, TypeOK
      <3>6. v = u
        BY <3>4, <3>5 DEF Opens
      <3> QED
        BY <3>1, <3>2, <3>4, <3>6
    <2>2. ~Superseded(s)'
      BY <2>1, <1>t DEF Opens, Superseded, TypeOK
    <2> QED
      BY <2>1, <2>2 DEF Opens
  <1>4. CASE Attach(u) /\ fiber[u].sess # None
    <2>1. s = fiber[u].sess
      BY <1>0, <1>4, <1>t, Leaves, NotNone
      DEF FiberMay, FiberKeeps, FiberGone, FiberMoves, Plan, Admit, Create, CloseRow,
          WriteRefused, At, WithRun, InTurn, Terminal
    <2>2. s \in SessionsOf(u) /\ ~Superseded(s) /\ s \in 1..lastSess
      BY <1>4, <1>t, <2>1, Leaves DEF WholeInv, FibersFit, Fits, StillChosen, SessionsOf
    <2>3. sess' = [sess EXCEPT ![s].status = "running"] /\ lastSess' = lastSess
      BY <1>4, <2>1 DEF Attach
    <2>4. sess'[s].status = "running"
      BY <2>2, <2>3, <1>t, RowIdsFact DEF TypeOK, Session
    <2>5. \A v \in Threads : ~Opens(v)
      BY <2>3, <1>t DEF Opens, TypeOK
    <2> QED
      BY <2>2, <2>4, <2>5, SupersededMoves DEF WholeInv, AnswerInv
  <1>5. CASE FiberMoves(u) /\ ~Attach(u)
    <2>1. fiber[u].step \in WithSession /\ fiber'[u].sess = fiber[u].sess
      BY <1>5, NotNone
      DEF FiberMoves, SameHold, Create, At, WithSession, WithRun, InTurn, Terminal
    <2>2. ~CloseSession(u)
      BY <1>5, <1>t, Leaves
      DEF FiberMoves, Create, At, WithSession, WithRun, InTurn, Terminal
    <2> QED
      BY <1>1, <2>1, <2>2
  <1> QED
    BY <1>0, <1>2, <1>3, <1>4, <1>5 DEF FiberMay, FiberGone, WithSession, InTurn, Terminal

LEMMA RunFits ==
  ASSUME Fitting, NEW u \in Threads, fiber'[u].step \in WithRun
  PROVE  /\ run'[fiber'[u].run].sess = fiber'[u].sess
         /\ run'[fiber'[u].run].of = u
         /\ NewestRun(fiber[u].run)'
  <1> USE DEF Fitting
  <1>0. FiberMay(u)
    BY FiberSteps DEF WholeInv, AnswerInv
  <1>t. TypeOK
    BY DEF WholeInv, AnswerInv, TypeInv
  <1> SUFFICES ASSUME NEW r, r = fiber'[u].run
               PROVE  run'[r].sess = fiber'[u].sess /\ run'[r].of = u /\ NewestRun(r)'
    OBVIOUS
  <1>1. CASE fiber[u].step \in WithRun /\ SameHold(u)
    <2>1. /\ r \in 1..lastRun /\ run[r].sess = fiber[u].sess /\ run[r].of = u
          /\ NewestRun(r)
      BY <1>1, FiberHas DEF SameHold, WholeInv, AnswerInv, FibersFit, Fits
    <2>2. run'[r].sess = run[r].sess /\ run'[r].of = run[r].of
      BY <2>1, RowStays DEF WholeInv
    <2>3. ~Create(u)
      BY <1>1, NotNone DEF Create, At
    <2> QED
      BY <1>1, <2>1, <2>2, <2>3, NewestKept DEF SameHold
  <1>2. CASE Create(u) /\ LiveOn(u) = {} /\ fiber'[u].run = lastRun'
             /\ fiber'[u].sess = fiber[u].sess
    <2> DEFINE new == [of |-> u, sess |-> fiber[u].sess, state |-> "queued"]
    <2>1. lastRun < MaxRuns /\ lastRun' = lastRun + 1 /\ run' = [run EXCEPT ![lastRun'] = new]
          /\ new.of = u /\ new.sess = fiber[u].sess
      BY <1>2 DEF Create
    <2> HIDE DEF new
    <2>2. r \in RunIds /\ run'[r] = new
      BY <1>2, <1>t, <2>1, IdsFact DEF TypeOK, RunIds
    <2>3. NewestRun(r)'
      BY <1>2, <1>t, <2>1 DEF NewestRun, TypeOK
    <2> QED
      BY <1>2, <2>1, <2>2, <2>3
  <1>3. CASE FiberMoves(u)
    BY <1>1, <1>2, <1>3 DEF FiberMoves, WithRun, InTurn, Terminal
  <1> QED
    BY <1>0, <1>1, <1>3 DEF FiberMay, FiberKeeps, FiberGone, WithRun, InTurn, Terminal

LEMMA EndFits ==
  ASSUME Fitting, NEW u \in Threads, fiber'[u].step = "end", fiber'[u].run \notin cut'
  PROVE  run'[fiber'[u].run].state = fiber'[u].ending
  <1> USE DEF Fitting
  <1>0. FiberMay(u)
    BY FiberSteps DEF WholeInv, AnswerInv
  <1>1. CASE FiberKeeps(u)
    <2>1. fiber[u].step = "end" /\ fiber'[u].run = fiber[u].run
          /\ fiber'[u].ending = fiber[u].ending /\ fiber[u].run \notin cut
      BY <1>1, CutGrows DEF FiberKeeps, SameHold
    <2>2. run[fiber[u].run].state = fiber[u].ending /\ fiber[u].run \in 1..lastRun
          /\ fiber[u].ending \in Endings
      BY <2>1, FiberHas, NotNone DEF Fiber, WholeInv, AnswerInv, FibersFit, Fits
    <2>3. ~Live(fiber[u].run)
      BY <2>2 DEF Live, LiveStates, Endings, TurnEndings
    <2> QED
      BY <2>1, <2>2, <2>3, RowStays DEF WholeInv
  <1>2. CASE FiberMoves(u)
    <2>1. /\ fiber[u].step = "close" /\ SameHold(u) /\ fiber'[u].ending = fiber[u].ending
          /\ CloseRow(u)
      BY <1>2 DEF FiberMoves, SameHold
    <2>2. Live(fiber[u].run)
      BY <2>1 DEF Speaking, Busy, WholeInv, AnswerInv
    <2>3. fiber[u].run \in RunIds
      BY <2>1, FiberHas DEF WithRun, Terminal, WholeInv, AnswerInv
    <2>4. run' = [run EXCEPT ![fiber[u].run].state = fiber[u].ending]
      BY <2>1, <2>2 DEF CloseRow, Close
    <2> QED
      BY <2>1, <2>3, <2>4 DEF SameHold, WholeInv, AnswerInv, TypeInv, TypeOK, Run
  <1> QED
    BY <1>0, <1>1, <1>2 DEF FiberMay, FiberGone

LEMMA FibersFitStep ==
  ASSUME Fitting
  PROVE  FibersFit'
  BY BeforeFits, HeldFits, RunFits, EndFits DEF FibersFit, Fits

(* The runs a boot has lost and has still to finish.                          *)
LEMMA FinishMoves ==
  ASSUME Fitting, NEW r
  PROVE  /\ r \in loop'.finish => r \in loop.finish \/ (LoseRow(r) /\ Live(r) /\ r \in RunIds)
         /\ r \in loop.finish =>
              \/ r \in loop'.finish \/ r \in cut'
              \/ FinishEnd /\ r = loop.target
         /\ FinishEnd => loop.target \notin loop'.finish
  <1> USE DEF Fitting
  <1>t. loop \in Loop /\ (loop.finish # {} => loop.step \in {"lose", "finish", "end"})
    BY DEF WholeInv, AnswerInv, TypeInv, TypeOK, BootFits
  <1>1. CASE loop' = loop
    <2>1. ~FinishEnd
      BY <1>1, <1>t DEF FinishEnd, Loop
    <2> QED
      BY <1>1, <2>1
  <1>2. CASE Crash
    BY <1>2 DEF Crash, LoopAt, FinishEnd
  <1>3. CASE Boot
    BY <1>3, <1>t DEF Boot, LoopAt, FinishEnd
  <1>4. CASE Reconciled \/ Killed \/ StopMarked
    <2>1. loop'.finish = loop.finish /\ ~FinishEnd
      BY <1>4, <1>t DEF Reconciled, Killed, StopMarked, FinishEnd, Loop
    <2> QED
      BY <2>1
  <1>5. CASE FinishEnd
    BY <1>5, <1>t DEF FinishEnd, Loop
  <1>6. CASE StopClosed /\ loop'.finish = {}
    BY <1>6, <1>t DEF StopClosed, FinishEnd
  <1>7. CASE ReadQueue /\ loop'.finish = {}
    BY <1>7, <1>t DEF ReadQueue, FinishEnd
  <1>8. CASE Fork /\ loop'.finish = {}
    BY <1>8, <1>t DEF Fork, FinishEnd
  <1>9. ASSUME NEW u \in Threads, TakeStop(u), loop'.finish = {}
        PROVE  loop.finish = {} /\ ~FinishEnd
    BY <1>9, <1>t DEF TakeStop, FinishEnd
  <1>10. ASSUME NEW q \in RunIds, FinishAnswer(q)
         PROVE  loop'.finish = loop.finish /\ ~FinishEnd
    BY <1>10, <1>t DEF FinishAnswer, FinishEnd, Loop
  <1>11. ASSUME NEW q \in RunIds, LoseRow(q)
         PROVE  /\ loop'.finish = IF Live(q) THEN loop.finish \cup {q} ELSE loop.finish
                /\ ~FinishEnd
    BY <1>11, <1>t DEF LoseRow, FinishEnd, Loop
  <1> QED
    BY <1>1, <1>2, <1>3, <1>4, <1>5, <1>6, <1>7, <1>8, <1>9, <1>10, <1>11, LoopMoves
    DEF WholeInv, AnswerInv

LEMMA BootFitsStep ==
  ASSUME Fitting
  PROVE  BootFits'
  <1> USE DEF Fitting
  <1>t. loop \in Loop /\ BootFits
    BY DEF WholeInv, AnswerInv, TypeInv, TypeOK
  <1>1. \A r \in loop'.finish : r \in 1..lastRun'
    <2> SUFFICES ASSUME NEW r \in loop'.finish PROVE r \in 1..lastRun'
      OBVIOUS
    <2>1. r \in loop.finish \/ (Live(r) /\ r \in RunIds)
      BY FinishMoves
    <2>2. r \in 1..lastRun
      BY <2>1, IdsFact
      DEF Live, LiveStates, RunIds, WholeInv, BootFits, AnswerInv, RowsInOrder, TypeInv, TypeOK
    <2> QED
      BY <2>2, RowStays DEF WholeInv
  <1>2. /\ loop'.finish # {} => loop'.step \in {"lose", "finish", "end"}
        /\ loop'.step = "end" => loop'.target \in loop'.finish
    <2>1. CASE loop' = loop
      BY <2>1, <1>t DEF BootFits
    <2>2. CASE Crash \/ Boot
      BY <2>2 DEF Crash, Boot, LoopAt
    <2>3. CASE Reconciled \/ Killed \/ StopMarked
      BY <2>3, <1>t DEF Reconciled, Killed, StopMarked, Loop, BootFits
    <2>4. CASE FinishEnd
      BY <2>4, <1>t DEF FinishEnd, Loop
    <2>5. ASSUME NEW q \in RunIds, FinishAnswer(q) \/ LoseRow(q)
          PROVE  /\ loop'.finish # {} => loop'.step \in {"lose", "finish", "end"}
                 /\ loop'.step = "end" => loop'.target \in loop'.finish
      BY <2>5, <1>t DEF FinishAnswer, LoseRow, Loop
    <2>6. CASE loop'.finish = {} /\ loop'.step # "end"
      BY <2>6
    <2> QED
      BY <2>1, <2>2, <2>3, <2>4, <2>5, <2>6, LoopMoves DEF WholeInv, AnswerInv
  <1> QED
    BY <1>1, <1>2 DEF BootFits

(* A run that is live or lost stays the newest of its thread, and its session   *)
(* open: the session is ended by that run's own fiber or boot.                *)
LEMMA SameThreadSameRun ==
  ASSUME WholeInv, NEW r \in 1..lastRun, NEW q \in 1..lastRun, NewestRun(r), NewestRun(q),
         run[r].of = run[q].of
  PROVE  r = q
  BY DEF NewestRun, WholeInv, AnswerInv, TypeInv, TypeOK

LEMMA RunsFitStep ==
  ASSUME Fitting
  PROVE  RunsFit'
  <1> USE DEF Fitting
  <1> SUFFICES ASSUME NEW r \in 1..lastRun'
               PROVE  /\ Pending(r)' => NewestRun(r)' /\ OpenFor(r)'
                      /\ Live(r)' => \A s : s = run'[r].sess => ~Superseded(s)'
    BY DEF RunsFit
  <1>1. CASE r \notin 1..lastRun
    <2> DEFINE t == run'[r].of
    <2>1. /\ t \in Threads /\ run'[r].sess = fiber[t].sess /\ fiber[t].step = "create"
          /\ r = lastRun'
      BY <1>1, RowNew DEF WholeInv
    <2>2. PICK s : s = fiber[t].sess
      OBVIOUS
    <2>3. ~CloseSession(t)
      BY <2>1 DEF CloseSession, At
    <2>4. sess'[s].status = "running" /\ ~Superseded(s)'
      BY <2>1, <2>2, <2>3, HoldKept, NotNone
    <2>5. NewestRun(r)'
      BY <2>1 DEF NewestRun, WholeInv, AnswerInv, TypeInv, TypeOK
    <2> QED
      BY <2>1, <2>2, <2>4, <2>5 DEF OpenFor
  <1>2. CASE r \in 1..lastRun
    <2>1. /\ run'[r].of = run[r].of /\ run'[r].sess = run[r].sess
          /\ Live(r)' => Live(r)
      BY <1>2, RowStays DEF WholeInv
    <2>2. Pending(r)' => Pending(r)
      BY <2>1, FinishMoves DEF Pending
    <2>3. PICK s \in 1..lastSess : s = run[r].sess /\ sess[s].of = run[r].of
      BY <1>2, RunIsOf
    <2>4. run[r].of \in Threads
      BY <1>2, RunIsOf
    <2>5. ASSUME Live(r) PROVE ~Superseded(s)'
      <3>1. ~Superseded(s) /\ LiveOn(run[r].of) # {}
        BY <1>2, <2>3, <2>5, RunIsOf DEF WholeInv, RunsFit, LiveOn
      <3>2. ASSUME NEW u \in Threads, Opens(u), sess[s].of = u PROVE FALSE
        BY <2>3, <3>1, <3>2 DEF Opens, Attach, At, WholeInv, FibersFit, Fits
      <3> QED
        BY <3>1, <3>2, SupersededMoves DEF WholeInv, AnswerInv
    <2>6. ASSUME Pending(r)' PROVE NewestRun(r)'
      <3>1. NewestRun(r) /\ Pending(r)
        BY <1>2, <2>2, <2>6 DEF WholeInv, RunsFit
      <3>2. Live(r) => LiveOn(run[r].of) # {}
        BY <1>2, RunIsOf DEF LiveOn
      <3>3. r \in loop.finish => ~Create(run[r].of)
        BY <2>4, Quiet DEF Create, At
      <3> QED
        BY <1>2, <3>1, <3>2, <3>3, NewestKept DEF Pending
    <2>7. ASSUME Pending(r)', r \notin cut' PROVE sess'[s].status = "running"
      <3>1. NewestRun(r) /\ Pending(r) /\ r \notin cut
        BY <1>2, <2>2, <2>7, CutGrows DEF WholeInv, RunsFit
      <3>2. sess[s].status = "running"
        BY <1>2, <2>3, <3>1 DEF WholeInv, RunsFit, OpenFor
      <3>3. ASSUME NEW t \in Threads, CloseSession(t), fiber[t].sess = s PROVE FALSE
        <4>1. fiber[t].step = "end" /\ fiber[t].step \in WithRun
          BY <3>3, NotNone DEF CloseSession, At
        <4>2. /\ fiber[t].run \in 1..lastRun /\ sess[s].of = t
              /\ NewestRun(fiber[t].run) /\ run[fiber[t].run].of = t
              /\ fiber[t].ending \in Endings
          BY <3>3, <4>1, FiberHas DEF Fiber, WholeInv, AnswerInv, FibersFit, Fits
        <4>3. fiber[t].run = r
          BY <1>2, <2>3, <3>1, <4>2, SameThreadSameRun
        <4>4. run[r].state = fiber[t].ending
          BY <3>1, <4>1, <4>3 DEF WholeInv, FibersFit, Fits
        <4>5. ~Live(r)
          BY <4>2, <4>4 DEF Live, LiveStates, Endings, TurnEndings
        <4>6. r \in loop.finish
          BY <3>1, <4>5 DEF Pending
        <4> QED
          BY <4>1, <4>6, Quiet
      <3>4. ASSUME FinishEnd, run[loop.target].sess = s PROVE FALSE
        <4> DEFINE q == loop.target
        <4>1. q \in loop.finish /\ q \in 1..lastRun /\ run[q].state = "lost"
          BY <3>4, FinishEndQuiet
        <4>2. NewestRun(q)
          BY <4>1 DEF WholeInv, RunsFit, Pending
        <4>3. run[q].of = run[r].of
          BY <2>3, <3>4, <4>1, RunIsOf
        <4>4. r = q
          BY <1>2, <3>1, <4>1, <4>2, <4>3, SameThreadSameRun
        <4>5. r \notin loop'.finish
          BY <3>4, <4>4, FinishMoves
        <4>6. ~Live(r)
          BY <4>1, <4>4 DEF Live, LiveStates
        <4> QED
          BY <2>1, <2>7, <4>5, <4>6 DEF Pending
      <3> QED
        BY <3>2, <3>3, <3>4, SessMoves DEF SessMay, EndsBy, WholeInv, AnswerInv
    <2>8. OpenFor(r)' <=> (r \in cut' \/ sess'[s].status = "running")
      BY <2>1, <2>3 DEF OpenFor
    <2> QED
      BY <2>1, <2>3, <2>5, <2>6, <2>7, <2>8
  <1> QED
    BY <1>1, <1>2

LEMMA OldAreClosedStep ==
  ASSUME Fitting
  PROVE  OldAreClosed'
  <1> USE DEF Fitting
  <1> SUFFICES ASSUME NEW s \in 1..lastSess', Superseded(s)'
               PROVE  ~Resumable(s)'
    BY DEF OldAreClosed
  <1>1. CASE s \notin 1..lastSess
    <2>1. PICK t \in Threads : Opens(t)
      BY <1>1, OpensOrNot DEF WholeInv, AnswerInv
    <2>2. s = lastSess'
      BY <1>1, <2>1 DEF Opens, WholeInv, AnswerInv, TypeInv, TypeOK
    <2> QED
      BY <2>1, <2>2 DEF Superseded, Opens, WholeInv, AnswerInv, TypeInv, TypeOK
  <1>2. CASE s \in 1..lastSess /\ Superseded(s)
    <2>1. ~Resumable(s)
      BY <1>2 DEF WholeInv, OldAreClosed
    <2>2. sess[s].status = "failed"
      BY <2>1 DEF Resumable
    <2>3. \A r \in 1..lastRun : run[r].sess = s => ~Live(r)
      BY <1>2 DEF WholeInv, RunsFit
    <2>4. ASSUME NEW t \in Threads, Attach(t), fiber[t].sess = s PROVE FALSE
      <3>1. s # None
        BY <1>2 DEF None
      <3> QED
        BY <1>2, <2>4, <3>1 DEF Attach, At, WholeInv, FibersFit, Fits, StillChosen
    <2>5. sess'[s].status = sess[s].status
      BY <1>2, <2>2, <2>4, SessMoves DEF SessMay, EndsBy, WholeInv, AnswerInv
    <2>6. Resumable(s)' = Resumable(s)
      BY <1>2, <2>3, <2>5, ResumableKept
    <2> QED
      BY <2>1, <2>6
  <1>3. CASE s \in 1..lastSess /\ ~Superseded(s)
    <2>1. PICK t \in Threads : Opens(t) /\ sess[s].of = t
      BY <1>3, SupersededMoves DEF WholeInv, AnswerInv
    <2>2. s # None /\ fiber[t].step = "attach" /\ fiber[t].sess = None /\ None \notin SessionsOf(t)
      BY <1>3, <2>1 DEF Opens, Attach, At, None, SessionsOf
    <2>3. ~Resumable(s) /\ LiveOn(t) = {}
      BY <1>3, <2>1, <2>2 DEF WholeInv, FibersFit, Fits, StillChosen, SessionsOf
    <2>4. \A r \in 1..lastRun : run[r].sess = s => ~Live(r)
      BY <2>1, <2>3, RunIsOf DEF LiveOn
    <2>5. sess'[s].status = sess[s].status
      BY <1>3, <2>1 DEF Opens
    <2>6. Resumable(s)' = Resumable(s)
      BY <1>3, <2>4, <2>5, ResumableKept
    <2> QED
      BY <2>3, <2>6
  <1> QED
    BY <1>1, <1>2, <1>3

(* A run that broke: its session is failed, or its own close or boot is about   *)
(* to fail it, and until then nobody opens another run in it.                *)
LEMMA BrokeEnded ==
  ASSUME NEW r, Broke(r)
  PROVE  run[r].state \in {"errored", "lost", "timeout"} /\ ~Live(r)
         /\ run[r].state \in Endings
  BY DEF Broke, Live, LiveStates, Endings, TurnEndings

LEMMA BrokeNow ==
  ASSUME Fitting, NEW r \in 1..lastRun', Broke(r)'
  PROVE  /\ r \in 1..lastRun
         /\ ~Broke(r) => Closed(r)
  <1> USE DEF Fitting
  <1>1. r \in 1..lastRun
    <2>1. run'[r].state # "queued"
      BY DEF Broke
    <2> QED
      BY <2>1, RowNew DEF WholeInv
  <1>2. ASSUME ~Broke(r), ~Closed(r) PROVE FALSE
    <2>1. run'[r] = run[r]
      BY <1>1, <1>2, RowStays DEF Broke, WholeInv
    <2>2. run[r].state = "timeout"
      BY <1>2, <2>1 DEF Broke
    <2>3. PICK q \in 1..(r - 1) : run'[q].sess = run'[r].sess /\ run'[q].state = "timeout"
      BY <1>2, <2>1 DEF Broke
    <2>4. q \in 1..lastRun /\ r > q
      BY <1>1, <2>3 DEF WholeInv, AnswerInv, TypeInv, TypeOK
    <2>5. run[q].sess = run[r].sess /\ run[q].state # "timeout"
      BY <1>2, <2>1, <2>2, <2>3, <2>4, RowStays DEF Broke, WholeInv
    <2>6. Live(q)
      BY <2>3, <2>4, <2>5, RowStays DEF WholeInv
    <2>7. run[q].of # run[r].of
      BY <1>1, <2>4, <2>6 DEF WholeInv, RunsFit, Pending, NewestRun
    <2> QED
      BY <1>1, <2>4, <2>5, <2>7, RunIsOf
  <1> QED
    BY <1>1, <1>2

LEMMA BrokenNotResumable ==
  ASSUME WholeInv, NEW r \in 1..lastRun, Broke(r), r \notin cut,
         sess[run[r].sess].status = "failed"
  PROVE  ~Resumable(run[r].sess)
  <1> DEFINE s == run[r].sess
  <1>1. r \in Ended(s)
    BY BrokeEnded, RunIsOf DEF Ended
  <1>2. ASSUME NEW q \in Ended(s) PROVE q <= r /\ q \in RunIds
    <2>1. q \in RunIds /\ run[q].sess = s /\ run[q].state \in Endings
      BY <1>2 DEF Ended
    <2>2. q \in 1..lastRun
      BY <2>1, IdsFact DEF Endings, TurnEndings, RunIds, WholeInv, AnswerInv, RowsInOrder,
                           TypeInv, TypeOK
    <2>3. ~(q > r)
      BY <2>1, <2>2 DEF WholeInv, BrokenIsLast
    <2> QED
      BY <2>1, <2>2, <2>3 DEF WholeInv, AnswerInv, TypeInv, TypeOK
  <1>3. ASSUME NEW x \in Ended(s), \A q \in Ended(s) : q <= x,
               run[x].state \in {"done", "timeout"},
               \A q \in Ended(s) \ {x} : run[q].state # run[x].state
        PROVE  FALSE
    <2>0. r \in Nat /\ x \in Nat /\ r <= x /\ x <= r
      BY <1>1, <1>2, <1>3, RunIsOf, IdsFact
    <2>1. x = r
      BY <2>0
    <2>2. PICK q \in 1..(r - 1) : run[q].sess = s /\ run[q].state = "timeout"
      BY <1>3, <2>1 DEF Broke
    <2>3. q \in Ended(s) \ {x}
      BY <2>1, <2>2, RowIdsFact
      DEF Ended, Endings, TurnEndings, WholeInv, AnswerInv, TypeInv, TypeOK, RunIds
    <2> QED
      BY <1>3, <2>1, <2>2, <2>3 DEF Broke
  <1> QED
    BY <1>3 DEF Resumable

(* It is followed by no run of its session.                                   *)
LEMMA NoneFollows ==
  ASSUME Fitting, NEW r \in 1..lastRun, Broke(r), r \notin cut,
         NEW n \in 1..lastRun', n > r
  PROVE  run'[n].sess # run[r].sess
  <1> USE DEF Fitting
  <1>1. CASE n \in 1..lastRun
    BY <1>1, RowStays DEF WholeInv, BrokenIsLast
  <1>2. CASE n \notin 1..lastRun
    <2> DEFINE t == run'[n].of
               s == run[r].sess
    <2>1. t \in Threads /\ run'[n].sess = fiber[t].sess /\ fiber[t].step = "create"
      BY <1>2, RowNew DEF WholeInv
    <2>2. sess[fiber[t].sess].status = "running" /\ sess[fiber[t].sess].of = t
      BY <2>1, NotNone, HeldSession DEF WholeInv, FibersFit, Fits, AnswerInv
    <2>3. ASSUME fiber[t].sess = s PROVE FALSE
      <3>1. r \notin loop.finish
        BY <2>1, Quiet
      <3>2. ASSUME NEW u \in Threads, EndingOn(u, r) PROVE FALSE
        <4>1. run[r].of = u
          BY <3>2, NotNone DEF EndingOn, WholeInv, FibersFit, Fits
        <4>2. u = t
          BY <2>2, <2>3, <4>1, RunIsOf
        <4> QED
          BY <2>1, <3>2, <4>2 DEF EndingOn
      <3>3. sess[s].status = "failed"
        BY <3>1, <3>2 DEF WholeInv, BrokenIsLast
      <3> QED
        BY <2>2, <2>3, <3>3
    <2> QED
      BY <2>1, <2>3
  <1> QED
    BY <1>1, <1>2

LEMMA BrokenHandled ==
  ASSUME Fitting, NEW r \in 1..lastRun, Broke(r), r \notin cut'
  PROVE  \/ r \in loop'.finish
         \/ \E t \in Threads : EndingOn(t, r)'
         \/ sess'[run[r].sess].status = "failed"
  <1> USE DEF Fitting
  <1> DEFINE s == run[r].sess
  <1>0. r \notin cut /\ s \in 1..lastSess /\ run[r].state \in {"errored", "lost", "timeout"}
    BY CutGrows, RunIsOf, BrokeEnded
  <1>1. CASE sess[s].status = "failed"
    <2>1. ASSUME NEW t \in Threads, Attach(t), fiber[t].sess = s PROVE FALSE
      <3>1. s # None
        BY <1>0 DEF None
      <3>2. Resumable(s)
        BY <2>1, <3>1 DEF Attach, At, WholeInv, FibersFit, Fits, StillChosen
      <3> QED
        BY <1>0, <1>1, <3>2, BrokenNotResumable
    <2> QED
      BY <1>0, <1>1, <2>1, SessMoves DEF SessMay, EndsBy, WholeInv, AnswerInv
  <1>2. CASE r \in loop.finish
    <2>1. CASE FinishEnd /\ r = loop.target
      <3>1. sess[s].status = "running"
        BY <1>0, <1>2 DEF WholeInv, RunsFit, Pending, OpenFor
      <3>2. sess' = [sess EXCEPT ![s].status = "failed"]
        BY <2>1, <3>1 DEF FinishEnd, EndSession
      <3> QED
        BY <1>0, <3>2, RowIdsFact DEF WholeInv, AnswerInv, TypeInv, TypeOK, Session
    <2> QED
      BY <1>2, <2>1, FinishMoves
  <1>3. ASSUME NEW t \in Threads, EndingOn(t, r)
        PROVE  EndingOn(t, r)' \/ sess'[s].status = "failed"
    <2>0. fiber[t].step = "end" /\ fiber[t].run = r
      BY <1>3 DEF EndingOn
    <2>1. CASE FiberKeeps(t)
      BY <2>0, <2>1 DEF EndingOn, FiberKeeps, SameHold
    <2>2. CASE CloseSession(t)
      <3>1. /\ sess[s].status = "running" /\ fiber[t].sess = s
            /\ fiber[t].ending = run[r].state
        BY <1>0, <2>0, NotNone DEF WholeInv, FibersFit, Fits
      <3>2. sess' = [sess EXCEPT ![s].status = "failed"]
        BY <1>0, <2>2, <3>1 DEF CloseSession, EndSession
      <3> QED
        BY <1>0, <3>2, RowIdsFact DEF WholeInv, AnswerInv, TypeInv, TypeOK, Session
    <2>3. CASE FiberMoves(t)
      BY <2>0, <2>3 DEF FiberMoves, Plan, Admit, Attach, Create, At
    <2> QED
      BY <1>0, <2>0, <2>1, <2>2, <2>3, FiberSteps DEF FiberMay, FiberGone, WholeInv, AnswerInv
  <1> QED
    BY <1>0, <1>1, <1>2, <1>3 DEF WholeInv, BrokenIsLast

LEMMA BrokenIsLastStep ==
  ASSUME Fitting
  PROVE  BrokenIsLast'
  <1> USE DEF Fitting
  <1> SUFFICES ASSUME NEW r \in 1..lastRun', Broke(r)', r \notin cut'
               PROVE  /\ \/ r \in loop'.finish
                         \/ \E t \in Threads : EndingOn(t, r)'
                         \/ sess'[run'[r].sess].status = "failed"
                      /\ \A n \in 1..lastRun' : n > r => run'[n].sess # run'[r].sess
    BY DEF BrokenIsLast
  <1>1. r \in 1..lastRun /\ (~Broke(r) => Closed(r)) /\ r \notin cut
    BY BrokeNow, CutGrows
  <1>2. run'[r].sess = run[r].sess /\ run'[r].of = run[r].of
    BY <1>1, RowStays DEF WholeInv
  <1>3. CASE Broke(r)
    BY <1>1, <1>2, <1>3, NoneFollows, BrokenHandled
  <1>4. CASE Closed(r)
    <2>1. Live(r) /\ NewestRun(r)
      BY <1>1, <1>4 DEF Closed, Moved, WholeInv, RunsFit, Pending
    <2>2. ASSUME NEW n \in 1..lastRun', n > r PROVE run'[n].sess # run[r].sess
      <3>1. CASE n \in 1..lastRun
        <4>1. run[n].of # run[r].of /\ run'[n].sess = run[n].sess
          BY <2>1, <2>2, <3>1, RowStays DEF NewestRun, WholeInv
        <4> QED
          BY <1>1, <3>1, <4>1, RunIsOf
      <3>2. CASE n \notin 1..lastRun
        <4> DEFINE t == run'[n].of
        <4>1. /\ t \in Threads /\ run'[n].sess = fiber[t].sess /\ LiveOn(t) = {}
              /\ fiber[t].step = "create"
          BY <3>2, RowNew DEF WholeInv
        <4>2. sess[fiber[t].sess].of = t
          BY <4>1, NotNone, HeldSession DEF WholeInv, AnswerInv
        <4>3. run[r].of # t
          BY <1>1, <2>1, <4>1, RunIsOf DEF LiveOn
        <4> QED
          BY <1>1, <4>1, <4>2, <4>3, RunIsOf
      <3> QED
        BY <3>1, <3>2
    <2>3. r \in loop'.finish \/ \E t \in Threads : EndingOn(t, r)'
      <3>1. ASSUME NEW t \in Threads, CloseRow(t), r = fiber[t].run
            PROVE  EndingOn(t, r)'
        <4>1. fiber[t].step = "close" /\ Goto(t, "end")
          BY <3>1 DEF CloseRow, At, Proceed, Following
        <4> QED
          BY <3>1, <4>1, GotoHolds DEF EndingOn, SameHold, WholeInv, AnswerInv, TypeInv
      <3>2. LoseRow(r) => r \in loop'.finish
        BY <2>1 DEF LoseRow, WholeInv, AnswerInv, TypeInv, TypeOK, Loop
      <3>3. ~(run'[r].state = "stopped")
        BY DEF Broke
      <3> QED
        BY <1>4, <3>1, <3>2, <3>3 DEF Closed
    <2> QED
      BY <1>2, <2>2, <2>3
  <1> QED
    BY <1>1, <1>3, <1>4

LEMMA WholeStep ==
  ASSUME WholeInv, ShownInv, [Next]_vars
  PROVE  WholeInv'
  <1>1. AnswerInv'
    BY AnswerStep DEF WholeInv
  <1>2. CASE UNCHANGED vars
    <2>1. UNCHANGED <<sess, lastSess, run, lastRun, fiber, loop, cut>>
      BY <1>2 DEF vars, rows
    <2> QED
      BY <1>1, <2>1
      DEF WholeInv, RowsOwned, FibersFit, Fits, StillChosen, RunsFit, BootFits, OldAreClosed,
          BrokenIsLast, Broke, EndingOn, Pending, OpenFor, NewestRun, Superseded, Resumable,
          Ended, Live, LiveOn, SessionsOf
  <1>3. CASE Next
    <2>1. Fitting
      BY <1>1, <1>3 DEF Fitting, AnswerInv
    <2> QED
      BY <1>1, <2>1, RowsOwnedStep, FibersFitStep, RunsFitStep, BootFitsStep,
         OldAreClosedStep, BrokenIsLastStep DEF WholeInv
  <1> QED
    BY <1>2, <1>3

LEMMA WholeAlways == Spec => []WholeInv
  <1>1. Init /\ AnswerInv => WholeInv
    <2> SUFFICES ASSUME Init, AnswerInv PROVE WholeInv
      OBVIOUS
    <2>1. lastRun = 0 /\ lastSess = 0 /\ 1..lastRun = {} /\ 1..lastSess = {}
      BY DEF Init
    <2>2. \A t \in Threads : fiber[t].step = "none"
      BY DEF Init, NoFiber
    <2>3. loop.step = "idle" /\ loop.finish = {}
      BY DEF Init, LoopAt
    <2> QED
      BY <2>1, <2>2, <2>3, NotNone
      DEF WholeInv, RowsOwned, FibersFit, Fits, RunsFit, BootFits, OldAreClosed, BrokenIsLast
  <1> QED
    BY <1>1, AnswerAlways, ShownAlways, WholeStep, PTL DEF Spec

LEMMA WholeMeansWhole ==
  ASSUME WholeInv
  PROVE  ResumesWholeSession
  <1>1. ASSUME NEW t \in Threads
        PROVE  LatestResumable(t) \in {None, Newest(SessionsOf(t))}
    <2> DEFINE S == SessionsOf(t)
               R == {s \in S : Resumable(s)}
    <2>1. S \in SUBSET (0..MaxSessions) /\ R \in SUBSET (0..MaxSessions) /\ S \subseteq Nat
      BY IdsFact DEF SessionsOf, WholeInv, AnswerInv, TypeInv, TypeOK
    <2>2. CASE R = {}
      BY <2>2 DEF LatestResumable, Newest
    <2>3. CASE R # {}
      <3>1. PICK x : x = Newest(R)
        OBVIOUS
      <3>2. x \in R
        BY <2>1, <2>3, <3>1, IdsFact, NewestIsLast
      <3>3. x \in S /\ ~Superseded(x) /\ x \in 1..lastSess /\ sess[x].of = t
        BY <3>2 DEF SessionsOf, WholeInv, OldAreClosed
      <3>4. \A s \in S : s <= x
        <4>1. ASSUME NEW s \in S PROVE ~(s > x)
          BY <3>3, <4>1 DEF SessionsOf, Superseded
        <4> QED
          BY <2>1, <3>3, <4>1
      <3>5. Newest(S) \in S /\ \A y \in S : y <= Newest(S)
        <4> HIDE DEF S
        <4> QED
          BY <2>1, <3>3, IdsFact, NewestIsLast
      <3>6. Newest(S) = x
        BY <2>1, <3>3, <3>4, <3>5
      <3> QED
        BY <3>1, <3>6 DEF LatestResumable
    <2> QED
      BY <2>2, <2>3
  <1>2. ASSUME NEW r \in 1..lastRun, NEW n \in 1..lastRun,
               run[r].sess = run[n].sess, r < n, Broke(r)
        PROVE  r \in cut
    BY <1>2 DEF WholeInv, BrokenIsLast, AnswerInv, TypeInv, TypeOK
  <1> QED
    BY <1>1, <1>2 DEF ResumesWholeSession, Broke

(* ResumesWholeSession: between the end of a turn's row and the end of its       *)
(* session, and from the boot that finds a turn lost to the end it writes for  *)
(* it, no other turn is opened in the session; and a session that has a newer  *)
(* one behind it is never resumed. So the session a turn resumes is the newest *)
(* of its thread and whole, whatever crashes, stops and refused writes do.     *)
THEOREM ResumesWholeSessionCorrect == Spec => []ResumesWholeSession
  BY WholeAlways, WholeMeansWhole, PTL

-----------------------------------------------------------------------------
(* Nobody's words and nobody's turn: what EveryWordShown rests on.            *)

(* NoWordForgotten: what a person said and no prompt of the thread was built   *)
(* from keeps the thread in the queue, or a run of the thread is live          *)
(* (awaitingReply asks the watermark of the newest session, advanceWatermark   *)
(* writes it). A word the newest watermark overtook before it had committed    *)
(* is not among the unseen: the queue's question cannot find it.              *)
NoWordForgotten ==
  \A t \in Threads : Unseen(t) # {} => t \in Awaiting \/ LiveOn(t) # {}

LEMMA UnseenIsUnanswered ==
  ASSUME ShownInv, NEW t \in Threads
  PROVE  Unseen(t) \subseteq Unanswered(t)
  <1> DEFINE S == SessionsOf(t)
  <1> SUFFICES ASSUME NEW p \in Unseen(t) PROVE p > MarkOf(Newest(S))
    BY DEF Unseen, Unanswered
  <1>1. /\ p \in Stamped(t) /\ p \in Nat \ {0} /\ \A s \in S : p \notin shown[s]
        /\ p \notin Overtaken(Newest(S))
    BY DEF Unseen, WordsOf, Positions, Stamped, ShownInv, TypeInv, TypeOK
  <1>2. S \in SUBSET (0..MaxSessions) /\ \A s \in S : s \in 1..lastSess /\ s # None
    BY IdsFact DEF SessionsOf, ShownInv, TypeInv, TypeOK, None
  <1>3. CASE S = {}
    BY <1>1, <1>3 DEF Newest, MarkOf, None
  <1>4. CASE S # {}
    <2>1. PICK s \in S : s = Newest(S)
      <3> HIDE DEF S
      <3> QED
        BY <1>2, <1>4, IdsFact, NewestIsLast
    <2>2. s \in 1..lastSess /\ sess[s].of = t /\ sess[s].mark \in Nat
      BY <1>2, RowIdsFact DEF SessionsOf, ShownInv, TypeInv, TypeOK, Session
    <2>3. ~(p <= sess[s].mark)
      BY <1>1, <1>2, <2>1, <2>2 DEF ShownInv, WatermarkIsShown, Overtaken
    <2> QED
      BY <1>1, <1>2, <2>1, <2>2, <2>3 DEF MarkOf
  <1> QED
    BY <1>3, <1>4

(* NoWordForgotten: the watermark of the newest session passes what no prompt  *)
(* showed only while it is uncommitted, so the queue's question finds every    *)
(* other such word.                                                          *)
THEOREM NoWordForgottenCorrect == Spec => []NoWordForgotten
  <1>1. ShownInv => NoWordForgotten
    BY UnseenIsUnanswered DEF NoWordForgotten, Awaiting
  <1> QED
    BY <1>1, ShownAlways, PTL

(* A live run of a thread is in somebody's hands: the turn that speaks for it,  *)
(* the stop that was taken for it, or the boot that declares it lost, a run    *)
(* whose close was refused excepted (closeRun's best effort, control.stop,    *)
(* reconcileLostRuns).                                                       *)
Spoken(r)  == \E t \in Threads : fiber[t].step \in Speaking /\ fiber[t].run = r
StopHas(r) == loop.step \in {"killing", "marker", "bury"} /\ loop.target = r
BootHas(r) == loop.step = "off" \/ (loop.step = "lose" /\ r \in loop.lost)
InHand(r)  == Spoken(r) \/ StopHas(r) \/ BootHas(r)

NoOrphanTurn == \A r \in 1..lastRun : Live(r) => r \in cut \/ InHand(r)

(* An interrupted fiber is the one the stop in hand waits for: it carries the  *)
(* target, or has not got past the plan that will find the target live.       *)
Meant(t) ==
  fiber[t].interrupted =>
    /\ loop.step = "killing" /\ run[loop.target].of = t
    /\ fiber[t].step \in {"plan"} \cup WithRun
    /\ fiber[t].step = "plan" => Live(loop.target)
    /\ fiber[t].step # "plan" => fiber[t].run = loop.target

TurnInv == WholeInv /\ NoOrphanTurn /\ \A t \in Threads : Meant(t)

(* What a step of one fiber does to its interrupt, and that only an interrupt  *)
(* takes it away before its close.                                           *)
KeepsCall(t, f) ==
  /\ f.interrupted => fiber[t].interrupted /\ f.step \notin {"none", "plan"}
  /\ fiber[t].step \in Speaking /\ f.step \in {"none", "plan"} => Interrupted(t)

LEMMA LeaveCalls ==
  ASSUME TypeOK, NEW t \in Threads, Leave(t),
         fiber[t].step \notin Speaking \/ Interrupted(t)
  PROVE  KeepsCall(t, fiber'[t])
  <1>1. fiber'[t] = NoFiber /\ NoFiber.interrupted = FALSE
    BY DEF Leave, NoFiber, TypeOK
  <1> QED
    BY <1>1 DEF KeepsCall

LEMMA GotoCalls ==
  ASSUME TypeOK, NEW t \in Threads, NEW step, Goto(t, step), step \notin {"none", "plan"}
  PROVE  KeepsCall(t, fiber'[t])
  <1>1. fiber'[t].step = step /\ fiber'[t].interrupted = fiber[t].interrupted
    BY FiberOf DEF Goto, TypeOK, Fiber
  <1> QED
    BY <1>1 DEF KeepsCall

LEMMA ProceedCalls ==
  ASSUME TypeOK, NEW t \in Threads, Proceed(t), fiber[t].step \in Terminal
  PROVE  KeepsCall(t, fiber'[t])
  <1>1. CASE fiber[t].step = "end"
    <2>1. Leave(t) /\ fiber[t].step \notin Speaking
      BY <1>1 DEF Proceed, Following, Speaking, InTurn
    <2> QED
      BY <2>1, LeaveCalls
  <1>2. CASE fiber[t].step # "end"
    <2>1. PICK step : step = Following(fiber[t].step)
      OBVIOUS
    <2>2. step \in {"answer", "close", "end"}
      BY <1>2, <2>1 DEF Following, Terminal
    <2>3. Goto(t, step)
      BY <2>1, <2>2 DEF Proceed
    <2> QED
      BY <2>2, <2>3, GotoCalls
  <1> QED
    BY <1>1, <1>2

LEMMA OwnCalls ==
  ASSUME TypeInv, NEW t \in Threads, Elsewhere(t) \/ ReadUnread(t) \/ Advance(t)
  PROVE  KeepsCall(t, fiber'[t])
  <1> USE DEF TypeInv
  <1>0. fiber[t] \in Fiber
    BY FiberOf
  <1>a. ASSUME fiber'[t].step \notin {"none", "plan"},
               fiber'[t].interrupted = fiber[t].interrupted
        PROVE  KeepsCall(t, fiber'[t])
    BY <1>a DEF KeepsCall
  <1>1. CASE RecordProvider(t) \/ StoreAnswer(t) \/ CloseRow(t) \/ CloseSession(t)
             \/ WriteRefused(t)
    BY <1>1, ProceedCalls DEF RecordProvider, StoreAnswer, CloseRow, CloseSession,
                              WriteRefused, At, Terminal
  <1>2. CASE Plan(t) \/ DispatchFails(t)
    <2>1. fiber[t].step \notin Speaking
      BY <1>2 DEF Plan, DispatchFails, At, BeforeRow, Speaking, InTurn
    <2>2. Leave(t) \/ Goto(t, "admit")
      BY <1>2 DEF Plan, DispatchFails
    <2> QED
      BY <2>1, <2>2, LeaveCalls, GotoCalls
  <1>3. CASE BeginTurn(t)
    BY <1>3, GotoCalls DEF BeginTurn
  <1>4. CASE Admit(t)
    <2>1. fiber[t].step \notin Speaking
      BY <1>4 DEF Admit, At, Speaking, InTurn
    <2>2. CASE Leave(t)
      BY <2>1, <2>2, LeaveCalls
    <2>3. CASE ~Leave(t)
      <3>1. PICK s : fiber' = [fiber EXCEPT ![t].step = "attach", ![t].sess = s]
        BY <1>4, <2>3 DEF Admit
      <3>2. fiber'[t].step = "attach" /\ fiber'[t].interrupted = fiber[t].interrupted
        BY <1>0, <3>1 DEF TypeOK, Fiber
      <3> QED
        BY <1>a, <3>2
    <2> QED
      BY <2>2, <2>3
  <1>5. CASE Attach(t)
    <2>1. \/ \E p : fiber' = [fiber EXCEPT ![t].step = "create", ![t].resumed = p]
          \/ \E s : fiber' = [fiber EXCEPT ![t].step = "create", ![t].sess = s]
      BY <1>5 DEF Attach
    <2>2. fiber'[t].step = "create" /\ fiber'[t].interrupted = fiber[t].interrupted
      BY <1>0, <2>1 DEF TypeOK, Fiber
    <2> QED
      BY <1>a, <2>2
  <1>6. CASE Create(t)
    <2>1. fiber[t].step \notin Speaking
      BY <1>6 DEF Create, At, Speaking, InTurn
    <2>2. CASE Leave(t)
      BY <2>1, <2>2, LeaveCalls
    <2>3. CASE ~Leave(t)
      <3>1. fiber' = [fiber EXCEPT ![t].step = "opened", ![t].run = lastRun']
        BY <1>6, <2>3 DEF Create
      <3>2. fiber'[t].step = "opened" /\ fiber'[t].interrupted = fiber[t].interrupted
        BY <1>0, <3>1 DEF TypeOK, Fiber
      <3> QED
        BY <1>a, <3>2
    <2> QED
      BY <2>2, <2>3
  <1>7. CASE TurnEnds(t)
    <2>1. PICK e \in TurnEndings, speaks \in BOOLEAN :
            fiber' = [fiber EXCEPT ![t].step = "record", ![t].ending = e,
                                   ![t].speaks = speaks]
      BY <1>7 DEF TurnEnds
    <2>2. fiber'[t].step = "record" /\ fiber'[t].interrupted = fiber[t].interrupted
      BY <1>0, <2>1 DEF TypeOK, Fiber
    <2> QED
      BY <1>a, <2>2
  <1>8. CASE PromptFails(t)
    <2>1. fiber'[t].step = "record" /\ fiber'[t].interrupted = fiber[t].interrupted
      BY <1>0, <1>8 DEF PromptFails, TypeOK, Fiber
    <2> QED
      BY <1>a, <2>1
  <1>9. CASE ReadUnread(t)
    <2>1. PICK unread : fiber' = [fiber EXCEPT ![t].step = "advance", ![t].unread = unread]
      BY <1>9 DEF ReadUnread
    <2>2. fiber'[t].step = "advance" /\ fiber'[t].interrupted = fiber[t].interrupted
      BY <1>0, <2>1 DEF TypeOK, Fiber
    <2> QED
      BY <1>a, <2>2
  <1>10. CASE Advance(t)
    <2>1. fiber'[t].step = "turn" /\ fiber'[t].interrupted = fiber[t].interrupted
      BY <1>0, <1>10 DEF Advance, TypeOK, Fiber
    <2> QED
      BY <1>a, <2>1
  <1>11. CASE Interrupted(t)
    <2>1. CASE Leave(t)
      BY <1>11, <2>1, LeaveCalls
    <2>2. CASE ~Leave(t)
      <3>0. fiber' = [fiber EXCEPT ![t].step = "record", ![t].ending = "stopped",
                                   ![t].unread = {}]
        BY <1>11, <2>2 DEF Interrupted
      <3>1. fiber'[t].step = "record" /\ fiber'[t].interrupted = fiber[t].interrupted
        BY <1>0, <3>0 DEF TypeOK, Fiber
      <3> QED
        BY <1>a, <3>1
    <2> QED
      BY <2>1, <2>2
  <1> QED
    BY <1>1, <1>2, <1>3, <1>4, <1>5, <1>6, <1>7, <1>8, <1>9, <1>10, <1>11 DEF Elsewhere

LEMMA OtherCalls ==
  ASSUME TypeOK, NEW t \in Threads, NEW u \in Threads, u # t,
         Elsewhere(t) \/ ReadUnread(t) \/ Advance(t)
  PROVE  fiber'[u] = fiber[u]
  <1>1. CASE Leave(t) \/ Proceed(t) \/ \E step : Goto(t, step)
    BY <1>1 DEF Leave, Goto, Proceed, TypeOK
  <1>2. CASE Admit(t) \/ Attach(t) \/ Create(t)
    <2>1. \/ Leave(t)
          \/ \E s : fiber' = [fiber EXCEPT ![t].step = "attach", ![t].sess = s]
          \/ \E p : fiber' = [fiber EXCEPT ![t].step = "create", ![t].resumed = p]
          \/ \E s : fiber' = [fiber EXCEPT ![t].step = "create", ![t].sess = s]
          \/ \E r : fiber' = [fiber EXCEPT ![t].step = "opened", ![t].run = r]
      BY <1>2 DEF Admit, Attach, Create
    <2> QED
      BY <1>1, <2>1 DEF TypeOK
  <1>3. CASE TurnEnds(t) \/ PromptFails(t) \/ ReadUnread(t) \/ Advance(t) \/ Interrupted(t)
    <2>1. \/ Leave(t)
          \/ \E e, speaks :
               fiber' = [fiber EXCEPT ![t].step = "record", ![t].ending = e,
                                      ![t].speaks = speaks]
          \/ \E e :
               fiber' = [fiber EXCEPT ![t].step = "record", ![t].ending = e,
                                      ![t].unread = {}]
          \/ \E unread :
               fiber' = [fiber EXCEPT ![t].step = "advance", ![t].unread = unread]
          \/ fiber' = [fiber EXCEPT ![t].step = "turn", ![t].unread = {}]
      BY <1>3 DEF TurnEnds, PromptFails, ReadUnread, Advance, Interrupted
    <2> QED
      BY <1>1, <2>1 DEF TypeOK
  <1> QED
    BY <1>1, <1>2, <1>3 DEF Elsewhere, Plan, BeginTurn, RecordProvider, StoreAnswer,
       CloseRow, CloseSession, DispatchFails, WriteRefused

(* Every step: an interrupt comes from a stop that found the thread's run.     *)
LEMMA CallMoves ==
  ASSUME TypeInv, Next, NEW u \in Threads
  PROVE  \/ fiber'[u] = fiber[u] \/ KeepsCall(u, fiber'[u])
         \/ Crash /\ fiber'[u] = NoFiber
         \/ Fork /\ At(u, "none") /\ ~fiber'[u].interrupted
         \/ /\ TakeStop(u) /\ LiveOn(u) # {} /\ ~At(u, "none")
            /\ fiber'[u] = [fiber[u] EXCEPT !.interrupted = TRUE]
  <1> USE DEF TypeInv
  <1>1. ASSUME NEW t \in Threads, Elsewhere(t) \/ ReadUnread(t) \/ Advance(t)
        PROVE  fiber'[u] = fiber[u] \/ KeepsCall(u, fiber'[u])
    BY <1>1, OwnCalls, OtherCalls
  <1>2. CASE Crash
    BY <1>2 DEF Crash
  <1>3. CASE Fork
    BY <1>3 DEF Fork, NoFiber
  <1>4. ASSUME NEW t \in Threads, TakeStop(t)
        PROVE  \/ fiber'[u] = fiber[u]
               \/ /\ t = u /\ LiveOn(u) # {} /\ ~At(u, "none")
                  /\ fiber'[u] = [fiber[u] EXCEPT !.interrupted = TRUE]
    <2>1. \/ fiber' = fiber
          \/ /\ LiveOn(t) # {} /\ ~At(t, "none")
             /\ fiber' = [fiber EXCEPT ![t].interrupted = TRUE]
      BY <1>4 DEF TakeStop
    <2> QED
      BY <2>1 DEF TypeOK
  <1>5. CASE \/ Boot \/ Reconciled \/ FinishEnd \/ Killed \/ StopMarked \/ StopClosed
             \/ ReadQueue
             \/ \E r \in RunIds : LoseRow(r) \/ FinishAnswer(r) \/ BotReads(r)
             \/ \E p \in DOMAIN said : Committed(p)
             \/ \E t \in Threads : Say(t) \/ FileStop(t) \/ HarnessAnswers(t)
    BY <1>5 DEF Boot, Reconciled, FinishEnd, Killed, StopMarked, StopClosed,
                ReadQueue, LoseRow, FinishAnswer, Say, FileStop, HarnessAnswers, BotReads,
                Committed
  <1> QED
    BY <1>1, <1>2, <1>3, <1>4, <1>5, NextCases DEF LoopStep

(* The run a stop takes is the one the fiber of its thread carries.           *)
LEMMA StopMeets ==
  ASSUME WholeInv, NEW t \in Threads, LiveOn(t) # {}, ~At(t, "none")
  PROVE  LET r == Newest(LiveOn(t)) IN
         /\ r \in 1..lastRun /\ Live(r) /\ run[r].of = t
         /\ fiber[t].step \in {"plan"} \cup WithRun
         /\ fiber[t].step # "plan" => fiber[t].run = r
  <1>1. PICK r \in RunIds : r = Newest(LiveOn(t)) /\ run[r].of = t /\ Live(r)
    BY NewestLiveFact DEF LiveOn, WholeInv, AnswerInv, TypeInv
  <1>2. r \in 1..lastRun
    <2>1. ~(r > lastRun)
      BY <1>1 DEF WholeInv, AnswerInv, RowsInOrder, Live, LiveStates
    <2> QED
      BY <1>1, <2>1, IdsFact DEF RunIds, WholeInv, AnswerInv, TypeInv, TypeOK
  <1>3. fiber[t].step \notin {"admit", "attach", "create"}
    BY DEF WholeInv, FibersFit, Fits
  <1>4. fiber[t].step \in {"plan"} \cup WithRun
    BY <1>3, FiberOf DEF Fiber, At, BeforeRow, WithRun, WholeInv, AnswerInv, TypeInv
  <1>5. ASSUME fiber[t].step \in WithRun PROVE fiber[t].run = r
    <2>1. /\ fiber[t].run \in 1..lastRun /\ run[fiber[t].run].of = t
          /\ NewestRun(fiber[t].run)
      BY <1>5, FiberHas DEF WholeInv, FibersFit, Fits, AnswerInv
    <2>2. NewestRun(r)
      BY <1>1, <1>2 DEF WholeInv, RunsFit, Pending
    <2> QED
      BY <1>1, <1>2, <2>1, <2>2, SameThreadSameRun
  <1> QED
    BY <1>1, <1>2, <1>4, <1>5

LEMMA MeantStep ==
  ASSUME TurnInv, Fitting, NEW u \in Threads
  PROVE  Meant(u)'
  <1> USE DEF TurnInv, Fitting
  <1>t. TypeInv /\ AnswerInv /\ fiber[u] \in Fiber /\ loop \in Loop
    BY FiberOf DEF WholeInv, AnswerInv, TypeInv, TypeOK
  <1> SUFFICES ASSUME fiber'[u].interrupted
               PROVE  /\ loop'.step = "killing" /\ run'[loop'.target].of = u
                      /\ fiber'[u].step \in {"plan"} \cup WithRun
                      /\ fiber'[u].step = "plan" => Live(loop.target)'
                      /\ fiber'[u].step # "plan" => fiber'[u].run = loop'.target
    BY DEF Meant, Live
  <1>1. CASE /\ TakeStop(u) /\ LiveOn(u) # {} /\ ~At(u, "none")
             /\ fiber'[u] = [fiber[u] EXCEPT !.interrupted = TRUE]
    <2>1. PICK r : r = Newest(LiveOn(u))
      OBVIOUS
    <2>2. loop' = [LoopAt("killing") EXCEPT !.target = r] /\ run' = run
      BY <1>1, <2>1 DEF TakeStop, rows
    <2>3. loop'.step = "killing" /\ loop'.target = r
      BY <2>2 DEF LoopAt
    <2>4. fiber'[u].step = fiber[u].step /\ fiber'[u].run = fiber[u].run
      BY <1>t, <1>1 DEF Fiber
    <2>5. /\ r \in 1..lastRun /\ Live(r) /\ run[r].of = u
          /\ fiber[u].step \in {"plan"} \cup WithRun
          /\ fiber[u].step # "plan" => fiber[u].run = r
      BY <1>1, <2>1, StopMeets
    <2> QED
      BY <2>2, <2>3, <2>4, <2>5 DEF Live
  <1>2. CASE fiber'[u] = fiber[u] \/ KeepsCall(u, fiber'[u])
    <2>1. fiber[u].interrupted /\ (fiber'[u] = fiber[u] \/ fiber'[u].step \notin {"none", "plan"})
      BY <1>2 DEF KeepsCall
    <2>2. /\ loop.step = "killing" /\ run[loop.target].of = u
          /\ fiber[u].step \in {"plan"} \cup WithRun
          /\ fiber[u].step = "plan" => Live(loop.target)
          /\ fiber[u].step # "plan" => fiber[u].run = loop.target
      BY <2>1 DEF Meant
    <2>3. ~Crash
      <3>1. Crash => fiber'[u] = NoFiber
        BY DEF Crash
      <3> QED
        BY <3>1 DEF NoFiber
    <2>4. loop' = loop
      <3>1. ~Killed
        BY <2>2 DEF Killed, At, WithRun, InTurn, Terminal
      <3>2. ~(Boot \/ Reconciled \/ FinishEnd \/ StopMarked \/ StopClosed \/ ReadQueue)
        BY <2>2 DEF Boot, Reconciled, FinishEnd, StopMarked, StopClosed, ReadQueue
      <3>3. loop.step # "fork" /\ ~\E r \in RunIds : LoseRow(r) \/ FinishAnswer(r)
        BY <2>2 DEF LoseRow, FinishAnswer
      <3>4. ~\E t \in Threads : TakeStop(t)
        BY <2>2 DEF TakeStop
      <3> QED
        BY <1>t, <2>3, <3>1, <3>2, <3>3, <3>4, LoopMoves
    <2>5. loop.target \in 1..lastRun
      BY <1>t, <2>2 DEF AnswerInv, RowsInOrder
    <2>6. /\ run'[loop.target].of = u
          /\ \/ run'[loop.target] = run[loop.target]
             \/ Closed(loop.target) \/ run'[loop.target].state = "running"
      BY <1>t, <2>2, <2>5, RowStays
    <2>7. ASSUME fiber[u].step = "plan" PROVE Live(loop.target)'
      <3>1. ~Closed(loop.target)
        <4>1. ASSUME NEW t \in Threads, CloseRow(t), loop.target = fiber[t].run PROVE FALSE
          <5>1. fiber[t].step = "close" /\ fiber[t].step \in Speaking
            BY <4>1 DEF CloseRow, At, Speaking
          <5>2. run[fiber[t].run].of = t
            BY <1>t, <5>1 DEF AnswerInv, Busy
          <5> QED
            BY <2>2, <2>7, <4>1, <5>1, <5>2
        <4>2. ~LoseRow(loop.target) /\ ~StopClosed
          BY <2>2 DEF LoseRow, StopClosed
        <4> QED
          BY <4>1, <4>2 DEF Closed
      <3>2. run'[loop.target].state \in LiveStates
        BY <2>2, <2>6, <2>7, <3>1 DEF Live, LiveStates
      <3>3. PICK q : q = loop.target
        OBVIOUS
      <3> QED
        BY <2>4, <3>2, <3>3 DEF Live
    <2>8. fiber'[u] = fiber[u] \/ (fiber'[u].step \in WithRun /\ fiber'[u].run = loop.target)
      <3>1. LiveOn(u) # {} \/ fiber[u].step # "plan"
        BY <1>t, <2>2, <2>5, RowIdsFact DEF LiveOn, TypeInv
      <3>2. CASE FiberKeeps(u)
        BY <2>1, <2>2, <3>2 DEF FiberKeeps, SameHold
      <3>3. CASE FiberGone(u)
        BY <2>1, <3>3 DEF FiberGone
      <3>4. CASE FiberMoves(u)
        <4>1. ~(Plan(u) /\ LiveOn(u) = {}) /\ ~Admit(u) /\ ~Attach(u) /\ ~Create(u)
          BY <2>2, <3>1 DEF Plan, Admit, Attach, Create, At, WithRun, InTurn, Terminal
        <4>2. /\ fiber[u].step \in WithRun /\ fiber'[u].step \in WithRun
              /\ fiber'[u].run = fiber[u].run
          BY <3>4, <4>1, NotNone DEF FiberMoves, SameHold, WithRun, Terminal
        <4> QED
          BY <2>2, <4>2 DEF WithRun, InTurn, Terminal
      <3> QED
        BY <1>t, <3>2, <3>3, <3>4, FiberSteps DEF FiberMay
    <2>9. "plan" \notin WithRun
      BY DEF WithRun, InTurn, Terminal
    <2> QED
      BY <2>2, <2>4, <2>6, <2>7, <2>8, <2>9
  <1>3. ~(Crash /\ fiber'[u] = NoFiber)
    BY DEF NoFiber
  <1> QED
    BY <1>t, <1>1, <1>2, <1>3, CallMoves

(* A turn that speaks for a live run goes on, is closed with its row, or is     *)
(* taken away by the stop that has it in hand or with the whole process.      *)
LEMMA SpokenStays ==
  ASSUME TurnInv, Fitting, NEW t \in Threads, fiber[t].step \in Speaking,
         fiber[t].run \notin cut'
  PROVE  LET r == fiber[t].run IN
         \/ fiber'[t].step \in Speaking /\ fiber'[t].run = r
         \/ StopHas(r) /\ loop' = loop
         \/ Crash
         \/ CloseRow(t)
  <1> USE DEF TurnInv, Fitting
  <1>t. TypeInv /\ AnswerInv
    BY DEF WholeInv, AnswerInv
  <1>0. fiber[t].step \notin {"none", "plan", "admit", "attach", "create", "end"}
    BY DEF Speaking, InTurn
  <1>1. WithRun \ {"end"} = Speaking
    BY DEF WithRun, Speaking, Terminal, InTurn
  <1>2. CASE FiberKeeps(t)
    BY <1>2 DEF FiberKeeps, SameHold
  <1>3. CASE FiberGone(t)
    <2>1. fiber'[t].step \in {"none", "plan"} /\ fiber'[t].step # fiber[t].step
      BY <1>0, <1>3 DEF FiberGone
    <2>2. ~At(t, "none") /\ fiber'[t] # [fiber[t] EXCEPT !.interrupted = TRUE]
      BY <1>0, <2>1, <1>t, FiberOf DEF At, Fiber, TypeInv
    <2>3. Crash \/ Interrupted(t)
      BY <1>t, <2>1, <2>2, CallMoves DEF KeepsCall
    <2>4. ASSUME Interrupted(t) PROVE StopHas(fiber[t].run) /\ loop' = loop
      <3>1. fiber[t].interrupted /\ loop' = loop
        BY <2>4 DEF Interrupted
      <3> QED
        BY <1>0, <3>1 DEF Meant, StopHas
    <2> QED
      BY <2>3, <2>4
  <1>4. CASE FiberMoves(t)
    <2>1. ~Plan(t) /\ ~Admit(t) /\ ~Attach(t) /\ ~Create(t)
      BY <1>0 DEF Plan, Admit, Attach, Create, At
    <2> QED
      BY <1>1, <1>4, <2>1 DEF FiberMoves, SameHold
  <1> QED
    BY <1>t, <1>2, <1>3, <1>4, FiberSteps DEF FiberMay

(* A stop and a boot let go of a run only when its row is closed.             *)
LEMMA LoopHolds ==
  ASSUME TypeInv, Next, NEW r \in RunIds, StopHas(r) \/ BootHas(r), Live(r)
  PROVE  StopHas(r)' \/ BootHas(r)' \/ ~Live(r)'
  <1> USE DEF TypeInv
  <1>0. loop \in Loop /\ run[r] \in Run
    BY DEF TypeOK
  <1>1. CASE loop' = loop
    BY <1>1 DEF StopHas, BootHas
  <1>2. CASE Crash
    BY <1>2 DEF Crash, LoopAt, BootHas
  <1>3. CASE StopHas(r) /\ ~Crash /\ loop' # loop
    <2>1. Killed \/ StopMarked \/ StopClosed
      <3>1. ~(Boot \/ Reconciled \/ FinishEnd \/ ReadQueue) /\ loop.step # "fork"
        BY <1>3 DEF StopHas, Boot, Reconciled, FinishEnd, ReadQueue
      <3>2. ~\E q \in RunIds : LoseRow(q) \/ FinishAnswer(q)
        BY <1>3 DEF StopHas, LoseRow, FinishAnswer
      <3>3. ~\E t \in Threads : TakeStop(t)
        BY <1>3 DEF StopHas, TakeStop
      <3> QED
        BY <1>3, <3>1, <3>2, <3>3, LoopMoves
    <2>2. CASE Killed \/ StopMarked
      BY <1>0, <1>3, <2>2 DEF Killed, StopMarked, StopHas, Loop
    <2>3. CASE StopClosed
      <3>1. Close(r, "stopped")
        BY <1>3, <2>3 DEF StopClosed, StopHas
      <3>2. run'[r].state = "stopped"
        BY <1>0, <3>1 DEF Close, TypeOK, Run
      <3> QED
        BY <3>2 DEF Live, LiveStates
    <2> QED
      BY <2>1, <2>2, <2>3
  <1>4. CASE loop.step = "off" /\ ~Crash /\ loop' # loop
    <2>1. Boot
      <3>1. ~(Reconciled \/ FinishEnd \/ ReadQueue \/ Killed \/ StopMarked \/ StopClosed)
            /\ loop.step # "fork"
        BY <1>4 DEF Reconciled, FinishEnd, ReadQueue, Killed, StopMarked, StopClosed
      <3>2. ~\E q \in RunIds : LoseRow(q) \/ FinishAnswer(q)
        BY <1>4 DEF LoseRow, FinishAnswer
      <3>3. ~\E t \in Threads : TakeStop(t)
        BY <1>4 DEF TakeStop
      <3> QED
        BY <1>4, <3>1, <3>2, <3>3, LoopMoves
    <2>2. loop'.step = "lose" /\ loop'.lost = {q \in RunIds : Live(q)}
      BY <2>1 DEF Boot, LoopAt
    <2> QED
      BY <2>2 DEF BootHas
  <1>5. CASE loop.step = "lose" /\ r \in loop.lost /\ ~Crash /\ loop' # loop
    <2>1. \E q \in RunIds : LoseRow(q)
      <3>1. ~(Boot \/ FinishEnd \/ ReadQueue \/ Killed \/ StopMarked \/ StopClosed)
            /\ loop.step # "fork"
        BY <1>5 DEF Boot, FinishEnd, ReadQueue, Killed, StopMarked, StopClosed
      <3>2. ~Reconciled /\ ~\E q \in RunIds : FinishAnswer(q)
        BY <1>5 DEF Reconciled, FinishAnswer
      <3>3. ~\E t \in Threads : TakeStop(t)
        BY <1>5 DEF TakeStop
      <3> QED
        BY <1>5, <3>1, <3>2, <3>3, LoopMoves
    <2>2. PICK q \in RunIds : LoseRow(q)
      BY <2>1
    <2>3. CASE q = r
      <3>1. Close(r, "lost")
        BY <2>2, <2>3 DEF LoseRow
      <3>2. run'[r].state = "lost"
        BY <1>0, <3>1 DEF Close, TypeOK, Run
      <3> QED
        BY <3>2 DEF Live, LiveStates
    <2>4. CASE q # r
      <3>1. loop'.step = "lose" /\ loop'.lost = loop.lost \ {q}
        BY <1>0, <1>5, <2>2 DEF LoseRow, Loop
      <3> QED
        BY <1>5, <2>4, <3>1 DEF BootHas
    <2> QED
      BY <2>3, <2>4
  <1> QED
    BY <1>1, <1>2, <1>3, <1>4, <1>5 DEF BootHas

LEMMA OrphanStep ==
  ASSUME TurnInv, Fitting
  PROVE  NoOrphanTurn'
  <1> USE DEF TurnInv, Fitting
  <1>t. TypeInv /\ AnswerInv
    BY DEF WholeInv, AnswerInv
  <1> SUFFICES ASSUME NEW r \in 1..lastRun', Live(r)', r \notin cut'
               PROVE  InHand(r)'
    BY DEF NoOrphanTurn
  <1>1. CASE r \notin 1..lastRun
    <2>1. PICK t \in Threads : Create(t) /\ LiveOn(t) = {} /\ r = lastRun'
      BY <1>t, <1>1, RowNew
    <2>2. fiber' = [fiber EXCEPT ![t].step = "opened", ![t].run = lastRun']
      BY <2>1 DEF Create
    <2>3. fiber'[t].step = "opened" /\ fiber'[t].run = r
      BY <1>t, <2>1, <2>2, FiberOf DEF TypeInv, TypeOK, Fiber
    <2> QED
      BY <2>3 DEF InHand, Spoken, Speaking
  <1>2. CASE r \in 1..lastRun
    <2>1. r \in RunIds /\ Live(r)
      BY <1>t, <1>2, RowStays
    <2>2. r \notin cut
      BY CutGrows
    <2>3. CASE StopHas(r) \/ BootHas(r)
      BY <1>t, <2>1, <2>3, LoopHolds DEF InHand
    <2>4. ASSUME NEW t \in Threads, fiber[t].step \in Speaking, fiber[t].run = r
          PROVE  InHand(r)'
      <3>1. CASE fiber'[t].step \in Speaking /\ fiber'[t].run = r
        BY <3>1 DEF InHand, Spoken
      <3>2. CASE StopHas(r) /\ loop' = loop
        BY <3>2 DEF InHand, StopHas
      <3>3. CASE Crash
        BY <3>3 DEF Crash, LoopAt, InHand, BootHas
      <3>4. CASE CloseRow(t)
        <4>1. Close(r, fiber[t].ending) /\ fiber[t].ending \in Endings
          BY <1>t, <2>4, <3>4, FiberOf DEF CloseRow, Fiber, TypeInv
        <4>2. run'[r].state \in Endings
          BY <1>t, <2>1, <4>1 DEF Close, TypeInv, TypeOK, Run
        <4> QED
          BY <4>2 DEF Live, LiveStates, Endings, TurnEndings
      <3> QED
        BY <2>4, <3>1, <3>2, <3>3, <3>4, SpokenStays
    <2> QED
      BY <1>2, <2>1, <2>2, <2>3, <2>4 DEF NoOrphanTurn, InHand, Spoken
  <1> QED
    BY <1>1, <1>2

LEMMA TurnStep ==
  ASSUME TurnInv, ShownInv, [Next]_vars
  PROVE  TurnInv'
  <1>1. WholeInv'
    BY WholeStep DEF TurnInv
  <1>2. CASE UNCHANGED vars
    <2>1. UNCHANGED <<run, lastRun, fiber, loop, cut>>
      BY <1>2 DEF vars, rows
    <2>2. NoOrphanTurn' /\ \A t \in Threads : Meant(t)'
      BY <2>1 DEF TurnInv, NoOrphanTurn, InHand, Spoken, StopHas, BootHas, Meant, Live
    <2> QED
      BY <1>1, <2>2 DEF TurnInv
  <1>3. CASE Next
    <2>1. Fitting
      BY <1>1, <1>3 DEF Fitting, WholeInv, AnswerInv, TurnInv
    <2>2. NoOrphanTurn' /\ \A t \in Threads : Meant(t)'
      BY <2>1, MeantStep, OrphanStep
    <2> QED
      BY <1>1, <2>2 DEF TurnInv
  <1> QED
    BY <1>2, <1>3

(* NoOrphanTurn: a live run of a thread is in the hands of the turn that speaks *)
(* for it, of the stop taken for it or of the boot that declares it lost,      *)
(* unless the close of its row was refused: whatever is stopped, fails or      *)
(* crashes, no thread is left with a live row nobody will close.              *)
THEOREM NoOrphanTurnCorrect == Spec => []NoOrphanTurn
  <1>1. Init /\ WholeInv => TurnInv
    BY DEF Init, NoFiber, TurnInv, NoOrphanTurn, Meant
  <1>2. TurnInv => NoOrphanTurn
    BY DEF TurnInv
  <1> QED
    BY <1>1, <1>2, WholeAlways, ShownAlways, TurnStep, PTL DEF Spec
=============================================================================
