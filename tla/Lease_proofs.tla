----------------------------- MODULE Lease_proofs ----------------------------
(***************************************************************************)
(* Theorems about Lease, for any number of loop processes and fibers, any  *)
(* heartbeat and staleness periods, and any number of mishaps.             *)
(***************************************************************************)
EXTENDS Lease, TLAPS

WorkerStates == [step : {"idle", "claiming", "working", "removing"}, age : Ages]
BeatStates   == [step : {"off", "rest", "writing"}, age : Ages, due : 0..BeatEvery]

LEMMA RestingType == Resting.worker \in WorkerStates /\ Resting.beat \in BeatStates
  BY TimesAssumption DEF Resting, WorkerStates, BeatStates, Ages

LEMMA OlderType == \A age \in Ages : Older(age) \in Ages
  BY TimesAssumption DEF Older, Ages

LEMMA AgedType == \A lease \in Record \cup {NoFile} : Aged(lease) \in Record \cup {NoFile}
  <1> SUFFICES ASSUME NEW lease \in Record, lease # NoFile PROVE Aged(lease) \in Record
    BY DEF Aged
  <1>1. Older(lease.age) \in Ages
    BY OlderType DEF Record
  <1> QED
    BY <1>1 DEF Aged, Record

LEMMA MishapType == TypeOK /\ Mishap => mishaps' \in 0..Mishaps
  BY TimesAssumption DEF TypeOK, Mishap

LEMMA InitType == Init => TypeOK
  <1>1. Init => BeatsWithWork
    BY DEF Init, BeatsWithWork, Is, Resting
  <1> QED
    BY <1>1, TimesAssumption, RestingType DEF Init, TypeOK, WorkerStates, BeatStates

(* The beat is forked with the claim and interrupted with the work.           *)
LEMMA BeatsStep ==
  ASSUME TypeOK, [Next]_vars
  PROVE  BeatsWithWork'
  <1> USE DEF TypeOK, BeatsWithWork, Is
  <1>1. CASE UNCHANGED vars
    BY <1>1 DEF vars
  <1>2. ASSUME NEW w \in Workers, WorkerStep(w) PROVE BeatsWithWork'
    BY <1>2 DEF WorkerStep, ClaimWrite, BeatStart, BeatWrite, Remove, Resting
  <1>3. ASSUME NEW w \in Workers,
               ClaimStart(w) \/ End(w) \/ ClaimFails(w) \/ BeatFails(w) \/ RemoveFails(w)
        PROVE  BeatsWithWork'
    BY <1>3 DEF ClaimStart, End, ClaimFails, BeatFails, RemoveFails, Resting
  <1>4. ASSUME NEW p \in Procs, Crash(p) PROVE BeatsWithWork'
    BY <1>4 DEF Crash, Resting
  <1>5. ASSUME NEW p \in Procs,
               LateWrite(p) \/ BootList(p) \/ BootJudge(p) \/ PidReused(p) \/ FallBehind(p)
        PROVE  BeatsWithWork'
    BY <1>5 DEF LateWrite, BootList, BootJudge, PidReused, FallBehind
  <1>6. CASE Tick
    <2>1. \A w \in Workers : worker'[w].step = worker[w].step /\ beat'[w].step = beat[w].step
      BY <1>6 DEF Tick
    <2> QED
      BY <2>1
  <1> QED
    BY <1>1, <1>2, <1>3, <1>4, <1>5, <1>6 DEF Next

LEMMA WorkerType ==
  ASSUME TypeOK, BeatsWithWork', NEW w \in Workers,
         \/ WorkerStep(w) \/ ClaimStart(w) \/ End(w)
         \/ ClaimFails(w) \/ BeatFails(w) \/ RemoveFails(w)
  PROVE  TypeOK'
  <1> USE TimesAssumption, ProcsAssumption DEF TypeOK, WorkerStates, BeatStates, Ages, Record
  <1>0. ProcOf[w] \in Procs /\ worker[w] \in WorkerStates /\ beat[w] \in BeatStates
    OBVIOUS
  <1>1. CASE ClaimStart(w)
    BY <1>1 DEF ClaimStart
  <1>2. CASE ClaimWrite(w)
    BY <1>0, <1>2 DEF ClaimWrite
  <1>3. CASE ClaimFails(w)
    BY <1>3, MishapType, RestingType DEF ClaimFails
  <1>4. CASE BeatStart(w)
    BY <1>4 DEF BeatStart
  <1>5. CASE BeatWrite(w)
    BY <1>0, <1>5 DEF BeatWrite
  <1>6. CASE BeatFails(w)
    BY <1>6, MishapType DEF BeatFails
  <1>7. CASE End(w)
    <2>1. worker' \in [Workers -> WorkerStates]
      <3>1. [step |-> "removing", age |-> 0] \in WorkerStates
        OBVIOUS
      <3> QED
        BY <1>7, <3>1 DEF End
    <2>2. beat' \in [Workers -> BeatStates]
      BY <1>7, RestingType DEF End
    <2>3. held' \in [Procs -> BOOLEAN]
      BY <1>7 DEF End
    <2>4. late' \in [Procs -> Ages \cup {None}]
      BY <1>0, <1>7 DEF End
    <2> QED
      BY <1>7, <2>1, <2>2, <2>3, <2>4 DEF End
  <1>8. CASE Remove(w)
    BY <1>8, RestingType DEF Remove
  <1>9. CASE RemoveFails(w)
    BY <1>9, MishapType, RestingType DEF RemoveFails
  <1> QED
    BY <1>1, <1>2, <1>3, <1>4, <1>5, <1>6, <1>7, <1>8, <1>9 DEF WorkerStep

LEMMA ProcType ==
  ASSUME TypeOK, BeatsWithWork', NEW p \in Procs,
         \/ LateWrite(p) \/ BootList(p) \/ BootJudge(p)
         \/ Crash(p) \/ PidReused(p) \/ FallBehind(p)
  PROVE  TypeOK'
  <1> USE DEF TypeOK
  <1>1. CASE LateWrite(p)
    BY <1>1 DEF LateWrite, Record
  <1>2. CASE BootList(p)
    BY <1>2 DEF BootList
  <1>3. CASE BootJudge(p)
    BY <1>3 DEF BootJudge
  <1>4. CASE Crash(p)
    BY <1>4, RestingType DEF Crash, WorkerStates, BeatStates
  <1>5. CASE PidReused(p)
    BY <1>5, MishapType DEF PidReused
  <1>6. CASE FallBehind(p)
    BY <1>6, MishapType DEF FallBehind
  <1> QED
    BY <1>1, <1>2, <1>3, <1>4, <1>5, <1>6

LEMMA TickType ==
  ASSUME TypeOK, BeatsWithWork', Tick
  PROVE  TypeOK'
  <1>1. file' \in Record \cup {NoFile} /\ boot' \in [Procs -> Record \cup {NoFile}]
    BY AgedType DEF Tick, TypeOK
  <1>2. late' \in [Procs -> Ages \cup {None}]
    BY OlderType DEF Tick, TypeOK
  <1>3. worker' \in [Workers -> WorkerStates]
    <2>1. \A w \in Workers : worker[w] \in WorkerStates
      BY DEF TypeOK, WorkerStates
    <2>2. \A s \in WorkerStates : [s EXCEPT !.age = Older(@)] \in WorkerStates
      BY OlderType DEF WorkerStates
    <2> QED
      BY <2>1, <2>2 DEF Tick
  <1>4. beat' \in [Workers -> BeatStates]
    <2>1. \A w \in Workers : beat[w] \in BeatStates
      BY DEF TypeOK, BeatStates
    <2>2. \A b \in BeatStates : [b EXCEPT !.age = Older(@)] \in BeatStates
      BY OlderType DEF BeatStates
    <2>3. \A b \in BeatStates :
            b.due < BeatEvery => [b EXCEPT !.due = @ + 1] \in BeatStates
      <3> SUFFICES ASSUME NEW b \in BeatStates, b.due < BeatEvery
                   PROVE  [b EXCEPT !.due = @ + 1] \in BeatStates
        OBVIOUS
      <3>1. b.due + 1 \in 0..BeatEvery
        BY TimesAssumption DEF BeatStates
      <3> QED
        BY <3>1 DEF BeatStates
    <2> QED
      BY <2>1, <2>2, <2>3 DEF Tick
  <1> QED
    BY <1>1, <1>2, <1>3, <1>4 DEF Tick, TypeOK, WorkerStates, BeatStates

LEMMA NextType == TypeOK /\ [Next]_vars => TypeOK'
  <1> SUFFICES ASSUME TypeOK, [Next]_vars PROVE TypeOK'
    OBVIOUS
  <1>1. CASE UNCHANGED vars
    BY <1>1, BeatsStep DEF vars, TypeOK
  <1> QED
    BY <1>1, BeatsStep, WorkerType, ProcType, TickType DEF Next

(* TypeOK: every variable keeps its type, and a heartbeat runs exactly as long *)
(* as the work it vouches for.                                               *)
THEOREM TypeCorrect == Spec => []TypeOK
  BY InitType, NextType, PTL DEF Spec

-----------------------------------------------------------------------------
(* One fiber of a process at a time.                                         *)

(* The in-memory claim covers the whole of the work, and no longer.           *)
ClaimCoversWork == \A w \in Workers : Is(w, "working") => held[ProcOf[w]]

SerialInv == ClaimCoversWork /\ OneWorkerPerProcess

LEMMA SerialInit == Init => SerialInv
  BY DEF Init, SerialInv, ClaimCoversWork, OneWorkerPerProcess, Is, Resting

LEMMA SerialWorker ==
  ASSUME TypeOK, SerialInv, NEW w \in Workers,
         \/ WorkerStep(w) \/ ClaimStart(w) \/ End(w)
         \/ ClaimFails(w) \/ BeatFails(w) \/ RemoveFails(w)
  PROVE  SerialInv'
  <1> USE ProcsAssumption DEF TypeOK, SerialInv, ClaimCoversWork, OneWorkerPerProcess, Is, Resting
  <1>1. CASE ClaimStart(w)
    BY <1>1 DEF ClaimStart
  <1>2. CASE ClaimWrite(w)
    BY <1>2 DEF ClaimWrite
  <1>3. CASE End(w)
    BY <1>3 DEF End
  <1>4. CASE Remove(w) \/ RemoveFails(w) \/ ClaimFails(w)
    <2>1. /\ worker' = [worker EXCEPT ![w] = [step |-> "idle", age |-> 0]]
          /\ held' = held
      BY <1>4 DEF Remove, RemoveFails, ClaimFails
    <2>2. \A v \in Workers :
            worker'[v].step \in {"claiming", "working"} => worker'[v] = worker[v]
      BY <2>1
    <2>3. ClaimCoversWork'
      BY <2>1, <2>2
    <2>4. OneWorkerPerProcess'
      BY <2>2
    <2> QED
      BY <2>3, <2>4
  <1>5. CASE BeatStart(w) \/ BeatWrite(w) \/ BeatFails(w)
    BY <1>5 DEF BeatStart, BeatWrite, BeatFails
  <1> QED
    BY <1>1, <1>2, <1>3, <1>4, <1>5 DEF WorkerStep

LEMMA SerialStep == TypeOK /\ SerialInv /\ [Next]_vars => SerialInv'
  <1> SUFFICES ASSUME TypeOK, SerialInv, [Next]_vars PROVE SerialInv'
    OBVIOUS
  <1> USE DEF SerialInv, ClaimCoversWork, OneWorkerPerProcess, Is
  <1>1. CASE UNCHANGED vars
    BY <1>1 DEF vars
  <1>2. ASSUME NEW w \in Workers,
               \/ WorkerStep(w) \/ ClaimStart(w) \/ End(w)
               \/ ClaimFails(w) \/ BeatFails(w) \/ RemoveFails(w)
        PROVE  SerialInv'
    BY <1>2, SerialWorker
  <1>3. ASSUME NEW p \in Procs, Crash(p) PROVE SerialInv'
    BY <1>3, ProcsAssumption DEF Crash, Resting, TypeOK
  <1>4. ASSUME NEW p \in Procs,
               \/ LateWrite(p) \/ BootList(p) \/ BootJudge(p)
               \/ PidReused(p) \/ FallBehind(p)
        PROVE  SerialInv'
    BY <1>4 DEF LateWrite, BootList, BootJudge, PidReused, FallBehind
  <1>5. CASE Tick
    <2>1. \A w \in Workers : worker'[w].step = worker[w].step
      BY <1>5 DEF Tick, TypeOK
    <2> QED
      BY <1>5, <2>1 DEF Tick
  <1> QED
    BY <1>1, <1>2, <1>3, <1>4, <1>5 DEF Next

(* OneWorkerPerProcess of Lease: claiming is read, decide, write, and the    *)
(* one permit of the gate with the in-memory set make it serial in a process,*)
(* whatever becomes of the file meanwhile.                                   *)
THEOREM OneWorkerPerProcessCorrect == Spec => []OneWorkerPerProcess
  <1>1. Spec => []SerialInv
    BY TypeCorrect, SerialInit, SerialStep, PTL DEF Spec
  <1> QED
    BY <1>1, PTL DEF SerialInv

-----------------------------------------------------------------------------
(* A holder that keeps up reads as live.                                     *)

(* What a fiber is doing, it does in a process that is up; exactly the ones   *)
(* that work have a heartbeat, and a rename on its way has a process too.     *)
StepsOfLiving ==
  /\ \A w \in Workers : ~Is(w, "idle") => proc[ProcOf[w]] = "up"
  /\ \A w \in Workers : beat[w].step # "off" <=> Is(w, "working")
  /\ \A p \in Procs : late[p] # None => proc[p] = "up"

(* A claim has somebody working under it.                                    *)
HeldByWorking ==
  \A p \in Procs : held[p] =>
    /\ proc[p] = "up"
    /\ \E w \in Workers : ProcOf[w] = p /\ Is(w, "working")

(* A process that keeps up writes what it decided before the clock moves on.   *)
Prompt ==
  \A p \in Procs \ slow :
    /\ late[p] # None => late[p] = 0
    /\ \A w \in Workers : ProcOf[w] = p =>
         /\ Is(w, "claiming") => worker[w].age = 0
         /\ beat[w].step = "writing" => beat[w].age = 0

(* What the mishaps so far may have added to the age of a holder's file.      *)
Slack == BeatEvery * (Mishaps - mishaps)

(* A file is as old as the beat of its holder is due, and one beat older for  *)
(* every mishap.                                                             *)
Kept ==
  \A w \in Workers :
    (file # NoFile /\ file.by = ProcOf[w] /\ ProcOf[w] \notin slow /\ Is(w, "working"))
      => /\ beat[w].step = "rest" => file.age <= beat[w].due + Slack
         /\ beat[w].step = "writing" => file.age <= BeatEvery + Slack

LiveInv == StepsOfLiving /\ HeldByWorking /\ Prompt /\ Kept

(* Few enough writes have failed: the beats missed so far do not add up to   *)
(* leaseStaleMs.                                                             *)
FewMishaps == BeatEvery * (Mishaps - mishaps + 1) < StaleAfter

LEMMA SlackFact ==
  ASSUME TypeOK
  PROVE  /\ Slack \in Nat
         /\ BeatEvery * (Mishaps - mishaps + 1) = Slack + BeatEvery
  <1>1. Mishaps - mishaps \in Nat
    BY TimesAssumption DEF TypeOK
  <1>2. \A n \in Nat : BeatEvery * n \in Nat /\ BeatEvery * (n + 1) = BeatEvery * n + BeatEvery
    BY TimesAssumption
  <1> QED
    BY <1>1, <1>2 DEF Slack

LEMMA SlackStep ==
  ASSUME TypeOK, Mishap
  PROVE  Slack' = Slack + BeatEvery
  <1>1. Mishaps - mishaps' = (Mishaps - mishaps) + 1
    BY TimesAssumption DEF TypeOK, Mishap
  <1> QED
    BY <1>1, SlackFact DEF Slack

LEMMA SlackKept == mishaps' = mishaps => Slack' = Slack
  BY DEF Slack

LEMMA LiveInit == Init => LiveInv
  BY ProcsAssumption
  DEF Init, LiveInv, StepsOfLiving, HeldByWorking, Prompt, Kept, Is, Resting

LEMMA LiveByWorker ==
  ASSUME TypeOK, SerialInv, LiveInv, NEW w \in Workers,
         \/ WorkerStep(w) \/ ClaimStart(w) \/ End(w)
         \/ ClaimFails(w) \/ BeatFails(w) \/ RemoveFails(w)
  PROVE  LiveInv'
  <1> DEFINE p == ProcOf[w]
  <1>0. /\ p \in Procs /\ Slack \in Nat /\ BeatEvery \in Nat \ {0}
        /\ \A v \in Workers : beat[v].due \in 0..BeatEvery
        /\ NoFile \notin Record
    BY SlackFact, TimesAssumption, ProcsAssumption DEF TypeOK, Record, Ages
  <1> USE DEF Is, Resting
  <1>1. CASE ClaimStart(w)
    <2>1. StepsOfLiving' /\ HeldByWorking' /\ Prompt'
      BY <1>0, <1>1
      DEF ClaimStart, TypeOK, LiveInv, StepsOfLiving, HeldByWorking, Prompt
    <2>2. Kept'
      BY <1>0, <1>1, SlackKept DEF ClaimStart, TypeOK, LiveInv, Kept
    <2> QED
      BY <2>1, <2>2 DEF LiveInv
  <1>2. CASE ClaimWrite(w)
    <2>1. StepsOfLiving' /\ HeldByWorking' /\ Prompt'
      BY <1>0, <1>2
      DEF ClaimWrite, TypeOK, LiveInv, StepsOfLiving, HeldByWorking, Prompt
    <2>2. p \notin slow => file'.age = 0
      BY <1>0, <1>2 DEF ClaimWrite, LiveInv, Prompt
    <2>3. Kept'
      <3> SUFFICES ASSUME NEW v \in Workers, Is(v, "working")', file'.by = ProcOf[v],
                          ProcOf[v] \notin slow
                   PROVE  /\ beat'[v].step = "rest" => file'.age <= beat'[v].due + Slack'
                          /\ beat'[v].step = "writing" => file'.age <= BeatEvery + Slack'
        BY <1>2 DEF Kept, ClaimWrite
      <3>1. file'.by = p /\ Slack' = Slack
        BY <1>2, SlackKept DEF ClaimWrite
      <3>2. beat'[v].due \in 0..BeatEvery
        BY <1>0, <1>2 DEF ClaimWrite, TypeOK
      <3> QED
        BY <1>0, <2>2, <3>1, <3>2
    <2> QED
      BY <2>1, <2>3 DEF LiveInv
  <1>3. CASE ClaimFails(w)
    <2>1. StepsOfLiving' /\ HeldByWorking' /\ Prompt'
      BY <1>0, <1>3
      DEF ClaimFails, TypeOK, LiveInv, StepsOfLiving, HeldByWorking, Prompt
    <2>2. Kept'
      <3>1. Slack' = Slack + BeatEvery
        BY <1>3, SlackStep DEF ClaimFails
      <3>2. file # NoFile => file.age \in Nat
        BY DEF TypeOK, Record, Ages
      <3> QED
        BY <1>0, <1>3, <3>1, <3>2 DEF ClaimFails, TypeOK, LiveInv, Kept
    <2> QED
      BY <2>1, <2>2 DEF LiveInv
  <1>4. CASE BeatStart(w)
    <2>1. StepsOfLiving' /\ HeldByWorking' /\ Prompt'
      BY <1>0, <1>4
      DEF BeatStart, TypeOK, LiveInv, StepsOfLiving, HeldByWorking, Prompt
    <2>2. Kept'
      <3>1. Slack' = Slack
        BY <1>4, SlackKept DEF BeatStart
      <3>2. \A v \in Workers \ {w} : beat'[v] = beat[v]
        BY <1>4 DEF BeatStart, TypeOK
      <3>3. (file # NoFile /\ file.by = p) => beat'[w].step = "writing"
        BY <1>4 DEF BeatStart, TypeOK
      <3> QED
        BY <1>0, <1>4, <3>1, <3>2, <3>3 DEF BeatStart, LiveInv, Kept
    <2> QED
      BY <2>1, <2>2 DEF LiveInv
  <1>5. CASE BeatWrite(w)
    <2>1. StepsOfLiving' /\ HeldByWorking' /\ Prompt'
      BY <1>0, <1>5
      DEF BeatWrite, TypeOK, LiveInv, StepsOfLiving, HeldByWorking, Prompt
    <2>2. p \notin slow => file'.age = 0
      BY <1>0, <1>5 DEF BeatWrite, LiveInv, Prompt
    <2>3. Kept'
      <3> SUFFICES ASSUME NEW v \in Workers, file'.by = ProcOf[v], ProcOf[v] \notin slow
                   PROVE  /\ beat'[v].step = "rest" => file'.age <= beat'[v].due + Slack'
                          /\ beat'[v].step = "writing" => file'.age <= BeatEvery + Slack'
        BY <1>5 DEF Kept, BeatWrite
      <3>1. file'.by = p /\ Slack' = Slack
        BY <1>5, SlackKept DEF BeatWrite
      <3>2. beat'[v].due \in 0..BeatEvery
        BY <1>0, <1>5 DEF BeatWrite, TypeOK
      <3> QED
        BY <1>0, <2>2, <3>1, <3>2
    <2> QED
      BY <2>1, <2>3 DEF LiveInv
  <1>6. CASE BeatFails(w)
    <2>1. StepsOfLiving' /\ HeldByWorking' /\ Prompt'
      BY <1>0, <1>6
      DEF BeatFails, TypeOK, LiveInv, StepsOfLiving, HeldByWorking, Prompt
    <2>2. Kept'
      <3>1. Slack' = Slack + BeatEvery
        BY <1>6, SlackStep DEF BeatFails
      <3>2. file # NoFile => file.age \in Nat
        BY DEF TypeOK, Record, Ages
      <3>3. \A v \in Workers \ {w} : beat'[v] = beat[v]
        BY <1>6 DEF BeatFails, TypeOK
      <3>4. beat[w].step = "writing" /\ beat'[w].step = "rest" /\ beat'[w].due = 0
        BY <1>6 DEF BeatFails, TypeOK
      <3> QED
        BY <1>0, <1>6, <3>1, <3>2, <3>3, <3>4 DEF BeatFails, LiveInv, Kept
    <2> QED
      BY <2>1, <2>2 DEF LiveInv
  <1>7. CASE End(w)
    <2>1. \A v \in Workers \ {w} : worker'[v] = worker[v] /\ beat'[v] = beat[v]
      BY <1>7 DEF End, TypeOK
    <2>2. worker'[w].step = "removing" /\ beat'[w].step = "off"
      BY <1>7 DEF End, TypeOK
    <2>3. proc' = proc /\ slow' = slow /\ proc[p] = "up" /\ Is(w, "working")
      BY <1>7 DEF End, LiveInv, StepsOfLiving
    <2>4. \A q \in Procs \ {p} : held'[q] = held[q] /\ late'[q] = late[q]
      BY <1>7 DEF End, TypeOK
    <2>5. /\ ~held'[p]
          /\ \/ late'[p] = late[p]
             \/ beat[w].step = "writing" /\ late'[p] = beat[w].age
      BY <1>0, <1>7 DEF End, TypeOK
    <2>6. StepsOfLiving'
      BY <1>0, <2>1, <2>2, <2>3, <2>4, <2>5 DEF LiveInv, StepsOfLiving
    <2>7. HeldByWorking'
      BY <1>0, <2>1, <2>2, <2>3, <2>4, <2>5 DEF LiveInv, HeldByWorking
    <2>8. Prompt'
      BY <1>0, <2>1, <2>2, <2>3, <2>4, <2>5 DEF LiveInv, Prompt
    <2>9. Kept'
      BY <1>7, <2>1, <2>2, SlackKept DEF End, LiveInv, Kept
    <2> QED
      BY <2>6, <2>7, <2>8, <2>9 DEF LiveInv
  <1>8. CASE Remove(w)
    <2>1. StepsOfLiving' /\ HeldByWorking' /\ Prompt'
      BY <1>0, <1>8 DEF Remove, TypeOK, LiveInv, StepsOfLiving, HeldByWorking, Prompt
    <2>2. Kept'
      BY <1>8 DEF Remove, Kept
    <2> QED
      BY <2>1, <2>2 DEF LiveInv
  <1>9. CASE RemoveFails(w)
    <2>1. StepsOfLiving' /\ HeldByWorking' /\ Prompt'
      BY <1>0, <1>9 DEF RemoveFails, TypeOK, LiveInv, StepsOfLiving, HeldByWorking, Prompt
    <2>2. Kept'
      <3>1. Slack' = Slack + BeatEvery
        BY <1>9, SlackStep DEF RemoveFails
      <3>2. file # NoFile => file.age \in Nat
        BY DEF TypeOK, Record, Ages
      <3> QED
        BY <1>0, <1>9, <3>1, <3>2 DEF RemoveFails, TypeOK, LiveInv, Kept
    <2> QED
      BY <2>1, <2>2 DEF LiveInv
  <1> QED
    BY <1>1, <1>2, <1>3, <1>4, <1>5, <1>6, <1>7, <1>8, <1>9 DEF WorkerStep

LEMMA LiveByProc ==
  ASSUME TypeOK, LiveInv, NEW p \in Procs,
         \/ LateWrite(p) \/ BootList(p) \/ BootJudge(p)
         \/ Crash(p) \/ PidReused(p) \/ FallBehind(p)
  PROVE  LiveInv'
  <1>0. /\ Slack \in Nat /\ BeatEvery \in Nat \ {0}
        /\ \A v \in Workers : beat[v].due \in 0..BeatEvery /\ ProcOf[v] \in Procs
        /\ file # NoFile => file.age \in Nat
    BY SlackFact, TimesAssumption, ProcsAssumption DEF TypeOK, Record, Ages
  <1> USE DEF Is, Resting
  <1>1. CASE LateWrite(p)
    <2>1. StepsOfLiving' /\ HeldByWorking' /\ Prompt'
      BY <1>0, <1>1 DEF LateWrite, TypeOK, LiveInv, StepsOfLiving, HeldByWorking, Prompt
    <2>2. p \notin slow => file'.age = 0
      BY <1>1 DEF LateWrite, LiveInv, Prompt
    <2>3. Kept'
      BY <1>0, <1>1, <2>2, SlackKept DEF LateWrite, Kept
    <2> QED
      BY <2>1, <2>3 DEF LiveInv
  <1>2. CASE BootList(p)
    <2>1. StepsOfLiving' /\ HeldByWorking' /\ Prompt'
      BY <1>0, <1>2 DEF BootList, TypeOK, LiveInv, StepsOfLiving, HeldByWorking, Prompt
    <2>2. Kept'
      BY <1>2, SlackKept DEF BootList, LiveInv, Kept
    <2> QED
      BY <2>1, <2>2 DEF LiveInv
  <1>3. CASE BootJudge(p)
    <2>1. StepsOfLiving' /\ HeldByWorking' /\ Prompt'
      BY <1>0, <1>3 DEF BootJudge, TypeOK, LiveInv, StepsOfLiving, HeldByWorking, Prompt
    <2>2. Kept'
      BY <1>3, SlackKept DEF BootJudge, LiveInv, Kept
    <2> QED
      BY <2>1, <2>2 DEF LiveInv
  <1>4. CASE Crash(p)
    <2>1. \A w \in Workers : ProcOf[w] # p => worker'[w] = worker[w] /\ beat'[w] = beat[w]
      BY <1>4 DEF Crash
    <2>2. \A w \in Workers : ProcOf[w] = p => Is(w, "idle")' /\ beat'[w].step = "off"
      BY <1>4 DEF Crash
    <2>3. \A q \in Procs \ {p} : proc'[q] = proc[q] /\ held'[q] = held[q] /\ late'[q] = late[q]
      BY <1>4 DEF Crash, TypeOK
    <2>4. ~held'[p] /\ late'[p] = None /\ slow' = slow
      BY <1>4 DEF Crash, TypeOK
    <2>5. StepsOfLiving'
      BY <1>0, <2>1, <2>2, <2>3, <2>4 DEF LiveInv, StepsOfLiving
    <2>6. HeldByWorking'
      BY <1>0, <2>1, <2>2, <2>3, <2>4 DEF LiveInv, HeldByWorking
    <2>7. Prompt'
      BY <1>0, <2>1, <2>2, <2>3, <2>4 DEF LiveInv, Prompt
    <2>8. Kept'
      BY <1>4, <2>1, <2>2, SlackKept DEF Crash, LiveInv, Kept
    <2> QED
      BY <2>5, <2>6, <2>7, <2>8 DEF LiveInv
  <1>5. CASE PidReused(p)
    <2>1. StepsOfLiving' /\ HeldByWorking' /\ Prompt'
      BY <1>0, <1>5 DEF PidReused, TypeOK, LiveInv, StepsOfLiving, HeldByWorking, Prompt
    <2>2. Slack' = Slack + BeatEvery
      BY <1>5, SlackStep DEF PidReused
    <2>3. Kept'
      BY <1>0, <1>5, <2>2 DEF PidReused, LiveInv, Kept
    <2> QED
      BY <2>1, <2>3 DEF LiveInv
  <1>6. CASE FallBehind(p)
    <2>1. StepsOfLiving' /\ HeldByWorking' /\ Prompt'
      BY <1>0, <1>6 DEF FallBehind, LiveInv, StepsOfLiving, HeldByWorking, Prompt
    <2>2. Slack' = Slack + BeatEvery
      BY <1>6, SlackStep DEF FallBehind
    <2>3. Kept'
      BY <1>0, <1>6, <2>2 DEF FallBehind, LiveInv, Kept
    <2> QED
      BY <2>1, <2>3 DEF LiveInv
  <1> QED
    BY <1>1, <1>2, <1>3, <1>4, <1>5, <1>6

LEMMA LiveByTick ==
  ASSUME TypeOK, LiveInv, Tick
  PROVE  LiveInv'
  <1>0. /\ Slack \in Nat /\ Slack' = Slack /\ BeatEvery \in Nat \ {0}
        /\ \A v \in Workers : beat[v].due \in 0..BeatEvery /\ ProcOf[v] \in Procs
        /\ file # NoFile => file.age \in Nat
    BY SlackFact, SlackKept, TimesAssumption, ProcsAssumption DEF TypeOK, Record, Ages, Tick
  <1>1. \A w \in Workers : worker'[w].step = worker[w].step /\ beat'[w].step = beat[w].step
    BY DEF Tick, TypeOK
  <1>2. \A p \in Procs : late'[p] # None => late[p] # None
    BY DEF Tick
  <1>3. proc' = proc /\ held' = held /\ slow' = slow
    BY DEF Tick
  <1>4. StepsOfLiving'
    BY <1>1, <1>2, <1>3 DEF LiveInv, StepsOfLiving, Is
  <1>5. HeldByWorking'
    BY <1>1, <1>3 DEF LiveInv, HeldByWorking, Is
  <1>6. \A p \in Procs \ slow : proc[p] = "up" => KeepsUp(p)
    BY DEF Tick, Alive
  <1>7. Prompt'
    <2> SUFFICES ASSUME NEW p \in Procs \ slow
                 PROVE  /\ late'[p] # None => late'[p] = 0
                        /\ \A w \in Workers : ProcOf[w] = p =>
                             /\ Is(w, "claiming")' => worker'[w].age = 0
                             /\ beat'[w].step = "writing" => beat'[w].age = 0
      BY <1>3 DEF Prompt
    <2>1. late'[p] = None
      BY <1>2, <1>6 DEF LiveInv, StepsOfLiving, KeepsUp
    <2>2. ASSUME NEW w \in Workers, ProcOf[w] = p
          PROVE  ~Is(w, "claiming")' /\ beat'[w].step # "writing"
      BY <1>1, <1>6, <2>2 DEF LiveInv, StepsOfLiving, KeepsUp, Is
    <2> QED
      BY <2>1, <2>2
  <1>8. Kept'
    <2> SUFFICES ASSUME NEW w \in Workers, file' # NoFile, file'.by = ProcOf[w],
                        ProcOf[w] \notin slow, Is(w, "working")'
                 PROVE  /\ beat'[w].step = "rest" => file'.age <= beat'[w].due + Slack
                        /\ beat'[w].step = "writing" => file'.age <= BeatEvery + Slack
      BY <1>0, <1>3 DEF Kept
    <2>1. Is(w, "working") /\ KeepsUp(ProcOf[w])
      BY <1>0, <1>1, <1>6 DEF LiveInv, StepsOfLiving, Is
    <2>2. beat[w].step = "rest" /\ beat[w].due < BeatEvery
      <3>1. beat[w].step \in {"off", "rest", "writing"}
        BY DEF TypeOK
      <3>2. beat[w].step = "rest" /\ beat[w].due # BeatEvery
        BY <2>1, <3>1 DEF LiveInv, StepsOfLiving, KeepsUp
      <3> QED
        BY <1>0, <3>2
    <2>3. beat'[w].step = "rest" /\ beat'[w].due = beat[w].due + 1
      BY <2>2 DEF Tick, TypeOK
    <2>4. file # NoFile /\ file.by = ProcOf[w] /\ file'.age <= file.age + 1
      BY <1>0, TimesAssumption DEF Tick, Aged, Older, TypeOK, Record, Ages
    <2>5. file.age <= beat[w].due + Slack
      BY <1>3, <2>1, <2>2, <2>4 DEF LiveInv, Kept
    <2>6. file'.age \in Nat
      BY AgedType DEF Tick, TypeOK, Record, Ages
    <2> QED
      BY <1>0, <2>3, <2>4, <2>5, <2>6
  <1> QED
    BY <1>4, <1>5, <1>7, <1>8 DEF LiveInv

LEMMA LiveStep == TypeOK /\ SerialInv /\ LiveInv /\ [Next]_vars => LiveInv'
  <1> SUFFICES ASSUME TypeOK, SerialInv, LiveInv, [Next]_vars PROVE LiveInv'
    OBVIOUS
  <1>1. CASE UNCHANGED vars
    BY <1>1 DEF vars, LiveInv, StepsOfLiving, HeldByWorking, Prompt, Kept, Slack, Is
  <1> QED
    BY <1>1, LiveByWorker, LiveByProc, LiveByTick DEF Next

LEMMA KeptIsLive == TypeOK /\ LiveInv => (FewMishaps => HolderReadsLive)
  <1> SUFFICES ASSUME TypeOK, LiveInv, FewMishaps, file # NoFile, held[file.by],
                      file.by \notin slow, NEW q \in Procs
               PROVE  IsLive(q, file)
    BY DEF HolderReadsLive
  <1>1. file.by \in Procs /\ file.age \in Nat
    BY DEF TypeOK, Record, Ages
  <1>2. PICK w \in Workers : ProcOf[w] = file.by /\ Is(w, "working")
    BY <1>1 DEF LiveInv, HeldByWorking
  <1>3. beat[w].step \in {"rest", "writing"} /\ beat[w].due \in 0..BeatEvery
    BY <1>2 DEF LiveInv, StepsOfLiving, TypeOK
  <1>4. file.age <= BeatEvery + Slack
    BY <1>1, <1>2, <1>3, SlackFact, TimesAssumption DEF LiveInv, Kept
  <1>5. file.age < StaleAfter
    BY <1>1, <1>4, SlackFact, TimesAssumption DEF FewMishaps
  <1>6. proc[file.by] = "up"
    BY <1>1 DEF LiveInv, HeldByWorking
  <1> QED
    BY <1>5, <1>6 DEF IsLive

LEMMA AlwaysLiveInv == Spec => [](TypeOK /\ LiveInv)
  <1>1. Spec => []SerialInv
    BY TypeCorrect, SerialInit, SerialStep, PTL DEF Spec
  <1> QED
    BY <1>1, TypeCorrect, LiveInit, LiveStep, PTL DEF Spec

(* HolderReadsLive of Lease, while the beats that have gone wrong do not add  *)
(* up to leaseStaleMs: each failed write, and each pid or process that         *)
(* misbehaves, costs a holder at most one heartbeat.                         *)
THEOREM HolderReadsLiveWhileFewMishaps == Spec => [](FewMishaps => HolderReadsLive)
  BY AlwaysLiveInv, KeptIsLive, PTL

LEMMA FewMishapsFact == BeatEvery * (Mishaps + 1) < StaleAfter /\ TypeOK => FewMishaps
  <1> SUFFICES ASSUME BeatEvery * (Mishaps + 1) < StaleAfter, TypeOK
               PROVE  BeatEvery * (Mishaps - mishaps + 1) < StaleAfter
    BY DEF FewMishaps
  <1>1. Mishaps - mishaps + 1 \in Nat /\ Mishaps + 1 \in Nat
        /\ Mishaps - mishaps + 1 <= Mishaps + 1
    BY TimesAssumption DEF TypeOK
  <1>2. \A m, n \in Nat : m <= n => BeatEvery * m <= BeatEvery * n
    BY TimesAssumption
  <1>3. \A n \in Nat : BeatEvery * n \in Nat
    BY TimesAssumption
  <1> QED
    BY <1>1, <1>2, <1>3, TimesAssumption

(* "Three heartbeats rather than one": with a staleness period longer than the  *)
(* heartbeats that can be missed plus one, HolderReadsLive of Lease holds for  *)
(* good, for any number of processes and fibers.                             *)
THEOREM HolderReadsLiveCorrect ==
  ASSUME BeatEvery * (Mishaps + 1) < StaleAfter
  PROVE  Spec => []HolderReadsLive
  BY TypeCorrect, FewMishapsFact, HolderReadsLiveWhileFewMishaps, PTL

=============================================================================
