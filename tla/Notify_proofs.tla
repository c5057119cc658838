----------------------------- MODULE Notify_proofs ----------------------------
(***************************************************************************)
(* Theorems about Notify, for any number of runs, any batch size of the    *)
(* repair pass and any budget of disturbances.                             *)
(***************************************************************************)
EXTENDS Notify, TLAPS

-----------------------------------------------------------------------------
(* The inductive invariant.                                                  *)

(* Only a closed run has an ending on its row, and every close has one to write.*)
RowsEnd ==
  \A r \in Runs : /\ closing[r] \in {"turn", "ended", "lost"} <=> row[r] = "live"
                  /\ closing[r] = "ended" => outcome[r] # None

(* A notice has its kind once its task is read.                               *)
JobsHaveKind ==
  \A job \in jobs : job.step \in {"claim", "send", "stamp"} => job.kind \in Kinds

TypeInv == TypeOK /\ RowsEnd /\ JobsHaveKind

(* What a described notice says agrees with a row that has ended for good.     *)
Agrees(kind, r) == row[r] # "live" /\ (row[r] = "done" <=> kind # "run_failed")

Told(job) ==
  job.run \notin hasty =>
    /\ job.step = "task" => row[job.run] # "live" /\ job.seen = row[job.run]
    /\ job.step \in {"claim", "send", "stamp"} => Agrees(job.kind, job.run)

NoticeInv ==
  /\ \A job \in jobs : Told(job)
  /\ \A kind \in Kinds, r \in Runs \ hasty : ledger[<<kind, r>>] # None => Agrees(kind, r)

(* The notices between their claim and their stamp.                           *)
Senders == {job \in jobs : job.step \in {"send", "stamp"}}
Sending(k)  == \E job \in Senders : job.step = "send" /\ KeyOf(job) = k
Stamping(k) == \E job \in Senders : job.step = "stamp" /\ KeyOf(job) = k

(* The claims a pass has still to send, and the one it has sent.               *)
Awaiting(k) == \E i \in pass.left : order[i] = k /\ ~(pass.step = "stamp" /\ InHand(i))
Resent(k)   == \E i \in pass.left : order[i] = k /\ pass.step = "stamp" /\ InHand(i)

(* Whoever is about to send may: each send there was is paid for by a doubt.   *)
Paid(k) ==
  /\ said[k] <= 1 + unsure[k]
  /\ Sending(k) \/ Awaiting(k) => said[k] <= unsure[k]
  /\ Sending(k) /\ Awaiting(k) => said[k] + 1 <= unsure[k]
  /\ ledger[k] = "stale" /\ ~Resent(k) => /\ said[k] <= unsure[k]
                                          /\ Sending(k) => said[k] + 1 <= unsure[k]
  /\ ledger[k] = "fresh" /\ ~Stamping(k) => said[k] <= unsure[k]

(* Nobody stamps what was not said, and nobody sends what is not claimed.      *)
Earned(k) ==
  /\ ledger[k] = None => said[k] = 0
  /\ ledger[k] = "stamped" \/ Stamping(k) \/ Resent(k) => said[k] > 0
  /\ Sending(k) \/ Stamping(k) => ledger[k] # None
  /\ \A i \in pass.left : order[i] = k => ledger[k] \in {"stale", "stamped"}

OneSender == \A a, b \in Senders : KeyOf(a) = KeyOf(b) => a = b

SaidInv == OneSender /\ \A k \in Keys : Paid(k) /\ Earned(k)

-----------------------------------------------------------------------------
(* Types.                                                                    *)

LEMMA SpendType ==
  ASSUME TypeOK, NEW d \in Disturbances, Spend(d)
  PROVE  budget' \in [Disturbances -> Nat]
  BY DEF TypeOK, Spend

LEMMA KeyType ==
  ASSUME TypeInv, NEW job \in jobs, job.step \in {"claim", "send", "stamp"}
  PROVE  KeyOf(job) \in Keys
  BY DEF TypeInv, TypeOK, JobsHaveKind, Jobs, KeyOf, Keys

LEMMA StoreType ==
  ASSUME TypeInv, NEW r \in Runs, NEW event \in Events, Store(r, event)
  PROVE  jobs' \subseteq Jobs /\ JobsHaveKind'
  BY DEF TypeInv, TypeOK, JobsHaveKind, Store, Jobs, None

LEMMA InitType == Init => TypeInv
  <1> SUFFICES ASSUME Init PROVE TypeInv
    OBVIOUS
  <1>1. order \in Seq(Keys) /\ DOMAIN order = {}
    BY DEF Init
  <1>2. pass \in [left : SUBSET (DOMAIN order), step : {"send", "stamp"}]
    BY <1>1 DEF Init, Idle
  <1> QED
    BY <1>1, <1>2, BoundsAssumption
    DEF Init, TypeInv, TypeOK, RowsEnd, JobsHaveKind, Outcomes, Columns, Claims, None

LoopStep(r) ==
  \/ CloseOut(r) \/ TurnBreaks(r) \/ Stop(r) \/ AgentMoves(r) \/ PersonMoves(r)
  \/ \E how \in {"done", "failed"} : TurnEnds(r, how)

LEMMA LoopType ==
  ASSUME TypeInv, NEW r \in Runs, LoopStep(r)
  PROVE  TypeInv'
  <1> USE DEF TypeInv, TypeOK, Outcomes, Columns, None
  <1>1. CASE CloseRow(r)
    <2>1. closing[r] = "ended" /\ outcome[r] \in Outcomes
      BY <1>1 DEF CloseRow, RowsEnd
    <2>2. row' \in [Runs -> Outcomes \cup {"live"}] /\ row'[r] # "live"
          /\ \A x \in Runs \ {r} : row'[x] = row[x]
      BY <1>1, <2>1 DEF CloseRow
    <2>3. RowsEnd'
      BY <1>1, <2>2 DEF CloseRow, RowsEnd
    <2> QED
      BY <1>1, <2>2, <2>3 DEF CloseRow, JobsHaveKind, history
  <1>2. CASE MoveToReview(r)
    BY <1>2 DEF MoveToReview, RowsEnd, JobsHaveKind, history
  <1>3. CASE StopMarked(r)
    <2>1. jobs' \subseteq Jobs /\ JobsHaveKind'
      BY <1>3, StoreType DEF StopMarked, Events
    <2> QED
      BY <1>3, <2>1 DEF StopMarked, RowsEnd, history
  <1>4. CASE Reconcile(r)
    BY <1>4 DEF Reconcile, RowsEnd, JobsHaveKind, history
  <1>5. CASE TurnBreaks(r)
    BY <1>5 DEF TurnBreaks, RowsEnd, JobsHaveKind, history
  <1>6. CASE Stop(r)
    <2>1. budget' \in [Disturbances -> Nat]
      BY <1>6, SpendType DEF Stop, Disturbances
    <2> QED
      BY <1>6, <2>1 DEF Stop, RowsEnd, JobsHaveKind, history
  <1>7. CASE AgentMoves(r)
    BY <1>7 DEF AgentMoves, RowsEnd, JobsHaveKind, history
  <1>8. CASE PersonMoves(r)
    <2>1. budget' \in [Disturbances -> Nat]
      BY <1>8, SpendType DEF PersonMoves, Disturbances
    <2> QED
      BY <1>8, <2>1 DEF PersonMoves, RowsEnd, JobsHaveKind, history
  <1>9. ASSUME NEW how \in {"done", "failed"}, TurnEnds(r, how)
        PROVE  TypeInv'
    <2>1. jobs' \subseteq Jobs /\ JobsHaveKind'
      BY <1>9, StoreType DEF TurnEnds, Events
    <2> QED
      BY <1>9, <2>1 DEF TurnEnds, RowsEnd, history
  <1> QED
    BY <1>1, <1>2, <1>3, <1>4, <1>5, <1>6, <1>7, <1>8, <1>9 DEF LoopStep, CloseOut

ProcessStep == LoopDies \/ ChannelDrops \/ Listens \/ BotDies \/ BotBoots

LEMMA ProcessType == TypeInv /\ ProcessStep => TypeInv'
  <1> SUFFICES ASSUME TypeInv, ProcessStep PROVE TypeInv'
    OBVIOUS
  <1> USE DEF TypeInv, TypeOK, None
  <1>1. CASE LoopDies
    <2>1. budget' \in [Disturbances -> Nat]
      BY <1>1, SpendType DEF LoopDies, Disturbances
    <2>2. closing' \in [Runs -> {"turn", "ended", "closed", "over", "lost"}]
          /\ stop' \in [Runs -> {None, "asked", "marked"}]
      BY <1>1 DEF LoopDies
    <2>3. RowsEnd'
      BY <1>1 DEF LoopDies, RowsEnd
    <2> QED
      BY <1>1, <2>1, <2>2, <2>3 DEF LoopDies, JobsHaveKind, history
  <1>2. CASE ChannelDrops \/ Listens \/ BotBoots
    <2>1. budget' \in [Disturbances -> Nat]
      BY <1>2, SpendType DEF ChannelDrops, Listens, BotBoots, Disturbances
    <2> QED
      BY <1>2, <2>1
      DEF ChannelDrops, Listens, BotBoots, RowsEnd, JobsHaveKind, history, loop
  <1>3. CASE BotDies
    <2>1. unsure' \in [Keys -> Nat]
      BY <1>3 DEF BotDies
    <2>2. pass' \in [left : SUBSET (DOMAIN order), step : {"send", "stamp"}]
      BY <1>3 DEF BotDies, Idle
    <2>3. budget' \in [Disturbances -> Nat]
      BY <1>3, SpendType DEF BotDies, Disturbances
    <2>4. /\ bot' \in {"listening", "deaf", "down"}
          /\ jobs' = {}
          /\ UNCHANGED <<ledger, order, said, hasty>> /\ UNCHANGED loop
      BY <1>3 DEF BotDies
    <2>5. RowsEnd' /\ JobsHaveKind'
      BY <2>4 DEF RowsEnd, JobsHaveKind, loop
    <2> QED
      BY <2>1, <2>2, <2>3, <2>4, <2>5 DEF loop
  <1> QED
    BY <1>1, <1>2, <1>3 DEF ProcessStep

JobStep(job) == Handle(job) \/ SendRefused(job) \/ StampFails(job)

LEMMA TakeType ==
  ASSUME TypeInv, NEW k \in Keys, Take(k)
  PROVE  /\ ledger' \in [Keys -> Claims] /\ order' \in Seq(Keys)
         /\ \A i, j \in DOMAIN order' : order'[i] = order'[j] => i = j
         /\ {order'[i] : i \in DOMAIN order'} = {x \in Keys : ledger'[x] # None}
         /\ DOMAIN order \subseteq DOMAIN order'
         /\ \A i \in DOMAIN order : order'[i] = order[i]
  <1> USE DEF TypeInv, TypeOK, Take
  <1>1. order \in Seq(Keys) /\ order' = Append(order, k) /\ order' \in Seq(Keys)
    OBVIOUS
  <1>2. /\ DOMAIN order = 1..Len(order) /\ Len(order) \in Nat
        /\ DOMAIN order' = 1..(Len(order) + 1)
        /\ order'[Len(order) + 1] = k
        /\ \A i \in DOMAIN order : order'[i] = order[i]
    BY <1>1
  <1>3. \A i \in DOMAIN order : order[i] # k
    OBVIOUS
  <1>4. \A i, j \in DOMAIN order' : order'[i] = order'[j] => i = j
    BY <1>2, <1>3
  <1>5. \A x : (x \in {order'[i] : i \in DOMAIN order'})
               <=> (x = k \/ x \in {order[i] : i \in DOMAIN order})
    <2>1. Len(order) + 1 \in DOMAIN order' /\ DOMAIN order \subseteq DOMAIN order'
      BY <1>2
    <2>2. \A i \in DOMAIN order' : i = Len(order) + 1 \/ i \in DOMAIN order
      BY <1>2
    <2> HIDE DEF TypeInv, TypeOK, Take
    <2> QED
      BY <1>2, <2>1, <2>2, Zenon
  <1>6. ledger' = [ledger EXCEPT ![k] = "fresh"] /\ ledger' \in [Keys -> Claims]
    BY DEF Claims
  <1>7. \A x : (x \in {y \in Keys : ledger'[y] # None})
               <=> (x = k \/ x \in {y \in Keys : ledger[y] # None})
    BY <1>6 DEF None
  <1>8. {order'[i] : i \in DOMAIN order'} = {x \in Keys : ledger'[x] # None}
    BY <1>5, <1>7
  <1> QED
    BY <1>1, <1>2, <1>4, <1>6, <1>8

(* A claim that is stamped or ages stays a claim.                             *)
LEMMA LedgerType ==
  ASSUME TypeInv, NEW k \in Keys, ledger[k] # None, NEW c \in {"stale", "stamped"},
         ledger' = [ledger EXCEPT ![k] = c]
  PROVE  /\ ledger' \in [Keys -> Claims]
         /\ {order[i] : i \in DOMAIN order} = {x \in Keys : ledger'[x] # None}
  BY DEF TypeInv, TypeOK, Claims, None

LEMMA BecomesType ==
  ASSUME TypeInv, NEW job \in jobs, NEW next \in Jobs, Becomes(job, next),
         next.step \in {"claim", "send", "stamp"} => next.kind \in Kinds
  PROVE  jobs' \subseteq Jobs /\ JobsHaveKind'
  BY DEF TypeInv, TypeOK, JobsHaveKind, Becomes

LEMMA DoneType ==
  ASSUME TypeInv, NEW job \in jobs, Done(job)
  PROVE  jobs' \subseteq Jobs /\ JobsHaveKind'
  BY DEF TypeInv, TypeOK, JobsHaveKind, Done

LEMMA DoubtType ==
  ASSUME TypeOK, NEW k \in Keys, Doubt(k)
  PROVE  unsure' \in [Keys -> Nat]
  BY DEF TypeOK, Doubt

LEMMA ReadType ==
  ASSUME TypeInv, NEW job \in jobs, ReadRun(job) \/ ReadTask(job)
  PROVE  TypeInv'
  <1>1. job \in Jobs
    BY DEF TypeInv, TypeOK
  <1>2. CASE ReadRun(job)
    <2> DEFINE next == [job EXCEPT !.step = "task", !.seen = row[job.run]]
    <2>1. next \in Jobs /\ next.step = "task"
      BY <1>1 DEF Jobs, TypeInv, TypeOK
    <2>2. Becomes(job, next)
      BY <1>2 DEF ReadRun
    <2> HIDE DEF next
    <2>3. jobs' \subseteq Jobs /\ JobsHaveKind'
      BY <2>1, <2>2, BecomesType
    <2>4. budget' \in [Disturbances -> Nat] /\ hasty' \subseteq Runs
      BY <1>1, <1>2, SpendType DEF ReadRun, Disturbances, Jobs, TypeInv, TypeOK
    <2> QED
      BY <1>2, <2>3, <2>4 DEF ReadRun, TypeInv, TypeOK, RowsEnd, loop
  <1>3. CASE ReadTask(job)
    <2> DEFINE next == [job EXCEPT !.step = "claim",
                                   !.kind = KindOf(job.seen, job.event, card[job.run])]
    <2>1. next \in Jobs /\ next.kind \in Kinds
      BY <1>1 DEF Jobs, KindOf, Kinds
    <2>2. Becomes(job, next)
      BY <1>3 DEF ReadTask
    <2> HIDE DEF next
    <2>3. jobs' \subseteq Jobs /\ JobsHaveKind'
      BY <2>1, <2>2, BecomesType
    <2> QED
      BY <1>3, <2>3 DEF ReadTask, TypeInv, TypeOK, RowsEnd, loop, history
  <1> QED
    BY <1>2, <1>3

LEMMA DeliverType ==
  ASSUME TypeInv, SaidInv, NEW job \in jobs,
         \/ Claim(job) \/ ClaimTaken(job) \/ Send(job) \/ Stamp(job)
         \/ SendRefused(job) \/ StampFails(job)
  PROVE  TypeInv'
  <1>1. job \in Jobs
    BY DEF TypeInv, TypeOK
  <1>2. job.kind \in Kinds /\ KeyOf(job) \in Keys
    BY KeyType DEF TypeInv, JobsHaveKind, Claim, ClaimTaken, Send, Stamp, SendRefused, StampFails
  <1>3. \A step \in {"send", "stamp"} :
          LET next == [job EXCEPT !.step = step] IN next \in Jobs /\ next.kind \in Kinds
    BY <1>1, <1>2 DEF Jobs
  <1>4. CASE Claim(job)
    <2>1. jobs' \subseteq Jobs /\ JobsHaveKind'
      BY <1>3, <1>4, BecomesType DEF Claim
    <2>2. /\ ledger' \in [Keys -> Claims] /\ order' \in Seq(Keys)
          /\ \A i, j \in DOMAIN order' : order'[i] = order'[j] => i = j
          /\ {order'[i] : i \in DOMAIN order'} = {x \in Keys : ledger'[x] # None}
          /\ DOMAIN order \subseteq DOMAIN order'
      BY <1>2, <1>4, TakeType DEF Claim
    <2>3. pass' \in [left : SUBSET (DOMAIN order'), step : {"send", "stamp"}]
      BY <1>4, <2>2 DEF Claim, TypeInv, TypeOK
    <2> QED
      BY <1>4, <2>1, <2>2, <2>3 DEF Claim, TypeInv, TypeOK, RowsEnd, loop, history
  <1>5. CASE ClaimTaken(job)
    BY <1>5, DoneType DEF ClaimTaken, TypeInv, TypeOK, RowsEnd, loop, history
  <1>6. CASE Send(job)
    <2>1. jobs' \subseteq Jobs /\ JobsHaveKind'
      BY <1>3, <1>6, BecomesType DEF Send
    <2>2. said' \in [Keys -> Nat]
      BY <1>2, <1>6 DEF Send, TypeInv, TypeOK
    <2> QED
      BY <1>6, <2>1, <2>2 DEF Send, TypeInv, TypeOK, RowsEnd, loop, history
  <1>7. CASE Stamp(job)
    <2>1. jobs' \subseteq Jobs /\ JobsHaveKind'
      BY <1>7, DoneType DEF Stamp
    <2>2. ledger[KeyOf(job)] # None
      BY <1>2, <1>7 DEF Stamp, SaidInv, Earned, Stamping, Senders
    <2>3. /\ ledger' \in [Keys -> Claims]
          /\ {order[i] : i \in DOMAIN order} = {x \in Keys : ledger'[x] # None}
      BY <1>2, <1>7, <2>2, LedgerType DEF Stamp
    <2> QED
      BY <1>7, <2>1, <2>3 DEF Stamp, TypeInv, TypeOK, RowsEnd, loop, history
  <1>8. CASE SendRefused(job)
    <2>1. budget' \in [Disturbances -> Nat]
      BY <1>8, SpendType DEF SendRefused, TypeInv, Disturbances
    <2> QED
      BY <1>8, <2>1, DoneType DEF SendRefused, TypeInv, TypeOK, RowsEnd, loop, history
  <1>9. CASE StampFails(job)
    <2>1. budget' \in [Disturbances -> Nat] /\ unsure' \in [Keys -> Nat]
      BY <1>2, <1>9, SpendType, DoubtType DEF StampFails, TypeInv, Disturbances
    <2> QED
      BY <1>9, <2>1, DoneType DEF StampFails, TypeInv, TypeOK, RowsEnd, loop
  <1> QED
    BY <1>4, <1>5, <1>6, <1>7, <1>8, <1>9

RepairStep ==
  \/ RepairTick
  \/ \E i \in pass.left : InHand(i) /\ (Resend(i) \/ ResendStamped(i) \/ ResendFails(i))

LEMMA RepairType ==
  ASSUME TypeInv, RepairStep
  PROVE  TypeInv'
  <1> USE DEF TypeInv, TypeOK
  <1>1. CASE RepairTick
    <2>1. UnsentBefore \subseteq DOMAIN order
      BY DEF UnsentBefore
    <2> QED
      BY <1>1, <2>1 DEF RepairTick, RowsEnd, JobsHaveKind, loop, history
  <1>2. ASSUME NEW i \in pass.left,
               Resend(i) \/ ResendStamped(i) \/ ResendFails(i)
        PROVE  TypeInv'
    <2>1. i \in DOMAIN order /\ order[i] \in Keys /\ ledger[order[i]] # None
      OBVIOUS
    <2>2. CASE Resend(i)
      <3>1. said' \in [Keys -> Nat]
        BY <2>1, <2>2 DEF Resend
      <3>2. pass' \in [left : SUBSET (DOMAIN order), step : {"send", "stamp"}]
        BY <2>2 DEF Resend
      <3>3. UNCHANGED <<closing, outcome, row, card, stop, bot, jobs, ledger, order, hasty,
                        unsure, budget>>
        BY <2>2 DEF Resend, loop, history
      <3>4. RowsEnd' /\ JobsHaveKind'
        BY <3>3 DEF RowsEnd, JobsHaveKind
      <3>5. UNCHANGED <<closing, outcome, row, card, stop, bot, jobs, ledger, order, hasty>>
            /\ UNCHANGED unsure /\ UNCHANGED budget
        BY <3>3
      <3>6. TypeOK'
        <4>1. /\ closing' = closing /\ outcome' = outcome /\ row' = row /\ card' = card
              /\ stop' = stop /\ bot' = bot /\ jobs' = jobs /\ ledger' = ledger
              /\ order' = order /\ hasty' = hasty /\ unsure' = unsure /\ budget' = budget
          BY <3>5
        <4>2. pass' \in [left : SUBSET (DOMAIN order'), step : {"send", "stamp"}]
          BY <3>2, <4>1
        <4>3. /\ closing' \in [Runs -> {"turn", "ended", "closed", "over", "lost"}]
              /\ outcome' \in [Runs -> Outcomes \cup {None}]
              /\ row' \in [Runs -> Outcomes \cup {"live"}]
              /\ card' \in [Runs -> Columns]
              /\ stop' \in [Runs -> {None, "asked", "marked"}]
              /\ bot' \in {"listening", "deaf", "down"} /\ jobs' \subseteq Jobs
          BY <4>1
        <4>4. /\ ledger' \in [Keys -> Claims] /\ order' \in Seq(Keys)
              /\ \A j, k \in DOMAIN order' : order'[j] = order'[k] => j = k
              /\ {order'[j] : j \in DOMAIN order'} = {x \in Keys : ledger'[x] # None}
          BY <4>1
        <4>5. /\ hasty' \subseteq Runs /\ unsure' \in [Keys -> Nat]
              /\ budget' \in [Disturbances -> Nat]
          BY <4>1
        <4> QED
          BY ONLY <3>1, <4>2, <4>3, <4>4, <4>5 DEF TypeOK
      <3> QED
        BY <3>4, <3>6
    <2>3. CASE ResendStamped(i)
      <3>1. /\ ledger' \in [Keys -> Claims]
            /\ {order[j] : j \in DOMAIN order} = {x \in Keys : ledger'[x] # None}
        BY <2>1, <2>3, LedgerType DEF ResendStamped
      <3>2. pass' \in [left : SUBSET (DOMAIN order), step : {"send", "stamp"}]
        BY <2>3 DEF ResendStamped, GoOn
      <3> QED
        BY <2>3, <3>1, <3>2 DEF ResendStamped, RowsEnd, JobsHaveKind, loop, history
    <2>4. CASE ResendFails(i)
      <3>1. budget' \in [Disturbances -> Nat] /\ unsure' \in [Keys -> Nat]
        BY <2>1, <2>4, SpendType, DoubtType DEF ResendFails, Disturbances
      <3>2. pass' \in [left : SUBSET (DOMAIN order), step : {"send", "stamp"}]
        BY <2>4 DEF ResendFails, GoOn
      <3> QED
        BY <2>4, <3>1, <3>2 DEF ResendFails, RowsEnd, JobsHaveKind, loop
    <2> QED
      BY <1>2, <2>2, <2>3, <2>4
  <1> QED
    BY <1>1, <1>2 DEF RepairStep

LEMMA GraceType ==
  ASSUME TypeInv, NEW k \in Keys, GracePasses(k)
  PROVE  TypeInv'
  <1>1. /\ ledger' \in [Keys -> Claims]
        /\ {order[i] : i \in DOMAIN order} = {x \in Keys : ledger'[x] # None}
    BY LedgerType DEF GracePasses, None
  <1>2. budget' \in [Disturbances -> Nat] /\ unsure' \in [Keys -> Nat]
    BY SpendType, DoubtType DEF GracePasses, Disturbances, TypeInv, TypeOK
  <1>3. UNCHANGED <<closing, outcome, row, card, stop, bot, jobs, order, said, pass, hasty>>
    BY DEF GracePasses, loop
  <1>4. RowsEnd' /\ JobsHaveKind'
    BY <1>3 DEF TypeInv, RowsEnd, JobsHaveKind
  <1> QED
    BY <1>1, <1>2, <1>3, <1>4 DEF TypeInv, TypeOK

-----------------------------------------------------------------------------
(* What the notices say.                                                     *)

RowsStay == \A r \in Runs : row[r] # "live" => row'[r] = row[r]

LEMMA ToldStays ==
  ASSUME TypeInv, RowsStay, hasty \subseteq hasty', NEW job \in jobs, Told(job)
  PROVE  Told(job)'
  BY DEF TypeInv, TypeOK, Jobs, RowsStay, Told, Agrees

LEMMA NoticeFrame ==
  ASSUME TypeInv, NoticeInv, RowsStay, hasty \subseteq hasty',
         \A job \in jobs' : job \in jobs \/ Told(job)',
         \A kind \in Kinds, r \in Runs \ hasty' :
           ledger'[<<kind, r>>] # None => ledger[<<kind, r>>] # None \/ Agrees(kind, r)
  PROVE  NoticeInv'
  <1>1. \A job \in jobs' : Told(job)'
    BY ToldStays DEF NoticeInv
  <1>2. \A kind \in Kinds, r \in Runs \ hasty' :
          ledger'[<<kind, r>>] # None => Agrees(kind, r)'
    BY DEF NoticeInv, RowsStay, Agrees
  <1> QED
    BY <1>1, <1>2 DEF NoticeInv

LEMMA LoopNotice ==
  ASSUME TypeInv, NoticeInv, NEW r \in Runs, LoopStep(r)
  PROVE  NoticeInv'
  <1>1. RowsStay
    BY DEF RowsStay, TypeInv, TypeOK, RowsEnd, LoopStep, CloseOut, CloseRow, MoveToReview,
           StopMarked, Reconcile, TurnBreaks, Stop, AgentMoves, PersonMoves, TurnEnds
  <1>2. UNCHANGED <<ledger, hasty>>
    BY DEF LoopStep, CloseOut, CloseRow, MoveToReview, StopMarked, Reconcile, TurnBreaks,
           Stop, AgentMoves, PersonMoves, TurnEnds, history
  <1>3. \A job \in jobs' : job \in jobs \/ job.step = "settle"
    BY DEF LoopStep, CloseOut, CloseRow, MoveToReview, StopMarked, Reconcile, TurnBreaks,
           Stop, AgentMoves, PersonMoves, TurnEnds, Store
  <1>4. \A job \in jobs' : job \in jobs \/ Told(job)'
    BY <1>3 DEF Told
  <1> QED
    BY <1>1, <1>2, <1>4, NoticeFrame

LEMMA ReadNotice ==
  ASSUME TypeInv, NoticeInv, NEW job \in jobs, ReadRun(job) \/ ReadTask(job)
  PROVE  NoticeInv'
  <1>1. job \in Jobs /\ job.run \in Runs /\ RowsStay /\ UNCHANGED <<row, ledger>>
    BY DEF TypeInv, TypeOK, Jobs, RowsStay, ReadRun, ReadTask, loop
  <1>2. CASE ReadRun(job)
    <2> DEFINE next == [job EXCEPT !.step = "task", !.seen = row[job.run]]
    <2>1. next.step = "task" /\ next.run = job.run /\ next.seen = row[job.run]
      BY <1>1 DEF Jobs
    <2>2. hasty \subseteq hasty' /\ (row[job.run] = "live" => job.run \in hasty')
      BY <1>2 DEF ReadRun
    <2>3. Told(next)'
      BY <1>1, <2>1, <2>2 DEF Told
    <2>4. jobs' = (jobs \ {job}) \cup {next}
      BY <1>2 DEF ReadRun, Becomes
    <2> QED
      BY <1>1, <2>2, <2>3, <2>4, NoticeFrame
  <1>3. CASE ReadTask(job)
    <2>0. PICK kind : kind = KindOf(job.seen, job.event, card[job.run])
      OBVIOUS
    <2> DEFINE next == [job EXCEPT !.step = "claim", !.kind = kind]
    <2>1. next.step = "claim" /\ next.run = job.run /\ next.kind = kind
      BY <1>1 DEF Jobs
    <2>2. UNCHANGED hasty /\ job.step = "task" /\ Told(job)
      BY <1>3 DEF ReadTask, history, NoticeInv
    <2>3. job.run \notin hasty => Agrees(kind, job.run)
      BY <2>0, <2>2 DEF Told, Agrees, KindOf
    <2>4. Told(next)'
      BY <1>1, <2>1, <2>2, <2>3 DEF Told, Agrees
    <2>5. jobs' = (jobs \ {job}) \cup {next}
      BY <1>3, <2>0 DEF ReadTask, Becomes
    <2> QED
      BY <1>1, <2>2, <2>4, <2>5, NoticeFrame
  <1> QED
    BY <1>2, <1>3

LEMMA DeliverNotice ==
  ASSUME TypeInv, SaidInv, NoticeInv, NEW job \in jobs,
         \/ Claim(job) \/ ClaimTaken(job) \/ Send(job) \/ Stamp(job)
         \/ SendRefused(job) \/ StampFails(job)
  PROVE  NoticeInv'
  <1>1. /\ RowsStay /\ UNCHANGED <<row, hasty>>
        /\ job \in Jobs /\ job.run \in Runs /\ job.kind \in Kinds
    BY DEF TypeInv, TypeOK, JobsHaveKind, Jobs, RowsStay, Claim, ClaimTaken, Send, Stamp,
           SendRefused, StampFails, loop, history
  <1>2. Told(job) /\ (job.run \notin hasty => Agrees(job.kind, job.run))
    BY DEF NoticeInv, Told, Claim, ClaimTaken, Send, Stamp, SendRefused, StampFails
  <1>3. \A step \in {"send", "stamp"} : Told([job EXCEPT !.step = step])'
    BY <1>1, <1>2 DEF Told, Agrees, Jobs
  <1>4. \A other \in jobs' : other \in jobs \/ Told(other)'
    BY <1>3 DEF Claim, ClaimTaken, Send, Stamp, SendRefused, StampFails, Becomes, Done
  <1>5. KeyOf(job) = <<job.kind, job.run>> /\ KeyOf(job) \in Keys
    BY <1>1 DEF KeyOf, Keys
  <1>6. Stamp(job) => ledger[KeyOf(job)] # None
    BY <1>5 DEF Stamp, SaidInv, Earned, Stamping, Senders
  <1>7. \A kind \in Kinds, r \in Runs \ hasty' :
          ledger'[<<kind, r>>] # None => ledger[<<kind, r>>] # None \/ Agrees(kind, r)
    <2> SUFFICES ASSUME NEW kind \in Kinds, NEW r \in Runs \ hasty',
                        ledger'[<<kind, r>>] # None
                 PROVE  ledger[<<kind, r>>] # None \/ Agrees(kind, r)
      OBVIOUS
    <2>1. <<kind, r>> \in Keys
      BY DEF Keys
    <2>2. CASE <<kind, r>> = KeyOf(job)
      BY <1>1, <1>2, <1>5, <2>2
    <2>3. CASE <<kind, r>> # KeyOf(job)
      <3>1. ledger'[<<kind, r>>] = ledger[<<kind, r>>]
        BY <1>5, <2>1, <2>3
        DEF Claim, Take, ClaimTaken, Send, Stamp, SendRefused, StampFails, TypeInv, TypeOK
      <3> QED
        BY <3>1
    <2> QED
      BY <2>2, <2>3
  <1> QED
    BY <1>1, <1>4, <1>7, NoticeFrame

LEMMA OtherNotice ==
  ASSUME TypeInv, NoticeInv,
         ProcessStep \/ RepairStep \/ \E k \in Keys : GracePasses(k)
  PROVE  NoticeInv'
  <1>1. RowsStay /\ UNCHANGED <<row, hasty>> /\ jobs' \subseteq jobs
    BY DEF RowsStay, ProcessStep, LoopDies, ChannelDrops, Listens, BotDies, BotBoots,
           RepairStep, RepairTick, Resend, ResendStamped, ResendFails, GracePasses, loop,
           history
  <1>2. \A k \in Keys : ledger'[k] # None => ledger[k] # None
    <2>1. CASE ProcessStep
      BY <2>1 DEF ProcessStep, LoopDies, ChannelDrops, Listens, BotDies, BotBoots
    <2>2. CASE RepairStep
      <3>1. \A i \in pass.left : order[i] \in Keys /\ ledger[order[i]] # None
        BY DEF TypeInv, TypeOK
      <3> QED
        BY <2>2, <3>1
        DEF RepairStep, RepairTick, Resend, ResendStamped, ResendFails, TypeInv, TypeOK
    <2>3. ASSUME NEW k \in Keys, GracePasses(k)
          PROVE  \A x \in Keys : ledger'[x] # None => ledger[x] # None
      BY <2>3 DEF GracePasses, TypeInv, TypeOK, None
    <2> QED
      BY <2>1, <2>2, <2>3
  <1>3. \A kind \in Kinds, r \in Runs : <<kind, r>> \in Keys
    BY DEF Keys
  <1> QED
    BY <1>1, <1>2, <1>3, NoticeFrame

-----------------------------------------------------------------------------
(* What the ledger and the chats agree on.                                    *)

(* A step that touches neither the senders nor the ledger keeps the account.   *)
LEMMA SaidFrame ==
  ASSUME SaidInv, Senders' = Senders, UNCHANGED <<ledger, order, said, pass, unsure>>
  PROVE  SaidInv'
  <1>1. OneSender'
    BY DEF SaidInv, OneSender, KeyOf
  <1>2. ASSUME NEW k \in Keys
        PROVE  /\ Sending(k)' = Sending(k) /\ Stamping(k)' = Stamping(k)
               /\ Awaiting(k)' = Awaiting(k) /\ Resent(k)' = Resent(k)
    BY DEF Sending, Stamping, Awaiting, Resent, KeyOf, InHand
  <1>3. ASSUME NEW k \in Keys
        PROVE  Paid(k)' /\ Earned(k)'
    BY <1>2 DEF SaidInv, Paid, Earned
  <1> QED
    BY <1>1, <1>3 DEF SaidInv

LEMMA LoopSaid ==
  ASSUME TypeInv, SaidInv, NEW r \in Runs, LoopStep(r)
  PROVE  SaidInv'
  <1>1. UNCHANGED <<ledger, order, said, pass, unsure>>
    BY DEF LoopStep, CloseOut, CloseRow, MoveToReview, StopMarked, Reconcile, TurnBreaks,
           Stop, AgentMoves, PersonMoves, TurnEnds, history
  <1>2. \/ UNCHANGED jobs
        \/ \E new : jobs' = jobs \cup {new} /\ new.step = "settle"
    <2>1. ASSUME NEW x \in Runs, NEW event, Store(x, event)
          PROVE  \/ UNCHANGED jobs
                 \/ \E new : jobs' = jobs \cup {new} /\ new.step = "settle"
      <3> DEFINE new == [run |-> x, event |-> event, step |-> "settle",
                         seen |-> None, kind |-> None]
      <3>1. new.step = "settle" /\ jobs' \in {jobs, jobs \cup {new}}
        BY <2>1 DEF Store
      <3> QED
        BY <3>1
    <2> QED
      BY <2>1 DEF LoopStep, CloseOut, CloseRow, MoveToReview, StopMarked, Reconcile,
                  TurnBreaks, Stop, AgentMoves, PersonMoves, TurnEnds
  <1>3. Senders' = Senders
    BY <1>2 DEF Senders
  <1> QED
    BY <1>1, <1>3, SaidFrame

LEMMA ReadSaid ==
  ASSUME TypeInv, SaidInv, NEW job \in jobs,
         ReadRun(job) \/ ReadTask(job) \/ ClaimTaken(job)
  PROVE  SaidInv'
  <1>1. UNCHANGED <<ledger, order, said, pass, unsure>> /\ job \notin Senders
    BY DEF ReadRun, ReadTask, ClaimTaken, history, Senders
  <1>2. \/ jobs' = jobs \ {job}
        \/ \E new : jobs' = (jobs \ {job}) \cup {new} /\ new.step \in {"task", "claim"}
    <2>1. job \in Jobs
      BY DEF TypeInv, TypeOK
    <2>2. CASE ReadRun(job)
      <3>1. [job EXCEPT !.step = "task", !.seen = row[job.run]].step = "task"
        BY <2>1 DEF Jobs
      <3> QED
        BY <2>2, <3>1 DEF ReadRun, Becomes
    <2>3. CASE ReadTask(job)
      <3>1. [job EXCEPT !.step = "claim",
                        !.kind = KindOf(job.seen, job.event, card[job.run])].step = "claim"
        BY <2>1 DEF Jobs
      <3> QED
        BY <2>3, <3>1 DEF ReadTask, Becomes
    <2>4. CASE ClaimTaken(job)
      BY <2>4 DEF ClaimTaken, Done
    <2> QED
      BY <2>2, <2>3, <2>4
  <1>3. Senders' = Senders
    BY <1>1, <1>2 DEF Senders
  <1> QED
    BY <1>1, <1>3, SaidFrame

LEMMA ProcessSaid ==
  ASSUME TypeInv, SaidInv, ProcessStep
  PROVE  SaidInv'
  <1>1. CASE ~BotDies
    <2>1. UNCHANGED <<ledger, order, said, pass, unsure, jobs>>
      BY <1>1 DEF ProcessStep, LoopDies, ChannelDrops, Listens, BotBoots, history
    <2> QED
      BY <2>1, SaidFrame DEF Senders
  <1>2. CASE BotDies
    <2>1. /\ Senders' = {} /\ pass'.left = {} /\ pass'.step = "send"
          /\ UNCHANGED <<ledger, order, said>>
      BY <1>2 DEF BotDies, Senders, Idle
    <2>2. ASSUME NEW k \in Keys
          PROVE  /\ unsure'[k] \in Nat /\ unsure[k] \in Nat /\ said[k] \in Nat
                 /\ unsure'[k] >= unsure[k]
                 /\ Stamping(k) \/ Resent(k) => unsure'[k] >= unsure[k] + 1
      <3>1. Resent(k) => pass.step = "stamp" /\ \E i \in pass.left : InHand(i) /\ order[i] = k
        BY DEF Resent
      <3>2. Stamping(k) => \E job \in jobs : job.step = "stamp" /\ KeyOf(job) = k
        BY DEF Stamping, Senders
      <3> QED
        BY <1>2, <3>1, <3>2 DEF BotDies, TypeInv, TypeOK
    <2>3. ASSUME NEW k \in Keys
          PROVE  ~Sending(k)' /\ ~Stamping(k)' /\ ~Awaiting(k)' /\ ~Resent(k)'
      BY <2>1 DEF Sending, Stamping, Awaiting, Resent
    <2>4. ASSUME NEW k \in Keys
          PROVE  Paid(k)' /\ Earned(k)'
      <3>1. Paid(k) /\ Earned(k)
        BY DEF SaidInv
      <3> QED
        BY <2>1, <2>2, <2>3, <3>1 DEF Paid, Earned
    <2> QED
      BY <2>1, <2>4 DEF SaidInv, OneSender
  <1> QED
    BY <1>1, <1>2

LEMMA GraceSaid ==
  ASSUME TypeInv, SaidInv, NEW k \in Keys, GracePasses(k)
  PROVE  SaidInv'
  <1>1. /\ Senders' = Senders /\ UNCHANGED <<order, said, pass>>
        /\ ledger[k] = "fresh" /\ ledger'[k] = "stale"
        /\ \A x \in Keys \ {k} : ledger'[x] = ledger[x]
    BY DEF GracePasses, Senders, TypeInv, TypeOK
  <1>2. /\ \A x \in Keys : said[x] \in Nat /\ unsure[x] \in Nat
        /\ \A x \in Keys \ {k} : unsure'[x] = unsure[x]
        /\ unsure'[k] = IF Held(k) THEN unsure[k] + 1 ELSE unsure[k]
    BY DEF GracePasses, Doubt, TypeInv, TypeOK
  <1>3. ASSUME NEW x \in Keys
        PROVE  /\ Sending(x)' = Sending(x) /\ Stamping(x)' = Stamping(x)
               /\ Awaiting(x)' = Awaiting(x) /\ Resent(x)' = Resent(x)
    BY <1>1 DEF Sending, Stamping, Awaiting, Resent, KeyOf, InHand
  <1>4. Sending(k) \/ Stamping(k) => Held(k)
    BY DEF Sending, Stamping, Senders, Held
  <1>5. ~Awaiting(k) /\ ~Resent(k) /\ \A i \in pass.left : order[i] # k
    BY <1>1 DEF SaidInv, Earned, Awaiting, Resent
  <1>6. Paid(k)' /\ Earned(k)'
    <2>1. Paid(k) /\ Earned(k)
      BY DEF SaidInv
    <2> QED
      BY <1>1, <1>2, <1>3, <1>4, <1>5, <2>1 DEF Paid, Earned, None
  <1>7. ASSUME NEW x \in Keys \ {k}
        PROVE  Paid(x)' /\ Earned(x)'
    <2>1. Paid(x) /\ Earned(x)
      BY DEF SaidInv
    <2> QED
      BY <1>1, <1>2, <1>3, <2>1 DEF Paid, Earned
  <1>8. OneSender'
    BY <1>1 DEF SaidInv, OneSender, KeyOf
  <1> QED
    BY <1>6, <1>7, <1>8 DEF SaidInv

(* A notice that goes on or leaves changes who sends its own key only.        *)
LEMMA SendersNow ==
  ASSUME TypeInv, SaidInv, NEW job \in jobs, job.step \in {"claim", "send", "stamp"},
         job.step = "claim" => ledger[KeyOf(job)] = None,
         NEW step \in {"send", "stamp", "gone"},
         jobs' = IF step = "gone" THEN jobs \ {job}
                 ELSE (jobs \ {job}) \cup {[job EXCEPT !.step = step]}
  PROVE  /\ OneSender'
         /\ \A x \in Keys \ {KeyOf(job)} : Sending(x)' = Sending(x) /\ Stamping(x)' = Stamping(x)
         /\ Sending(KeyOf(job))' <=> step = "send"
         /\ Stamping(KeyOf(job))' <=> step = "stamp"
  <1> DEFINE k == KeyOf(job)
             next == [job EXCEPT !.step = step]
  <1>1. k \in Keys /\ job \in Jobs
    BY KeyType DEF TypeInv, TypeOK
  <1>2. next.step = step /\ KeyOf(next) = k
    BY <1>1 DEF Jobs, KeyOf
  <1>3. \A other \in Senders : KeyOf(other) = k => other = job
    <2>1. CASE job \in Senders
      BY <2>1 DEF SaidInv, OneSender
    <2>2. CASE job \notin Senders
      <3>1. job.step = "claim" /\ ledger[k] = None
        BY <2>2 DEF Senders
      <3>2. ~Sending(k) /\ ~Stamping(k)
        BY <1>1, <3>1 DEF SaidInv, Earned
      <3> QED
        BY <3>2 DEF Sending, Stamping, Senders
    <2> QED
      BY <2>1, <2>2
  <1>4. \A other : other \in Senders' <=>
          \/ other \in Senders /\ KeyOf(other) # k
          \/ other = next /\ step # "gone"
    <2>1. \A other \in jobs : other \in Senders /\ other # job
                              <=> other \in Senders /\ KeyOf(other) # k
      BY <1>3
    <2>2. step # "gone" => next.step \in {"send", "stamp"}
      BY <1>2
    <2> HIDE DEF k, next
    <2>3. \A other : other \in Senders' <=>
            /\ other.step \in {"send", "stamp"}
            /\ \/ other \in jobs /\ other # job
               \/ other = next /\ step # "gone"
      BY DEF Senders, next
    <2> QED
      BY <2>1, <2>2, <2>3 DEF Senders
  <1> HIDE DEF k, next
  <1>5. OneSender'
    BY <1>2, <1>4 DEF OneSender, SaidInv, KeyOf
  <1>6. \A x \in Keys \ {k} : Sending(x)' = Sending(x) /\ Stamping(x)' = Stamping(x)
    BY <1>2, <1>4 DEF Sending, Stamping, KeyOf
  <1>7. (Sending(k)' <=> step = "send") /\ (Stamping(k)' <=> step = "stamp")
    <2>1. Sending(k)' <=> \E other \in Senders' : other.step = "send" /\ KeyOf(other) = k
      BY DEF Sending, KeyOf, k
    <2>2. Stamping(k)' <=> \E other \in Senders' : other.step = "stamp" /\ KeyOf(other) = k
      BY DEF Stamping, KeyOf, k
    <2> QED
      BY <1>2, <1>4, <2>1, <2>2
  <1> QED
    BY <1>5, <1>6, <1>7 DEF k

LEMMA DeliverSaid ==
  ASSUME TypeInv, SaidInv, NEW job \in jobs,
         Claim(job) \/ Send(job) \/ Stamp(job) \/ SendRefused(job) \/ StampFails(job)
  PROVE  SaidInv'
  <1>1. PICK k : k = KeyOf(job)
    OBVIOUS
  <1>2. /\ k \in Keys /\ said[k] \in Nat /\ unsure[k] \in Nat
        /\ \A x \in Keys : said[x] \in Nat /\ unsure[x] \in Nat /\ Paid(x) /\ Earned(x)
        /\ \A i \in pass.left : i \in DOMAIN order
    BY <1>1, KeyType DEF Claim, Send, Stamp, SendRefused, StampFails, TypeInv, TypeOK, SaidInv
  <1>3. UNCHANGED pass /\ \A i \in DOMAIN order : order'[i] = order[i]
    <2>1. CASE Claim(job)
      BY <1>1, <1>2, <2>1, TakeType DEF Claim
    <2> QED
      BY <2>1 DEF Send, Stamp, SendRefused, StampFails, Claim
  <1>4. \A x \in Keys : Awaiting(x)' = Awaiting(x) /\ Resent(x)' = Resent(x)
    BY <1>2, <1>3 DEF Awaiting, Resent, InHand
  <1>5. /\ job.step = "send" => Sending(k)
        /\ job.step = "stamp" => Stamping(k)
    BY <1>1 DEF Sending, Stamping, Senders
  <1>6. CASE Claim(job)
    <2>1. /\ ledger[k] = None /\ ledger'[k] = "fresh" /\ UNCHANGED <<said, unsure>>
          /\ \A x \in Keys \ {k} : ledger'[x] = ledger[x]
      BY <1>1, <1>2, <1>6 DEF Claim, Take, history, TypeInv, TypeOK
    <2>2. /\ OneSender' /\ Sending(k)' /\ ~Stamping(k)'
          /\ \A x \in Keys \ {k} : Sending(x)' = Sending(x) /\ Stamping(x)' = Stamping(x)
      BY <1>1, <1>6, <2>1, SendersNow DEF Claim, Becomes
    <2>3. ~Awaiting(k) /\ ~Resent(k) /\ \A i \in pass.left : order[i] # k
      BY <1>2, <2>1 DEF Earned, Awaiting, Resent, None
    <2>4. Paid(k)' /\ Earned(k)'
      BY <1>2, <1>3, <1>4, <2>1, <2>2, <2>3 DEF Paid, Earned, None
    <2>5. \A x \in Keys \ {k} : Paid(x)' /\ Earned(x)'
      BY <1>2, <1>3, <1>4, <2>1, <2>2 DEF Paid, Earned
    <2> QED
      BY <2>2, <2>4, <2>5 DEF SaidInv
  <1>7. CASE Send(job)
    <2>1. /\ said'[k] = said[k] + 1 /\ UNCHANGED <<ledger, unsure>>
          /\ \A x \in Keys \ {k} : said'[x] = said[x]
      BY <1>1, <1>2, <1>7 DEF Send, history, TypeInv, TypeOK
    <2>2. /\ OneSender' /\ ~Sending(k)' /\ Stamping(k)'
          /\ \A x \in Keys \ {k} : Sending(x)' = Sending(x) /\ Stamping(x)' = Stamping(x)
      BY <1>1, <1>7, SendersNow DEF Send, Becomes
    <2>3. Sending(k) /\ Paid(k) /\ Earned(k)
      BY <1>2, <1>5, <1>7 DEF Send
    <2>4. Paid(k)' /\ Earned(k)'
      BY <1>2, <1>3, <1>4, <2>1, <2>2, <2>3 DEF Paid, Earned
    <2>5. \A x \in Keys \ {k} : Paid(x)' /\ Earned(x)'
      BY <1>2, <1>3, <1>4, <2>1, <2>2 DEF Paid, Earned
    <2> QED
      BY <2>2, <2>4, <2>5 DEF SaidInv
  <1>8. ASSUME Done(job), job.step \in {"send", "stamp"}, UNCHANGED said,
               \/ Stamp(job)
               \/ SendRefused(job) /\ UNCHANGED <<ledger, unsure>>
               \/ StampFails(job) /\ UNCHANGED ledger
        PROVE  SaidInv'
    <2>1. /\ OneSender' /\ ~Sending(k)' /\ ~Stamping(k)'
          /\ \A x \in Keys \ {k} : Sending(x)' = Sending(x) /\ Stamping(x)' = Stamping(x)
      BY <1>1, <1>8, SendersNow DEF Done
    <2>2. /\ Stamp(job) => ledger'[k] = "stamped" /\ unsure'[k] = unsure[k]
          /\ SendRefused(job) => ledger'[k] = ledger[k] /\ unsure'[k] = unsure[k]
          /\ StampFails(job) => ledger'[k] = ledger[k] /\ unsure'[k] = unsure[k] + 1
          /\ \A x \in Keys \ {k} : ledger'[x] = ledger[x] /\ unsure'[x] = unsure[x]
      BY <1>1, <1>2, <1>8
      DEF Stamp, SendRefused, StampFails, Doubt, history, TypeInv, TypeOK
    <2>3. /\ SendRefused(job) => Sending(k)
          /\ Stamp(job) \/ StampFails(job) => Stamping(k)
      BY <1>5 DEF SendRefused, Stamp, StampFails
    <2>4. Sending(k) => ~Stamping(k)
      BY DEF SaidInv, OneSender, Sending, Stamping
    <2>5. Paid(k)' /\ Earned(k)'
      BY <1>2, <1>3, <1>4, <1>8, <2>1, <2>2, <2>3, <2>4 DEF Paid, Earned, None
    <2>6. \A x \in Keys \ {k} : Paid(x)' /\ Earned(x)'
      BY <1>2, <1>3, <1>4, <1>8, <2>1, <2>2 DEF Paid, Earned
    <2> QED
      BY <2>1, <2>5, <2>6 DEF SaidInv
  <1> QED
    BY <1>6, <1>7, <1>8 DEF Stamp, SendRefused, StampFails, history

LEMMA TickSaid ==
  ASSUME TypeInv, SaidInv, RepairTick
  PROVE  SaidInv'
  <1>1. /\ pass.left = {} /\ pass'.step = "send" /\ Senders' = Senders
        /\ UNCHANGED <<ledger, order, said, unsure>>
    BY DEF RepairTick, Senders, history
  <1>2. \A i \in pass'.left : i \in DOMAIN order /\ ledger[order[i]] = "stale"
    BY DEF RepairTick, UnsentBefore
  <1>3. ASSUME NEW k \in Keys
        PROVE  Paid(k)' /\ Earned(k)'
    <2>1. /\ Sending(k)' = Sending(k) /\ Stamping(k)' = Stamping(k)
          /\ ~Resent(k) /\ ~Resent(k)'
          /\ Awaiting(k)' => ledger[k] = "stale"
      BY <1>1, <1>2 DEF Sending, Stamping, KeyOf, Awaiting, Resent
    <2>2. Paid(k) /\ Earned(k) /\ said[k] \in Nat /\ unsure[k] \in Nat
      BY DEF SaidInv, TypeInv, TypeOK
    <2>3. Earned(k)'
      BY <1>1, <1>2, <2>1, <2>2 DEF Earned
    <2>4. Paid(k)'
      BY <1>1, <2>1, <2>2 DEF Paid
    <2> QED
      BY <2>3, <2>4
  <1>4. OneSender'
    BY <1>1 DEF SaidInv, OneSender, KeyOf
  <1> QED
    BY <1>3, <1>4 DEF SaidInv

LEMMA ResendSaid ==
  ASSUME TypeInv, SaidInv, NEW i \in pass.left, InHand(i),
         Resend(i) \/ ResendStamped(i) \/ ResendFails(i)
  PROVE  SaidInv'
  <1>1. PICK k : k = order[i]
    OBVIOUS
  <1>2. /\ i \in DOMAIN order /\ k \in Keys
        /\ \A x \in Keys : said[x] \in Nat /\ unsure[x] \in Nat /\ Paid(x) /\ Earned(x)
        /\ pass.left \subseteq DOMAIN order /\ DOMAIN order \subseteq Nat
        /\ \A j \in DOMAIN order : order[j] = k => j = i
    <2>1. order \in Seq(Keys)
      BY DEF TypeInv, TypeOK
    <2>2. DOMAIN order \subseteq Nat /\ \A j \in DOMAIN order : order[j] \in Keys
      BY <2>1
    <2> QED
      BY <1>1, <2>2 DEF TypeInv, TypeOK, SaidInv
  <1>3. UNCHANGED <<order, jobs>>
    BY DEF Resend, ResendStamped, ResendFails
  <1>4. /\ OneSender'
        /\ \A x \in Keys : Sending(x)' = Sending(x) /\ Stamping(x)' = Stamping(x)
    BY <1>3 DEF SaidInv, OneSender, Sending, Stamping, Senders, KeyOf
  <1>5. ledger[k] \in {"stale", "stamped"}
    BY <1>1, <1>2 DEF Earned
  <1>6. ASSUME NEW x \in Keys \ {k}
        PROVE  ~Resent(x) /\ (Awaiting(x) <=> \E j \in pass.left : order[j] = x)
    <2>1. \A j \in pass.left : InHand(j) => j = i
      BY <1>2 DEF InHand
    <2> QED
      BY <1>1, <2>1 DEF Resent, Awaiting
  <1>7. CASE Resend(i)
    <2>1. /\ said'[k] = said[k] + 1 /\ UNCHANGED <<ledger, unsure>>
          /\ \A x \in Keys \ {k} : said'[x] = said[x]
          /\ pass.step = "send" /\ pass'.left = pass.left /\ pass'.step = "stamp"
      BY <1>1, <1>2, <1>7 DEF Resend, history, TypeInv, TypeOK
    <2>2. Awaiting(k)
      BY <1>1, <2>1 DEF Awaiting
    <2>3. Resent(k)' /\ ~Awaiting(k)'
      BY <1>1, <1>2, <1>3, <2>1 DEF Resent, Awaiting, InHand
    <2>4. Paid(k)' /\ Earned(k)'
      BY <1>2, <1>3, <1>4, <1>5, <2>1, <2>2, <2>3 DEF Paid, Earned, None
    <2>5. ASSUME NEW x \in Keys \ {k}
          PROVE  Paid(x)' /\ Earned(x)'
      <3>1. ~Resent(x)' /\ (Awaiting(x)' => Awaiting(x))
        <4>1. \A j \in pass'.left : InHand(j)' => j = i
          BY <1>2, <2>1 DEF InHand
        <4> QED
          BY <1>1, <1>3, <1>6, <2>1, <4>1 DEF Resent, Awaiting
      <3> QED
        BY <1>2, <1>3, <1>4, <1>6, <2>1, <3>1 DEF Paid, Earned
    <2> QED
      BY <1>4, <2>4, <2>5 DEF SaidInv
  <1>8. CASE ResendStamped(i) \/ ResendFails(i)
    <2>1. /\ UNCHANGED said /\ pass'.left = pass.left \ {i} /\ pass'.step = "send"
          /\ \A x \in Keys \ {k} : unsure'[x] = unsure[x] /\ ledger'[x] = ledger[x]
      BY <1>1, <1>2, <1>8
      DEF ResendStamped, ResendFails, GoOn, Doubt, history, TypeInv, TypeOK
    <2>2. \/ pass.step = "stamp" /\ ledger'[k] = "stamped" /\ unsure'[k] = unsure[k]
          \/ pass.step = "send" /\ ledger'[k] = ledger[k] /\ unsure'[k] = unsure[k]
          \/ pass.step = "stamp" /\ ledger'[k] = ledger[k] /\ unsure'[k] = unsure[k] + 1
      BY <1>1, <1>2, <1>8
      DEF ResendStamped, ResendFails, Doubt, history, TypeInv, TypeOK
    <2>3. /\ ~Awaiting(k)' /\ ~Resent(k)' /\ \A j \in pass'.left : order'[j] # k
          /\ pass.step = "stamp" => Resent(k)
          /\ pass.step = "send" => ~Resent(k)
      BY <1>1, <1>2, <1>3, <2>1 DEF Resent, Awaiting
    <2>4. Paid(k)' /\ Earned(k)'
      <3>1. Earned(k)'
        BY <1>2, <1>3, <1>4, <1>5, <2>1, <2>2, <2>3 DEF Earned, None
      <3>2. Paid(k)'
        BY <1>2, <1>4, <1>5, <2>1, <2>2, <2>3 DEF Paid
      <3> QED
        BY <3>1, <3>2
    <2>5. ASSUME NEW x \in Keys \ {k}
          PROVE  Paid(x)' /\ Earned(x)'
      <3>1. ~Resent(x)' /\ (Awaiting(x)' => Awaiting(x))
        BY <1>3, <1>6, <2>1 DEF Resent, Awaiting
      <3> QED
        BY <1>2, <1>3, <1>4, <1>6, <2>1, <3>1 DEF Paid, Earned
    <2> QED
      BY <1>4, <2>4, <2>5 DEF SaidInv
  <1> QED
    BY <1>7, <1>8

-----------------------------------------------------------------------------
(* The theorems.                                                             *)

IInv == TypeInv /\ NoticeInv /\ SaidInv

LEMMA InitInv == Init => IInv
  <1> SUFFICES ASSUME Init PROVE IInv
    OBVIOUS
  <1>1. NoticeInv
    BY DEF Init, NoticeInv, Keys
  <1>2. Senders = {} /\ pass.left = {} /\ \A k \in Keys : said[k] = 0 /\ unsure[k] = 0
        /\ ledger[k] = None
    BY DEF Init, Senders, Idle
  <1>3. SaidInv
    BY <1>2 DEF SaidInv, OneSender, Paid, Earned, Sending, Stamping, Awaiting, Resent, None
  <1> QED
    BY <1>1, <1>3, InitType DEF IInv

LEMMA StepInv == IInv /\ [Next]_vars => IInv'
  <1> SUFFICES ASSUME IInv, [Next]_vars PROVE IInv'
    OBVIOUS
  <1> USE DEF IInv
  <1>1. ASSUME NEW r \in Runs, LoopStep(r) PROVE IInv'
    BY <1>1, LoopType, LoopNotice, LoopSaid
  <1>2. ASSUME NEW job \in jobs, JobStep(job) PROVE IInv'
    <2>1. CASE ReadRun(job) \/ ReadTask(job)
      BY <2>1, ReadType, ReadNotice, ReadSaid
    <2>2. CASE ClaimTaken(job)
      BY <2>2, DeliverType, DeliverNotice, ReadSaid
    <2>3. CASE Claim(job) \/ Send(job) \/ Stamp(job) \/ SendRefused(job) \/ StampFails(job)
      BY <2>3, DeliverType, DeliverNotice, DeliverSaid
    <2> QED
      BY <1>2, <2>1, <2>2, <2>3 DEF JobStep, Handle
  <1>3. ASSUME NEW k \in Keys, GracePasses(k) PROVE IInv'
    BY <1>3, GraceType, OtherNotice, GraceSaid
  <1>4. CASE RepairStep
    <2>1. SaidInv'
      BY <1>4, TickSaid, ResendSaid DEF RepairStep
    <2> QED
      BY <1>4, <2>1, RepairType, OtherNotice
  <1>5. CASE ProcessStep
    BY <1>5, ProcessType, OtherNotice, ProcessSaid
  <1>6. CASE UNCHANGED vars
    <2>1. UNCHANGED <<closing, outcome, row, card, stop, bot, jobs, ledger, order, said, pass,
                      hasty, unsure, budget>>
      BY <1>6 DEF vars
    <2>2. TypeInv'
      BY <2>1 DEF TypeInv, TypeOK, RowsEnd, JobsHaveKind
    <2>3. NoticeInv'
      BY <2>1, NoticeFrame DEF RowsStay
    <2>4. SaidInv'
      BY <2>1, SaidFrame DEF Senders
    <2> QED
      BY <2>2, <2>3, <2>4
  <1>7. Next => \/ \E r \in Runs : LoopStep(r)
                \/ \E job \in jobs : JobStep(job)
                \/ \E k \in Keys : GracePasses(k)
                \/ RepairStep \/ ProcessStep
    BY DEF Next, LoopStep, JobStep, RepairStep, Repair, ProcessStep
  <1> QED
    BY <1>1, <1>2, <1>3, <1>4, <1>5, <1>6, <1>7

LEMMA InvHolds == Spec => []IInv
  BY InitInv, StepInv, PTL DEF Spec

(* Every variable of the bot, its ledger and the close-out it watches keeps its *)
(* type: no key is claimed twice, and a pass holds claims of the ledger only.   *)
THEOREM TypeCorrect == Spec => []TypeOK
  <1>1. IInv => TypeOK
    BY DEF IInv, TypeInv
  <1> QED
    BY <1>1, InvHolds, PTL

(* A stamped claim was said, and a claim is said once and once more at most for *)
(* each time its send and its stamp came apart, whatever fails in between.      *)
THEOREM SaidAsStampedCorrect == Spec => []SaidAsStamped
  <1>1. IInv => SaidAsStamped
    BY DEF IInv, SaidInv, SaidAsStamped, Paid, Earned
  <1> QED
    BY <1>1, InvHolds, PTL

(* A claimed notice says how the run's row ended, unless its wait for that row  *)
(* ran out first.                                                            *)
THEOREM NoticeMatchesOutcomeCorrect == Spec => []NoticeMatchesOutcome
  <1>1. IInv => NoticeMatchesOutcome
    BY DEF IInv, NoticeInv, NoticeMatchesOutcome, Agrees
  <1> QED
    BY <1>1, InvHolds, PTL

=============================================================================
