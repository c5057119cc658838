--------------------------- MODULE QuotaGate_proofs --------------------------
(* What the pause of a provider binds, for any cards, slots and durations.   *)
EXTENDS QuotaGate, FiniteSetTheorems, TLAPS

(* An ask that looked and saw no pause, and that no pause was written after:  *)
(* there is none in force. Nothing but SetPause puts one in force.           *)
NotOvertaken ==
  \A s \in Subjects : s \in Asking /\ ~fiber[s].overtaken => ~InForce

IInv == TypeOK /\ NotOvertaken

(* What is in flight is a number: the permits are held by subjects.          *)
LEMMA RunningIsCounted == Cardinality(Running) \in Nat
<1>1. IsFiniteSet(Subjects)
  BY SubjectsAssumption
<1>2. Running \subseteq Subjects
  BY DEF Running
<1> QED
  BY <1>1, <1>2, FS_Subset, FS_CardinalityType

(* setReactivePause never makes up a pause longer than MAX_COOLDOWN_MS, and   *)
(* never one shorter than a cooldown.                                        *)
LEMMA CooldownIsCapped ==
  ASSUME TypeOK
  PROVE  NextCooldown \in Cooldown..MaxCooldown
<1>1. Cooldown \in Nat /\ MaxCooldown \in Nat /\ Cooldown <= MaxCooldown
  BY TimesAssumption
<1>2. record # NoPause => record.left \in Int /\ record.cooldown \in Cooldown..MaxCooldown
  BY <1>1 DEF TypeOK, Record
<1> QED
  BY <1>1, <1>2 DEF NextCooldown

(* A tick keeps a record one, and puts none in force.                        *)
LEMMA TickAgesRecord ==
  ASSUME NEW pause \in Record \cup {NoPause}
  PROVE  /\ Sooner(pause) \in Record \cup {NoPause}
         /\ Sooner(pause) # NoPause /\ Sooner(pause).left > 0
              => pause # NoPause /\ pause.left > 0
<1>1. Cooldown \in Nat /\ MaxCooldown \in Nat
  BY TimesAssumption
<1>2. CASE pause = NoPause \/ pause.left = 0 - Cooldown
  BY <1>1, <1>2 DEF Sooner
<1>3. CASE ~(pause = NoPause \/ pause.left = 0 - Cooldown)
  <2>1. pause \in Record
    BY <1>3
  <2>2. Sooner(pause) = [pause EXCEPT !.left = pause.left - 1]
    BY <1>3 DEF Sooner
  <2>3. pause.left - 1 \in (0 - Cooldown)..MaxCooldown
    BY <1>1, <1>3, <2>1 DEF Record
  <2>4. Sooner(pause) \in Record /\ Sooner(pause).left = pause.left - 1
    BY <2>1, <2>2, <2>3 DEF Record
  <2>5. pause.left \in Int
    BY <1>1, <2>1 DEF Record
  <2> QED
    BY <1>3, <2>4, <2>5
<1> QED
  BY <1>2, <1>3

-----------------------------------------------------------------------------
LEMMA TypeInit == Init => TypeOK
<1> SUFFICES ASSUME Init PROVE TypeOK
  OBVIOUS
<1>1. NoFiber \in Fiber
  BY TimesAssumption DEF NoFiber, Fiber, Steps, Usage
<1> QED
  BY <1>1, LimitsAssumption DEF Init, TypeOK, Usage

LEMMA TypeStep == TypeOK /\ [Next]_vars => TypeOK'
<1> SUFFICES ASSUME TypeOK, [Next]_vars PROVE TypeOK'
  OBVIOUS
<1>0. PollInterval \in Nat /\ PollInterval > 0 /\ Cooldown \in Nat /\ MaxCooldown \in Nat
      /\ Cooldown <= MaxCooldown /\ Mishaps \in Nat
  BY TimesAssumption, LimitsAssumption
<1>n. NoFiber \in Fiber
  BY <1>0 DEF NoFiber, Fiber, Steps, Usage
<1>m. Mishap => mishaps' \in 0..Mishaps
  BY <1>0 DEF Mishap, TypeOK
<1>g. ASSUME NEW s \in Subjects, NEW step \in Steps, Goto(s, step)
      PROVE  fiber' \in [Subjects -> Fiber]
  <2>1. [NoFiber EXCEPT !.step = step] \in Fiber
    BY <1>n DEF Fiber
  <2> QED
    BY <1>g, <2>1 DEF Goto, TypeOK
<1>p. ASSUME NEW s \in Subjects, NEW step \in Steps, Pursue(s, step)
      PROVE  fiber' \in [Subjects -> Fiber]
  <2>1. [NoFiber EXCEPT !.step = step, !.overtaken = fiber[s].overtaken] \in Fiber
    BY <1>n DEF TypeOK, Fiber
  <2> QED
    BY <1>p, <2>1 DEF Pursue, TypeOK
<1>1. ASSUME NEW s \in Subjects, Ask(s) PROVE TypeOK'
  <2>1. CASE InForce
    BY <1>1, <2>1, <1>g DEF Ask, TypeOK, Steps
  <2>2. CASE ~InForce
    <3>1. LookUp(s)
      BY <1>1, <2>2 DEF Ask
    <3>2. (IF Fresh THEN attempt.usage ELSE Unreadable) \in Usage
      BY DEF Fresh, TypeOK, Attempt, Usage
    <3>3. Cardinality(Running) \in Nat
      BY RunningIsCounted
    <3>4. [NoFiber EXCEPT !.step = IF Fresh THEN "judge" ELSE "reading",
                          !.usage = IF Fresh THEN attempt.usage ELSE Unreadable,
                          !.inflight = Cardinality(Running)] \in Fiber
      BY <1>n, <3>2, <3>3 DEF Fiber, Steps
    <3>5. fiber' \in [Subjects -> Fiber]
      BY <3>1, <3>4 DEF LookUp, TypeOK
    <3> QED
      BY <1>1, <3>5 DEF Ask, TypeOK
  <2> QED
    BY <2>1, <2>2
<1>2. ASSUME NEW s \in Subjects, ReadUsage(s) PROVE TypeOK'
  <2>1. [fiber[s] EXCEPT !.step = "judge", !.usage = source, !.age = 0] \in Fiber
    <3>1. fiber[s] \in Fiber /\ source \in Usage
      BY DEF TypeOK
    <3>2. 0 \in 0..PollInterval
      BY <1>0
    <3> QED
      BY <3>1, <3>2 DEF Fiber, Steps
  <2>2. [age |-> fiber[s].age, usage |-> source] \in Attempt
    BY DEF TypeOK, Fiber, Attempt
  <2> QED
    BY <1>2, <2>1, <2>2 DEF ReadUsage, TypeOK
<1>3. ASSUME NEW s \in Subjects, Judge(s) PROVE TypeOK'
  <2>1. fiber' \in [Subjects -> Fiber]
    <3>1. CASE Drained(fiber[s].usage, fiber[s].inflight)
      BY <1>3, <3>1, <1>g DEF Judge, Steps
    <3>2. CASE ~Drained(fiber[s].usage, fiber[s].inflight)
      <4>1. Pursue(s, IF fiber[s].usage = Unreadable THEN "admitted" ELSE "settle")
        BY <1>3, <3>2 DEF Judge
      <4> QED
        BY <4>1, <1>p DEF Steps
    <3> QED
      BY <3>1, <3>2
  <2> QED
    BY <1>3, <2>1 DEF Judge, TypeOK
<1>4. ASSUME NEW s \in Subjects, Settle(s) PROVE TypeOK'
  <2>1. fiber' \in [Subjects -> Fiber]
    BY <1>4, <1>p DEF Settle, Steps
  <2> QED
    BY <1>4, <2>1, <1>m DEF Settle, TypeOK
<1>5. ASSUME NEW s \in Subjects, TakePermit(s) PROVE TypeOK'
  BY <1>5, <1>g DEF TakePermit, TypeOK, Steps
<1>6. ASSUME NEW s \in Subjects, RunEnds(s) PROVE TypeOK'
  BY <1>6, <1>g DEF RunEnds, TypeOK, Steps
<1>7. ASSUME NEW s \in Subjects, RunDrained(s) PROVE TypeOK'
  BY <1>7, <1>g DEF RunDrained, TypeOK, Steps
<1>8. ASSUME NEW s \in Subjects, Note(s) PROVE TypeOK'
  <2>1. NextCooldown \in Cooldown..MaxCooldown
    BY CooldownIsCapped
  <2>2. [left |-> NextCooldown, cooldown |-> NextCooldown] \in Record
    BY <1>0, <2>1 DEF Record
  <2>3. [NoFiber EXCEPT !.step = "pause",
           !.pause = [left |-> NextCooldown, cooldown |-> NextCooldown]] \in Fiber
    BY <1>n, <2>2 DEF Fiber, Steps
  <2> QED
    BY <1>8, <2>3 DEF Note, TypeOK
<1>9. ASSUME NEW s \in Subjects, SetPause(s) PROVE TypeOK'
  <2>1. CASE /\ record' = fiber[s].pause
             /\ fiber' = [t \in Subjects |->
                  IF t = s THEN NoFiber
                  ELSE [fiber[t] EXCEPT !.overtaken = t \in Asking]]
             /\ UNCHANGED mishaps
    <3>1. ASSUME NEW t \in Subjects
          PROVE  [fiber[t] EXCEPT !.overtaken = t \in Asking] \in Fiber
      <4>1. (t \in Asking) \in BOOLEAN
        BY DEF Asking
      <4> QED
        BY <4>1 DEF TypeOK, Fiber
    <3>2. fiber' \in [Subjects -> Fiber]
      BY <2>1, <3>1, <1>n
    <3>3. record' \in Record \cup {NoPause}
      BY <2>1 DEF TypeOK, Fiber
    <3> QED
      BY <1>9, <2>1, <3>2, <3>3 DEF SetPause, TypeOK
  <2>2. CASE Mishap /\ Goto(s, "idle") /\ UNCHANGED record
    BY <1>9, <2>2, <1>g, <1>m DEF SetPause, TypeOK, Steps
  <2> QED
    BY <1>9, <2>1, <2>2 DEF SetPause
<1>10. CASE Refresh
  BY <1>10, <1>0 DEF Refresh, TypeOK, Attempt
<1>11. CASE SourceChanges
  BY <1>11, <1>m DEF SourceChanges, TypeOK
<1>12. CASE Restart
  BY <1>12, <1>m, <1>n DEF Restart, TypeOK
<1>13. CASE Tick
  <2>1. ASSUME NEW age \in 0..PollInterval PROVE Older(age) \in 0..PollInterval
    BY <1>0 DEF Older
  <2>2. ASSUME NEW s \in Subjects
        PROVE  [fiber[s] EXCEPT
                  !.age = IF At(s, "reading") THEN Older(fiber[s].age) ELSE fiber[s].age,
                  !.pause = Sooner(fiber[s].pause)] \in Fiber
    <3>1. fiber[s].age \in 0..PollInterval /\ fiber[s].pause \in Record \cup {NoPause}
      BY DEF TypeOK, Fiber
    <3>2. Sooner(fiber[s].pause) \in Record \cup {NoPause}
      BY <3>1, TickAgesRecord
    <3> QED
      BY <3>1, <3>2, <2>1 DEF TypeOK, Fiber
  <2>3. record' \in Record \cup {NoPause}
    BY <1>13, TickAgesRecord DEF Tick, TypeOK
  <2>4. attempt' \in Attempt \cup {Never}
    BY <1>13, <2>1 DEF Tick, TypeOK, Attempt
  <2> QED
    BY <1>13, <2>2, <2>3, <2>4 DEF Tick, TypeOK
<1>14. CASE UNCHANGED vars
  BY <1>14 DEF vars, TypeOK
<1> QED
  BY <1>1, <1>2, <1>3, <1>4, <1>5, <1>6, <1>7, <1>8, <1>9, <1>10, <1>11, <1>12,
     <1>13, <1>14 DEF Next, FiberStep

(* The variables hold what TypeOK says, in every state of every instance; no  *)
(* pause on disk outlasts MAX_COOLDOWN_MS among that.                        *)
THEOREM TypeCorrect == Spec => []TypeOK
<1> QED
  BY TypeInit, TypeStep, PTL DEF Spec

-----------------------------------------------------------------------------
(* What an ask in NotOvertaken needs of a step: it does not become one, or    *)
(* cease to be overtaken, and no pause comes into force.                     *)
LEMMA KeepsNotOvertaken ==
  ASSUME NotOvertaken, InForce' => InForce,
         \A s \in Subjects : s \in Asking' /\ ~fiber'[s].overtaken
                               => s \in Asking /\ ~fiber[s].overtaken
  PROVE  NotOvertaken'
BY DEF NotOvertaken

LEMMA NotOvertakenStep == IInv /\ [Next]_vars => NotOvertaken'
<1> SUFFICES ASSUME IInv, [Next]_vars PROVE NotOvertaken'
  OBVIOUS
<1>t. TypeOK /\ NotOvertaken
  BY DEF IInv
<1>r. record' = record => (InForce' <=> InForce)
  BY DEF InForce
<1>n. NoFiber.step = "idle"
  BY DEF NoFiber
<1>g. ASSUME NEW s \in Subjects, NEW step \in Steps, Goto(s, step),
             step \notin {"reading", "judge", "settle", "admitted"}
      PROVE  \A t \in Subjects : t \in Asking' /\ ~fiber'[t].overtaken
                                   => t \in Asking /\ ~fiber[t].overtaken
  BY <1>g, <1>t DEF Goto, Asking, NoFiber, TypeOK
<1>p. ASSUME NEW s \in Subjects, NEW step \in Steps, Pursue(s, step), s \in Asking
      PROVE  \A t \in Subjects : t \in Asking' /\ ~fiber'[t].overtaken
                                   => t \in Asking /\ ~fiber[t].overtaken
  <2>1. fiber[s] \in Fiber
    BY <1>t DEF TypeOK
  <2>2. fiber'[s].overtaken = fiber[s].overtaken
    BY <1>p, <2>1, <1>t DEF Pursue, NoFiber, TypeOK, Fiber
  <2>3. \A t \in Subjects \ {s} : fiber'[t] = fiber[t]
    BY <1>p, <1>t DEF Pursue, TypeOK
  <2> QED
    BY <1>p, <2>2, <2>3 DEF Asking
<1>1. ASSUME NEW s \in Subjects, Ask(s) PROVE NotOvertaken'
  <2>1. CASE InForce
    BY <1>1, <2>1, <1>g, <1>r, <1>t, KeepsNotOvertaken DEF Ask, Steps
  <2>2. CASE ~InForce
    BY <1>1, <2>2, <1>r DEF Ask, NotOvertaken
  <2> QED
    BY <2>1, <2>2
<1>2. ASSUME NEW s \in Subjects, ReadUsage(s) PROVE NotOvertaken'
  <2>1. fiber[s] \in Fiber
    BY <1>t DEF TypeOK
  <2>2. fiber'[s].overtaken = fiber[s].overtaken /\ s \in Asking
    BY <1>2, <2>1, <1>t DEF ReadUsage, At, Asking, TypeOK, Fiber
  <2>3. \A t \in Subjects \ {s} : fiber'[t] = fiber[t]
    BY <1>2, <1>t DEF ReadUsage, TypeOK
  <2>4. \A t \in Subjects : t \in Asking' /\ ~fiber'[t].overtaken
                              => t \in Asking /\ ~fiber[t].overtaken
    BY <2>2, <2>3 DEF Asking
  <2> QED
    BY <1>2, <2>4, <1>r, <1>t, KeepsNotOvertaken DEF ReadUsage
<1>3. ASSUME NEW s \in Subjects, Judge(s) PROVE NotOvertaken'
  <2>1. s \in Asking /\ record' = record
    BY <1>3 DEF Judge, At, Asking
  <2>2. CASE Drained(fiber[s].usage, fiber[s].inflight)
    <3>1. Goto(s, "deferred")
      BY <1>3, <2>2 DEF Judge
    <3> QED
      BY <2>1, <3>1, <1>g, <1>r, <1>t, KeepsNotOvertaken DEF Steps
  <2>3. CASE ~Drained(fiber[s].usage, fiber[s].inflight)
    <3>1. Pursue(s, IF fiber[s].usage = Unreadable THEN "admitted" ELSE "settle")
      BY <1>3, <2>3 DEF Judge
    <3> QED
      BY <2>1, <3>1, <1>p, <1>r, <1>t, KeepsNotOvertaken DEF Steps
  <2> QED
    BY <2>2, <2>3
<1>4. ASSUME NEW s \in Subjects, Settle(s) PROVE NotOvertaken'
  <2>1. s \in Asking /\ Pursue(s, "admitted")
    BY <1>4 DEF Settle, At, Asking
  <2>2. InForce' => InForce
    BY <1>4, <1>r DEF Settle, InForce
  <2> QED
    BY <2>1, <2>2, <1>p, <1>t, KeepsNotOvertaken DEF Steps
<1>5. ASSUME NEW s \in Subjects, TakePermit(s) PROVE NotOvertaken'
  BY <1>5, <1>g, <1>r, <1>t, KeepsNotOvertaken DEF TakePermit, Steps
<1>6. ASSUME NEW s \in Subjects, RunEnds(s) PROVE NotOvertaken'
  BY <1>6, <1>g, <1>r, <1>t, KeepsNotOvertaken DEF RunEnds, Steps
<1>7. ASSUME NEW s \in Subjects, RunDrained(s) PROVE NotOvertaken'
  BY <1>7, <1>g, <1>r, <1>t, KeepsNotOvertaken DEF RunDrained, Steps
<1>8. ASSUME NEW s \in Subjects, Note(s) PROVE NotOvertaken'
  <2>1. \A t \in Subjects : t \in Asking' /\ ~fiber'[t].overtaken
                              => t \in Asking /\ ~fiber[t].overtaken
    BY <1>8, <1>t DEF Note, Asking, NoFiber, TypeOK
  <2> QED
    BY <1>8, <2>1, <1>r, <1>t, KeepsNotOvertaken DEF Note
<1>9. ASSUME NEW s \in Subjects, SetPause(s) PROVE NotOvertaken'
  <2>1. CASE fiber' = [t \in Subjects |->
               IF t = s THEN NoFiber
               ELSE [fiber[t] EXCEPT !.overtaken = t \in Asking]]
    <3>1. ASSUME NEW t \in Subjects, t \in Asking' PROVE fiber'[t].overtaken
      <4>1. t # s
        BY <2>1, <3>1, <1>n DEF Asking
      <4>2. fiber[t] \in Fiber
        BY <1>t DEF TypeOK
      <4>3. fiber'[t].step = fiber[t].step
        BY <2>1, <4>1, <4>2 DEF Fiber
      <4>4. t \in Asking
        BY <3>1, <4>3 DEF Asking
      <4>5. fiber'[t] = [fiber[t] EXCEPT !.overtaken = TRUE]
        BY <2>1, <4>1, <4>4
      <4> QED
        BY <4>2, <4>5 DEF Fiber
    <3> QED
      BY <3>1 DEF NotOvertaken
  <2>2. CASE Mishap /\ Goto(s, "idle") /\ UNCHANGED record
    BY <2>2, <1>g, <1>r, <1>t, KeepsNotOvertaken DEF Steps
  <2> QED
    BY <1>9, <2>1, <2>2 DEF SetPause
<1>10. CASE Refresh
  BY <1>10, <1>r, <1>t, KeepsNotOvertaken DEF Refresh, Asking
<1>11. CASE SourceChanges
  BY <1>11, <1>r, <1>t, KeepsNotOvertaken DEF SourceChanges, Asking
<1>12. CASE Restart
  <2>1. Asking' = {}
    BY <1>12, <1>n DEF Restart, Asking
  <2> QED
    BY <2>1 DEF NotOvertaken
<1>13. CASE Tick
  <2>1. InForce' => InForce
    BY <1>13, <1>t, TickAgesRecord DEF Tick, InForce, TypeOK
  <2>2. ASSUME NEW s \in Subjects
        PROVE  fiber'[s].step = fiber[s].step /\ fiber'[s].overtaken = fiber[s].overtaken
    <3>1. fiber[s] \in Fiber
      BY <1>t DEF TypeOK
    <3> QED
      BY <1>13, <3>1 DEF Tick, Fiber
  <2>3. \A s \in Subjects : s \in Asking' /\ ~fiber'[s].overtaken
                              => s \in Asking /\ ~fiber[s].overtaken
    BY <2>2 DEF Asking
  <2> QED
    BY <2>1, <2>3, <1>t, KeepsNotOvertaken
<1>14. CASE UNCHANGED vars
  BY <1>14, <1>r, <1>t, KeepsNotOvertaken DEF vars, Asking
<1> QED
  BY <1>1, <1>2, <1>3, <1>4, <1>5, <1>6, <1>7, <1>8, <1>9, <1>10, <1>11, <1>12,
     <1>13, <1>14 DEF Next, FiberStep

(* Whoever asks after a pause was written neither runs nor clears it while it *)
(* is in force: admit's look at the pause binds, whatever the clock, the      *)
(* provider, failed writes and restarts do between its steps.                *)
THEOREM PauseBindsLaterAsksCorrect == Spec => PauseBindsLaterAsks
<1>1. Init => IInv
  BY TypeInit DEF Init, IInv, NotOvertaken, InForce
<1>2. IInv /\ [Next]_vars => IInv'
  BY TypeStep, NotOvertakenStep DEF IInv
<1>3. IInv /\ [Next]_vars =>
        [\A s \in Subjects : InForce /\ ~fiber[s].overtaken =>
           /\ ~(At(s, "admitted") /\ At(s, "run")')
           /\ ~(At(s, "settle") /\ record' = NoPause)]_vars
  BY DEF IInv, NotOvertaken, Asking, At
<1> QED
  BY <1>1, <1>2, <1>3, PTL DEF Spec, PauseBindsLaterAsks

=============================================================================
