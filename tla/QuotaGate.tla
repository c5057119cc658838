------------------------------ MODULE QuotaGate ------------------------------
(***************************************************************************)
(* The quota gate, packages/orchestrator/src/quota/gate.ts, for one        *)
(* provider whose failed runs can name a drain by their text (codex). It   *)
(* stands between Dispatch.plan and the lane: the pause a drained run      *)
(* leaves on disk, the cached read of the provider's windows, the decision *)
(* for each dispatch, and the admitted runs, which may drain in their turn.*)
(*                                                                         *)
(* A fiber keeps what it read across its awaits, and a tick of the clock   *)
(* may fall between any two steps: the read goes over HTTP with no         *)
(* deadline. Moments are kept as what is left until them, or as ages.      *)
(***************************************************************************)
EXTENDS Integers, FiniteSets

CONSTANTS
  Subjects,      \* what the sweep offers: one fiber each
  Slots,         \* permits of the lane
  Levels,        \* percentages the fuller window may read
  Unreadable,    \* a read that produced no signal
  Reached,       \* the provider itself says it is out
  Threshold,     \* thresholdPercent
  Headroom,      \* headroomPercent
  PollInterval,  \* pollIntervalMs, in ticks
  Cooldown,      \* cooldownMs, in ticks
  MaxCooldown,   \* MAX_COOLDOWN_MS, in ticks
  NoPause,       \* no record in pause.json
  Never,         \* no attempt yet
  Mishaps        \* bound: changes at the provider, failed writes, restarts

Usage == Levels \cup {Unreadable, Reached}

ASSUME LimitsAssumption ==
  /\ Slots \in Nat \ {0}
  /\ Levels \subseteq Nat
  /\ Threshold \in Nat /\ Headroom \in Nat
  /\ Mishaps \in Nat
ASSUME TimesAssumption ==
  /\ PollInterval \in Nat \ {0}
  /\ Cooldown \in Nat \ {0}
  /\ MaxCooldown \in Nat /\ Cooldown <= MaxCooldown
ASSUME SubjectsAssumption == IsFiniteSet(Subjects)

VARIABLES
  record,     \* the provider's entry of pause.json
  attempt,    \* state.attempt: the last read and how old it is
  fiber,      \* the fiber of each subject: startWork, the run, its close hook
  source,     \* what the provider would answer now
  mishaps     \* what may still happen

vars == <<record, attempt, fiber, source, mishaps>>

(* left is until - now; below -Cooldown how long ago it ran out is no longer *)
(* looked at. cooldown stands for the trip count: it is what that count earned.*)
Record  == [left : (0 - Cooldown)..MaxCooldown, cooldown : Cooldown..MaxCooldown]
Attempt == [age : 0..PollInterval, usage : Usage]

Steps == {"idle", "deferred", "reading", "judge", "settle", "admitted", "run",
          "note", "pause"}

(* pause is the record a fiber has made up and not yet written; overtaken is  *)
(* history: a pause was written while this ask was on its way.               *)
Fiber == [step : Steps, usage : Usage, inflight : Nat, age : 0..PollInterval,
          pause : Record \cup {NoPause}, overtaken : BOOLEAN]

TypeOK ==
  /\ record \in Record \cup {NoPause}
  /\ attempt \in Attempt \cup {Never}
  /\ fiber \in [Subjects -> Fiber]
  /\ source \in Usage
  /\ mishaps \in 0..Mishaps

NoFiber == [step |-> "idle", usage |-> Unreadable, inflight |-> 0, age |-> 0,
            pause |-> NoPause, overtaken |-> FALSE]

At(s, step) == fiber[s].step = step
(* A fiber forgets what its later steps do not use.                          *)
Goto(s, step) == fiber' = [fiber EXCEPT ![s] = [NoFiber EXCEPT !.step = step]]
Pursue(s, step) ==
  fiber' = [fiber EXCEPT ![s] =
    [NoFiber EXCEPT !.step = step, !.overtaken = fiber[s].overtaken]]

(* The asks that are past the look at the pause and not yet decided.         *)
Asking == {s \in Subjects : fiber[s].step \in {"reading", "judge", "settle", "admitted"}}

(* A run holds its permit until its close hook has heard the gate's answer.  *)
Running == {s \in Subjects : fiber[s].step \in {"run", "note", "pause"}}

Mishap == mishaps > 0 /\ mishaps' = mishaps - 1

(* inForce: nowMs < until.                                                   *)
InForce == record # NoPause /\ record.left > 0

(* Mutant of Fresh: a reading is good for as long as the process lives.       *)
FreshForever == attempt # Never

(* cachedUsage asks again only once the interval has passed.                 *)
Fresh == attempt # Never /\ attempt.age < PollInterval

(* evaluate, with the pause already looked at: the provider's own word, or a  *)
(* window that reaches the threshold with the headroom of what is in flight. *)
Drained(usage, inflight) ==
  \/ usage = Reached
  \/ usage \in Levels /\ usage + inflight * Headroom >= Threshold

Init ==
  /\ record = NoPause
  /\ attempt = Never
  /\ fiber = [s \in Subjects |-> NoFiber]
  /\ source \in Usage
  /\ mishaps = Mishaps

-----------------------------------------------------------------------------
(* A dispatch: statsOf, admit, and the permit.                               *)

(* What an ask does once it has found no pause: the cached reading, or a new  *)
(* read.                                                                     *)
LookUp(s) ==
  fiber' = [fiber EXCEPT ![s] =
    [NoFiber EXCEPT !.step = IF Fresh THEN "judge" ELSE "reading",
                    !.usage = IF Fresh THEN attempt.usage ELSE Unreadable,
                    !.inflight = Cardinality(Running)]]

(* Mutant of Ask: a reading at hand is used before the pause is looked at.    *)
AskCacheFirst(s) ==
  /\ fiber[s].step \in {"idle", "deferred"}
  /\ IF InForce /\ ~Fresh THEN Goto(s, "deferred") ELSE LookUp(s)
  /\ UNCHANGED <<record, attempt, source, mishaps>>

(* statsOf, then admit up to its read: a pause in force defers.              *)
Ask(s) ==
  /\ fiber[s].step \in {"idle", "deferred"}
  /\ IF InForce THEN Goto(s, "deferred") ELSE LookUp(s)
  /\ UNCHANGED <<record, attempt, source, mishaps>>

(* The answer arrives, and is dated when it was asked for.                   *)
ReadUsage(s) ==
  /\ At(s, "reading")
  /\ attempt' = [age |-> fiber[s].age, usage |-> source]
  /\ fiber' = [fiber EXCEPT ![s] =
       [fiber[s] EXCEPT !.step = "judge", !.usage = source, !.age = 0]]
  /\ UNCHANGED <<record, source, mishaps>>

(* The pause that is judged is the one seen by Ask.                          *)
Judge(s) ==
  LET usage == fiber[s].usage IN
  /\ At(s, "judge")
  /\ IF Drained(usage, fiber[s].inflight)
       THEN Goto(s, "deferred")
       ELSE Pursue(s, IF usage = Unreadable THEN "admitted" ELSE "settle")
  /\ UNCHANGED <<record, attempt, source, mishaps>>

(* "A healthy admit ends the episode": pauseOf, whatever it says by now, and  *)
(* clearPause, whose write may fail.                                         *)
Settle(s) ==
  /\ At(s, "settle")
  /\ Pursue(s, "admitted")
  /\ \/ record' = NoPause /\ UNCHANGED mishaps
     \/ record # NoPause /\ Mishap /\ UNCHANGED record
  /\ UNCHANGED <<attempt, source>>

(* pool.admit: a permit, or nothing has happened.                            *)
TakePermit(s) ==
  /\ At(s, "admitted")
  /\ Goto(s, IF Cardinality(Running) < Slots THEN "run" ELSE "idle")
  /\ UNCHANGED <<record, attempt, source, mishaps>>

-----------------------------------------------------------------------------
(* The reactive floor: noteQuota in the close hook of a failed run.          *)

RunEnds(s) ==
  /\ At(s, "run")
  /\ Goto(s, "idle")
  /\ UNCHANGED <<record, attempt, source, mishaps>>

(* The error text names a drain; the run was somebody's to lose either way.   *)
RunDrained(s) ==
  /\ At(s, "run")
  /\ Goto(s, "note")
  /\ UNCHANGED <<record, attempt, source, mishaps>>

(* Mutant of NextCooldown: no ceiling.                                       *)
NextCooldownUncapped ==
  IF record # NoPause /\ 0 - record.left < Cooldown
    THEN 2 * record.cooldown ELSE Cooldown

(* tripsFor and the doubling: consecutive means in force still, or run out    *)
(* less than one cooldown ago.                                               *)
NextCooldown ==
  IF record # NoPause /\ 0 - record.left < Cooldown
    THEN IF 2 * record.cooldown < MaxCooldown THEN 2 * record.cooldown ELSE MaxCooldown
    ELSE Cooldown

(* setReactivePause up to its lock: the previous record is read outside it.   *)
Note(s) ==
  /\ At(s, "note")
  /\ fiber' = [fiber EXCEPT ![s] =
       [NoFiber EXCEPT !.step = "pause",
                        !.pause = [left |-> NextCooldown, cooldown |-> NextCooldown]]]
  /\ UNCHANGED <<record, attempt, source, mishaps>>

(* setPause, under the lock that also carries the other providers over.      *)
SetPause(s) ==
  /\ At(s, "pause")
  /\ \/ /\ record' = fiber[s].pause
        /\ fiber' = [t \in Subjects |->
             IF t = s THEN NoFiber
             ELSE [fiber[t] EXCEPT !.overtaken = t \in Asking]]
        /\ UNCHANGED mishaps
     \/ Mishap /\ Goto(s, "idle") /\ UNCHANGED record
  /\ UNCHANGED <<attempt, source>>

-----------------------------------------------------------------------------
(* The sweep's own read, the world, and the clock.                           *)

(* A paused provider is not polled. One step: what an answer does that comes  *)
(* late, ReadUsage shows.                                                    *)
Refresh ==
  /\ ~InForce /\ ~Fresh
  /\ attempt' = [age |-> 0, usage |-> source]
  /\ UNCHANGED <<record, fiber, source, mishaps>>

SourceChanges ==
  /\ Mishap
  /\ source' \in Usage \ {source}
  /\ UNCHANGED <<record, attempt, fiber>>

(* The record is a file; the cache is not seeded from one.                   *)
Restart ==
  /\ Mishap
  /\ attempt' = Never
  /\ fiber' = [s \in Subjects |-> NoFiber]
  /\ UNCHANGED <<record, source>>

Older(age) == IF age < PollInterval THEN age + 1 ELSE age

Sooner(pause) ==
  IF pause = NoPause \/ pause.left = 0 - Cooldown THEN pause
  ELSE [pause EXCEPT !.left = pause.left - 1]

Tick ==
  /\ record' = Sooner(record)
  /\ attempt' = IF attempt = Never THEN Never
                ELSE [attempt EXCEPT !.age = Older(attempt.age)]
  /\ fiber' = [s \in Subjects |->
       [fiber[s] EXCEPT !.age = IF At(s, "reading") THEN Older(fiber[s].age) ELSE fiber[s].age,
                        !.pause = Sooner(fiber[s].pause)]]
  /\ UNCHANGED <<source, mishaps>>

-----------------------------------------------------------------------------

(* What a fiber does by itself: neither the end of its run nor the answer of  *)
(* the provider is up to it.                                                 *)
FiberStep(s) ==
  Judge(s) \/ Settle(s) \/ TakePermit(s) \/ Note(s) \/ SetPause(s)

Next ==
  \/ \E s \in Subjects : Ask(s) \/ ReadUsage(s) \/ FiberStep(s) \/ RunEnds(s) \/ RunDrained(s)
  \/ Refresh \/ SourceChanges \/ Restart \/ Tick

Spec == Init /\ [][Next]_vars

(* The sweep offers a deferred card again, fibers are scheduled, and the clock*)
(* does not stop for any of them. The provider need never answer a read, and  *)
(* no run has to end.                                                        *)
FairSpec ==
  /\ Spec
  /\ \A s \in Subjects : WF_vars(FiberStep(s)) /\ WF_vars(At(s, "deferred") /\ Ask(s))
  /\ WF_vars(Tick)

-----------------------------------------------------------------------------

(* "A live reactive pause wins because it is a confirmed drain": whoever asks *)
(* after a pause was written neither runs nor clears it while it is in force.*)
(* An ask that was already on its way may clear it.                          *)
PauseBindsLaterAsks ==
  [][\A s \in Subjects : InForce /\ ~fiber[s].overtaken =>
       /\ ~(At(s, "admitted") /\ At(s, "run")')
       /\ ~(At(s, "settle") /\ record' = NoPause)]_vars

(* A reading the fuller window allows a full lane at.                        *)
Roomy(usage) == usage \in Levels /\ usage + Slots * Headroom < Threshold

(* "Turn a stale drain into a pool held shut" is what must not happen: once   *)
(* the provider has room for good and no run drains, nobody is deferred for  *)
(* ever by an old pause or an old reading.                                   *)
HealthyIsServed ==
  \A s \in Subjects :
    <>[](Roomy(source) /\ \A t \in Subjects : ~At(t, "note") /\ ~At(t, "pause"))
      => <>[]~At(s, "deferred")

=============================================================================
