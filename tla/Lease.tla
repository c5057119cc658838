------------------------------- MODULE Lease --------------------------------
(***************************************************************************)
(* The lease file of one subject, packages/orchestrator/src/lease.ts: loop *)
(* processes over one data root claim it, beat it, give it back and, at    *)
(* boot, reclaim what a dead process left. Reading a file and acting on    *)
(* what it said are different steps; a rename and a remove are each one.   *)
(*                                                                         *)
(* Time is the age of what was written: a tick makes every stamp older, up *)
(* to StaleAfter, where it no longer matters how old it is.                *)
(***************************************************************************)
EXTENDS Naturals

CONSTANTS
  Procs,       \* instance ids: a restart is another instance, never the same
  Workers,     \* the fibers that want the subject
  ProcOf,      \* the process each of them runs in
  NoFile,      \* no file, or one that does not decode
  None,        \* no rename on its way
  BeatEvery,   \* leaseHeartbeatMs, in ticks
  StaleAfter,  \* leaseStaleMs, in ticks
  Mishaps      \* bound: how many writes fail, pids are reused, processes stall

ASSUME TimesAssumption ==
  /\ BeatEvery \in Nat \ {0}
  /\ StaleAfter \in Nat /\ BeatEvery < StaleAfter
  /\ Mishaps \in Nat
ASSUME ProcsAssumption ==
  /\ ProcOf \in [Workers -> Procs]
  /\ NoFile \notin [by : Procs, age : 0..StaleAfter]
  /\ None \notin 0..StaleAfter

VARIABLES
  file,     \* the lease on disk
  proc,     \* each instance: unborn, booting, up, dead, or dead with its pid reused
  held,     \* claims: the in-memory set of each instance
  worker,   \* the fibers
  beat,     \* the heartbeat each working fiber forked into its scope
  late,     \* a rename of an interrupted beat that nobody waits for any more
  boot,     \* what reclaimStale listed
  slow,     \* instances that no longer keep up with the clock
  mishaps   \* what may still go wrong

vars == <<file, proc, held, worker, beat, late, boot, slow, mishaps>>

Ages   == 0..StaleAfter
Record == [by : Procs, age : Ages]

Is(w, step) == worker[w].step = step

(* "It stops with the work it is vouching for": a fiber has a heartbeat exactly*)
(* as long as it works.                                                      *)
BeatsWithWork == \A w \in Workers : Is(w, "working") <=> beat[w].step # "off"

TypeOK ==
  /\ file \in Record \cup {NoFile}
  /\ proc \in [Procs -> {"unborn", "booting", "up", "dead", "reused"}]
  /\ held \in [Procs -> BOOLEAN]
  /\ worker \in [Workers -> [step : {"idle", "claiming", "working", "removing"},
                             age : Ages]]
  /\ beat \in [Workers -> [step : {"off", "rest", "writing"}, age : Ages,
                           due : 0..BeatEvery]]
  /\ late \in [Procs -> Ages \cup {None}]
  /\ boot \in [Procs -> Record \cup {NoFile}]
  /\ slow \subseteq Procs
  /\ mishaps \in 0..Mishaps
  /\ BeatsWithWork

Alive(p) == proc[p] \in {"booting", "up"}

Resting == [worker |-> [step |-> "idle", age |-> 0],
            beat   |-> [step |-> "off", age |-> 0, due |-> 0]]

Mishap == mishaps > 0 /\ mishaps' = mishaps - 1

(* Mutant of IsLive: the asker's own lease is live before its age is looked at.*)
IsLiveOwnFirst(p, lease) ==
  \/ lease.by = p
  \/ lease.age < StaleAfter /\ proc[lease.by] \in {"booting", "up", "reused"}

(* Mutant of IsLive: one missed beat is enough.                               *)
IsLiveOneBeat(p, lease) ==
  /\ lease.age <= BeatEvery
  /\ lease.by = p \/ proc[lease.by] \in {"booting", "up", "reused"}

(* Fresh, and either the asker's own or with a process of that pid behind it.  *)
IsLive(p, lease) ==
  /\ lease.age < StaleAfter
  /\ lease.by = p \/ proc[lease.by] \in {"booting", "up", "reused"}

Taken(p) == file # NoFile /\ IsLive(p, file)

Init ==
  /\ file = NoFile
  /\ proc = [p \in Procs |-> "unborn"]
  /\ held = [p \in Procs |-> FALSE]
  /\ worker = [w \in Workers |-> Resting.worker]
  /\ beat = [w \in Workers |-> Resting.beat]
  /\ late = [p \in Procs |-> None]
  /\ boot = [p \in Procs |-> NoFile]
  /\ slow = {}
  /\ mishaps = Mishaps

-----------------------------------------------------------------------------
(* withLease: claim, beat while the work runs, give back.                    *)

(* Mutant of ClaimStart: two fibers of a process may be deciding at once.     *)
ClaimStartUngated(w) ==
  LET p == ProcOf[w] IN
  /\ proc[p] = "up" /\ Is(w, "idle")
  /\ ~held[p] /\ ~Taken(p)
  /\ worker' = [worker EXCEPT ![w] = [step |-> "claiming", age |-> 0]]
  /\ UNCHANGED <<file, proc, held, beat, late, boot, slow, mishaps>>

(* claimExclusive up to its write: the gate, the in-memory set, the file. A    *)
(* refusal (AlreadyLive) changes nothing.                                     *)
ClaimStart(w) ==
  LET p == ProcOf[w] IN
  /\ proc[p] = "up" /\ Is(w, "idle")
  /\ \A v \in Workers : ProcOf[v] = p => ~Is(v, "claiming")
  /\ ~held[p] /\ ~Taken(p)
  /\ worker' = [worker EXCEPT ![w] = [step |-> "claiming", age |-> 0]]
  /\ UNCHANGED <<file, proc, held, beat, late, boot, slow, mishaps>>

(* The rename lands, whatever the file says by now; the first beat is due.   *)
ClaimWrite(w) ==
  LET p == ProcOf[w] IN
  /\ Is(w, "claiming")
  /\ file' = [by |-> p, age |-> worker[w].age]
  /\ held' = [held EXCEPT ![p] = TRUE]
  /\ worker' = [worker EXCEPT ![w] = [step |-> "working", age |-> 0]]
  /\ beat' = [beat EXCEPT ![w] = [step |-> "rest", age |-> 0, due |-> BeatEvery]]
  /\ UNCHANGED <<proc, late, boot, slow, mishaps>>

ClaimFails(w) ==
  /\ Is(w, "claiming") /\ Mishap
  /\ worker' = [worker EXCEPT ![w] = Resting.worker]
  /\ UNCHANGED <<file, proc, held, beat, late, boot, slow>>

(* Mutant of BeatStart: a file that has gone missing is a lost lease.         *)
BeatStartMourning(w) ==
  /\ beat[w].step = "rest" /\ beat[w].due = BeatEvery
  /\ beat' = [beat EXCEPT ![w] =
       IF file # NoFile /\ file.by = ProcOf[w]
         THEN [step |-> "writing", age |-> 0, due |-> 0]
         ELSE [step |-> "rest", age |-> 0, due |-> 0]]
  /\ UNCHANGED <<file, proc, held, worker, late, boot, slow, mishaps>>

(* heartbeat up to its write. A file that names another instance is "lost",  *)
(* which nobody acts on: the work goes on and the next beat asks again.      *)
BeatStart(w) ==
  /\ beat[w].step = "rest" /\ beat[w].due = BeatEvery
  /\ beat' = [beat EXCEPT ![w] =
       IF file # NoFile /\ file.by # ProcOf[w]
         THEN [step |-> "rest", age |-> 0, due |-> 0]
         ELSE [step |-> "writing", age |-> 0, due |-> 0]]
  /\ UNCHANGED <<file, proc, held, worker, late, boot, slow, mishaps>>

BeatWrite(w) ==
  /\ beat[w].step = "writing"
  /\ file' = [by |-> ProcOf[w], age |-> beat[w].age]
  /\ beat' = [beat EXCEPT ![w] = [step |-> "rest", age |-> 0, due |-> 0]]
  /\ UNCHANGED <<proc, held, worker, late, boot, slow, mishaps>>

BeatFails(w) ==
  /\ beat[w].step = "writing" /\ Mishap
  /\ beat' = [beat EXCEPT ![w] = [step |-> "rest", age |-> 0, due |-> 0]]
  /\ UNCHANGED <<file, proc, held, worker, late, boot, slow>>

(* Mutant of End: the beat is forked on its own, not into the scope.          *)
EndDetached(w) ==
  LET p == ProcOf[w] IN
  /\ Is(w, "working")
  /\ held' = [held EXCEPT ![p] = FALSE]
  /\ worker' = [worker EXCEPT ![w] = [step |-> "removing", age |-> 0]]
  /\ UNCHANGED <<file, proc, beat, late, boot, slow, mishaps>>

(* The work ends: the beat is interrupted, its rename perhaps already on its *)
(* way to the kernel, and release forgets the claim before it removes the    *)
(* file.                                                                     *)
End(w) ==
  LET p == ProcOf[w] IN
  /\ Is(w, "working")
  /\ held' = [held EXCEPT ![p] = FALSE]
  /\ worker' = [worker EXCEPT ![w] = [step |-> "removing", age |-> 0]]
  /\ beat' = [beat EXCEPT ![w] = Resting.beat]
  /\ \/ UNCHANGED late
     \/ /\ beat[w].step = "writing" /\ late[p] = None
        /\ late' = [late EXCEPT ![p] = beat[w].age]
  /\ UNCHANGED <<file, proc, boot, slow, mishaps>>

(* Whoever the file names by now.                                            *)
Remove(w) ==
  /\ Is(w, "removing")
  /\ file' = NoFile
  /\ worker' = [worker EXCEPT ![w] = Resting.worker]
  /\ UNCHANGED <<proc, held, beat, late, boot, slow, mishaps>>

RemoveFails(w) ==
  /\ Is(w, "removing") /\ Mishap
  /\ worker' = [worker EXCEPT ![w] = Resting.worker]
  /\ UNCHANGED <<file, proc, held, beat, late, boot, slow>>

LateWrite(p) ==
  /\ late[p] # None
  /\ file' = [by |-> p, age |-> late[p]]
  /\ late' = [late EXCEPT ![p] = None]
  /\ UNCHANGED <<proc, held, worker, beat, boot, slow, mishaps>>

-----------------------------------------------------------------------------
(* Processes and the clock.                                                  *)

(* reclaimStale, first half: the directory as it is when the boot reads it.   *)
BootList(p) ==
  /\ proc[p] = "unborn"
  /\ proc' = [proc EXCEPT ![p] = "booting"]
  /\ boot' = [boot EXCEPT ![p] = file]
  /\ UNCHANGED <<file, held, worker, beat, late, slow, mishaps>>

(* Second half: what was listed is judged, and removed by its path.          *)
BootJudge(p) ==
  /\ proc[p] = "booting"
  /\ file' = IF boot[p] # NoFile /\ ~IsLive(p, boot[p]) THEN NoFile ELSE file
  /\ proc' = [proc EXCEPT ![p] = "up"]
  /\ boot' = [boot EXCEPT ![p] = NoFile]
  /\ UNCHANGED <<held, worker, beat, late, slow, mishaps>>

(* The process goes, and everything but the file with it.                    *)
Crash(p) ==
  /\ Alive(p)
  /\ proc' = [proc EXCEPT ![p] = "dead"]
  /\ held' = [held EXCEPT ![p] = FALSE]
  /\ worker' = [w \in Workers |-> IF ProcOf[w] = p THEN Resting.worker ELSE worker[w]]
  /\ beat' = [w \in Workers |-> IF ProcOf[w] = p THEN Resting.beat ELSE beat[w]]
  /\ late' = [late EXCEPT ![p] = None]
  /\ boot' = [boot EXCEPT ![p] = NoFile]
  /\ UNCHANGED <<file, slow, mishaps>>

(* Another program is given the pid of a dead instance.                      *)
PidReused(p) ==
  /\ proc[p] = "dead" /\ Mishap
  /\ proc' = [proc EXCEPT ![p] = "reused"]
  /\ UNCHANGED <<file, held, worker, beat, late, boot, slow>>

(* The host is suspended, or the process starved: no promise about its pace. *)
FallBehind(p) ==
  /\ Alive(p) /\ p \notin slow /\ Mishap
  /\ slow' = slow \cup {p}
  /\ UNCHANGED <<file, proc, held, worker, beat, late, boot>>

(* A process that keeps up has no write on its way and no beat due when the  *)
(* clock moves on.                                                           *)
KeepsUp(p) ==
  /\ proc[p] # "booting" /\ late[p] = None
  /\ \A w \in Workers : ProcOf[w] = p =>
       /\ ~Is(w, "claiming") /\ ~Is(w, "removing")
       /\ beat[w].step # "writing"
       /\ ~(beat[w].step = "rest" /\ beat[w].due = BeatEvery)

Older(age) == IF age < StaleAfter THEN age + 1 ELSE age
Aged(lease) == IF lease = NoFile THEN NoFile ELSE [lease EXCEPT !.age = Older(@)]

Tick ==
  /\ \A p \in Procs : Alive(p) /\ p \notin slow => KeepsUp(p)
  /\ file' = Aged(file)
  /\ worker' = [w \in Workers |->
       IF Is(w, "claiming") THEN [worker[w] EXCEPT !.age = Older(@)] ELSE worker[w]]
  /\ beat' = [w \in Workers |->
       CASE beat[w].step = "writing" -> [beat[w] EXCEPT !.age = Older(@)]
         [] beat[w].step = "rest" /\ beat[w].due < BeatEvery ->
              [beat[w] EXCEPT !.due = @ + 1]
         [] OTHER -> beat[w]]
  /\ late' = [p \in Procs |-> IF late[p] = None THEN None ELSE Older(late[p])]
  /\ boot' = [p \in Procs |-> Aged(boot[p])]
  /\ UNCHANGED <<proc, held, slow, mishaps>>

-----------------------------------------------------------------------------

WorkerStep(w) == ClaimWrite(w) \/ BeatStart(w) \/ BeatWrite(w) \/ Remove(w)

Next ==
  \/ \E w \in Workers : \/ WorkerStep(w) \/ ClaimStart(w) \/ End(w)
                        \/ ClaimFails(w) \/ BeatFails(w) \/ RemoveFails(w)
  \/ \E p \in Procs : \/ LateWrite(p) \/ BootList(p) \/ BootJudge(p)
                      \/ Crash(p) \/ PidReused(p) \/ FallBehind(p)
  \/ Tick

Spec == Init /\ [][Next]_vars

(* Writes land, beats are beaten and time passes; nobody has to want a lease. *)
FairSpec ==
  /\ Spec
  /\ \A w \in Workers : WF_vars(WorkerStep(w))
  /\ \A p \in Procs : WF_vars(LateWrite(p)) /\ WF_vars(BootJudge(p))
  /\ WF_vars(Tick)

-----------------------------------------------------------------------------
(* What a claim is worth.                                                    *)

(* Within one process the gate and the in-memory set let at most one fiber     *)
(* claim or work on the subject, whatever happens to the file.               *)
OneWorkerPerProcess ==
  \A v, w \in Workers :
    /\ ProcOf[v] = ProcOf[w]
    /\ worker[v].step \in {"claiming", "working"}
    /\ worker[w].step \in {"claiming", "working"}
    => v = w

(* "Three heartbeats rather than one": while a beat's write or two readers'   *)
(* race goes wrong once, the lease of a holder that keeps up still reads as  *)
(* live to every other process, so nobody takes its subject or reclaims it.  *)
HolderReadsLive ==
  (file # NoFile /\ held[file.by] /\ file.by \notin slow)
    => \A q \in Procs : Alive(q) => IsLive(q, file)

(* The file catches up with the claims. "A lease that has gone missing is      *)
(* rewritten rather than mourned": a remove of somebody else, late or mistaken,*)
(* does not leave a working holder without a file for good. And a file nobody  *)
(* stands behind, left by a crash, a failed remove, a rename that landed after *)
(* the release or a pid another program was given, does not block the subject  *)
(* for good.                                                                 *)
FileFollowsHolder ==
  /\ \A w \in Workers :
       (Is(w, "working") /\ file = NoFile) ~> (file # NoFile \/ ~Is(w, "working"))
  /\ (\A p \in Procs : ~held[p])
       ~> ((\E p \in Procs : held[p]) \/ \A q \in Procs : Alive(q) => ~Taken(q))

=============================================================================
