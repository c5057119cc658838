------------------------------ MODULE Timeline ------------------------------
(***************************************************************************)
(* What somebody who follows a run is promised (run-event.ts, sse.ts): rows *)
(* are only ever added, what arrives arrives in order, nothing is skipped   *)
(* that was there when the follower passed it, and the stream is closed     *)
(* only on a row that says the run is over, or on a run that is, by a       *)
(* follower that has caught up. No file, reader, notice or tick appears     *)
(* here; RunFeed is shown to implement it.                                 *)
(***************************************************************************)
EXTENDS Naturals

CONSTANTS
  Seqs        \* the ordinals a row may have

VARIABLES
  stored,     \* the ordinals that have a row
  ends,       \* those whose row says that the run is over
  over,       \* the run is no longer live
  got,        \* what the follower was given
  at,         \* how far it has followed
  caught,     \* it has found nothing ahead of it, and asks whether the run is over
  closed      \* its stream has ended

timeline == <<stored, ends, over, got, at, caught, closed>>

TimelineInit ==
  /\ stored = {} /\ ends = {} /\ over = FALSE
  /\ got = {} /\ at = 0 /\ caught = FALSE /\ closed = FALSE

(* Rows are added and the run ends; neither is ever taken back.              *)
Grow ==
  /\ stored \subseteq stored' /\ stored' \subseteq Seqs
  /\ ends \subseteq ends' /\ ends' \subseteq stored'
  /\ over => over'
  /\ UNCHANGED <<got, at, caught, closed>>

(* The follower is given everything up to some row that it has not passed.    *)
Give(upto) ==
  /\ ~closed /\ upto \in stored /\ upto > at
  /\ got' = got \cup {s \in stored : s > at /\ s <= upto}
  /\ at' = upto /\ caught' = FALSE
  /\ closed' \in BOOLEAN /\ (closed' => upto \in ends)
  /\ UNCHANGED <<stored, ends, over>>

(* Nothing is ahead. Rows may still be added before the run is asked about.   *)
CatchUp ==
  /\ ~closed /\ \A s \in stored : s <= at
  /\ caught' = TRUE
  /\ UNCHANGED <<stored, ends, over, got, at, closed>>

Resume ==
  /\ caught' = FALSE
  /\ UNCHANGED <<stored, ends, over, got, at, closed>>

Hangup ==
  /\ caught /\ over
  /\ caught' = FALSE /\ closed' = TRUE
  /\ UNCHANGED <<stored, ends, over, got, at>>

TimelineNext ==
  Grow \/ CatchUp \/ Resume \/ Hangup \/ \E upto \in Seqs : Give(upto)

TimelineSpec == TimelineInit /\ [][TimelineNext]_timeline

=============================================================================
