----------------------------- MODULE MCProposals ----------------------------
(* The instances TLC checks: how often each disturbance may happen.          *)
EXTENDS Proposals, TLC

With(runs, presses, crashes, faults) ==
  [d \in Disturbances |->
     CASE d = "runs" -> runs [] d = "presses" -> presses
       [] d = "crashes" -> crashes [] OTHER -> faults]

(* Two runs whose hooks may overlap, and up to three answers; one thing goes  *)
(* wrong at most.                                                            *)
Answers == {With(2, 3, 0, 0), With(2, 2, 1, 0), With(2, 2, 0, 1)}

(* Names, paths, bodies, fibers and requests are each alike.                  *)
Alike == Permutations(Files) \cup Permutations(Paths) \cup Permutations(Bodies)
           \cup Permutations(Hooks) \cup Permutations(Clicks)

=============================================================================
