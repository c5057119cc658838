----------------------------- MODULE MCTaskLoop -----------------------------
(* The instances TLC checks: how often each disturbance may happen.          *)
EXTENDS TaskLoop, TLC

Quiet == [d \in Disturbances |-> 0]

(* Two cards, one slot, nothing that fails.                                  *)
Lane == {[Quiet EXCEPT !["moves"] = 1], [Quiet EXCEPT !["deferrals"] = 1]}

(* What must happen although people interfere, lease files are left behind    *)
(* and the process is restarted.                                             *)
Promised == {[Quiet EXCEPT !["moves"] = 1, !["crashes"] = 1, !["leftovers"] = 1],
             [Quiet EXCEPT !["buttons"] = 1, !["crashes"] = 1],
             [Quiet EXCEPT !["buttons"] = 1, !["shutdowns"] = 1]}

(* Exactly one write or read fails, and nothing else happens.                *)
OneFault == {[Quiet EXCEPT !["faults"] = 1]}

(* Two processes over one database: a lease goes stale under its holder, a    *)
(* process is killed, a write or read fails and lease files are left behind,   *)
(* or a person's command fails.                                              *)
TwoLoops == {[Quiet EXCEPT !["stalls"] = 1], [Quiet EXCEPT !["crashes"] = 1],
             [Quiet EXCEPT !["faults"] = 1, !["leftovers"] = 1],
             [Quiet EXCEPT !["buttons"] = 1, !["rejections"] = 1]}

(* Processes are alike: nothing tells one from another.                       *)
AnyLoop == Permutations(Loops)

=============================================================================
