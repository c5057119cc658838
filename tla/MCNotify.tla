------------------------------- MODULE MCNotify -----------------------------
(* The instances TLC checks: how often each disturbance may happen.          *)
EXTENDS Notify

Quiet == [d \in Disturbances |-> 0]
Only(d, n) == [Quiet EXCEPT ![d] = n]

(* Nothing, or one kind of disturbance: once, or twice for what a retry meets. *)
Disturbed == {Quiet} \cup {Only(d, 1) : d \in Disturbances \ {"refusals", "faults"}}
             \cup {Only("refusals", 2), Only("faults", 2)}

Undisturbed == {Quiet}

=============================================================================
