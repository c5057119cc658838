------------------------------ MODULE MCRunFeed -----------------------------
(* The instances TLC checks: how often each disturbance may happen.          *)
EXTENDS RunFeed

Quiet == [d \in Disturbances |-> 0]
With(k, l) == [Quiet EXCEPT ![k] = 1, ![l] = 1]

(* Nothing, any one disturbance, any two of different kinds.                 *)
Pairs == {Quiet} \cup {With(k, l) : k, l \in Disturbances}

=============================================================================
