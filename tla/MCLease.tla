------------------------------- MODULE MCLease ------------------------------
(* Two instances, one of them with two fibers that want the subject.         *)
EXTENDS Lease

CONSTANTS p1, p2, w1, w2, w3

Placed == [w \in {w1, w2, w3} |-> IF w = w3 THEN p2 ELSE p1]

=============================================================================
