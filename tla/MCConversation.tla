--------------------------- MODULE MCConversation ---------------------------
(* The instances TLC checks: how often each disturbance may happen.          *)
EXTENDS Conversation

Quiet == [d \in Disturbances |-> 0]

With(words, k, l) == [Quiet EXCEPT !["words"] = words, ![k] = 1, ![l] = 1]

(* Three words and nothing else; two words and one disturbance; one word and   *)
(* a crash after another.                                                    *)
Chat ==
  {[Quiet EXCEPT !["words"] = 3]}
    \cup {With(2, k, k) : k \in Disturbances \ {"words"}}
    \cup {With(1, k, "crashes") : k \in {"stops", "refusals"}}

(* Two threads and one slot: what must happen all the same.                   *)
Lane ==
  {[Quiet EXCEPT !["words"] = 2]}
    \cup {With(1, k, k) : k \in Disturbances \ {"words"}}

=============================================================================
