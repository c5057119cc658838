---------------------------- MODULE MCQuotaGate -----------------------------
(* Two cards and two slots on one subscription.                              *)
EXTENDS QuotaGate

(* Plenty, and a window where one run in flight is one too many.             *)
Readings == {50, 93}

=============================================================================
