------------------------------- MODULE MCBus -------------------------------
(* A spawn that deduplicates and a verb that does not, between two         *)
(* processes of the calling domain and one of the receiving domain.  Each  *)
(* call is made alone: the two share nothing but the sender's batch.       *)
EXTENDS Bus, TLC

CONSTANTS k1, k2, c1, c2, r1

MCOutcome == k1 :> {"commit", "retry"} @@ k2 :> {"terminal", "malformed", "reject"}
=============================================================================
