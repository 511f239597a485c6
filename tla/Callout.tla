------------------------------ MODULE Callout ------------------------------
(***************************************************************************)
(* What a cross-domain callout promises: the three stages of the pending   *)
(* invocation registry (bpmn-lite-store/src/pending.rs), tied to the work  *)
(* the receiving domain does.  A callout is open from the commit that      *)
(* intends it, accepted once the receiver's execution is recorded, closed  *)
(* once its result is taken, which fails the calling instance.  No stage   *)
(* is skipped or repeated, none is reached before the receiver ran the     *)
(* verb, and the receiver runs a deduplicated verb once.                   *)
(***************************************************************************)
EXTENDS Naturals

CONSTANTS Calls,      \* callouts, each with its idempotency key
          Once        \* those whose verb deduplicates on the key

VARIABLES stage,      \* stage of each callout's pending row
          runs        \* times the receiver carried out the verb

Init ==
  /\ stage = [k \in Calls |-> "open"]
  /\ runs = [k \in Calls |-> 0]

Run(k) ==
  /\ k \in Once => runs[k] = 0
  /\ runs' = [runs EXCEPT ![k] = @ + 1]
  /\ UNCHANGED stage

Accept(k) ==
  /\ stage[k] = "open"
  /\ runs[k] > 0
  /\ stage' = [stage EXCEPT ![k] = "accepted"]
  /\ UNCHANGED runs

Close(k) ==
  /\ stage[k] = "accepted"
  /\ stage' = [stage EXCEPT ![k] = "closed"]
  /\ UNCHANGED runs

Next == \E k \in Calls : Run(k) \/ Accept(k) \/ Close(k)

Spec == Init /\ [][Next]_<<stage, runs>>
=============================================================================
