---------------------------- MODULE InstanceLog ----------------------------
(***************************************************************************)
(* What the runtime promises for one workflow instance: its state is the   *)
(* result of applying commands one after the other, each to the state left *)
(* by the one before.  The state is represented by the sequence of the     *)
(* operations that produced it, so that two states differ exactly when     *)
(* their histories do.  Once `sealed`, the instance never changes again.   *)
(***************************************************************************)
EXTENDS Sequences

CONSTANT Tasks          \* the operations that may apply a command

VARIABLES state,        \* the operations applied so far, oldest first
          sealed        \* the instance is quarantined

logVars == <<state, sealed>>

Init == state = <<>> /\ sealed = FALSE

Apply(t) == /\ ~sealed
            /\ state' = Append(state, t)
            /\ sealed' \in BOOLEAN

Next == \E t \in Tasks : Apply(t)

Spec == Init /\ [][Next]_logVars
=============================================================================
