------------------------ MODULE MCTransitionStore ------------------------
(* Three operations on one instance: a guarded and a nested one in the     *)
(* same process, which share the owner string of one engine handle, and a  *)
(* guarded one in another process.                                         *)
EXTENDS TransitionStore, TLC

CONSTANTS t1, t2, t3, a, b, p, q

MCTasks == {t1, t2, t3}
MCOwner == (t1 :> a) @@ (t2 :> a) @@ (t3 :> b)
MCProcess == (t1 :> p) @@ (t2 :> p) @@ (t3 :> q)
MCGuarded == {t1, t3}
=============================================================================
