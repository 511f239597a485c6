----------------------------- MODULE MCJobQueue -----------------------------
(* The jobs and the concurrent worker RPCs that the configurations choose  *)
(* from.                                                                   *)
EXTENDS JobQueue

CONSTANTS j1, c1, c2
=============================================================================
