---------------------------- MODULE MCPopenPool -----------------------------
(***************************************************************************)
(* Instances of PopenPool.                                                 *)
(***************************************************************************)
EXTENDS PopenPool

CONSTANTS t1, t2, t3, w1, w2
=============================================================================
