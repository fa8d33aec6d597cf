-------------------------- MODULE MCCutilsThreads --------------------------
(***************************************************************************)
(* CutilsThreads on a small instance.                                      *)
(***************************************************************************)
EXTENDS CutilsThreads

CONSTANTS t1, t2, t3, v1, v2
=============================================================================
