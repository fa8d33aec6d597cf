----------------------------- MODULE MCPthreadNp -----------------------------
(***************************************************************************)
(* PthreadNp with four threads, two groups and a word that wraps.          *)
(***************************************************************************)
EXTENDS PthreadNp, TLC

CONSTANTS t1, t2, t3, t4, g1, g2, v1

ThreadsDef == {t1, t2, t3, t4}
GroupsDef == {g1, g2}

Symmetry == Permutations(ThreadsDef) \cup Permutations(GroupsDef)
=============================================================================
