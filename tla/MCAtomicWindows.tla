--------------------------- MODULE MCAtomicWindows ---------------------------
(***************************************************************************)
(* AtomicWindows with two threads and a word that wraps.                   *)
(***************************************************************************)
EXTENDS AtomicWindows, TLC

CONSTANTS t1, t2

ThreadsDef == {t1, t2}
Symmetry == Permutations(ThreadsDef)
=============================================================================
