------------------------------ MODULE MCUnixFD ------------------------------
(***************************************************************************)
(* UnixFD on a small instance: two threads, a few heap addresses, handle   *)
(* values and numbers.                                                     *)
(***************************************************************************)
EXTENDS UnixFD

CONSTANTS t1, t2, o1, o2, o3, h1, h2, h3

ThreadsDef == {t1, t2}
ObjsDef == {o1, o2, o3}
HandlesDef == {h1, h2, h3}

\* Closed handle values that no object remembers are interchangeable: the kernel
\* hands them out in one order.  A value that an object still carries after its
\* CloseHandle comes back at any time.
Forgotten(h) == os[h] = "closed" /\ \A o \in Objs : obj[o].handle # h
InOrder ==
    \A h, k \in OsHandles :
        <<h, k>> \in {<<h1, h2>>, <<h2, h3>>, <<h1, h3>>} /\ Forgotten(h) /\ Forgotten(k)
            /\ os'[h] = "closed" => os'[k] = "closed"
=============================================================================
