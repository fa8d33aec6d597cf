------------------------------ MODULE MCSelect ------------------------------
(***************************************************************************)
(* Select with a thread that passes a set, one that polls and two that     *)
(* sleep, which are alike; three sockets, whose handles are also           *)
(* descriptors.                                                            *)
(***************************************************************************)
EXTENDS Select

CONSTANTS t1, t2, t3, t4

HandleOfDef == 3 :> 4 @@ 4 :> 5 @@ 5 :> 8

Sleepers == Permutations({t2, t3})

\* The threads share nothing but the timer, which poll() has no part in.  So a
\* poll() is called and returns while the others are where they started, and they
\* move before the first poll() and during one.
Apart ==
    IF UNCHANGED <<phase[t4], fds, revents>>
    THEN fds[t4] = <<>> \/ phase[t4] = "kernel"
    ELSE set[t1] = <<>> /\ form[t1] = "fds" /\ \A t \in {t1, t2, t3} : phase[t] = "out"
=============================================================================
