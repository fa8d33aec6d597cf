------------------------------- MODULE FdTable -------------------------------
(***************************************************************************)
(* What a table of descriptors promises its callers: a partial map from    *)
(* descriptor numbers to kernel handles, one descriptor per handle, in     *)
(* which fresh numbers ascend.  Null is "not open", Invalid a descriptor   *)
(* without a kernel object (a paging file that was never mapped).          *)
(***************************************************************************)
EXTENDS Integers

CONSTANTS OsHandles, MaxFd, Null, Invalid

VARIABLES
    desc,  \* descriptor number -> kernel handle, Invalid or Null
    last   \* the last number the table chose

fdVars == <<desc, last>>

Numbers == 1..MaxFd

Unused(h) == h = Invalid \/ \A fd \in Numbers : desc[fd] # h

Init == desc = [fd \in Numbers |-> Null] /\ last = 0

\* A descriptor under a number the table chooses: beyond every earlier choice.
Allocate(fd, h) ==
    /\ desc[fd] = Null /\ fd > last /\ Unused(h)
    /\ desc' = [desc EXCEPT ![fd] = h]
    /\ last' = fd

\* A descriptor under a number the caller chooses.
Adopt(fd, h) ==
    /\ desc[fd] = Null /\ Unused(h)
    /\ desc' = [desc EXCEPT ![fd] = h]
    /\ UNCHANGED last

\* A descriptor gets its kernel object.
Bind(fd, h) ==
    /\ desc[fd] = Invalid /\ Unused(h)
    /\ desc' = [desc EXCEPT ![fd] = h]
    /\ UNCHANGED last

Close(fd) ==
    /\ desc[fd] # Null
    /\ desc' = [desc EXCEPT ![fd] = Null]
    /\ UNCHANGED last

Next ==
    \E fd \in Numbers :
        \/ Close(fd)
        \/ \E h \in OsHandles \cup {Invalid} : Allocate(fd, h)
        \/ \E h \in OsHandles : Adopt(fd, h) \/ Bind(fd, h)

Spec == Init /\ [][Next]_fdVars
=============================================================================
