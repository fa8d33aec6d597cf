--------------------------- MODULE TimerResolution ---------------------------
(***************************************************************************)
(* TimerResolutionController, which select() puts around a wait.  The      *)
(* count of short waits is atomic; timeBeginPeriod and timeEndPeriod,      *)
(* which the first and the last of them call, are steps that follow it, so *)
(* the calls of different threads reach the system in any order.  The      *)
(* system counts begins and ends and keeps the resolution high while there *)
(* are more begins.                                                        *)
(***************************************************************************)
EXTENDS Integers, FiniteSets

CONSTANT Threads

ASSUME TimerAssumption == IsFiniteSet(Threads)

VARIABLES
    count,  \* highResolutionTimerCount
    begun,  \* the system: calls of timeBeginPeriod less those of timeEndPeriod
    pc      \* where each thread is in select()

timerVars == <<count, begun, pc>>

TypeOK ==
    /\ count \in Nat
    /\ begun \in Nat
    /\ pc \in [Threads -> {"idle", "begin", "wait", "long_wait", "end"}]

Init == count = 0 /\ begun = 0 /\ pc = [t \in Threads |-> "idle"]

Goto(t, next) == pc' = [pc EXCEPT ![t] = next]

-----------------------------------------------------------------------------
\* Mutants: every constructor raises the resolution; the second one does; the
\* last destructor but one lowers it.
IsFirst_Always(n) == TRUE
IsFirst_Second(n) == n = 2
IsLast_OffByOne(n) == n = 1

IsFirst(n) == n = 1
IsLast(n) == n = 0

\* The constructor, for a wait of less than 16 ms ...
EnterShort(t) ==
    /\ pc[t] = "idle"
    /\ count' = count + 1
    /\ Goto(t, IF IsFirst(count + 1) THEN "begin" ELSE "wait")
    /\ UNCHANGED begun

\* ... and for any other, or none, which leaves the count alone.
EnterLong(t) == pc[t] = "idle" /\ Goto(t, "long_wait") /\ UNCHANGED <<count, begun>>

TimeBeginPeriod(t) ==
    /\ pc[t] = "begin"
    /\ begun' = begun + 1
    /\ Goto(t, "wait")
    /\ UNCHANGED count

\* The wait is over: the destructor.
LeaveShort(t) ==
    /\ pc[t] = "wait"
    /\ count' = count - 1
    /\ Goto(t, IF IsLast(count - 1) THEN "end" ELSE "idle")
    /\ UNCHANGED begun

LeaveLong(t) == pc[t] = "long_wait" /\ Goto(t, "idle") /\ UNCHANGED <<count, begun>>

TimeEndPeriod(t) ==
    /\ pc[t] = "end"
    /\ begun' = begun - 1
    /\ Goto(t, "idle")
    /\ UNCHANGED count

ShortStep(t) == TimeBeginPeriod(t) \/ LeaveShort(t) \/ TimeEndPeriod(t)

Next == \E t \in Threads : EnterShort(t) \/ EnterLong(t) \/ ShortStep(t) \/ LeaveLong(t)

TimerSpec == Init /\ [][Next]_timerVars

-----------------------------------------------------------------------------
(* Properties *)

At(step) == {t \in Threads : pc[t] = step}
Many(step) == Cardinality(At(step))

\* During a short wait the resolution is high, but for the moment in which
\* another thread, the first, has counted itself and not yet called the system.
RaisedInside == At("wait") # {} /\ At("begin") = {} => begun > 0

\* Outside of short waits the resolution is what it was, however the calls of
\* overlapping waits were ordered: none is lost and none is made twice.
LoweredOutside == At("begin") \cup At("wait") \cup At("end") = {} => begun = 0

\* At most the threads that are still to lower it hold the resolution beyond
\* the one that raised it: the system's count does not grow with waits.
BegunBounded == begun <= 1 + Many("end")

-----------------------------------------------------------------------------
(* The inductive invariant *)

\* The counter counts the short waits, at most one of them is about to call the
\* system, and the begins and ends to come explain the system's count.
Balanced ==
    /\ count = Many("begin") + Many("wait")
    /\ Many("begin") <= 1
    /\ begun + Many("begin") = Many("end") + (IF count > 0 THEN 1 ELSE 0)

TimerInv == TypeOK /\ Balanced
=============================================================================
