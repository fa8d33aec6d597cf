------------------------------ MODULE LazyLock ------------------------------
(***************************************************************************)
(* mutex_t of cutils (threads.h) on Windows: a CRITICAL_SECTION that the   *)
(* first mutex_lock initialises, with an ordinary integer to tell who is   *)
(* first.  thread_store_set (threads.c) has the same steps for the lock of *)
(* a thread_store_t, with -1 and -2 for 1 and 2.                           *)
(***************************************************************************)
EXTENDS Integers

CONSTANTS
    Threads,
    Null,      \* no owner
    RaceFree   \* callers: no two threads are the first at once

ASSUME LockAssumption == Null \notin Threads /\ RaceFree \in BOOLEAN

VARIABLES
    init,   \* lock->init: 0, 1 while the section is being initialised, 2
    owner,  \* the owner of the critical section
    at      \* where each thread is in mutex_lock, "in" until mutex_unlock

lockVars == <<init, owner, at>>

LockPcs == {"out", "mark", "setup", "publish", "wait", "enter", "in"}

LockTypeOK ==
    /\ init \in 0..2
    /\ owner \in Threads \cup {Null}
    /\ at \in [Threads -> LockPcs]

\* MUTEX_INITIALIZER
LockInit == init = 0 /\ owner = Null /\ at = [t \in Threads |-> "out"]

GoOn(t, next) == at' = [at EXCEPT ![t] = next]

-----------------------------------------------------------------------------
(* mutex_lock *)

\* The callers' part: while one thread has found the lock new and not yet said
\* so, no other thread looks.  Nothing in the code sees to it.
MayLook == RaceFree => \A u \in Threads : at[u] # "mark"

\* if (!lock->init)
Check(t) ==
    /\ at[t] = "out" /\ MayLook
    /\ GoOn(t, IF init = 0 THEN "mark" ELSE "wait")
    /\ UNCHANGED <<init, owner>>

\* lock->init = 1
Mark(t) ==
    /\ at[t] = "mark"
    /\ init' = 1
    /\ GoOn(t, "setup")
    /\ UNCHANGED owner

\* InitializeCriticalSection: whoever owned the section owns it no longer.
InitializeSection(t) ==
    /\ at[t] = "setup"
    /\ owner' = Null
    /\ GoOn(t, "publish")
    /\ UNCHANGED init

\* Mutant of Published: the value is added to.
Published_Added == init + 2

Published == 2

\* lock->init = 2
Publish(t) ==
    /\ at[t] = "publish"
    /\ init' = Published
    /\ GoOn(t, "enter")
    /\ UNCHANGED owner

\* Mutant of Ready: the loop ends as soon as somebody has begun.
Ready_Begun == init # 0

\* while (lock->init != 2) Sleep(10)
Ready == init = 2

Wait(t) ==
    /\ at[t] = "wait" /\ Ready
    /\ GoOn(t, "enter")
    /\ UNCHANGED <<init, owner>>

\* EnterCriticalSection
Enter(t) ==
    /\ at[t] = "enter" /\ owner = Null
    /\ owner' = t
    /\ GoOn(t, "in")
    /\ UNCHANGED init

\* mutex_unlock: LeaveCriticalSection
Leave(t) ==
    /\ at[t] = "in"
    /\ owner' = Null
    /\ GoOn(t, "out")
    /\ UNCHANGED init

\* mutex_lock from its second step on
Locking(t) ==
    Mark(t) \/ InitializeSection(t) \/ Publish(t) \/ Wait(t) \/ Enter(t)

-----------------------------------------------------------------------------
\* The lock is held by one thread at a time, also by those that came while the
\* first one was initialising it.
Excludes ==
    \A t, u \in Threads : at[t] = "in" /\ at[u] = "in" => t = u

-----------------------------------------------------------------------------
(* The inductive invariant behind Excludes, when no two threads are first *)

\* The first thread is alone until it has initialised the section, and from
\* then on nobody finds the lock new.
LazyInv ==
    /\ \A t \in Threads :
        /\ at[t] = "mark" => init = 0
        /\ at[t] \in {"setup", "publish"} => init = 1
        /\ at[t] \in {"enter", "in"} => init = 2
    /\ \A t, u \in Threads :
        at[t] \in {"mark", "setup", "publish"} /\ at[u] \in {"mark", "setup", "publish"}
            => t = u
    /\ \A t \in Threads : at[t] = "in" <=> owner = t
=============================================================================
