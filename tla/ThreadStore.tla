---------------------------- MODULE ThreadStore ----------------------------
(***************************************************************************)
(* thread_store_t of cutils (threads.c) on Windows: one value per thread,  *)
(* under a TLS index that the first thread_store_set allocates, with the   *)
(* store's lazily initialised lock held.  thread_store_get takes no lock.  *)
(***************************************************************************)
EXTENDS Integers

CONSTANTS
    Threads,
    Values,    \* what threads store
    Foreign,   \* what somebody else's TLS slot holds
    Indexes,   \* TLS indexes of the process
    OutOfIndexes,  \* TLS_OUT_OF_INDEXES
    Null,      \* no owner, a null pointer
    RaceFree   \* callers: no two threads are the first at once

VARIABLES
    lock_init, lock_owner, at,  \* the store's lock, as in LazyLock
    stage,    \* what each thread does next in thread_store_set
    arg,      \* the value each thread's call stores
    has_tls, tls,
    slots,    \* kernel: TLS indexes the store has allocated
    tlsData,  \* kernel: what each index holds for each thread
    stored    \* the value each thread stored last

SL == INSTANCE LazyLock WITH init <- lock_init, owner <- lock_owner

bodyVars == <<stage, arg, has_tls, tls, slots, tlsData, stored>>
storeVars == <<lock_init, lock_owner, at, bodyVars>>

\* Index 0, the value of tls in THREAD_STORE_INITIALIZER, is somebody else's.
StoreTypeOK ==
    /\ SL!LockTypeOK
    /\ stage \in [Threads -> {"idle", "lock", "alloc", "flag", "unlock", "fail", "set"}]
    /\ arg \in [Threads -> Values \cup {Null}]
    /\ has_tls \in BOOLEAN
    /\ tls \in Indexes \cup {0, OutOfIndexes}
    /\ slots \subseteq Indexes
    /\ tlsData \in [Indexes \cup {0} -> [Threads -> Values \cup {Foreign, Null}]]
    /\ stored \in [Threads -> Values \cup {Null}]

StoreInit ==
    /\ SL!LockInit
    /\ stage = [t \in Threads |-> "idle"]
    /\ arg = [t \in Threads |-> Null]
    /\ has_tls = FALSE /\ tls = 0
    /\ slots = {}
    /\ tlsData = [i \in Indexes \cup {0} |->
                     [t \in Threads |-> IF i = 0 THEN Foreign ELSE Null]]
    /\ stored = [t \in Threads |-> Null]

Stage(t, now, next) == stage[t] = now /\ stage' = [stage EXCEPT ![t] = next]

-----------------------------------------------------------------------------
(* thread_store_set *)

SetCall(t) ==
    /\ Stage(t, "idle", "lock")
    /\ \E v \in Values : arg' = [arg EXCEPT ![t] = v]
    /\ SL!Check(t)
    /\ UNCHANGED <<has_tls, tls, slots, tlsData, stored>>

SetLock(t) == SL!Locking(t) /\ UNCHANGED bodyVars

\* Mutant of Allocated: the flag is not looked at again under the lock.
Allocated_Unseen == FALSE

\* if (!store->has_tls)
Allocated == has_tls

Inside(t) ==
    /\ at[t] = "in"
    /\ Stage(t, "lock", IF Allocated THEN "unlock" ELSE "alloc")
    /\ UNCHANGED <<lock_init, lock_owner, at, arg, has_tls, tls, slots, tlsData, stored>>

\* Which free index the system gives out makes no difference.
NextIndex == CHOOSE i \in Indexes : i \notin slots

\* Mutant of TlsAlloc: the flag is set first.
TlsAlloc_FlagFirst(t) ==
    /\ \/ /\ Stage(t, "alloc", "flag")
          /\ has_tls' = TRUE
          /\ UNCHANGED <<tls, slots>>
       \/ /\ Stage(t, "flag", "unlock")
          /\ slots # Indexes
          /\ tls' = NextIndex /\ slots' = slots \cup {NextIndex}
          /\ UNCHANGED has_tls
    /\ UNCHANGED <<lock_init, lock_owner, at, arg, tlsData, stored>>

\* TlsAlloc, with its result in tls; a new index reads null in every thread
TlsAlloc(t) ==
    /\ Stage(t, "alloc", "flag")
    /\ slots # Indexes
    /\ tls' = NextIndex /\ slots' = slots \cup {NextIndex}
    /\ UNCHANGED <<lock_init, lock_owner, at, arg, has_tls, tlsData, stored>>

\* ... or none, and tls is left as it came
TlsAllocFails(t) ==
    /\ Stage(t, "alloc", "fail")
    /\ tls' = OutOfIndexes
    /\ UNCHANGED <<lock_init, lock_owner, at, arg, has_tls, slots, tlsData, stored>>

\* store->has_tls = 1
Flag(t) ==
    /\ Stage(t, "flag", "unlock")
    /\ has_tls' = TRUE
    /\ UNCHANGED <<lock_init, lock_owner, at, arg, tls, slots, tlsData, stored>>

SetUnlock(t) ==
    /\ Stage(t, "unlock", "set")
    /\ SL!Leave(t)
    /\ UNCHANGED <<arg, has_tls, tls, slots, tlsData, stored>>

\* Mutant of GivesUp: the early return leaves the lock held.
GivesUp_KeepsLock(t) ==
    /\ SL!GoOn(t, "out")
    /\ UNCHANGED <<lock_init, lock_owner>>

GivesUp(t) == SL!Leave(t)

\* The early return: the value is dropped.
ReturnUnset(t) ==
    /\ Stage(t, "fail", "idle")
    /\ GivesUp(t)
    /\ arg' = [arg EXCEPT ![t] = Null]
    /\ UNCHANGED <<has_tls, tls, slots, tlsData, stored>>

\* TlsSetValue, after the lock
SetValue(t) ==
    /\ Stage(t, "set", "idle")
    /\ tlsData' = [tlsData EXCEPT ![tls][t] = arg[t]]
    /\ stored' = [stored EXCEPT ![t] = arg[t]]
    /\ arg' = [arg EXCEPT ![t] = Null]
    /\ UNCHANGED <<lock_init, lock_owner, at, has_tls, tls, slots>>

StoreStep(t) ==
    \/ SetLock(t) \/ Inside(t) \/ TlsAlloc(t) \/ TlsAllocFails(t) \/ Flag(t)
    \/ SetUnlock(t) \/ ReturnUnset(t) \/ SetValue(t)

-----------------------------------------------------------------------------
(* thread_store_get, which writes nothing *)

\* tls is read after has_tls, and only then.
Got(t) == IF has_tls THEN tlsData[tls][t] ELSE Null

\* At any moment of any other thread's call, a thread that asks gets the value
\* it stored last, and null when it has stored none: the index is the one its
\* value is under, and only one was ever allocated.
ReadsBack ==
    /\ \A t \in Threads : stage[t] = "idle" => Got(t) = stored[t]
    /\ \A i, j \in slots : i = j

-----------------------------------------------------------------------------
(* The inductive invariant behind ReadsBack *)

\* The index is allocated and announced with the lock held, and used without.
StageInv ==
    \A t \in Threads :
        /\ stage[t] \in {"alloc", "flag", "unlock", "fail"} => at[t] = "in"
        /\ stage[t] \in {"idle", "set"} => at[t] = "out"
        /\ stage[t] = "alloc" => ~has_tls
        /\ stage[t] = "flag" => ~has_tls /\ tls \in slots
        /\ stage[t] \in {"unlock", "set"} => has_tls

\* One index at most, and none that nobody will announce; what it holds is what
\* the threads stored, and the other indexes are as the system gives them out.
IndexInv ==
    /\ \A i \in slots : i = tls
    /\ has_tls => tls \in slots
    /\ slots # {} => has_tls \/ \E t \in Threads : stage[t] = "flag"
    /\ \A t \in Threads :
        /\ stored[t] = IF has_tls THEN tlsData[tls][t] ELSE Null
        /\ \A i \in Indexes : (has_tls /\ i = tls) \/ tlsData[i][t] = Null

StoreInv == StoreTypeOK /\ SL!LazyInv /\ StageInv /\ IndexInv
=============================================================================
