--------------------------- MODULE CutilsThreads ---------------------------
(***************************************************************************)
(* Threads that log and that use a thread store, each with its own lazily  *)
(* initialised lock, one call at a time.                                   *)
(***************************************************************************)
EXTENDS AndroidLog

CONSTANTS Values, Foreign, Indexes, OutOfIndexes

\* The index that somebody else has is not given out.
ASSUME IndexAssumption == 0 \notin Indexes

VARIABLES lock_init, lock_owner, storeAt, storeStage, arg, has_tls, tls, slots,
          tlsData, stored

Store == INSTANCE ThreadStore WITH at <- storeAt, stage <- storeStage

storeVars == <<lock_init, lock_owner, storeAt, storeStage, arg, has_tls, tls, slots,
               tlsData, stored>>
allVars == <<logVars, storeVars>>

TypeOK == LogTypeOK /\ Store!StoreTypeOK

Init == LogInit /\ Store!StoreInit

Logs(t) == at[t] # "out"
Stores(t) == storeStage[t] # "idle"

Call(t) ==
    /\ ~Logs(t) /\ ~Stores(t)
    /\ \/ (LogCall(t) \/ AssertPiece(t)) /\ UNCHANGED storeVars
       \/ Store!SetCall(t) /\ UNCHANGED logVars

Step(t) ==
    \/ LogStep(t) /\ UNCHANGED storeVars
    \/ Store!StoreStep(t) /\ UNCHANGED logVars

Next == \E t \in Threads : Call(t) \/ Step(t)

\* A thread in a call runs on, and a critical section admits every waiter in
\* the end.
Fairness == \A t \in Threads : SF_allVars(Step(t))

Spec == Init /\ [][Next]_allVars /\ Fairness

-----------------------------------------------------------------------------
(* Properties *)

\* A thread reads back what it stored (ThreadStore), whatever others do.
ReadsBack == Store!ReadsBack

\* Every call returns: no thread waits for ever for a lock that another one is
\* initialising, holds, or left by an early return.
CallsReturn == \A t \in Threads : Logs(t) \/ Stores(t) ~> ~Logs(t) /\ ~Stores(t)
=============================================================================
