---------------------------- MODULE AtomicWindows ----------------------------
(***************************************************************************)
(* The Windows build of cutils/atomic.h (atomic-windows.h).  Each of inc,  *)
(* dec, add, and, or, swap reads the word first and then runs the          *)
(* interlocked instruction, whose own result it drops: two steps.  The     *)
(* stores and the compare-and-set are one.                                 *)
(*                                                                         *)
(* Threads use four words the way the header describes: a counter, a word  *)
(* of flags (a set of bits, one per thread), a slot that is swapped and a  *)
(* lock (the header's lines on acquire and release).                       *)
(***************************************************************************)
EXTENDS Integers

CONSTANTS
    Threads,
    Word,    \* int32_t is counted modulo Word
    MaxOps,  \* bound: arithmetic operations per thread
    None     \* the initial token of the slot

ASSUME AtomicAssumption == Word \in Nat \ {0} /\ MaxOps \in Nat /\ None \notin Threads

VARIABLES
    mem,     \* the four words
    pc,      \* "idle", or the operation between its two steps
    retval,  \* the local of the operation
    net,     \* what the completed inc, dec and add of all threads amount to
    flag,    \* per thread: whether its bit is set, as far as it knows
    ops,     \* per thread: arithmetic operations so far
    locking  \* threads between a successful acquire_cas and the release_store

atomicVars == <<mem, pc, retval, net, flag, ops, locking>>

Arithmetic == {"inc", "dec", "add"}
Operations == Arithmetic \cup {"and", "or", "swap"}

Memory == [count : 0..(Word - 1), flags : SUBSET Threads,
           slot : Threads \cup {None}, lock : 0..1]

Locals == [count : 0..(Word - 1), flags : SUBSET Threads, slot : Threads \cup {None}]

\* The value of the word that an operation works on, in a local of its own.
WordOf(op) ==
    [count |-> IF op \in Arithmetic THEN mem.count ELSE 0,
     flags |-> IF op \in {"and", "or"} THEN mem.flags ELSE {},
     slot |-> IF op = "swap" THEN mem.slot ELSE None]

TypeOK ==
    /\ mem \in Memory
    /\ pc \in [Threads -> Operations \cup {"idle"}]
    /\ retval \in [Threads -> Locals]
    /\ net \in Int /\ ops \in [Threads -> 0..MaxOps]
    /\ flag \in [Threads -> BOOLEAN]
    /\ locking \subseteq Threads

Init ==
    /\ mem = [count |-> 0, flags |-> {}, slot |-> None, lock |-> 0]
    /\ pc = [t \in Threads |-> "idle"]
    /\ retval = [t \in Threads |-> [count |-> 0, flags |-> {}, slot |-> None]]
    /\ net = 0
    /\ flag = [t \in Threads |-> FALSE]
    /\ ops = [t \in Threads |-> 0]
    /\ locking = {}

-----------------------------------------------------------------------------
\* int32_t retval = *addr
Read(t, op) ==
    /\ pc[t] = "idle" /\ t \notin locking
    /\ op \in Arithmetic => ops[t] < MaxOps
    /\ ops' = [ops EXCEPT ![t] = IF op \in Arithmetic THEN @ + 1 ELSE @]
    /\ retval' = [retval EXCEPT ![t] = WordOf(op)]
    /\ pc' = [pc EXCEPT ![t] = op]
    /\ UNCHANGED <<mem, net, flag, locking>>

\* Mutants: the word does not wrap; the operation stores what it computed from
\* the value it read.
Added_Unwrapped(t, n) == mem.count + n
Added_Stored(t, n) == (retval[t].count + n) % Word
Ored_Stored(t) == retval[t].flags \cup {t}

\* The word after InterlockedIncrement, Decrement or ExchangeAdd, and after
\* _InterlockedOr.
Added(t, n) == (mem.count + n) % Word
Ored(t) == mem.flags \cup {t}

AddTo(t, n) ==
    /\ mem' = [mem EXCEPT !.count = Added(t, n)]
    /\ net' = net + n
    /\ UNCHANGED flag

SetFlags(t, flags, f) ==
    /\ mem' = [mem EXCEPT !.flags = flags]
    /\ flag' = [flag EXCEPT ![t] = f]
    /\ UNCHANGED net

Finish(t) ==
    /\ pc' = [pc EXCEPT ![t] = "idle"]
    /\ UNCHANGED <<retval, ops, locking>>

Inc(t) == pc[t] = "inc" /\ AddTo(t, 1) /\ Finish(t)
Dec(t) == pc[t] = "dec" /\ AddTo(t, -1) /\ Finish(t)
Add(t) == pc[t] = "add" /\ AddTo(t, 2) /\ Finish(t)

Or(t) == pc[t] = "or" /\ SetFlags(t, Ored(t), TRUE) /\ Finish(t)
And(t) == pc[t] = "and" /\ SetFlags(t, mem.flags \ {t}, FALSE) /\ Finish(t)

Swap(t) ==
    /\ pc[t] = "swap"
    /\ mem' = [mem EXCEPT !.slot = t]
    /\ Finish(t)
    /\ UNCHANGED <<net, flag>>

-----------------------------------------------------------------------------
(* The lock of the header: acquire_cas(0, 1) until it returns 0, then      *)
(* release_store(0).                                                       *)

\* Mutant of CasFailed: the result has the sense of other platforms.
CasFailed_NotInverted(old) == mem.lock = old

\* The result of android_atomic_acquire_cas: nonzero if *addr was not old.
CasFailed(old) == mem.lock # old

\* One call; a caller whose call fails tries again.
Acquire(t) ==
    /\ pc[t] = "idle" /\ t \notin locking
    /\ mem' = [mem EXCEPT !.lock = IF @ = 0 THEN 1 ELSE @]
    /\ locking' = IF CasFailed(0) THEN locking ELSE locking \cup {t}
    /\ UNCHANGED <<pc, retval, net, flag, ops>>

Release(t) ==
    /\ t \in locking
    /\ mem' = [mem EXCEPT !.lock = 0]
    /\ locking' = locking \ {t}
    /\ UNCHANGED <<pc, retval, net, flag, ops>>

-----------------------------------------------------------------------------
Next ==
    \E t \in Threads :
        \/ Inc(t) \/ Dec(t) \/ Add(t) \/ Or(t) \/ And(t) \/ Swap(t)
        \/ Acquire(t) \/ Release(t)
        \/ \E op \in Operations : Read(t, op)

AtomicSpec == Init /\ [][Next]_atomicVars

-----------------------------------------------------------------------------
(* Properties *)

\* No inc, dec or add is lost, whatever runs between its read and its
\* interlocked instruction: the counter is what all of them amount to.
CountKept == mem.count = net % Word

\* No or and no and undoes another thread's: the flags are those whose thread
\* set them last.
FlagsKept == mem.flags = {t \in Threads : flag[t]}

\* The lock that the header builds from acquire_cas and release_store is held
\* by one thread at a time.
LockExcludes ==
    /\ \A t, u \in locking : t = u
    /\ mem.lock = 1 <=> locking # {}

\* "These ... return the previous value": an operation returns the word as it
\* was just before the operation took effect.
ReturnsPrevious ==
    [][\A t \in Threads :
          pc[t] # "idle" /\ pc'[t] = "idle" => retval'[t] = WordOf(pc[t])]_atomicVars
=============================================================================
