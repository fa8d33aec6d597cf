------------------------ MODULE AtomicWindows_proofs ------------------------
(***************************************************************************)
(* AtomicWindows for any number of threads, any width of the word and any  *)
(* number of operations: the interlocked instruction works on the word as  *)
(* it is, so the value read before may be stale without an update being    *)
(* lost, and the compare-and-set makes a lock.                             *)
(***************************************************************************)
EXTENDS AtomicWindows, ModularArithmetic

-----------------------------------------------------------------------------
(* One lemma per operation, or per group of operations on one word *)

AInv == TypeOK /\ CountKept /\ FlagsKept /\ LockExcludes

LEMMA InitAInv == Init => AInv
<1> SUFFICES ASSUME Init PROVE AInv
  OBVIOUS
<1>1. TypeOK
  BY AtomicAssumption DEF Init, TypeOK, Memory, Locals
<1>2. CountKept
  <2>1. \A a \in Int : a % Word \in 0..(Word - 1) /\ \E q \in Int : a = Word * q + (a % Word)
    BY AtomicAssumption, Remainder
  <2>2. PICK q \in Int : 0 = Word * q + (0 % Word)
    BY <2>1
  <2>3. Word * 0 + 0 = Word * q + (0 % Word) /\ 0 \in 0..(Word - 1)
    BY <2>2, AtomicAssumption
  <2>4. 0 % Word = 0
    BY <2>1, <2>3, AtomicAssumption, OneRemainder
  <2> QED
    BY <2>4 DEF Init, CountKept
<1>3. FlagsKept /\ LockExcludes
  BY DEF Init, FlagsKept, LockExcludes
<1> QED
  BY <1>1, <1>2, <1>3 DEF AInv

LEMMA ReadKeeps ==
    ASSUME AInv, NEW t \in Threads, NEW op \in Operations, Read(t, op)
    PROVE  AInv'
<1> USE AtomicAssumption DEF AInv, Read
<1>1. WordOf(op) \in Locals
  BY DEF TypeOK, WordOf, Memory, Locals
<1>2. TypeOK'
  BY <1>1 DEF TypeOK
<1> QED
  BY <1>2 DEF CountKept, FlagsKept, LockExcludes

LEMMA ArithmeticKeeps ==
    ASSUME AInv, NEW t \in Threads, NEW n \in Int, AddTo(t, n), Finish(t)
    PROVE  AInv'
<1> USE AtomicAssumption DEF AInv, AddTo, Finish, Added
<1>1. mem.count \in Int /\ mem.count + n \in Int /\ net \in Int
  BY DEF TypeOK, Memory
<1>2. (mem.count + n) % Word \in 0..(Word - 1)
  BY <1>1, Remainder
<1>3. TypeOK'
  <2>1. mem' \in Memory
    BY <1>2 DEF TypeOK, Memory
  <2> QED
    BY <1>1, <2>1 DEF TypeOK
<1>4. CountKept'
  <2>1. mem'.count = (mem.count + n) % Word
    BY DEF TypeOK, Memory
  <2>2. (mem.count + n) % Word = (net + n) % Word
    BY <1>1, AddRemainder DEF CountKept
  <2> QED
    BY <2>1, <2>2 DEF CountKept
<1>5. FlagsKept' /\ LockExcludes'
  BY DEF FlagsKept, LockExcludes, TypeOK, Memory
<1> QED
  BY <1>3, <1>4, <1>5

LEMMA FlagsKeep ==
    ASSUME AInv, NEW t \in Threads, Finish(t),
           \/ SetFlags(t, Ored(t), TRUE)
           \/ SetFlags(t, mem.flags \ {t}, FALSE)
    PROVE  AInv'
<1> USE DEF AInv, SetFlags, Finish, Ored
<1>1. PICK flags \in SUBSET Threads, f \in BOOLEAN :
          /\ mem' = [mem EXCEPT !.flags = flags] /\ flag' = [flag EXCEPT ![t] = f]
          /\ flags = IF f THEN mem.flags \cup {t} ELSE mem.flags \ {t}
  BY DEF TypeOK, Memory
<1>2. TypeOK'
  BY <1>1 DEF TypeOK, Memory
<1>3. FlagsKept'
  BY <1>1 DEF FlagsKept, TypeOK, Memory
<1>4. CountKept' /\ LockExcludes'
  BY <1>1 DEF CountKept, LockExcludes, TypeOK, Memory
<1> QED
  BY <1>2, <1>3, <1>4

LEMMA SwapKeeps ==
    ASSUME AInv, NEW t \in Threads, Swap(t)
    PROVE  AInv'
<1> USE DEF AInv, Swap, Finish
<1>1. TypeOK'
  BY DEF TypeOK, Memory
<1>2. CountKept' /\ FlagsKept' /\ LockExcludes'
  BY DEF CountKept, FlagsKept, LockExcludes, TypeOK, Memory
<1> QED
  BY <1>1, <1>2

\* A compare-and-set that reports success found the lock free.
LEMMA AcquireKeeps ==
    ASSUME AInv, NEW t \in Threads, Acquire(t)
    PROVE  AInv'
<1> USE DEF AInv, Acquire, CasFailed
<1>1. TypeOK'
  BY DEF TypeOK, Memory
<1>2. CountKept' /\ FlagsKept'
  BY DEF CountKept, FlagsKept, TypeOK, Memory
<1>3. mem'.lock = 1
  BY DEF TypeOK, Memory
<1>4. LockExcludes'
  BY <1>3 DEF LockExcludes, TypeOK, Memory
<1> QED
  BY <1>1, <1>2, <1>4

LEMMA ReleaseKeeps ==
    ASSUME AInv, NEW t \in Threads, Release(t)
    PROVE  AInv'
<1> USE DEF AInv, Release
<1>1. TypeOK'
  BY DEF TypeOK, Memory
<1>2. CountKept' /\ FlagsKept'
  BY DEF CountKept, FlagsKept, TypeOK, Memory
<1>3. LockExcludes'
  BY DEF LockExcludes, TypeOK, Memory
<1> QED
  BY <1>1, <1>2, <1>3

LEMMA AtomicInvariance == AtomicSpec => []AInv
<1>1. AInv /\ UNCHANGED atomicVars => AInv'
  BY DEF AInv, atomicVars, TypeOK, CountKept, FlagsKept, LockExcludes
<1>2. ASSUME AInv, NEW t \in Threads
      PROVE  /\ Inc(t) \/ Dec(t) \/ Add(t) => AInv'
             /\ Or(t) \/ And(t) => AInv'
  <2>1. Inc(t) \/ Dec(t) \/ Add(t) => \E n \in Int : AddTo(t, n) /\ Finish(t)
    BY DEF Inc, Dec, Add
  <2>2. Or(t) \/ And(t) => AInv'
    BY <1>2, FlagsKeep DEF Or, And
  <2> QED
    BY <1>2, <2>1, <2>2, ArithmeticKeeps
<1>3. AInv /\ Next => AInv'
  BY <1>2, ReadKeeps, SwapKeeps, AcquireKeeps, ReleaseKeeps DEF Next
<1> QED
  BY <1>1, <1>3, InitAInv, PTL DEF AtomicSpec

-----------------------------------------------------------------------------
\* The words, and the locals of the operations on them, keep their types.
THEOREM WordsTyped == AtomicSpec => []TypeOK
<1>1. AInv => TypeOK
  BY DEF AInv
<1> QED
  BY <1>1, AtomicInvariance, PTL

\* No inc, dec or add is lost, for any number of threads and any word: the
\* value each of them read before may be stale, what it stores is not.
THEOREM NoUpdateLost == AtomicSpec => []CountKept
<1>1. AInv => CountKept
  BY DEF AInv
<1> QED
  BY <1>1, AtomicInvariance, PTL

\* No or and no and undoes another thread's bit.
THEOREM NoFlagLost == AtomicSpec => []FlagsKept
<1>1. AInv => FlagsKept
  BY DEF AInv
<1> QED
  BY <1>1, AtomicInvariance, PTL

\* The lock of acquire_cas and release_store excludes.
THEOREM CasLockExcludes == AtomicSpec => []LockExcludes
<1>1. AInv => LockExcludes
  BY DEF AInv
<1> QED
  BY <1>1, AtomicInvariance, PTL
=============================================================================
