---------------------------- MODULE UnixFD_proofs ----------------------------
(***************************************************************************)
(* The invariant of UnixFD holds for any number of threads, descriptors    *)
(* and handles.  IInv is inductive: a lemma per action, or per group of    *)
(* actions of one shape, shows that each of its eight parts is kept, and   *)
(* InitIInv that they hold at first.                                       *)
(*                                                                         *)
(* PtrInv carries the argument: between get and the last use of the        *)
(* pointer no other call may end the descriptor (ExclInv), so the entry,   *)
(* and with it the object (EntryInv), stays; the only other calls that     *)
(* write the table take an absent number or the entry they end.            *)
(*                                                                         *)
(* The second half, from Ownership on, is about who holds a handle.        *)
(***************************************************************************)
EXTENDS UnixFD, TLAPS

LEMMA InitIInv == Init => IInv
<1> SUFFICES ASSUME Init PROVE IInv
  OBVIOUS
<1> USE ConstAssumption DEF Init, Fds
<1>1. TypeOK
  BY DEF TypeOK, ObjFields, Pcs, Kinds
<1>2. MutexInv /\ HandInv
  BY DEF MutexInv, HandInv
<1>3. ArgInv /\ PtrInv /\ ExclInv
  BY DEF ArgInv, PtrInv, ExclInv, FreePcs, PtrPcs, EndingPcs, UsingPcs
<1>4. EntryInv /\ LiveInv
  BY DEF EntryInv, LiveInv
<1> QED
  BY <1>1, <1>2, <1>3, <1>4 DEF IInv

LEMMA StutterPreserves == IInv /\ UNCHANGED vars => IInv'
  BY DEF IInv, vars, TypeOK, MutexInv, HandInv, ArgInv, PtrInv, EntryInv,
         ExclInv, LiveInv

-----------------------------------------------------------------------------
(* One lemma per action, or per group of actions of the same shape. *)

LEMMA CreatedPreserves ==
    ASSUME IInv, NEW t \in Threads,
           NEW h \in OsHandles \cup {Invalid}, NEW type \in Types,
           pc[t] = "idle", MutexFree, RegisterNext(h, type),
           os' \in [OsHandles -> Kinds], UNCHANGED <<mutex, pc, arg, ptr, hand>>
    PROVE  IInv'
<1> USE ConstAssumption
    DEF IInv, RegisterNext, Register, IsNextId, MutexFree,
        Fds, Pcs, EndingPcs, UsingPcs, PtrPcs, FreePcs,
        ObjFields, Types, Kinds
<1>1. TypeOK'
  BY DEF TypeOK, HandInv, ArgInv, PtrInv
<1>2. MutexInv'
  BY DEF TypeOK, MutexInv
<1>3. HandInv'
  BY DEF TypeOK, HandInv
<1>4. ArgInv'
  BY DEF TypeOK, ArgInv
<1>5. PtrInv'
  BY DEF TypeOK, MutexInv, HandInv, ArgInv, PtrInv, EntryInv, ExclInv
<1>6. EntryInv'
  BY DEF TypeOK, HandInv, ArgInv, PtrInv, EntryInv
<1>7. ExclInv'
  BY DEF TypeOK, ArgInv, ExclInv
<1>8. LiveInv'
  BY DEF TypeOK, MutexInv, ArgInv, PtrInv, EntryInv, LiveInv
<1> QED
  BY <1>1, <1>2, <1>3, <1>4, <1>5, <1>6, <1>7, <1>8

LEMMA SocketPairPreserves ==
    ASSUME IInv, NEW t \in Threads, SocketPair(t)
    PROVE  IInv'
<1> USE ConstAssumption
    DEF IInv, SocketPair, Goto,
        Fds, Pcs, EndingPcs, UsingPcs, PtrPcs, FreePcs,
        ObjFields, Types, Kinds
<1>1. TypeOK'
  BY DEF TypeOK, HandInv, ArgInv, PtrInv
<1>2. MutexInv'
  BY DEF TypeOK, MutexInv
<1>3. HandInv'
  BY DEF TypeOK, HandInv
<1>4. ArgInv'
  BY DEF TypeOK, ArgInv
<1>5. PtrInv'
  BY DEF TypeOK, MutexInv, HandInv, ArgInv, PtrInv, EntryInv, ExclInv
<1>6. EntryInv'
  BY DEF TypeOK, HandInv, ArgInv, PtrInv, EntryInv
<1>7. ExclInv'
  BY DEF TypeOK, ArgInv, ExclInv
<1>8. LiveInv'
  BY DEF TypeOK, MutexInv, ArgInv, PtrInv, EntryInv, LiveInv
<1> QED
  BY <1>1, <1>2, <1>3, <1>4, <1>5, <1>6, <1>7, <1>8

LEMMA CloseGetPreserves ==
    ASSUME IInv, NEW t \in Threads, NEW fd \in Fds, CloseGet(t, fd)
    PROVE  IInv'
<1> USE ConstAssumption
    DEF IInv, CloseGet, Inserted, MutexFree, Start, MayEnd,
        Fds, Pcs, EndingPcs, UsingPcs, PtrPcs, FreePcs,
        ObjFields, Types, Kinds
<1>1. TypeOK'
  <2>1. table' \in [Fds -> Objs \cup {Null, Absent}]
    BY DEF TypeOK
  <2>2. pc' \in [Threads -> Pcs]
    BY DEF TypeOK
  <2>3. arg' \in [Threads -> Fds \cup {Null}]
    BY DEF TypeOK
  <2>4. ptr' \in [Threads -> Objs \cup {Null}]
    BY DEF TypeOK
  <2> QED
    BY <2>1, <2>2, <2>3, <2>4 DEF TypeOK
<1>2. MutexInv'
  BY DEF TypeOK, MutexInv
<1>3. HandInv'
  BY DEF TypeOK, HandInv
<1>4. ArgInv'
  BY DEF TypeOK, ArgInv
<1>5. PtrInv'
  BY DEF TypeOK, MutexInv, HandInv, ArgInv, PtrInv, EntryInv, ExclInv
<1>6. EntryInv'
  BY DEF TypeOK, HandInv, ArgInv, PtrInv, EntryInv
<1>7. ExclInv'
  BY DEF TypeOK, ArgInv, ExclInv
<1>8. LiveInv'
  BY DEF TypeOK, MutexInv, ArgInv, PtrInv, EntryInv, LiveInv
<1> QED
  BY <1>1, <1>2, <1>3, <1>4, <1>5, <1>6, <1>7, <1>8

LEMMA UseGetPreserves ==
    ASSUME IInv, NEW t \in Threads, NEW fd \in Fds,
           NEW next \in {"io", "dup_os", "accept_os", "mmap_create"},
           MayUse(fd), Get(t, fd, next)
    PROVE  IInv'
<1> USE ConstAssumption
    DEF IInv, Get, Inserted, MutexFree, Start, MayUse,
        Fds, Pcs, EndingPcs, UsingPcs, PtrPcs, FreePcs,
        ObjFields, Types, Kinds
<1>1. TypeOK'
  BY DEF TypeOK, HandInv, ArgInv, PtrInv
<1>2. MutexInv'
  BY DEF TypeOK, MutexInv
<1>3. HandInv'
  BY DEF TypeOK, HandInv
<1>4. ArgInv'
  BY DEF TypeOK, ArgInv
<1>5. PtrInv'
  BY DEF TypeOK, MutexInv, HandInv, ArgInv, PtrInv, EntryInv, ExclInv
<1>6. EntryInv'
  BY DEF TypeOK, HandInv, ArgInv, PtrInv, EntryInv
<1>7. ExclInv'
  BY DEF TypeOK, ArgInv, ExclInv
<1>8. LiveInv'
  BY DEF TypeOK, MutexInv, ArgInv, PtrInv, EntryInv, LiveInv
<1> QED
  BY <1>1, <1>2, <1>3, <1>4, <1>5, <1>6, <1>7, <1>8

LEMMA GiveGetPreserves ==
    ASSUME IInv, NEW t \in Threads, NEW fd \in Fds, GiveGet(t, fd)
    PROVE  IInv'
<1> USE ConstAssumption
    DEF IInv, GiveGet, Get, Inserted, MutexFree, Start, MayEnd,
        Fds, Pcs, EndingPcs, UsingPcs, PtrPcs, FreePcs,
        ObjFields, Types, Kinds
<1>1. TypeOK'
  BY DEF TypeOK, HandInv, ArgInv, PtrInv
<1>2. MutexInv'
  BY DEF TypeOK, MutexInv
<1>3. HandInv'
  BY DEF TypeOK, HandInv
<1>4. ArgInv'
  BY DEF TypeOK, ArgInv
<1>5. PtrInv'
  BY DEF TypeOK, MutexInv, HandInv, ArgInv, PtrInv, EntryInv, ExclInv
<1>6. EntryInv'
  BY DEF TypeOK, HandInv, ArgInv, PtrInv, EntryInv
<1>7. ExclInv'
  BY DEF TypeOK, ArgInv, ExclInv
<1>8. LiveInv'
  BY DEF TypeOK, MutexInv, ArgInv, PtrInv, EntryInv, LiveInv
<1> QED
  BY <1>1, <1>2, <1>3, <1>4, <1>5, <1>6, <1>7, <1>8

LEMMA CloseGetAgainPreserves ==
    ASSUME IInv, NEW t \in Threads, CloseGetAgain(t)
    PROVE  IInv'
<1> USE ConstAssumption
    DEF IInv, CloseGetAgain, Inserted, MutexFree, Start,
        Fds, Pcs, EndingPcs, UsingPcs, PtrPcs, FreePcs,
        ObjFields, Types, Kinds
<1>1. TypeOK'
  BY DEF TypeOK, HandInv, ArgInv, PtrInv
<1>2. MutexInv'
  BY DEF TypeOK, MutexInv
<1>3. HandInv'
  BY DEF TypeOK, HandInv
<1>4. ArgInv'
  BY DEF TypeOK, ArgInv
<1>5. PtrInv'
  BY DEF TypeOK, MutexInv, HandInv, ArgInv, PtrInv, EntryInv, ExclInv
<1>6. EntryInv'
  BY DEF TypeOK, HandInv, ArgInv, PtrInv, EntryInv
<1>7. ExclInv'
  BY DEF TypeOK, ArgInv, ExclInv
<1>8. LiveInv'
  BY DEF TypeOK, MutexInv, ArgInv, PtrInv, EntryInv, LiveInv
<1> QED
  BY <1>1, <1>2, <1>3, <1>4, <1>5, <1>6, <1>7, <1>8

LEMMA CloseOsPreserves ==
    ASSUME IInv, NEW t \in Threads, CloseOs(t)
    PROVE  IInv'
<1> USE ConstAssumption
    DEF IInv, CloseOs, OsClosed, Return, Goto,
        Fds, Pcs, EndingPcs, UsingPcs, PtrPcs, FreePcs,
        ObjFields, Types, Kinds
<1>1. TypeOK'
  <2>1. ptr[t] \in Objs /\ arg[t] \in Fds /\ obj[ptr[t]].handle # Null
    BY DEF PtrInv, EntryInv, ArgInv, TypeOK
  <2>2. os' \in [OsHandles -> Kinds]
    BY <2>1 DEF TypeOK
  <2>3. pc' \in [Threads -> Pcs] /\ arg' = arg /\ ptr' = ptr
    BY <2>1 DEF TypeOK
  <2> QED
    BY <2>2, <2>3 DEF TypeOK
<1>2. MutexInv'
  BY DEF TypeOK, MutexInv
<1>3. HandInv'
  BY DEF TypeOK, HandInv
<1>4. ArgInv'
  BY DEF TypeOK, ArgInv
<1>5. PtrInv'
  BY DEF TypeOK, MutexInv, HandInv, ArgInv, PtrInv, EntryInv, ExclInv
<1>6. EntryInv'
  BY DEF TypeOK, HandInv, ArgInv, PtrInv, EntryInv
<1>7. ExclInv'
  BY DEF TypeOK, ArgInv, ExclInv
<1>8. LiveInv'
  BY DEF TypeOK, MutexInv, ArgInv, PtrInv, EntryInv, LiveInv
<1> QED
  BY <1>1, <1>2, <1>3, <1>4, <1>5, <1>6, <1>7, <1>8

LEMMA ReleasePreserves ==
    ASSUME IInv, NEW t \in Threads, Release(t)
    PROVE  IInv'
<1> USE ConstAssumption
    DEF IInv, Release, Cleared, MutexFree, Goto,
        Fds, Pcs, EndingPcs, UsingPcs, PtrPcs, FreePcs,
        ObjFields, Types, Kinds
<1>1. TypeOK'
  <2>1. ptr[t] \in Objs
    BY DEF PtrInv
  <2>2. obj' \in [Objs -> ObjFields]
    BY <2>1 DEF TypeOK
  <2>3. hand' \in [Threads -> {<<>>} \cup {<<h>> : h \in OsHandles}
                                     \cup (OsHandles \X OsHandles)]
    BY DEF TypeOK
  <2>4. pc' \in [Threads -> Pcs] /\ arg' = arg /\ ptr' = ptr
    BY DEF TypeOK
  <2> QED
    BY <2>2, <2>3, <2>4 DEF TypeOK
<1>2. MutexInv'
  BY DEF TypeOK, MutexInv
<1>3. HandInv'
  BY DEF TypeOK, HandInv
<1>4. ArgInv'
  BY DEF TypeOK, ArgInv
<1>5. PtrInv'
  BY DEF TypeOK, MutexInv, HandInv, ArgInv, PtrInv, EntryInv, ExclInv
<1>6. EntryInv'
  BY DEF TypeOK, HandInv, ArgInv, PtrInv, EntryInv
<1>7. ExclInv'
  BY DEF TypeOK, ArgInv, ExclInv
<1>8. LiveInv'
  BY DEF TypeOK, MutexInv, ArgInv, PtrInv, EntryInv, LiveInv
<1> QED
  BY <1>1, <1>2, <1>3, <1>4, <1>5, <1>6, <1>7, <1>8

LEMMA DeleteTypes ==
    ASSUME IInv, NEW t \in Threads, Delete(t)
    PROVE  TypeOK'
<1> USE DEF IInv
<1>1. ptr[t] \in Objs /\ obj[ptr[t]].handle = Null
  BY DEF Delete, PtrInv
<1>2. obj' \in [Objs -> ObjFields]
  BY <1>1 DEF Delete, TypeOK, ObjFields
<1>3. /\ pc' \in [Threads -> Pcs] /\ arg' \in [Threads -> Fds \cup {Null}]
      /\ ptr' \in [Threads -> Objs \cup {Null}]
  BY <1>1 DEF Delete, TypeOK, Pcs
<1> QED
  BY <1>1, <1>2, <1>3 DEF TypeOK, Delete

LEMMA DeletePreserves ==
    ASSUME IInv, NEW t \in Threads, Delete(t)
    PROVE  IInv'
<1> USE ConstAssumption
    DEF IInv, Delete, OsClosed, Goto,
        Fds, Pcs, EndingPcs, UsingPcs, PtrPcs, FreePcs,
        ObjFields, Types, Kinds
<1>1. TypeOK'
  BY DeleteTypes
<1>2. MutexInv'
  BY DEF TypeOK, MutexInv, PtrInv
<1>3. HandInv'
  BY DEF TypeOK, HandInv, PtrInv
<1>4. ArgInv'
  BY DEF TypeOK, ArgInv
<1>5. PtrInv'
  BY DEF TypeOK, MutexInv, HandInv, ArgInv, PtrInv, EntryInv, ExclInv
<1>6. EntryInv'
  BY DEF TypeOK, HandInv, ArgInv, PtrInv, EntryInv
<1>7. ExclInv'
  BY DEF TypeOK, ArgInv, ExclInv
<1>8. LiveInv'
  BY DEF TypeOK, MutexInv, ArgInv, PtrInv, EntryInv, LiveInv
<1> QED
  BY <1>1, <1>2, <1>3, <1>4, <1>5, <1>6, <1>7, <1>8

LEMMA UseReturnPreserves ==
    ASSUME IInv, NEW t \in Threads,
           pc[t] \in {"io", "dup_os", "accept_os", "mmap_create"}, Return(t),
           UNCHANGED <<table, lastId, obj, mutex, os, hand>>
    PROVE  IInv'
<1> USE ConstAssumption
    DEF IInv, Return,
        Fds, Pcs, EndingPcs, UsingPcs, PtrPcs, FreePcs,
        ObjFields, Types, Kinds
<1>1. TypeOK'
  BY DEF TypeOK, HandInv, ArgInv, PtrInv
<1>2. MutexInv'
  BY DEF TypeOK, MutexInv
<1>3. HandInv'
  BY DEF TypeOK, HandInv
<1>4. ArgInv'
  BY DEF TypeOK, ArgInv
<1>5. PtrInv'
  BY DEF TypeOK, MutexInv, HandInv, ArgInv, PtrInv, EntryInv, ExclInv
<1>6. EntryInv'
  BY DEF TypeOK, HandInv, ArgInv, PtrInv, EntryInv
<1>7. ExclInv'
  BY DEF TypeOK, ArgInv, ExclInv
<1>8. LiveInv'
  BY DEF TypeOK, MutexInv, ArgInv, PtrInv, EntryInv, LiveInv
<1> QED
  BY <1>1, <1>2, <1>3, <1>4, <1>5, <1>6, <1>7, <1>8

LEMMA DupOsPreserves ==
    ASSUME IInv, NEW t \in Threads, DupOs(t)
    PROVE  IInv'
<1> USE ConstAssumption
    DEF IInv, DupOs, Goto,
        Fds, Pcs, EndingPcs, UsingPcs, PtrPcs, FreePcs,
        ObjFields, Types, Kinds
<1>1. TypeOK'
  <2>1. obj[ptr[t]].handle \in OsHandles \cup {Invalid}
    BY DEF PtrInv, EntryInv, ArgInv, TypeOK
  <2>2. os' \in [OsHandles -> Kinds]
    BY <2>1 DEF TypeOK
  <2>3. hand' \in [Threads -> {<<>>} \cup {<<h>> : h \in OsHandles}
                                     \cup (OsHandles \X OsHandles)]
    BY DEF TypeOK
  <2> QED
    BY <2>2, <2>3 DEF TypeOK
<1>2. MutexInv'
  BY DEF TypeOK, MutexInv
<1>3. HandInv'
  BY DEF TypeOK, HandInv
<1>4. ArgInv'
  BY DEF TypeOK, ArgInv
<1>5. PtrInv'
  BY DEF TypeOK, MutexInv, HandInv, ArgInv, PtrInv, EntryInv, ExclInv
<1>6. EntryInv'
  BY DEF TypeOK, HandInv, ArgInv, PtrInv, EntryInv
<1>7. ExclInv'
  BY DEF TypeOK, ArgInv, ExclInv
<1>8. LiveInv'
  BY DEF TypeOK, MutexInv, ArgInv, PtrInv, EntryInv, LiveInv
<1> QED
  BY <1>1, <1>2, <1>3, <1>4, <1>5, <1>6, <1>7, <1>8

LEMMA DupRegisterPreserves ==
    ASSUME IInv, NEW t \in Threads, DupRegister(t)
    PROVE  IInv'
<1> USE ConstAssumption
    DEF IInv, DupRegister, RegisterNext, Register, IsNextId, MutexFree, Return,
        Fds, Pcs, EndingPcs, UsingPcs, PtrPcs, FreePcs,
        ObjFields, Types, Kinds
<1>1. TypeOK'
  BY DEF TypeOK, HandInv, ArgInv, PtrInv
<1>2. MutexInv'
  BY DEF TypeOK, MutexInv
<1>3. HandInv'
  BY DEF TypeOK, HandInv
<1>4. ArgInv'
  BY DEF TypeOK, ArgInv
<1>5. PtrInv'
  BY DEF TypeOK, MutexInv, HandInv, ArgInv, PtrInv, EntryInv, ExclInv
<1>6. EntryInv'
  BY DEF TypeOK, HandInv, ArgInv, PtrInv, EntryInv
<1>7. ExclInv'
  BY SMTT(20) DEF TypeOK, ArgInv, ExclInv
<1>8. LiveInv'
  BY DEF TypeOK, MutexInv, ArgInv, PtrInv, EntryInv, LiveInv
<1> QED
  BY <1>1, <1>2, <1>3, <1>4, <1>5, <1>6, <1>7, <1>8

LEMMA AcceptOsPreserves ==
    ASSUME IInv, NEW t \in Threads, AcceptOs(t)
    PROVE  IInv'
<1> USE ConstAssumption
    DEF IInv, AcceptOs, Goto,
        Fds, Pcs, EndingPcs, UsingPcs, PtrPcs, FreePcs,
        ObjFields, Types, Kinds
<1>1. TypeOK'
  BY DEF TypeOK, HandInv, ArgInv, PtrInv
<1>2. MutexInv'
  BY DEF TypeOK, MutexInv
<1>3. HandInv'
  BY DEF TypeOK, HandInv
<1>4. ArgInv'
  BY DEF TypeOK, ArgInv
<1>5. PtrInv'
  BY DEF TypeOK, MutexInv, HandInv, ArgInv, PtrInv, EntryInv, ExclInv
<1>6. EntryInv'
  BY DEF TypeOK, HandInv, ArgInv, PtrInv, EntryInv
<1>7. ExclInv'
  BY DEF TypeOK, ArgInv, ExclInv
<1>8. LiveInv'
  BY DEF TypeOK, MutexInv, ArgInv, PtrInv, EntryInv, LiveInv
<1> QED
  BY <1>1, <1>2, <1>3, <1>4, <1>5, <1>6, <1>7, <1>8

LEMMA AcceptRegisterPreserves ==
    ASSUME IInv, NEW t \in Threads, AcceptRegister(t)
    PROVE  IInv'
<1> USE ConstAssumption
    DEF IInv, AcceptRegister, RegisterNext, Register, IsNextId, MutexFree, Return,
        Fds, Pcs, EndingPcs, UsingPcs, PtrPcs, FreePcs,
        ObjFields, Types, Kinds
<1>1. TypeOK'
  BY DEF TypeOK, HandInv, ArgInv, PtrInv
<1>2. MutexInv'
  BY DEF TypeOK, MutexInv
<1>3. HandInv'
  BY DEF TypeOK, HandInv
<1>4. ArgInv'
  BY DEF TypeOK, ArgInv
<1>5. PtrInv'
  BY DEF TypeOK, MutexInv, HandInv, ArgInv, PtrInv, EntryInv, ExclInv
<1>6. EntryInv'
  BY DEF TypeOK, HandInv, ArgInv, PtrInv, EntryInv
<1>7. ExclInv'
  BY ZenonT(40) DEF TypeOK, ArgInv, ExclInv
<1>8. LiveInv'
  BY DEF TypeOK, MutexInv, ArgInv, PtrInv, EntryInv, LiveInv
<1> QED
  BY <1>1, <1>2, <1>3, <1>4, <1>5, <1>6, <1>7, <1>8

LEMMA MmapCreatePreserves ==
    ASSUME IInv, NEW t \in Threads, MmapCreate(t)
    PROVE  IInv'
<1> USE ConstAssumption
    DEF IInv, MmapCreate, Goto,
        Fds, Pcs, EndingPcs, UsingPcs, PtrPcs, FreePcs,
        ObjFields, Types, Kinds
<1>1. TypeOK'
  BY DEF TypeOK, HandInv, ArgInv, PtrInv
<1>2. MutexInv'
  BY DEF TypeOK, MutexInv
<1>3. HandInv'
  BY DEF TypeOK, HandInv
<1>4. ArgInv'
  BY DEF TypeOK, ArgInv
<1>5. PtrInv'
  BY DEF TypeOK, MutexInv, HandInv, ArgInv, PtrInv, EntryInv, ExclInv
<1>6. EntryInv'
  BY DEF TypeOK, HandInv, ArgInv, PtrInv, EntryInv
<1>7. ExclInv'
  BY DEF TypeOK, ArgInv, ExclInv
<1>8. LiveInv'
  BY DEF TypeOK, MutexInv, ArgInv, PtrInv, EntryInv, LiveInv
<1> QED
  BY <1>1, <1>2, <1>3, <1>4, <1>5, <1>6, <1>7, <1>8

LEMMA MmapSetOsHandlePreserves ==
    ASSUME IInv, NEW t \in Threads, MmapSetOsHandle(t)
    PROVE  IInv'
<1> USE ConstAssumption
    DEF IInv, MmapSetOsHandle, Return,
        Fds, Pcs, EndingPcs, UsingPcs, PtrPcs, FreePcs,
        ObjFields, Types, Kinds
<1>1. TypeOK'
  <2>1. ptr[t] \in Objs /\ hand[t][1] \in OsHandles
    BY DEF PtrInv, HandInv
  <2>2. obj' \in [Objs -> ObjFields]
    BY ZenonT(40), <2>1 DEF TypeOK
  <2> QED
    BY <2>2 DEF TypeOK
<1>2. MutexInv'
  BY DEF TypeOK, MutexInv
<1>3. HandInv'
  BY DEF TypeOK, HandInv
<1>4. ArgInv'
  BY DEF TypeOK, ArgInv
<1>5. PtrInv'
  BY DEF TypeOK, MutexInv, HandInv, ArgInv, PtrInv, EntryInv, ExclInv
<1>6. EntryInv'
  BY DEF TypeOK, HandInv, ArgInv, PtrInv, EntryInv
<1>7. ExclInv'
  BY DEF TypeOK, ArgInv, ExclInv
<1>8. LiveInv'
  BY DEF TypeOK, MutexInv, ArgInv, PtrInv, EntryInv, LiveInv
<1> QED
  BY <1>1, <1>2, <1>3, <1>4, <1>5, <1>6, <1>7, <1>8

LEMMA PairAdoptTypes ==
    ASSUME IInv, NEW t \in Threads, PairAdopt(t)
    PROVE  TypeOK'
<1> USE ConstAssumption DEF IInv
<1>1. hand[t][1] \in OsHandles
  BY DEF PairAdopt, HandInv
<1>2. /\ obj' \in [Objs -> ObjFields]
      /\ table' \in [Fds -> Objs \cup {Null, Absent}]
      /\ lastId' \in Fds
  BY <1>1 DEF PairAdopt, RegisterNext, Register, TypeOK, ObjFields, Types
<1>3. hand' \in [Threads -> {<<>>} \cup {<<h>> : h \in OsHandles}
                                   \cup (OsHandles \X OsHandles)]
  <2>1. CASE hand[t] \in OsHandles \X OsHandles
    BY <2>1 DEF PairAdopt, TypeOK
  <2>2. CASE hand[t] \notin OsHandles \X OsHandles
    BY <2>2 DEF PairAdopt, TypeOK
  <2> QED
    BY <2>1, <2>2
<1>4. pc' \in [Threads -> Pcs]
  BY DEF PairAdopt, TypeOK, Pcs
<1> QED
  BY <1>2, <1>3, <1>4 DEF TypeOK, PairAdopt, Fds

LEMMA PairAdoptPreserves ==
    ASSUME IInv, NEW t \in Threads, PairAdopt(t)
    PROVE  IInv'
<1> USE ConstAssumption
    DEF IInv, PairAdopt, RegisterNext, Register, IsNextId, MutexFree,
        Fds, Pcs, EndingPcs, UsingPcs, PtrPcs, FreePcs,
        ObjFields, Types, Kinds
<1>1. TypeOK'
  BY PairAdoptTypes
<1>2. MutexInv'
  BY DEF TypeOK, MutexInv
<1>3. HandInv'
  <2>1. CASE hand[t] \in OsHandles \X OsHandles
    BY <2>1 DEF TypeOK, HandInv
  <2>2. CASE hand[t] \notin OsHandles \X OsHandles
    BY <2>2 DEF TypeOK, HandInv
  <2> QED
    BY <2>1, <2>2
<1>4. ArgInv'
  BY DEF TypeOK, ArgInv
<1>5. PtrInv'
  BY DEF TypeOK, MutexInv, HandInv, ArgInv, PtrInv, EntryInv, ExclInv
<1>6. EntryInv'
  BY DEF TypeOK, HandInv, ArgInv, PtrInv, EntryInv
<1>7. ExclInv'
  BY DEF TypeOK, ArgInv, ExclInv
<1>8. LiveInv'
  BY DEF TypeOK, MutexInv, ArgInv, PtrInv, EntryInv, LiveInv
<1> QED
  BY <1>1, <1>2, <1>3, <1>4, <1>5, <1>6, <1>7, <1>8

LEMMA OpenOsfHandleNextPreserves ==
    ASSUME IInv, NEW t \in Threads, OpenOsfHandleNext(t)
    PROVE  IInv'
<1> USE ConstAssumption
    DEF IInv, OpenOsfHandleNext, RegisterNext, Register, IsNextId, MutexFree,
        Fds, Pcs, EndingPcs, UsingPcs, PtrPcs, FreePcs,
        ObjFields, Types, Kinds
<1>1. TypeOK'
  BY DEF TypeOK, HandInv, ArgInv, PtrInv
<1>2. MutexInv'
  BY DEF TypeOK, MutexInv
<1>3. HandInv'
  BY DEF TypeOK, HandInv
<1>4. ArgInv'
  BY DEF TypeOK, ArgInv
<1>5. PtrInv'
  BY DEF TypeOK, MutexInv, HandInv, ArgInv, PtrInv, EntryInv, ExclInv
<1>6. EntryInv'
  BY DEF TypeOK, HandInv, ArgInv, PtrInv, EntryInv
<1>7. ExclInv'
  BY DEF TypeOK, ArgInv, ExclInv
<1>8. LiveInv'
  BY DEF TypeOK, MutexInv, ArgInv, PtrInv, EntryInv, LiveInv
<1> QED
  BY <1>1, <1>2, <1>3, <1>4, <1>5, <1>6, <1>7, <1>8

LEMMA HandedOverPreserves ==
    ASSUME IInv, NEW t \in Threads, HandedOver(t)
    PROVE  IInv'
<1> USE ConstAssumption
    DEF IInv, HandedOver,
        Fds, Pcs, EndingPcs, UsingPcs, PtrPcs, FreePcs,
        ObjFields, Types, Kinds
<1>1. TypeOK'
  BY DEF TypeOK, HandInv
<1>2. MutexInv'
  BY DEF TypeOK, MutexInv
<1>3. HandInv'
  BY DEF TypeOK, HandInv
<1>4. ArgInv'
  BY DEF TypeOK, ArgInv
<1>5. PtrInv'
  BY DEF TypeOK, PtrInv
<1>6. EntryInv'
  BY DEF EntryInv
<1>7. ExclInv'
  BY DEF TypeOK, ExclInv
<1>8. LiveInv'
  BY DEF TypeOK, LiveInv
<1> QED
  BY <1>1, <1>2, <1>3, <1>4, <1>5, <1>6, <1>7, <1>8

LEMMA OpenOsfHandlePreserves ==
    ASSUME IInv, NEW t \in Threads, NEW fd \in Fds, OpenOsfHandle(t, fd)
    PROVE  IInv'
<1> USE ConstAssumption
    DEF IInv, OpenOsfHandle, Register, MutexFree,
        Fds, Pcs, EndingPcs, UsingPcs, PtrPcs, FreePcs,
        ObjFields, Types, Kinds
<1>1. TypeOK'
  BY DEF TypeOK, HandInv, ArgInv, PtrInv
<1>2. MutexInv'
  BY DEF TypeOK, MutexInv
<1>3. HandInv'
  BY DEF TypeOK, HandInv
<1>4. ArgInv'
  BY DEF TypeOK, ArgInv
<1>5. PtrInv'
  BY DEF TypeOK, MutexInv, HandInv, ArgInv, PtrInv, EntryInv, ExclInv
<1>6. EntryInv'
  BY DEF TypeOK, HandInv, ArgInv, PtrInv, EntryInv
<1>7. ExclInv'
  BY DEF TypeOK, ArgInv, ExclInv
<1>8. LiveInv'
  BY DEF TypeOK, MutexInv, ArgInv, PtrInv, EntryInv, LiveInv
<1> QED
  BY <1>1, <1>2, <1>3, <1>4, <1>5, <1>6, <1>7, <1>8

-----------------------------------------------------------------------------
LEMMA NextPreserves == IInv /\ [Next]_vars => IInv'
<1> SUFFICES ASSUME IInv, Next PROVE IInv'
  BY StutterPreserves
<1>1. PICK t \in Threads : Call(t) \/ EndStep(t) \/ UseStep(t)
  BY DEF Next
<1>2. CASE Call(t)
  <2>1. CASE Open(t) \/ Socket(t) \/ CreatePagingFile(t)
    <3>1. PICK h \in OsHandles \cup {Invalid}, type \in Types : RegisterNext(h, type)
      BY <2>1 DEF Open, Socket, CreatePagingFile, Types
    <3>2. os' \in [OsHandles -> Kinds]
      BY <2>1 DEF Open, Socket, CreatePagingFile, IInv, TypeOK, Kinds
    <3> QED
      BY <2>1, <3>1, <3>2, CreatedPreserves DEF Open, Socket, CreatePagingFile
  <2>2. CASE \E fd \in Fds : IoGet(t, fd) \/ DupGet(t, fd) \/ AcceptGet(t, fd)
                               \/ MmapGet(t, fd)
    BY <2>2, UseGetPreserves DEF IoGet, DupGet, AcceptGet, MmapGet, MayMap
  <2> QED
    BY <1>2, <2>1, <2>2, SocketPairPreserves, CloseGetPreserves, GiveGetPreserves
       DEF Call
<1>3. CASE EndStep(t)
  BY CloseGetAgainPreserves, CloseOsPreserves, ReleasePreserves,
     DeletePreserves, <1>3
     DEF EndStep
<1>4. CASE UseStep(t)
  <2>1. CASE IoDone(t) \/ DupFails(t) \/ AcceptFails(t) \/ MmapDone(t)
    BY <2>1, UseReturnPreserves DEF IoDone, DupFails, AcceptFails, MmapDone
  <2> QED
    BY <1>4, <2>1, DupOsPreserves, DupRegisterPreserves, AcceptOsPreserves,
       AcceptRegisterPreserves, MmapCreatePreserves, MmapSetOsHandlePreserves,
       PairAdoptPreserves, HandedOverPreserves, OpenOsfHandleNextPreserves,
       OpenOsfHandlePreserves
       DEF UseStep
<1> QED
  BY <1>1, <1>2, <1>3, <1>4

\* The table, the heap, the mutex and the program counters keep IInv in every
\* behaviour: what the results below are read off from.
THEOREM Invariance == Spec => []IInv
<1>1. Init => IInv
  BY InitIInv
<1>2. IInv /\ [Next]_vars => IInv'
  BY NextPreserves
<1> QED
  BY <1>1, <1>2, PTL DEF Spec

\* Every variable keeps its type, for any number of threads and handles.
THEOREM TypeCorrect == Spec => []TypeOK
<1>1. IInv => TypeOK
  BY DEF IInv
<1> QED
  BY <1>1, Invariance, PTL

\* No step of close, dup, accept, read or mmap touches a UnixFD that another
\* thread has deleted, or one that is no longer the descriptor of the call.
THEOREM PointersStayLive == Spec => []PointersLive
<1>1. IInv => PointersLive
  <2> SUFFICES ASSUME IInv, NEW t \in Threads
               PROVE  /\ ptr[t] \in Objs => obj[ptr[t]].state = "live"
                      /\ pc[t] \in (EndingPcs \cup UsingPcs) \ {"close_get", "delete"} =>
                             /\ ptr[t] \in Objs
                             /\ table[arg[t]] = ptr[t]
                             /\ obj[ptr[t]].fd = arg[t]
    BY DEF PointersLive
  <2> USE ConstAssumption DEF IInv, PtrPcs, FreePcs, EndingPcs, UsingPcs
  <2>1. CASE pc[t] \in PtrPcs
    BY <2>1 DEF PtrInv, EntryInv, ArgInv, TypeOK
  <2>2. CASE pc[t] \in FreePcs \cup {"close_get", "delete"}
    BY <2>2 DEF PtrInv, ArgInv, TypeOK
  <2>3. pc[t] \in PtrPcs \cup FreePcs \cup {"close_get", "delete"}
    BY DEF TypeOK, Pcs
  <2> QED
    BY <2>1, <2>2, <2>3
<1> QED
  BY <1>1, Invariance, PTL

\* No descriptor is lost and none is listed under another's number.
THEOREM TableStaysAgreed == Spec => []TableAgrees
<1>1. IInv => TableAgrees
  BY DEF IInv, EntryInv, LiveInv, TableAgrees
<1> QED
  BY <1>1, Invariance, PTL

-----------------------------------------------------------------------------
(* Ownership *)

(***************************************************************************)
(* Every open kernel handle has one owner (HandleOwnership), numbers that  *)
(* were passed stay retired (NumbersRetire), and UnixFD implements FdTable *)
(* (ImplementsTable), for any number of threads, objects and handles.      *)
(*                                                                         *)
(* OwnInv is inductive relative to IInv.  An owner is the object that      *)
(* carries the handle or the call that has it in hand; KindInv makes every *)
(* owned handle open, so that a value the kernel hands out has no owner    *)
(* yet, and OneOwner and SomeOwner follow it as it is registered, given    *)
(* away and closed.  The part with the lemmas Opened.., Handed.. and       *)
(* ClosedByObject argues about owners alone; a lemma per action then shows *)
(* which of them the step is.  In the refinement a step of the code is one *)
(* step of the abstract space or none: close() counts when the kernel      *)
(* closes the handle, although the number leaves the map only later.       *)
(***************************************************************************)

-----------------------------------------------------------------------------
(* The handles a call has in hand *)

LEMMA AmongNone == \A s, h : s = <<>> => ~Among(h, s)
  BY DEF Among

LEMMA AmongOne == \A s, h, k : s = <<k>> => (Among(h, s) <=> h = k)
  BY DEF Among

LEMMA AmongTwo == \A s, h, j, k : s = <<j, k>> => (Among(h, s) <=> h = j \/ h = k)
  BY DEF Among

-----------------------------------------------------------------------------
(* Who is on an object *)

\* Calls with the same object have the same number.
LEMMA SameObject ==
    ASSUME IInv, NEW t \in Threads, NEW u \in Threads,
           pc[t] \in PtrPcs, pc[u] \in PtrPcs, ptr[t] = ptr[u]
    PROVE  arg[t] = arg[u]
  BY ConstAssumption
     DEF IInv, TypeOK, ArgInv, PtrInv, EntryInv, PtrPcs, FreePcs, UsingPcs, EndingPcs, Pcs

\* The handle of an object that a call works on is open until that call, and
\* no other, closes it.
LEMMA HandleThere ==
    ASSUME IInv, NEW t \in Threads, pc[t] \in PtrPcs \ {"close_release"}
    PROVE  /\ ptr[t] \in Objs /\ obj[ptr[t]].state = "live"
           /\ obj[ptr[t]].handle \in OsHandles \cup {Invalid}
           /\ ~OsGone(ptr[t])
<1>1. ptr[t] \in Objs /\ table[arg[t]] = ptr[t] /\ arg[t] \in Fds
  BY DEF IInv, TypeOK, PtrInv, ArgInv, PtrPcs, FreePcs, UsingPcs, EndingPcs
<1>2. obj[ptr[t]].state = "live" /\ obj[ptr[t]].handle \in OsHandles \cup {Invalid}
  BY <1>1 DEF IInv, TypeOK, EntryInv, ObjFields
<1>3. ASSUME NEW u \in Threads, ptr[u] = ptr[t], pc[u] = "close_release"
      PROVE  FALSE
  <2>1. arg[t] = arg[u]
    BY <1>3, SameObject DEF PtrPcs
  <2> QED
    BY <1>3, <2>1 DEF IInv, ExclInv, EndingPcs
<1> QED
  BY <1>1, <1>2, <1>3 DEF OsGone

\* Nobody is on an object that is not in the table yet.
LEMMA NewNotGone ==
    ASSUME IInv, NEW o \in Objs, obj[o].state = "none"
    PROVE  ~OsGone(o)
  BY DEF IInv, OsGone, TypeOK, PtrInv, ArgInv, EntryInv, PtrPcs, FreePcs, UsingPcs, EndingPcs

-----------------------------------------------------------------------------
(* The ways ownership changes in a step *)

Registers(o, h) ==
    \A x \in Objs, k \in OsHandles :
        Carries(x, k)' <=> Carries(x, k) \/ (x = o /\ k = h)
Drops(o) ==
    \A x \in Objs, k \in OsHandles : Carries(x, k)' <=> Carries(x, k) /\ x # o
KeepsObjects ==
    \A x \in Objs, k \in OsHandles : Carries(x, k)' <=> Carries(x, k)
Takes(t, h) ==
    \A u \in Threads, k \in OsHandles :
        Among(k, hand'[u]) <=> Among(k, hand[u]) \/ (u = t /\ k = h)
Gives(t, h) ==
    \A u \in Threads, k \in OsHandles :
        Among(k, hand'[u]) <=> Among(k, hand[u]) /\ ~(u = t /\ k = h)
KeepsHands ==
    \A u \in Threads, k \in OsHandles : Among(k, hand'[u]) <=> Among(k, hand[u])

Opens(h) ==
    /\ os[h] = "closed" /\ os'[h] # "closed"
    /\ \A k \in OsHandles \ {h} : os'[k] = os[k]

LEMMA OpenKinds == \A type : KindsOf(type) \subseteq Kinds \ {"closed"}
  BY DEF KindsOf, Kinds

\* A closed handle has no owner.
LEMMA ClosedUnowned ==
    ASSUME KindInv, NEW h \in OsHandles, os[h] = "closed"
    PROVE  /\ \A o \in Objs : ~Carries(o, h)
           /\ \A t \in Threads : ~Among(h, hand[t])
  BY DEF KindInv, KindsOf, HandKinds

LEMMA OpenedByObject ==
    ASSUME KindInv, OneOwner, SomeOwner, NEW o \in Objs, NEW h \in OsHandles,
           Opens(h), Registers(o, h), KeepsHands
    PROVE  OneOwner' /\ SomeOwner'
<1> USE DEF Opens, Registers, KeepsHands
<1>1. OneOwner'
  BY ClosedUnowned DEF OneOwner
<1>2. SomeOwner'
  BY DEF SomeOwner
<1> QED
  BY <1>1, <1>2

LEMMA OpenedByThread ==
    ASSUME KindInv, OneOwner, SomeOwner, NEW t \in Threads, NEW h \in OsHandles,
           Opens(h), Takes(t, h), KeepsObjects
    PROVE  OneOwner' /\ SomeOwner'
<1> USE DEF Opens, Takes, KeepsObjects
<1>1. OneOwner'
  BY ClosedUnowned DEF OneOwner
<1>2. SomeOwner'
  BY DEF SomeOwner
<1> QED
  BY <1>1, <1>2

LEMMA HandedToObject ==
    ASSUME OneOwner, SomeOwner, NEW t \in Threads, NEW o \in Objs, NEW h \in OsHandles,
           Among(h, hand[t]), os' = os, Registers(o, h), Gives(t, h)
    PROVE  OneOwner' /\ SomeOwner'
<1> USE DEF Registers, Gives
<1>1. OneOwner'
  BY DEF OneOwner
<1>2. SomeOwner'
  BY DEF OneOwner, SomeOwner
<1> QED
  BY <1>1, <1>2

LEMMA HandedToThread ==
    ASSUME OneOwner, SomeOwner, NEW t \in Threads, NEW o \in Objs, NEW h \in OsHandles,
           Carries(o, h), os' = os, Drops(o), Takes(t, h),
           \A k \in OsHandles : Carries(o, k) => k = h
    PROVE  OneOwner' /\ SomeOwner'
<1> USE DEF Drops, Takes
<1>1. OneOwner'
  BY DEF OneOwner
<1>2. SomeOwner'
  BY DEF OneOwner, SomeOwner
<1> QED
  BY <1>1, <1>2

LEMMA Kept ==
    ASSUME OneOwner, SomeOwner, os' = os, KeepsObjects, KeepsHands
    PROVE  OneOwner' /\ SomeOwner'
  BY DEF OneOwner, SomeOwner, KeepsObjects, KeepsHands

LEMMA ClosedByObject ==
    ASSUME OneOwner, SomeOwner, NEW o \in Objs, NEW h \in OsHandles,
           Carries(o, h), os'[h] = "closed",
           \A k \in OsHandles \ {h} : os'[k] = os[k],
           \A k \in OsHandles : Carries(o, k) => k = h,
           Drops(o), KeepsHands
    PROVE  OneOwner' /\ SomeOwner'
  BY DEF OneOwner, SomeOwner, Drops, KeepsHands

-----------------------------------------------------------------------------
(* One lemma per action, or per group of actions of the same shape *)

\* A step in which nobody starts or ends to be between the closing of a handle
\* and release.
SameGone ==
    \A u \in Threads : /\ pc'[u] = "close_release" <=> pc[u] = "close_release"
                       /\ pc[u] = "close_release" => ptr'[u] = ptr[u]

LEMMA RegisterGains ==
    ASSUME IInv, SameGone, NEW o \in Objs, NEW h \in OsHandles \cup {Invalid},
           NEW id \in Fds, NEW type \in Types \cup {"Unknown"},
           Register(o, h, id, type)
    PROVE  /\ \A x \in Objs, k \in OsHandles :
                  Carries(x, k)' <=> Carries(x, k) \/ (x = o /\ k = h)
           /\ obj'[o].type = type /\ obj'[o].handle = h
           /\ \A x \in Objs : obj[x].state = "live" => x # o /\ obj'[x] = obj[x]
<1>1. obj[o].state = "none" /\ obj' = [obj EXCEPT ![o] = [state |-> "live",
          handle |-> h, fd |-> id, type |-> type]]
  BY DEF Register
<1>2. ~OsGone(o)
  BY <1>1, NewNotGone
<1>3. \A x \in Objs : OsGone(x)' <=> OsGone(x)
  BY DEF SameGone, OsGone
<1> QED
  BY <1>1, <1>2, <1>3 DEF Carries, IInv, TypeOK

\* The object a call works on is registered already.
LEMMA PointsToLive ==
    ASSUME IInv, NEW t \in Threads, ptr[t] \in Objs
    PROVE  obj[ptr[t]].state = "live"
  BY ConstAssumption
     DEF IInv, TypeOK, PtrInv, EntryInv, ArgInv, PtrPcs, FreePcs, UsingPcs, EndingPcs, Pcs

LEMMA CreatedOwned ==
    ASSUME IInv, OwnInv, NEW t \in Threads, NEW h \in OsHandles, NEW type \in {"File", "Socket"},
           NEW kind \in KindsOf(type), os[h] = "closed", os' = [os EXCEPT ![h] = kind],
           RegisterNext(h, type), UNCHANGED <<mutex, pc, arg, ptr, hand>>
    PROVE  OwnInv'
<1> USE DEF OwnInv
<1>1. PICK o \in Objs, id \in Fds : Register(o, h, id, type)
  BY DEF RegisterNext
<1>2. SameGone
  BY DEF SameGone
<1>3. /\ Registers(o, h) /\ obj'[o].type = type
      /\ \A x \in Objs : obj[x].state = "live" => obj'[x] = obj[x]
  BY <1>1, <1>2, RegisterGains DEF Types, Registers
<1>4. Opens(h) /\ KeepsHands
  BY DEF Opens, KeepsHands, IInv, TypeOK, KindsOf
<1>5. OneOwner' /\ SomeOwner'
  BY <1>3, <1>4, OpenedByObject
<1>6. KindInv'
  <2>1. ASSUME NEW k \in OsHandles, NEW x \in Objs, Carries(x, k)'
        PROVE  os'[k] \in KindsOf(obj'[x].type)
    <3>1. CASE k = h
      BY <2>1, <3>1, <1>3, ClosedUnowned DEF Registers, IInv, TypeOK
    <3>2. CASE k # h
      BY <2>1, <3>2, <1>3 DEF Registers, IInv, TypeOK, KindInv, Carries
    <3> QED
      BY <3>1, <3>2
  <2>2. ASSUME NEW k \in OsHandles, NEW u \in Threads, Among(k, hand[u])
        PROVE  os'[k] \in HandKinds(u)'
    <3>1. os'[k] = os[k]
      BY <2>2, ClosedUnowned DEF IInv, TypeOK
    <3>2. pc[u] = "dup_register" => obj'[ptr[u]] = obj[ptr[u]]
      BY <1>3, HandleThere DEF PtrPcs, UsingPcs
    <3> QED
      BY <2>2, <3>1, <3>2 DEF KindInv, HandKinds
  <2> QED
    BY <2>1, <2>2 DEF KindInv
<1>7. CallInv' /\ MapInv' /\ PairInv'
  <2>1. \A u \in Threads : pc[u] \in MappingPcs =>
            obj'[ptr[u]] = obj[ptr[u]]
    BY <1>3, HandleThere DEF PtrPcs, UsingPcs, MappingPcs
  <2> QED
    BY <2>1 DEF CallInv, MapInv, PairInv, MappingPcs
<1> QED
  BY <1>5, <1>6, <1>7

LEMMA PagingFileOwned ==
    ASSUME IInv, OwnInv, NEW t \in Threads, CreatePagingFile(t)
    PROVE  OwnInv'
<1> USE DEF OwnInv
<1>1. PICK o \in Objs, id \in Fds : Register(o, Invalid, id, "PagingFile")
  BY DEF CreatePagingFile, RegisterNext
<1>2. SameGone /\ os' = os /\ hand' = hand /\ pc' = pc /\ ptr' = ptr /\ arg' = arg
  BY DEF SameGone, CreatePagingFile
<1>3. /\ KeepsObjects
      /\ \A x \in Objs : obj[x].state = "live" => obj'[x] = obj[x]
  BY <1>1, <1>2, RegisterGains, ConstAssumption DEF Types, KeepsObjects
<1>4. OneOwner' /\ SomeOwner'
  BY <1>2, <1>3, Kept DEF KeepsHands
<1>5. \A u \in Threads : pc[u] \in {"dup_register"} \cup MappingPcs =>
          obj'[ptr[u]] = obj[ptr[u]]
  BY <1>3, HandleThere DEF PtrPcs, UsingPcs, MappingPcs
<1>6. KindInv'
  BY <1>2, <1>3, <1>5 DEF KindInv, KeepsObjects, HandKinds, Carries
<1>7. CallInv' /\ MapInv' /\ PairInv'
  BY <1>2, <1>5 DEF CallInv, MapInv, PairInv, MappingPcs
<1> QED
  BY <1>4, <1>6, <1>7

\* A step that leaves the objects, the kernel and every hand alone.
LEMMA QuietOwned ==
    ASSUME IInv, OwnInv, NEW t \in Threads,
           pc[t] \in {"idle", "close_get", "io", "dup_os", "accept_os", "mmap_create"},
           pc'[t] \in {"idle", "close_get", "close_os", "give_release", "io", "dup_os",
                       "accept_os", "mmap_create"},
           \A u \in Threads \ {t} : pc'[u] = pc[u] /\ ptr'[u] = ptr[u] /\ arg'[u] = arg[u],
           pc'[t] = "mmap_create" /\ obj[ptr'[t]].handle = Invalid =>
               \A u \in Threads : arg[u] = arg'[t] => pc[u] \notin MappingPcs,
           pc'[t] = "mmap_create" => ptr'[t] = table[arg'[t]] /\ arg'[t] \in Fds,
           UNCHANGED <<obj, os, hand>>
    PROVE  OwnInv'
<1> USE DEF OwnInv
<1>1. SameGone
  BY DEF SameGone
<1>2. KeepsObjects /\ KeepsHands
  BY <1>1 DEF KeepsObjects, KeepsHands, SameGone, Carries, OsGone
<1>3. OneOwner' /\ SomeOwner'
  BY <1>2, Kept
<1>4. hand[t] = <<>>
  BY DEF IInv, HandInv
<1>5. KindInv'
  BY <1>2, <1>4, AmongNone DEF KindInv, HandKinds, KeepsObjects
<1>6. PairInv' /\ CallInv'
  BY DEF CallInv, PairInv
<1>7. MapInv'
  <2> SUFFICES ASSUME NEW u \in Threads, NEW v \in Threads, u # v,
                      pc'[u] \in MappingPcs, pc'[v] \in MappingPcs, arg'[u] = arg'[v]
               PROVE  obj[ptr'[u]].handle # Invalid
    BY DEF MapInv
  <2>1. CASE u = t
    BY <2>1 DEF MappingPcs
  <2>2. CASE v = t
    <3>1. table[arg[u]] = ptr[u]
      BY <2>2 DEF IInv, PtrInv, MappingPcs, PtrPcs, UsingPcs
    <3> QED
      BY <2>2, <3>1 DEF MappingPcs
  <2>3. CASE u # t /\ v # t
    BY <2>3 DEF MapInv
  <2> QED
    BY <2>1, <2>2, <2>3
<1> QED
  BY <1>3, <1>5, <1>6, <1>7

LEMMA SocketPairOwned ==
    ASSUME IInv, OwnInv, NEW t \in Threads, SocketPair(t)
    PROVE  OwnInv'
<1> USE DEF OwnInv
<1>1. PICK h1, h2 \in OsHandles :
          /\ h1 # h2 /\ os[h1] = "closed" /\ os[h2] = "closed"
          /\ os' = [os EXCEPT ![h1] = "socket", ![h2] = "socket"]
          /\ hand' = [hand EXCEPT ![t] = <<h1, h2>>]
  BY DEF SocketPair
<1>2. /\ pc[t] = "idle" /\ pc' = [pc EXCEPT ![t] = "pair_adopt"]
      /\ UNCHANGED <<arg, ptr, obj>>
  BY DEF SocketPair, Goto
<1>3. /\ hand[t] = <<>> /\ hand'[t] = <<h1, h2>> /\ pc'[t] = "pair_adopt"
      /\ \A u \in Threads \ {t} : hand'[u] = hand[u] /\ pc'[u] = pc[u]
  BY <1>1, <1>2 DEF IInv, TypeOK, HandInv
<1>4. SameGone
  BY <1>2, <1>3 DEF SameGone
<1>5. KeepsObjects
  BY <1>2, <1>4 DEF KeepsObjects, SameGone, Carries, OsGone
<1>6. \A u \in Threads, k \in OsHandles :
          Among(k, hand'[u]) <=> Among(k, hand[u]) \/ (u = t /\ k \in {h1, h2})
  <2>1. \A k \in OsHandles : ~Among(k, hand[t]) /\ (Among(k, hand'[t]) <=> k \in {h1, h2})
    BY <1>3, AmongNone, AmongTwo
  <2> QED
    BY <1>3, <2>1
<1>7. \A k \in OsHandles : os'[k] = IF k \in {h1, h2} THEN "socket" ELSE os[k]
  BY <1>1 DEF IInv, TypeOK
<1>8. \A k \in {h1, h2} : /\ \A o \in Objs : ~Carries(o, k)
                          /\ \A u \in Threads : ~Among(k, hand[u])
  BY <1>1, ClosedUnowned
<1>9. OneOwner'
  BY <1>5, <1>6, <1>8 DEF OneOwner, KeepsObjects
<1>10. SomeOwner'
  BY <1>1, <1>5, <1>6, <1>7, <1>8 DEF SomeOwner, KeepsObjects
<1>11. KindInv'
  BY <1>2, <1>3, <1>5, <1>6, <1>7, <1>8, AmongNone DEF KindInv, HandKinds, KeepsObjects
<1>12. PairInv'
  BY <1>1, <1>3 DEF PairInv
<1>13. CallInv' /\ MapInv'
  BY <1>2, <1>3 DEF CallInv, MapInv, MappingPcs
<1> QED
  BY <1>9, <1>10, <1>11, <1>12, <1>13

LEMMA CloseGetOwned ==
    ASSUME IInv, OwnInv, NEW t \in Threads, NEW fd \in Fds, CloseGet(t, fd)
    PROVE  OwnInv'
<1>1. pc[t] = "idle" /\ UNCHANGED <<obj, os, hand>>
  BY DEF CloseGet
<1>2. /\ \A u \in Threads \ {t} : pc'[u] = pc[u] /\ ptr'[u] = ptr[u] /\ arg'[u] = arg[u]
      /\ pc'[t] \in {"idle", "close_get"}
  BY DEF CloseGet, Start, IInv, TypeOK
<1> QED
  BY <1>1, <1>2, QuietOwned

LEMMA GetOwned ==
    ASSUME IInv, OwnInv, NEW t \in Threads, NEW fd \in Fds,
           NEW next \in {"io", "dup_os", "accept_os", "mmap_create", "give_release"},
           next = "mmap_create" => MayMap(fd),
           Get(t, fd, next)
    PROVE  OwnInv'
<1>1. pc[t] = "idle" /\ UNCHANGED <<obj, os, hand>>
  BY DEF Get
<1>2. /\ \A u \in Threads \ {t} : pc'[u] = pc[u] /\ ptr'[u] = ptr[u] /\ arg'[u] = arg[u]
      /\ pc'[t] = next /\ ptr'[t] = table[fd] /\ arg'[t] = fd
  BY DEF Get, Start, IInv, TypeOK
<1>3. next = "mmap_create" /\ obj[ptr'[t]].handle = Invalid =>
          \A u \in Threads : arg[u] = arg'[t] => pc[u] \notin MappingPcs
  BY <1>2 DEF MayMap, MappingPcs
<1>4. next = "mmap_create" => ptr'[t] = table[arg'[t]] /\ arg'[t] \in Fds
  BY <1>2
<1> QED
  BY <1>1, <1>2, <1>3, <1>4, QuietOwned

LEMMA CloseGetAgainOwned ==
    ASSUME IInv, OwnInv, NEW t \in Threads, CloseGetAgain(t)
    PROVE  OwnInv'
<1>1. pc[t] = "close_get" /\ UNCHANGED <<obj, os, hand>>
  BY DEF CloseGetAgain
<1>2. /\ \A u \in Threads \ {t} : pc'[u] = pc[u] /\ ptr'[u] = ptr[u] /\ arg'[u] = arg[u]
      /\ pc'[t] = "close_os"
  BY DEF CloseGetAgain, Start, IInv, TypeOK
<1> QED
  BY <1>1, <1>2, QuietOwned

LEMMA ReturnOwned ==
    ASSUME IInv, OwnInv, NEW t \in Threads,
           pc[t] \in {"io", "dup_os", "accept_os", "mmap_create"}, Return(t),
           UNCHANGED <<table, lastId, obj, mutex, os, hand>>
    PROVE  OwnInv'
<1>1. /\ \A u \in Threads \ {t} : pc'[u] = pc[u] /\ ptr'[u] = ptr[u] /\ arg'[u] = arg[u]
      /\ pc'[t] = "idle"
  BY DEF Return, IInv, TypeOK
<1> QED
  BY <1>1, QuietOwned

LEMMA CloseOsOwned ==
    ASSUME IInv, OwnInv, NEW t \in Threads, CloseOs(t)
    PROVE  OwnInv'
<1> USE DEF OwnInv
<1> DEFINE o == ptr[t]
           h == obj[o].handle
<1>1. /\ pc[t] = "close_os" /\ o \in Objs /\ obj[o].state = "live"
      /\ h \in OsHandles \cup {Invalid} /\ ~OsGone(o) /\ h # Null
  BY HandleThere, ConstAssumption DEF CloseOs, PtrPcs
<1>2. /\ os' = OsClosed(obj[o].type, h) /\ pc' = [pc EXCEPT ![t] = "close_release"]
      /\ UNCHANGED <<obj, hand, arg, ptr>>
  BY <1>1 DEF CloseOs, Goto
<1>3. pc'[t] = "close_release" /\ \A u \in Threads \ {t} : pc'[u] = pc[u]
  BY <1>2 DEF IInv, TypeOK
<1>4. \A x \in Objs : OsGone(x)' <=> OsGone(x) \/ x = o
  BY <1>1, <1>2, <1>3 DEF OsGone
<1>5. Drops(o) /\ KeepsHands
  BY <1>2, <1>4 DEF Drops, KeepsHands, Carries
<1>6. OneOwner' /\ SomeOwner'
  <2>1. CASE h \in OsHandles
    <3>1. Carries(o, h) /\ \A k \in OsHandles : Carries(o, k) => k = h
      BY <1>1, <2>1 DEF Carries
    <3>2. os[h] \in KindsOf(obj[o].type)
      BY <1>1, <2>1, <3>1 DEF KindInv
    <3>3. os' = [os EXCEPT ![h] = "closed"]
      BY <1>2, <2>1, <3>2 DEF OsClosed, KindsOf
    <3> HIDE DEF o, h
    <3>4. os'[h] = "closed" /\ \A k \in OsHandles \ {h} : os'[k] = os[k]
      BY <2>1, <3>3 DEF IInv, TypeOK
    <3> QED
      BY <1>1, <1>5, <2>1, <3>1, <3>4, ClosedByObject
  <2>2. CASE h = Invalid
    <3>1. os' = os
      BY <1>2, <2>2, ConstAssumption DEF OsClosed
    <3>2. KeepsObjects
      BY <1>5, <2>2, ConstAssumption DEF KeepsObjects, Drops, Carries
    <3> QED
      BY <1>5, <3>1, <3>2, Kept
  <2> QED
    BY <1>1, <2>1, <2>2
<1>7. KindInv'
  <2>1. \A k \in OsHandles : os'[k] = os[k] \/ (k = h /\ Carries(o, k))
    BY <1>1, <1>2 DEF OsClosed, IInv, TypeOK, Carries
  <2>2. ASSUME NEW k \in OsHandles, NEW x \in Objs, Carries(x, k)'
        PROVE  os'[k] \in KindsOf(obj'[x].type)
    <3>1. Carries(x, k) /\ x # o
      BY <2>2, <1>5 DEF Drops
    <3>2. os'[k] = os[k]
      BY <2>1, <3>1, <1>1 DEF OneOwner
    <3> QED
      BY <1>2, <3>1, <3>2 DEF KindInv
  <2>3. ASSUME NEW k \in OsHandles, NEW u \in Threads, Among(k, hand[u])
        PROVE  os'[k] \in HandKinds(u)'
    <3>1. os'[k] = os[k]
      BY <2>1, <2>3, <1>1 DEF OneOwner
    <3>2. u # t
      BY <1>1, <2>3, AmongNone DEF IInv, HandInv
    <3> QED
      BY <1>2, <1>3, <2>3, <3>1, <3>2 DEF KindInv, HandKinds
  <2> QED
    BY <1>2, <2>2, <2>3 DEF KindInv
<1>8. PairInv' /\ CallInv' /\ MapInv'
  BY <1>2, <1>3 DEF PairInv, CallInv, MapInv, MappingPcs
<1> QED
  BY <1>6, <1>7, <1>8

LEMMA DeleteOwned ==
    ASSUME IInv, OwnInv, NEW t \in Threads, Delete(t)
    PROVE  OwnInv'
<1> USE DEF OwnInv
<1> DEFINE o == ptr[t]
<1>1. pc[t] = "delete" /\ o \in Objs /\ obj[o].handle = Null
  BY DEF Delete, IInv, PtrInv
<1>2. /\ obj' = [obj EXCEPT ![o].state = "freed"] /\ UNCHANGED <<os, hand>>
      /\ pc'[t] = "holding" \/ (pc'[t] = "idle" /\ hand[t] = <<>>)
      /\ \A u \in Threads \ {t} : pc'[u] = pc[u] /\ ptr'[u] = ptr[u] /\ arg'[u] = arg[u]
  BY <1>1 DEF Delete, IInv, TypeOK
<1>3. /\ \A x \in Objs : obj'[x].handle = obj[x].handle /\ obj'[x].type = obj[x].type
      /\ \A x \in Objs \ {o} : obj'[x].state = obj[x].state
  BY <1>1, <1>2 DEF IInv, TypeOK, ObjFields
<1>4. \A x \in Objs : OsGone(x)' <=> OsGone(x)
  BY <1>1, <1>2 DEF OsGone
<1>5. KeepsObjects /\ KeepsHands
  <2>1. ASSUME NEW x \in Objs, NEW k \in OsHandles
        PROVE  Carries(x, k)' <=> Carries(x, k)
    BY <1>1, <1>3, <1>4, ConstAssumption DEF Carries
  <2> QED
    BY <1>2, <2>1 DEF KeepsObjects, KeepsHands
<1>6. OneOwner' /\ SomeOwner'
  BY <1>2, <1>5, Kept
<1>7. \A u \in Threads : u # t /\ pc[u] \in PtrPcs => ptr[u] \in Objs
  BY DEF IInv, PtrInv
<1>8. KindInv'
  <2>1. ASSUME NEW u \in Threads, NEW k \in OsHandles, Among(k, hand[u])
        PROVE  HandKinds(u)' = HandKinds(u)
    <3>1. CASE u = t
      BY <1>1, <1>2, <2>1, <3>1, AmongNone DEF HandKinds
    <3>2. CASE u # t
      BY <1>2, <1>3, <1>7, <3>2 DEF HandKinds, PtrPcs, UsingPcs
    <3> QED
      BY <3>1, <3>2
  <2> QED
    BY <1>2, <1>3, <1>5, <2>1 DEF KindInv, KeepsObjects
<1>9. PairInv' /\ CallInv' /\ MapInv'
  BY <1>1, <1>2, <1>3, <1>7 DEF PairInv, CallInv, MapInv, MappingPcs, PtrPcs, UsingPcs
<1> QED
  BY <1>6, <1>8, <1>9

LEMMA ReleaseOwned ==
    ASSUME IInv, OwnInv, NEW t \in Threads, Release(t)
    PROVE  OwnInv'
<1> USE DEF OwnInv
<1> DEFINE o == ptr[t]
           h == obj[o].handle
<1>1. /\ pc[t] \in {"close_release", "give_release"} /\ o \in Objs /\ h # Null
      /\ hand[t] = <<>>
  BY DEF Release, IInv, PtrInv, HandInv, PtrPcs
<1>2. /\ obj' = [obj EXCEPT ![o] = [state |-> @.state, handle |-> Null, fd |-> Null,
                                    type |-> "Unknown"]]
      /\ pc' = [pc EXCEPT ![t] = "delete"] /\ UNCHANGED <<os, arg, ptr>>
  BY DEF Release, Cleared, Goto
<1>3. /\ pc'[t] = "delete" /\ \A u \in Threads \ {t} : pc'[u] = pc[u]
      /\ obj'[o].handle = Null /\ \A x \in Objs \ {o} : obj'[x] = obj[x]
  BY <1>1, <1>2 DEF IInv, TypeOK
<1>4. \A x \in Objs : OsGone(x)' <=> OsGone(x) /\ ~(pc[t] = "close_release" /\ x = o)
  <2>1. ASSUME NEW u \in Threads, u # t, pc[u] = "close_release", pc[t] = "close_release"
        PROVE  ptr[u] # o
    <3>1. arg[u] # arg[t]
      BY <2>1 DEF IInv, ExclInv, EndingPcs
    <3> QED
      BY <2>1, <3>1, SameObject DEF PtrPcs
  <2> QED
    BY <1>1, <1>2, <1>3, <2>1 DEF OsGone
<1>5. Drops(o)
  BY <1>3, <1>4, ConstAssumption DEF Drops, Carries
<1>6. \A u \in Threads : u # t /\ pc[u] \in PtrPcs => ptr[u] \in Objs /\ ptr[u] # o
  <2>1. ASSUME NEW u \in Threads, u # t, pc[u] \in PtrPcs, ptr[u] = o
        PROVE  FALSE
    BY <1>1, <2>1, SameObject DEF IInv, ExclInv, EndingPcs, PtrPcs
  <2> QED
    BY <2>1 DEF IInv, PtrInv
<1>7. CallInv' /\ MapInv'
  BY <1>2, <1>3, <1>6 DEF CallInv, MapInv, MappingPcs, PtrPcs, UsingPcs
<1>8. CASE pc[t] = "give_release" /\ h \in OsHandles
  <2>1. hand' = [hand EXCEPT ![t] = <<h>>]
    BY <1>8 DEF Release
  <2>2. hand'[t] = <<h>> /\ \A u \in Threads \ {t} : hand'[u] = hand[u]
    BY <2>1 DEF IInv, TypeOK
  <2>3. Takes(t, h)
    <3> HIDE DEF h
    <3> QED
      BY <1>1, <2>2, AmongNone, AmongOne DEF Takes
  <2>4. Carries(o, h) /\ \A k \in OsHandles : Carries(o, k) => k = h
    BY <1>8, HandleThere DEF Carries, PtrPcs
  <2>5. os[h] \in Kinds \ {"closed"}
    BY <1>1, <1>8, <2>4, OpenKinds DEF KindInv
  <2>6. OneOwner' /\ SomeOwner'
    <3> HIDE DEF o, h
    <3> QED
      BY <1>1, <1>2, <1>5, <1>8, <2>3, <2>4, HandedToThread
  <2>7. KindInv'
    <3>1. ASSUME NEW k \in OsHandles, NEW u \in Threads, Among(k, hand'[u])
          PROVE  os[k] \in HandKinds(u)'
      <4>1. CASE u = t
        BY <1>1, <1>3, <2>2, <2>3, <2>5, <3>1, <4>1, AmongNone DEF Takes, HandKinds
      <4>2. CASE u # t
        BY <1>2, <1>3, <1>6, <2>2, <3>1, <4>2 DEF KindInv, HandKinds, PtrPcs, UsingPcs
      <4> QED
        BY <4>1, <4>2
    <3> QED
      BY <1>2, <1>3, <1>5, <3>1 DEF KindInv, Drops
  <2>8. PairInv'
    BY <2>2 DEF PairInv
  <2> QED
    BY <1>7, <2>6, <2>7, <2>8
<1>9. CASE ~(pc[t] = "give_release" /\ h \in OsHandles)
  <2>1. hand' = hand
    BY <1>9 DEF Release
  <2>2. \A k \in OsHandles : ~Carries(o, k)
    BY <1>1, <1>9 DEF Carries, OsGone
  <2>3. KeepsObjects
    BY <1>5, <2>2 DEF KeepsObjects, Drops
  <2>4. OneOwner' /\ SomeOwner'
    BY <1>2, <2>1, <2>3, Kept DEF KeepsHands
  <2>5. KindInv'
    <3>1. \A u \in Threads, k \in OsHandles : Among(k, hand[u]) => HandKinds(u)' = HandKinds(u)
      BY <1>1, <1>2, <1>3, <1>6, AmongNone DEF HandKinds, PtrPcs, UsingPcs
    <3> QED
      BY <1>2, <1>3, <1>5, <2>1, <3>1 DEF KindInv, Drops
  <2>6. PairInv'
    BY <2>1 DEF PairInv
  <2> QED
    BY <1>7, <2>4, <2>5, <2>6
<1> QED
  BY <1>8, <1>9

\* A step of a call that obtains a handle from the kernel.
LEMMA ObtainedOwned ==
    ASSUME IInv, OwnInv, NEW t \in Threads, NEW h \in OsHandles,
           NEW next \in {"dup_register", "accept_register", "mmap_set"},
           pc[t] \in {"dup_os", "accept_os", "mmap_create"},
           os[h] = "closed",
           NEW kind \in IF next = "dup_register" THEN KindsOf(obj[ptr[t]].type)
                        ELSE IF next = "mmap_set" THEN {"section"} ELSE {"socket"},
           os' = [os EXCEPT ![h] = kind],
           hand' = [hand EXCEPT ![t] = <<h>>],
           next = "mmap_set" => /\ pc[t] = "mmap_create"
                                /\ obj[ptr[t]].type = "PagingFile"
                                /\ obj[ptr[t]].handle = Invalid,
           Goto(t, next), UNCHANGED <<table, lastId, obj, mutex>>
    PROVE  OwnInv'
<1> USE DEF OwnInv
<1>1. hand[t] = <<>> /\ ptr[t] \in Objs
  BY DEF IInv, HandInv, PtrInv, PtrPcs, UsingPcs
<1>2. /\ hand'[t] = <<h>> /\ pc'[t] = next
      /\ \A u \in Threads \ {t} : hand'[u] = hand[u] /\ pc'[u] = pc[u]
      /\ UNCHANGED <<arg, ptr>>
  BY DEF IInv, TypeOK, Goto
<1>3. KeepsObjects
  BY <1>2 DEF KeepsObjects, Carries, OsGone
<1>4. Takes(t, h)
  BY <1>1, <1>2, AmongNone, AmongOne DEF Takes
<1>5. Opens(h)
  BY DEF Opens, IInv, TypeOK, KindsOf
<1>6. OneOwner' /\ SomeOwner'
  BY <1>3, <1>4, <1>5, OpenedByThread
<1>7. KindInv'
  <2>1. \A k \in OsHandles \ {h} : os'[k] = os[k]
    BY <1>5 DEF Opens
  <2>2. ASSUME NEW k \in OsHandles, NEW x \in Objs, Carries(x, k)
        PROVE  os'[k] \in KindsOf(obj'[x].type)
    BY <2>1, <2>2, ClosedUnowned DEF KindInv
  <2>3. ASSUME NEW k \in OsHandles, NEW u \in Threads, Among(k, hand'[u])
        PROVE  os'[k] \in HandKinds(u)'
    <3>1. CASE u = t
      <4>1. k = h
        BY <1>1, <1>4, <2>3, <3>1, AmongNone DEF Takes
      <4> QED
        BY <1>2, <3>1, <4>1 DEF HandKinds, IInv, TypeOK
    <3>2. CASE u # t
      <4>1. Among(k, hand[u]) /\ k # h
        BY <1>4, <2>3, <3>2, ClosedUnowned DEF Takes
      <4> QED
        BY <1>2, <2>1, <3>2, <4>1 DEF KindInv, HandKinds
    <3> QED
      BY <3>1, <3>2
  <2> QED
    BY <1>3, <2>2, <2>3 DEF KindInv, KeepsObjects
<1>8. PairInv'
  BY <1>2 DEF PairInv
<1>9. CallInv'
  BY <1>2 DEF CallInv
<1>10. MapInv'
  BY <1>2 DEF MapInv, MappingPcs
<1> QED
  BY <1>6, <1>7, <1>8, <1>9, <1>10

LEMMA DupOsOwned ==
    ASSUME IInv, BlankInv, OwnInv, NEW t \in Threads, DupOs(t)
    PROVE  OwnInv'
<1> DEFINE kind == IF obj[ptr[t]].handle = Invalid THEN "process"
                   ELSE os[obj[ptr[t]].handle]
<1>1. pc[t] = "dup_os"
  BY DEF DupOs
<1>2. PICK h \in OsHandles :
          /\ os[h] = "closed" /\ os' = [os EXCEPT ![h] = kind]
          /\ hand' = [hand EXCEPT ![t] = <<h>>]
  BY DEF DupOs
<1>3. /\ ptr[t] \in Objs /\ obj[ptr[t]].state = "live" /\ ~OsGone(ptr[t])
      /\ obj[ptr[t]].handle \in OsHandles \cup {Invalid}
  BY <1>1, HandleThere DEF PtrPcs, UsingPcs
<1>4. kind \in KindsOf(obj[ptr[t]].type)
  <2>1. CASE obj[ptr[t]].handle = Invalid
    BY <1>3, <2>1 DEF BlankInv, KindsOf
  <2>2. CASE obj[ptr[t]].handle \in OsHandles
    BY <1>3, <2>2, ConstAssumption DEF OwnInv, KindInv, Carries
  <2> QED
    BY <1>3, <2>1, <2>2
<1>5. Goto(t, "dup_register") /\ UNCHANGED <<table, lastId, obj, mutex>>
  BY DEF DupOs
<1> HIDE DEF kind
<1> QED
  BY <1>1, <1>2, <1>4, <1>5, ObtainedOwned

LEMMA AcceptOsOwned ==
    ASSUME IInv, OwnInv, NEW t \in Threads, AcceptOs(t)
    PROVE  OwnInv'
  BY ObtainedOwned DEF AcceptOs

LEMMA MmapCreateOwned ==
    ASSUME IInv, OwnInv, NEW t \in Threads, MmapCreate(t)
    PROVE  OwnInv'
  BY ObtainedOwned DEF MmapCreate

\* A step of a call that registers the first handle it has in hand.
LEMMA RegisteredOwned ==
    ASSUME IInv, OwnInv, NEW t \in Threads, NEW h \in OsHandles,
           NEW o \in Objs, NEW id \in Fds, NEW type \in Types \cup {"Unknown"},
           Register(o, h, id, type), os[h] \in KindsOf(type),
           \/ hand[t] = <<h>> /\ hand'[t] = <<>>
           \/ \E k \in OsHandles :
                  hand[t] = <<h, k>> /\ hand'[t] = <<k>> /\ HandKinds(t)' = HandKinds(t),
           pc[t] \in {"dup_register", "accept_register", "pair_adopt", "holding"},
           pc'[t] \in {"idle", "pair_adopt"}, os' = os,
           \A u \in Threads \ {t} :
               hand'[u] = hand[u] /\ pc'[u] = pc[u] /\ ptr'[u] = ptr[u] /\ arg'[u] = arg[u]
    PROVE  OwnInv'
<1> USE DEF OwnInv
<1>1. SameGone
  BY DEF SameGone
<1>2. /\ Registers(o, h) /\ obj'[o].type = type
      /\ \A x \in Objs : obj[x].state = "live" => obj'[x] = obj[x]
  BY <1>1, RegisterGains DEF Registers
<1>3. Among(h, hand[t])
  <2>1. CASE hand[t] = <<h>>
    BY <2>1, AmongOne
  <2>2. ASSUME NEW k \in OsHandles, hand[t] = <<h, k>>
        PROVE  Among(h, hand[t])
    BY <2>2, AmongTwo
  <2> QED
    BY <2>1, <2>2
<1>4. Gives(t, h)
  <2>1. CASE hand[t] = <<h>> /\ hand'[t] = <<>>
    <3>1. \A k \in OsHandles : ~Among(k, hand'[t]) /\ (Among(k, hand[t]) <=> k = h)
      BY <2>1, AmongNone, AmongOne
    <3> QED
      BY <3>1 DEF Gives
  <2>2. ASSUME NEW k \in OsHandles, hand[t] = <<h, k>>, hand'[t] = <<k>>
        PROVE  Gives(t, h)
    <3>1. \A j \in OsHandles : (Among(j, hand'[t]) <=> j = k)
                                   /\ (Among(j, hand[t]) <=> j = h \/ j = k)
      BY <2>2, AmongTwo, AmongOne
    <3>2. h # k
      BY <2>2 DEF PairInv
    <3> QED
      BY <3>1, <3>2 DEF Gives
  <2> QED
    BY <2>1, <2>2
<1>5. OneOwner' /\ SomeOwner'
  BY <1>2, <1>3, <1>4, HandedToObject
<1>6. \A u \in Threads : u # t /\ pc[u] \in PtrPcs => obj'[ptr[u]] = obj[ptr[u]]
  <2>1. \A u \in Threads : pc[u] \in PtrPcs => ptr[u] \in Objs /\ obj[ptr[u]].state = "live"
    BY PointsToLive DEF IInv, PtrInv
  <2> QED
    BY <1>2, <2>1
<1>7. KindInv'
  <2>2. ASSUME NEW k \in OsHandles, NEW x \in Objs, Carries(x, k)'
        PROVE  os[k] \in KindsOf(obj'[x].type)
    <3>1. CASE x = o /\ k = h
      BY <1>2, <3>1
    <3>2. CASE Carries(x, k)
      BY <1>2, <3>2 DEF KindInv, Carries
    <3> QED
      BY <1>2, <2>2, <3>1, <3>2 DEF Registers
  <2>3. ASSUME NEW k \in OsHandles, NEW u \in Threads, Among(k, hand'[u])
        PROVE  os[k] \in HandKinds(u)'
    <3>1. CASE u = t
      BY <1>4, <2>3, <3>1, AmongNone DEF Gives, KindInv
    <3>2. CASE u # t
      BY <1>4, <1>6, <2>3, <3>2 DEF Gives, KindInv, HandKinds, PtrPcs, UsingPcs
    <3> QED
      BY <3>1, <3>2
  <2> QED
    BY <2>2, <2>3 DEF KindInv
<1>8. CallInv' /\ MapInv'
  BY <1>6 DEF CallInv, MapInv, MappingPcs, PtrPcs, UsingPcs
<1>9. PairInv'
  BY DEF PairInv
<1> QED
  BY <1>5, <1>7, <1>8, <1>9

LEMMA DupRegisterOwned ==
    ASSUME IInv, OwnInv, NEW t \in Threads, DupRegister(t)
    PROVE  OwnInv'
<1>1. PICK h \in OsHandles : hand[t] = <<h>>
  BY DEF DupRegister, IInv, HandInv
<1>2. PICK o \in Objs, id \in Fds : Register(o, h, id, obj[ptr[t]].type)
  BY <1>1 DEF DupRegister, RegisterNext
<1>3. obj[ptr[t]].type \in Types \cup {"Unknown"}
  BY DEF DupRegister, IInv, TypeOK, ObjFields, PtrInv, PtrPcs, UsingPcs
<1>4. os[h] \in KindsOf(obj[ptr[t]].type) /\ pc[t] = "dup_register"
  BY <1>1, AmongOne DEF DupRegister, HandKinds, OwnInv, KindInv
<1>5. /\ hand'[t] = <<>> /\ pc'[t] = "idle" /\ os' = os
      /\ \A u \in Threads \ {t} :
             hand'[u] = hand[u] /\ pc'[u] = pc[u] /\ ptr'[u] = ptr[u] /\ arg'[u] = arg[u]
  BY DEF DupRegister, Return, IInv, TypeOK
<1> QED
  BY <1>1, <1>2, <1>3, <1>4, <1>5, RegisteredOwned

LEMMA AcceptRegisterOwned ==
    ASSUME IInv, OwnInv, NEW t \in Threads, AcceptRegister(t)
    PROVE  OwnInv'
<1>1. PICK h \in OsHandles : hand[t] = <<h>>
  BY DEF AcceptRegister, IInv, HandInv
<1>2. PICK o \in Objs, id \in Fds : Register(o, h, id, "Socket")
  BY <1>1 DEF AcceptRegister, RegisterNext
<1>3. os[h] \in KindsOf("Socket") /\ pc[t] = "accept_register"
  <2>1. pc[t] = "accept_register" /\ Among(h, hand[t])
    BY <1>1, AmongOne DEF AcceptRegister
  <2>2. HandKinds(t) = KindsOf("Socket")
    BY <2>1 DEF HandKinds, KindsOf
  <2> QED
    BY <2>1, <2>2 DEF OwnInv, KindInv
<1>4. /\ hand'[t] = <<>> /\ pc'[t] = "idle" /\ os' = os
      /\ \A u \in Threads \ {t} :
             hand'[u] = hand[u] /\ pc'[u] = pc[u] /\ ptr'[u] = ptr[u] /\ arg'[u] = arg[u]
  BY DEF AcceptRegister, Return, IInv, TypeOK
<1> QED
  BY <1>1, <1>2, <1>3, <1>4, RegisteredOwned DEF Types

LEMMA OpenOsfHandleOwned ==
    ASSUME IInv, OwnInv, NEW t \in Threads,
           OpenOsfHandleNext(t) \/ \E fd \in Fds : OpenOsfHandle(t, fd)
    PROVE  OwnInv'
<1>1. PICK h \in OsHandles : hand[t] = <<h>>
  BY DEF OpenOsfHandleNext, OpenOsfHandle, IInv, HandInv
<1>2. PICK o \in Objs, id \in Fds : Register(o, h, id, "Socket")
  BY <1>1 DEF OpenOsfHandleNext, OpenOsfHandle, RegisterNext
<1>3. os[h] \in KindsOf("Socket") /\ pc[t] = "holding"
  BY <1>1 DEF OpenOsfHandleNext, OpenOsfHandle, MayAdopt, KindsOf
<1>4. /\ hand'[t] = <<>> /\ pc'[t] = "idle" /\ os' = os
      /\ \A u \in Threads \ {t} :
             hand'[u] = hand[u] /\ pc'[u] = pc[u] /\ ptr'[u] = ptr[u] /\ arg'[u] = arg[u]
  BY DEF OpenOsfHandleNext, OpenOsfHandle, IInv, TypeOK
<1> QED
  BY <1>1, <1>2, <1>3, <1>4, RegisteredOwned DEF Types

\* The handle of a released descriptor leaves the process.
LEMMA HandedOverOwned ==
    ASSUME IInv, OwnInv, NEW t \in Threads, HandedOver(t)
    PROVE  OwnInv'
<1> USE DEF OwnInv
<1>1. PICK h \in OsHandles : hand[t] = <<h>>
  BY DEF HandedOver, IInv, HandInv
<1>2. /\ pc[t] = "holding" /\ hand'[t] = <<>> /\ pc'[t] = "idle"
      /\ os'[h] = "closed" /\ \A k \in OsHandles \ {h} : os'[k] = os[k]
      /\ \A u \in Threads \ {t} : hand'[u] = hand[u] /\ pc'[u] = pc[u]
      /\ UNCHANGED <<obj, arg, ptr>>
  BY <1>1 DEF HandedOver, IInv, TypeOK
<1>3. KeepsObjects
  BY <1>2 DEF KeepsObjects, Carries, OsGone
<1>4. Gives(t, h) /\ Among(h, hand[t])
  BY <1>1, <1>2, AmongNone, AmongOne DEF Gives
<1>5. OneOwner'
  BY <1>3, <1>4 DEF OneOwner, KeepsObjects, Gives
<1>6. SomeOwner'
  BY <1>2, <1>3, <1>4 DEF SomeOwner, OneOwner, KeepsObjects, Gives
<1>7. KindInv'
  <2>1. ASSUME NEW k \in OsHandles, NEW x \in Objs, Carries(x, k)
        PROVE  os'[k] \in KindsOf(obj'[x].type)
    <3>1. k # h
      BY <1>4, <2>1 DEF OneOwner
    <3> QED
      BY <1>2, <2>1, <3>1 DEF KindInv
  <2>2. ASSUME NEW k \in OsHandles, NEW u \in Threads, Among(k, hand'[u])
        PROVE  os'[k] \in HandKinds(u)'
    <3>1. Among(k, hand[u]) /\ k # h /\ u # t
      BY <1>2, <1>4, <2>2, AmongNone DEF Gives, OneOwner
    <3> QED
      BY <1>2, <3>1 DEF KindInv, HandKinds
  <2> QED
    BY <1>3, <2>1, <2>2 DEF KindInv, KeepsObjects
<1>8. CallInv' /\ MapInv' /\ PairInv'
  BY <1>2 DEF CallInv, MapInv, MappingPcs, PairInv
<1> QED
  BY <1>5, <1>6, <1>7, <1>8

LEMMA PairAdoptOwned ==
    ASSUME IInv, OwnInv, NEW t \in Threads, PairAdopt(t)
    PROVE  OwnInv'
<1>1. /\ pc[t] = "pair_adopt" /\ os' = os /\ UNCHANGED <<arg, ptr>>
      /\ RegisterNext(hand[t][1], "Socket")
  BY DEF PairAdopt
<1>2. \A h \in OsHandles : Among(h, hand[t]) => os[h] \in KindsOf("Socket")
  BY <1>1 DEF HandKinds, KindsOf, OwnInv, KindInv
<1>3. CASE \E h \in OsHandles : hand[t] = <<h>>
  <2>1. PICK h \in OsHandles : hand[t] = <<h>>
    BY <1>3
  <2>2. PICK o \in Objs, id \in Fds : Register(o, h, id, "Socket")
    BY <1>1, <2>1 DEF RegisterNext
  <2>3. hand[t] \notin OsHandles \X OsHandles
    BY <2>1
  <2>4. /\ hand'[t] = <<>> /\ pc'[t] = "idle"
        /\ \A u \in Threads \ {t} : hand'[u] = hand[u] /\ pc'[u] = pc[u]
    BY <2>3 DEF PairAdopt, IInv, TypeOK
  <2>5. os[h] \in KindsOf("Socket")
    BY <1>2, <2>1, AmongOne
  <2> QED
    BY <1>1, <2>1, <2>2, <2>4, <2>5, RegisteredOwned DEF Types
<1>4. CASE \E h, k \in OsHandles : hand[t] = <<h, k>>
  <2>1. PICK h \in OsHandles, k \in OsHandles : hand[t] = <<h, k>>
    BY <1>4
  <2>2. PICK o \in Objs, id \in Fds : Register(o, h, id, "Socket")
    BY <1>1, <2>1 DEF RegisterNext
  <2>3. hand[t] \in OsHandles \X OsHandles
    BY <2>1
  <2>4. /\ hand'[t] = <<k>> /\ pc'[t] = "pair_adopt"
        /\ \A u \in Threads \ {t} : hand'[u] = hand[u] /\ pc'[u] = pc[u]
    BY <1>1, <2>1, <2>3 DEF PairAdopt, IInv, TypeOK
  <2>5. HandKinds(t)' = HandKinds(t)
    BY <1>1, <2>4 DEF HandKinds
  <2>6. os[h] \in KindsOf("Socket")
    BY <1>2, <2>1, AmongTwo
  <2> QED
    BY <1>1, <2>1, <2>2, <2>4, <2>5, <2>6, RegisteredOwned DEF Types
<1> QED
  BY <1>1, <1>3, <1>4 DEF IInv, HandInv

\* The section becomes the handle of the paging file that was mapped.
LEMMA MmapSetOwned ==
    ASSUME IInv, OwnInv, NEW t \in Threads, MmapSetOsHandle(t)
    PROVE  OwnInv'
<1> USE DEF OwnInv
<1> DEFINE o == ptr[t]
<1>1. PICK h \in OsHandles : hand[t] = <<h>>
  BY DEF MmapSetOsHandle, IInv, HandInv
<1>2. /\ pc[t] = "mmap_set" /\ o \in Objs /\ obj[o].state = "live" /\ ~OsGone(o)
      /\ obj[o].handle = Invalid /\ obj[o].type = "PagingFile"
  BY HandleThere DEF MmapSetOsHandle, CallInv, PtrPcs, UsingPcs
<1>3. /\ obj' = [obj EXCEPT ![o].handle = h] /\ os' = os
      /\ hand'[t] = <<>> /\ pc'[t] = "idle"
      /\ \A u \in Threads \ {t} :
             hand'[u] = hand[u] /\ pc'[u] = pc[u] /\ ptr'[u] = ptr[u] /\ arg'[u] = arg[u]
  BY <1>1 DEF MmapSetOsHandle, Return, IInv, TypeOK
<1>4. /\ \A x \in Objs : obj'[x].state = obj[x].state /\ obj'[x].type = obj[x].type
      /\ \A x \in Objs \ {o} : obj'[x] = obj[x]
      /\ obj'[o].handle = h
  BY <1>2, <1>3 DEF IInv, TypeOK, ObjFields
<1>5. \A x \in Objs : OsGone(x)' <=> OsGone(x)
  BY <1>2, <1>3 DEF OsGone
<1>6. Registers(o, h)
  <2> SUFFICES ASSUME NEW x \in Objs, NEW k \in OsHandles
               PROVE  Carries(x, k)' <=> Carries(x, k) \/ (x = o /\ k = h)
    BY DEF Registers
  <2>1. CASE x = o
    BY <1>2, <1>4, <1>5, <2>1, ConstAssumption DEF Carries
  <2>2. CASE x # o
    BY <1>4, <1>5, <2>2 DEF Carries
  <2> QED
    BY <2>1, <2>2
<1>7. Gives(t, h) /\ Among(h, hand[t])
  BY <1>1, <1>3, AmongNone, AmongOne DEF Gives
<1>8. OneOwner' /\ SomeOwner'
  <2> HIDE DEF o
  <2> QED
    BY <1>2, <1>3, <1>6, <1>7, HandedToObject
<1>9. \A u \in Threads : u # t /\ pc[u] \in PtrPcs => ptr[u] \in Objs
  BY DEF IInv, PtrInv
<1>10. KindInv'
  <2>1. os[h] \in KindsOf(obj[o].type)
    BY <1>2, <1>7 DEF KindInv, HandKinds, KindsOf
  <2>2. ASSUME NEW k \in OsHandles, NEW x \in Objs, Carries(x, k)'
        PROVE  os[k] \in KindsOf(obj'[x].type)
    BY <1>4, <1>6, <2>1, <2>2 DEF Registers, KindInv
  <2>3. ASSUME NEW k \in OsHandles, NEW u \in Threads, Among(k, hand'[u])
        PROVE  os[k] \in HandKinds(u)'
    <3>1. u # t
      BY <1>3, <2>3, AmongNone
    <3> QED
      BY <1>3, <1>4, <1>9, <2>3, <3>1 DEF KindInv, HandKinds, PtrPcs, UsingPcs
  <2> QED
    BY <1>3, <2>2, <2>3 DEF KindInv
<1>11. CallInv'
  <2>1. ASSUME NEW u \in Threads, u # t, pc[u] = "mmap_set", ptr[u] = o
        PROVE  FALSE
    <3>1. arg[u] = arg[t]
      BY <1>2, <2>1, SameObject DEF PtrPcs, UsingPcs
    <3> QED
      BY <1>2, <2>1, <3>1 DEF MapInv, MappingPcs
  <2> QED
    BY <1>2, <1>3, <1>4, <1>9, <2>1 DEF CallInv, PtrPcs, UsingPcs
<1>12. MapInv'
  <2>1. \A x \in Objs : obj'[x].handle = Invalid => obj[x].handle = Invalid
    BY <1>4, <1>2
  <2>2. \A u \in Threads : pc'[u] \in MappingPcs => u # t /\ pc[u] \in MappingPcs /\ ptr[u] \in Objs
    BY <1>3, <1>9 DEF MappingPcs, PtrPcs, UsingPcs
  <2> QED
    BY <1>3, <2>1, <2>2 DEF MapInv
<1>13. PairInv'
  BY <1>3 DEF PairInv
<1> QED
  BY <1>8, <1>10, <1>11, <1>12, <1>13

-----------------------------------------------------------------------------
(* Only a paging file is without a kernel object *)

LEMMA RegisterBlank ==
    ASSUME IInv, BlankInv, NEW h, NEW id, NEW type, NEW o \in Objs,
           Register(o, h, id, type), h = Invalid => type = "PagingFile"
    PROVE  BlankInv'
  BY DEF Register, BlankInv, IInv, TypeOK

LEMMA NextBlank == IInv /\ BlankInv /\ [Next]_vars => BlankInv'
<1> SUFFICES ASSUME IInv, BlankInv, Next PROVE BlankInv'
  BY DEF BlankInv, vars
<1>1. PICK t \in Threads : Call(t) \/ EndStep(t) \/ UseStep(t)
  BY DEF Next
<1>2. \A h, type : RegisterNext(h, type) /\ (h = Invalid => type = "PagingFile") => BlankInv'
  BY RegisterBlank DEF RegisterNext
<1>3. obj' = obj => BlankInv'
  BY DEF BlankInv
<1>4. pc[t] \in {"dup_register", "accept_register", "mmap_set", "holding", "pair_adopt"} =>
          hand[t][1] \in OsHandles
  BY DEF IInv, HandInv
<1>5. CASE Call(t)
  BY <1>2, <1>3, <1>5, ConstAssumption
     DEF Call, Open, Socket, CreatePagingFile, SocketPair, CloseGet, IoGet, DupGet,
         AcceptGet, MmapGet, GiveGet, Get
<1>6. CASE EndStep(t)
  <2>1. CASE Release(t)
    BY <2>1, ConstAssumption DEF Release, Cleared, BlankInv, IInv, TypeOK
  <2>2. CASE Delete(t)
    BY <2>2 DEF Delete, BlankInv, IInv, TypeOK, ObjFields
  <2> QED
    BY <1>3, <1>6, <2>1, <2>2 DEF EndStep, CloseGetAgain, CloseOs
<1>7. CASE UseStep(t)
  <2>1. CASE DupRegister(t) \/ AcceptRegister(t) \/ PairAdopt(t) \/ OpenOsfHandleNext(t)
    BY <1>2, <1>4, <2>1, ConstAssumption
       DEF DupRegister, AcceptRegister, PairAdopt, OpenOsfHandleNext
  <2>2. CASE \E fd \in Fds : OpenOsfHandle(t, fd)
    BY <1>4, <2>2, RegisterBlank, ConstAssumption DEF OpenOsfHandle
  <2>3. CASE MmapSetOsHandle(t)
    BY <1>4, <2>3, ConstAssumption DEF MmapSetOsHandle, BlankInv, IInv, TypeOK, ObjFields
  <2> QED
    BY <1>3, <1>7, <2>1, <2>2, <2>3
       DEF UseStep, IoDone, DupOs, DupFails, AcceptOs, AcceptFails, MmapCreate, MmapDone,
           HandedOver
<1> QED
  BY <1>1, <1>5, <1>6, <1>7

LEMMA BlankInvariance == Spec => []BlankInv
<1>1. Init => BlankInv
  BY ConstAssumption DEF Init, BlankInv
<1> QED
  BY <1>1, NextBlank, Invariance, PTL DEF Spec

-----------------------------------------------------------------------------
LEMMA InitOwned == Init => OwnInv
<1> SUFFICES ASSUME Init PROVE OwnInv
  OBVIOUS
<1>1. \A o \in Objs, h \in OsHandles : ~Carries(o, h)
  BY DEF Init, Carries
<1>2. \A t \in Threads, h \in OsHandles : ~Among(h, hand[t])
  BY AmongNone DEF Init
<1>3. KindInv /\ OneOwner /\ SomeOwner
  BY <1>1, <1>2 DEF Init, KindInv, OneOwner, SomeOwner
<1>4. PairInv /\ CallInv /\ MapInv
  BY DEF Init, PairInv, CallInv, MapInv, MappingPcs
<1> QED
  BY <1>3, <1>4 DEF OwnInv

LEMMA StutterOwned == OwnInv /\ UNCHANGED vars => OwnInv'
  BY DEF vars, OwnInv, CallInv, MapInv, KindInv, OneOwner, PairInv, SomeOwner, Carries,
         OsGone, HandKinds

LEMMA NextOwned == IInv /\ BlankInv /\ OwnInv /\ [Next]_vars => OwnInv'
<1> SUFFICES ASSUME IInv, BlankInv, OwnInv, Next PROVE OwnInv'
  BY StutterOwned
<1>1. PICK t \in Threads : Call(t) \/ EndStep(t) \/ UseStep(t)
  BY DEF Next
<1>2. CASE Call(t)
  <2>1. CASE Open(t)
    BY <2>1, CreatedOwned DEF Open, KindsOf
  <2>2. CASE Socket(t)
    BY <2>2, CreatedOwned DEF Socket, KindsOf
  <2>3. ASSUME NEW fd \in Fds,
               IoGet(t, fd) \/ DupGet(t, fd) \/ AcceptGet(t, fd) \/ MmapGet(t, fd)
                   \/ GiveGet(t, fd)
        PROVE  OwnInv'
    BY <2>3, GetOwned DEF IoGet, DupGet, AcceptGet, MmapGet, GiveGet
  <2> QED
    BY <1>2, <2>1, <2>2, <2>3, PagingFileOwned, SocketPairOwned, CloseGetOwned DEF Call
<1>3. CASE EndStep(t)
  BY <1>3, CloseGetAgainOwned, CloseOsOwned, ReleaseOwned, DeleteOwned DEF EndStep
<1>4. CASE UseStep(t)
  <2>1. CASE IoDone(t) \/ DupFails(t) \/ AcceptFails(t) \/ MmapDone(t)
    BY <2>1, ReturnOwned DEF IoDone, DupFails, AcceptFails, MmapDone
  <2> QED
    BY <1>4, <2>1, DupOsOwned, DupRegisterOwned, AcceptOsOwned, AcceptRegisterOwned,
       MmapCreateOwned, MmapSetOwned, PairAdoptOwned, HandedOverOwned, OpenOsfHandleOwned
       DEF UseStep
<1> QED
  BY <1>1, <1>2, <1>3, <1>4

LEMMA OwnInvariance == Spec => []OwnInv
<1>1. IInv /\ BlankInv /\ OwnInv /\ [Next]_vars => OwnInv'
  BY NextOwned
<1> QED
  BY <1>1, InitOwned, Invariance, BlankInvariance, PTL DEF Spec

\* Every open kernel handle has exactly one owner and a closed one has none,
\* though the kernel hands values out again between CloseHandle and the erase:
\* nothing is closed twice, nothing leaks, and no descriptor aliases another
\* one's handle.
THEOREM HandlesStayOwned == Spec => []HandleOwnership
<1>1. ASSUME OwnInv, NEW h \in OsHandles
      PROVE  /\ os[h] = "closed" => Owners(h) = {}
             /\ os[h] # "closed" => \E x \in Objs \cup Threads : Owners(h) = {x}
             /\ \A o \in Owners(h) \cap Objs : os[h] \in KindsOf(obj[o].type)
  <2> USE <1>1 DEF OwnInv
  <2>1. os[h] = "closed" => Owners(h) = {}
    BY ClosedUnowned DEF Owners
  <2>2. ASSUME NEW o \in Objs, Carries(o, h)
        PROVE  Owners(h) = {o}
    BY <2>2 DEF OneOwner, Owners
  <2>3. ASSUME NEW t \in Threads, Among(h, hand[t])
        PROVE  Owners(h) = {t}
    BY <2>3 DEF OneOwner, Owners
  <2>4. os[h] # "closed" => \E x \in Objs \cup Threads : Owners(h) = {x}
    BY <2>2, <2>3 DEF SomeOwner
  <2>5. \A o \in Owners(h) \cap Objs : os[h] \in KindsOf(obj[o].type)
    BY DistinctAssumption DEF Owners, KindInv
  <2> QED
    BY <2>1, <2>4, <2>5
<1>2. OwnInv => HandleOwnership
  BY <1>1 DEF HandleOwnership
<1> QED
  BY <1>2, OwnInvariance, PTL

-----------------------------------------------------------------------------
(* Numbers that were passed stay retired *)

\* A registration under a number of the table's choice is beyond every earlier
\* choice.
LEMMA RegisterNextRetires ==
    ASSUME IInv, NEW h, NEW type, RegisterNext(h, type),
           NEW fd \in Fds, fd <= lastId, table[fd] \notin Objs
    PROVE  table'[fd] \notin Objs
<1>1. PICK id \in Fds, o \in Objs : id > lastId /\ table' = [table EXCEPT ![id] = o]
  BY DEF RegisterNext, IsNextId, Register
<1> QED
  BY <1>1 DEF IInv, TypeOK, Fds

\* A closed number that getDescriptorId has passed names no descriptor again,
\* unless a caller of win32_open_osfhandle asks for it.
THEOREM NumbersStayRetired == Spec => NumbersRetire
<1> DEFINE Retired(fd) ==
               fd <= lastId /\ table[fd] \notin Objs /\ table'[fd] \in Objs =>
                   \E t \in Threads : pc[t] = "holding" /\ pc'[t] = "idle"
<1>1. ASSUME IInv, [Next]_vars, NEW fd \in Fds
      PROVE  Retired(fd)
  <2> SUFFICES ASSUME Next, fd <= lastId, table[fd] \notin Objs, table'[fd] \in Objs
               PROVE  \E t \in Threads : pc[t] = "holding" /\ pc'[t] = "idle"
    BY <1>1 DEF vars
  <2>1. PICK t \in Threads : Call(t) \/ EndStep(t) \/ UseStep(t)
    BY DEF Next
  <2>2. \A h, type : ~RegisterNext(h, type) \/ pc[t] = "holding"
    BY <1>1, RegisterNextRetires
  <2>3. \A k \in Fds : table' # Inserted(k)
    BY <1>1, ConstAssumption DEF Inserted, IInv, TypeOK
  <2>4. table' # table
    OBVIOUS
  <2>5. ~Release(t)
    BY <1>1, ConstAssumption DEF Release, IInv, TypeOK
  <2>6. OpenOsfHandleNext(t) \/ \E k \in Fds : OpenOsfHandle(t, k)
    <3>1. ~Call(t)
      BY <2>2, <2>3, <2>4
         DEF Call, Open, Socket, CreatePagingFile, SocketPair, CloseGet, IoGet, DupGet,
             AcceptGet, MmapGet, GiveGet, Get
    <3>2. ~EndStep(t)
      BY <1>1, <2>3, <2>4, <2>5
         DEF EndStep, CloseGetAgain, CloseOs, Delete, IInv, ArgInv, FreePcs
    <3>3. UseStep(t) => OpenOsfHandleNext(t) \/ \E k \in Fds : OpenOsfHandle(t, k)
      BY <2>2, <2>4
         DEF UseStep, IoDone, DupOs, DupFails, DupRegister, AcceptOs, AcceptFails,
             AcceptRegister, MmapCreate, MmapSetOsHandle, MmapDone, PairAdopt, HandedOver
    <3> QED
      BY <2>1, <3>1, <3>2, <3>3
  <2>7. pc[t] = "holding" /\ pc'[t] = "idle"
    BY <1>1, <2>6 DEF OpenOsfHandleNext, OpenOsfHandle, IInv, TypeOK
  <2> QED
    BY <2>7
<1>2. IInv /\ [Next]_vars => [\A fd \in Fds : Retired(fd)]_vars
  BY <1>1
<1> QED
  BY <1>2, Invariance, PTL DEF Spec, NumbersRetire

-----------------------------------------------------------------------------
(* The table implements FdTable, step by step *)

LEMMA InitShown == Init => Abstract!Init
  BY ConstAssumption DEF Init, Abstract!Init, Abstract!Numbers, Shown, Fds

\* What an entry of Shown is.
LEMMA ShownOwns ==
    ASSUME IInv, NEW fd \in Fds, NEW h \in OsHandles, Shown[fd] = h
    PROVE  table[fd] \in Objs /\ Carries(table[fd], h)
  BY ConstAssumption DEF Shown, Carries, IInv, EntryInv

\* A handle without an owner, or in hand, is no descriptor's.
LEMMA UnusedHandle ==
    ASSUME IInv, OwnInv, NEW h \in OsHandles,
           os[h] = "closed" \/ \E t \in Threads : Among(h, hand[t])
    PROVE  Abstract!Unused(h)
<1>1. \A o \in Objs : ~Carries(o, h)
  BY ClosedUnowned DEF OwnInv, OneOwner
<1> QED
  BY <1>1, ShownOwns DEF Abstract!Unused, Abstract!Numbers, Fds

LEMMA RegisterShown ==
    ASSUME IInv, SameGone, NEW o \in Objs, NEW h \in OsHandles \cup {Invalid},
           NEW id \in Fds, NEW type \in Types \cup {"Unknown"},
           table[id] = Absent, Register(o, h, id, type)
    PROVE  Shown[id] = Null /\ Shown' = [Shown EXCEPT ![id] = h]
<1>1. Shown[id] = Null
  BY ConstAssumption DEF Shown
<1>2. table'[id] = o /\ \A fd \in Fds \ {id} : table'[fd] = table[fd]
  BY DEF Register, IInv, TypeOK
<1>3. \A x \in Objs : OsGone(x)' <=> OsGone(x)
  BY DEF SameGone, OsGone
<1>4. ~OsGone(o) /\ obj'[o].handle = h
  BY NewNotGone, RegisterGains DEF Register
<1>5. \A fd \in Fds \ {id} : Shown'[fd] = Shown[fd]
  <2> SUFFICES ASSUME NEW fd \in Fds \ {id}, table[fd] \in Objs
               PROVE  obj'[table[fd]] = obj[table[fd]]
    BY <1>2, <1>3 DEF Shown
  <2> QED
    BY RegisterGains DEF IInv, EntryInv
<1>6. Shown'[id] = h
  BY <1>2, <1>3, <1>4 DEF Shown
<1> QED
  BY <1>1, <1>5, <1>6 DEF Shown

\* A step that neither changes an object in the table nor the table, but for
\* null entries.
LEMMA ShownKept ==
    ASSUME IInv, SameGone,
           \A fd \in Fds : table'[fd] = table[fd]
                               \/ (table[fd] \notin Objs /\ table'[fd] \notin Objs),
           \A fd \in Fds : table[fd] \in Objs => obj'[table[fd]].handle = obj[table[fd]].handle
    PROVE  Shown' = Shown
<1>1. \A x \in Objs : OsGone(x)' <=> OsGone(x)
  BY DEF SameGone, OsGone
<1> QED
  BY <1>1 DEF Shown

LEMMA AllocateStep ==
    ASSUME IInv, OwnInv, SameGone, NEW h \in OsHandles \cup {Invalid},
           NEW type \in Types \cup {"Unknown"}, RegisterNext(h, type),
           h = Invalid \/ os[h] = "closed" \/ \E t \in Threads : Among(h, hand[t])
    PROVE  Abstract!Next
<1>1. PICK id \in Fds, o \in Objs :
          IsNextId(id) /\ Register(o, h, id, type) /\ lastId' = id
  BY DEF RegisterNext
<1>2. Shown[id] = Null /\ Shown' = [Shown EXCEPT ![id] = h] /\ id > lastId
  BY <1>1, RegisterShown DEF IsNextId
<1>3. Abstract!Unused(h)
  BY UnusedHandle DEF Abstract!Unused
<1>4. Abstract!Allocate(id, h)
  BY <1>1, <1>2, <1>3 DEF Abstract!Allocate
<1> QED
  BY <1>4 DEF Abstract!Next, Abstract!Numbers, Fds

LEMMA AdoptStep ==
    ASSUME IInv, OwnInv, NEW t \in Threads, NEW fd \in Fds, OpenOsfHandle(t, fd)
    PROVE  Abstract!Next
<1>1. PICK h \in OsHandles : hand[t] = <<h>>
  BY DEF OpenOsfHandle, IInv, HandInv
<1>2. PICK o \in Objs : Register(o, h, fd, "Socket")
  BY <1>1 DEF OpenOsfHandle
<1>3. SameGone /\ lastId' = lastId /\ table[fd] = Absent
  BY DEF OpenOsfHandle, SameGone, IInv, TypeOK
<1>4. Shown[fd] = Null /\ Shown' = [Shown EXCEPT ![fd] = h]
  BY <1>2, <1>3, RegisterShown DEF Types
<1>5. Abstract!Unused(h)
  BY <1>1, AmongOne, UnusedHandle
<1>6. Abstract!Adopt(fd, h)
  BY <1>3, <1>4, <1>5 DEF Abstract!Adopt
<1> QED
  BY <1>6 DEF Abstract!Next, Abstract!Numbers, Fds

\* The descriptor a call works on, as the abstract space has it.
LEMMA ShownOfCall ==
    ASSUME IInv, NEW t \in Threads, pc[t] \in PtrPcs \ {"close_release"}
    PROVE  /\ arg[t] \in Fds /\ table[arg[t]] = ptr[t]
           /\ Shown[arg[t]] = obj[ptr[t]].handle
           /\ \A fd \in Fds : fd # arg[t] => table[fd] # ptr[t]
<1>1. arg[t] \in Fds /\ table[arg[t]] = ptr[t]
  BY DEF IInv, TypeOK, ArgInv, PtrInv, PtrPcs, FreePcs, UsingPcs
<1>2. ptr[t] \in Objs /\ ~OsGone(ptr[t])
  BY HandleThere
<1>3. \A fd \in Fds : fd # arg[t] => table[fd] # ptr[t]
  BY <1>1, <1>2 DEF IInv, EntryInv
<1> QED
  BY <1>1, <1>2, <1>3 DEF Shown

LEMMA BindStep ==
    ASSUME IInv, OwnInv, NEW t \in Threads, MmapSetOsHandle(t)
    PROVE  Abstract!Next
<1>1. PICK h \in OsHandles : hand[t] = <<h>>
  BY DEF MmapSetOsHandle, IInv, HandInv
<1>2. /\ pc[t] = "mmap_set" /\ obj' = [obj EXCEPT ![ptr[t]].handle = h]
      /\ UNCHANGED <<table, lastId>> /\ SameGone
  BY <1>1 DEF MmapSetOsHandle, Return, SameGone, IInv, TypeOK
<1>3. /\ arg[t] \in Fds /\ table[arg[t]] = ptr[t] /\ ptr[t] \in Objs
      /\ Shown[arg[t]] = Invalid
      /\ \A fd \in Fds : fd # arg[t] => table[fd] # ptr[t]
  BY <1>2, ShownOfCall, HandleThere DEF PtrPcs, UsingPcs, OwnInv, CallInv
<1>4. obj'[ptr[t]].handle = h /\ \A x \in Objs \ {ptr[t]} : obj'[x] = obj[x]
  BY <1>2, <1>3 DEF IInv, TypeOK, ObjFields
<1>5. /\ \A x \in Objs : OsGone(x)' <=> OsGone(x)
      /\ ~OsGone(ptr[t])
  BY <1>2, HandleThere DEF SameGone, OsGone, PtrPcs, UsingPcs
<1>6. Shown' = [Shown EXCEPT ![arg[t]] = h]
  BY <1>2, <1>3, <1>4, <1>5 DEF Shown
<1>7. Abstract!Unused(h)
  BY <1>1, AmongOne, UnusedHandle
<1>8. Abstract!Bind(arg[t], h)
  BY <1>2, <1>3, <1>6, <1>7 DEF Abstract!Bind
<1> QED
  BY <1>3, <1>8 DEF Abstract!Next, Abstract!Numbers, Fds

\* The entry disappears from the abstract space when the kernel closes the
\* handle, not when it leaves the map.
LEMMA CloseStep ==
    ASSUME IInv, NEW t \in Threads, CloseOs(t)
    PROVE  Abstract!Next
<1>1. /\ pc[t] = "close_os" /\ ptr[t] \in Objs /\ obj[ptr[t]].handle # Null
      /\ arg[t] \in Fds /\ table[arg[t]] = ptr[t] /\ Shown[arg[t]] # Null
      /\ \A fd \in Fds : fd # arg[t] => table[fd] # ptr[t]
  BY HandleThere, ShownOfCall, ConstAssumption DEF CloseOs, PtrPcs
<1>2. /\ pc' = [pc EXCEPT ![t] = "close_release"]
      /\ UNCHANGED <<table, lastId, obj, ptr>>
  BY <1>1 DEF CloseOs, Goto
<1>3. pc'[t] = "close_release" /\ \A u \in Threads \ {t} : pc'[u] = pc[u]
  BY <1>2 DEF IInv, TypeOK
<1>4. \A x \in Objs : OsGone(x)' <=> OsGone(x) \/ x = ptr[t]
  BY <1>1, <1>2, <1>3 DEF OsGone
<1>5. Shown' = [Shown EXCEPT ![arg[t]] = Null]
  BY <1>1, <1>2, <1>4 DEF Shown
<1>6. Abstract!Close(arg[t])
  BY <1>1, <1>2, <1>5 DEF Abstract!Close
<1> QED
  BY <1>1, <1>6 DEF Abstract!Next, Abstract!Numbers, Fds

\* release() after close() erases what is gone already; the one that
\* win32_release_osfhandle calls takes the descriptor away.
LEMMA ReleaseStep ==
    ASSUME IInv, NEW t \in Threads, Release(t)
    PROVE  Abstract!Next \/ UNCHANGED <<Shown, lastId>>
<1> DEFINE o == ptr[t]
<1>1. /\ pc[t] \in {"close_release", "give_release"} /\ o \in Objs
      /\ arg[t] \in Fds /\ table[arg[t]] = o /\ obj[o].fd = arg[t]
      /\ \A fd \in Fds : fd # arg[t] => table[fd] # o
  BY DEF Release, IInv, TypeOK, PtrInv, ArgInv, EntryInv, PtrPcs, FreePcs
<1>2. /\ table' = [table EXCEPT ![arg[t]] = Absent] /\ lastId' = lastId
      /\ pc' = [pc EXCEPT ![t] = "delete"] /\ ptr' = ptr
      /\ \A x \in Objs \ {o} : obj'[x] = obj[x]
  BY <1>1 DEF Release, Cleared, Goto, IInv, TypeOK
<1>3. \A x \in Objs \ {o} : OsGone(x)' <=> OsGone(x)
  BY <1>1, <1>2 DEF OsGone, IInv, TypeOK
<1>4. Shown' = [Shown EXCEPT ![arg[t]] = Null]
  BY <1>1, <1>2, <1>3, ConstAssumption DEF Shown, IInv, TypeOK
<1>5. CASE pc[t] = "close_release"
  <2>1. Shown[arg[t]] = Null
    BY <1>1, <1>5 DEF Shown, OsGone
  <2>2. Shown' = Shown
    BY <1>4, <2>1 DEF Shown
  <2> QED
    BY <1>2, <2>2
<1>6. CASE pc[t] = "give_release"
  <2>1. Shown[arg[t]] # Null
    BY <1>6, ShownOfCall DEF Release, PtrPcs
  <2>2. Abstract!Close(arg[t])
    BY <1>2, <1>4, <2>1 DEF Abstract!Close
  <2> QED
    BY <1>1, <2>2 DEF Abstract!Next, Abstract!Numbers, Fds
<1> QED
  BY <1>1, <1>5, <1>6

LEMMA DeleteStep ==
    ASSUME IInv, NEW t \in Threads, Delete(t)
    PROVE  UNCHANGED <<Shown, lastId>>
<1>1. /\ pc[t] = "delete" /\ ptr[t] \in Objs /\ obj[ptr[t]].handle = Null
      /\ \A fd \in Fds : table[fd] # ptr[t]
  BY DEF Delete, IInv, PtrInv
<1>2. /\ UNCHANGED <<table, lastId>> /\ pc'[t] \in {"idle", "holding"}
      /\ \A u \in Threads \ {t} : pc'[u] = pc[u] /\ ptr'[u] = ptr[u]
      /\ \A x \in Objs \ {ptr[t]} : obj'[x] = obj[x]
  BY <1>1 DEF Delete, IInv, TypeOK
<1>3. SameGone
  BY <1>1, <1>2 DEF SameGone
<1>4. Shown' = Shown
  BY <1>1, <1>2, <1>3, ShownKept
<1> QED
  BY <1>2, <1>4

\* Any other step of a call leaves the abstract space alone.
LEMMA QuietStep ==
    ASSUME IInv, NEW t \in Threads,
           table' = table \/ \E fd \in Fds : table' = Inserted(fd),
           pc[t] # "close_release", pc'[t] # "close_release",
           \A u \in Threads \ {t} : pc'[u] = pc[u] /\ ptr'[u] = ptr[u],
           UNCHANGED <<obj, lastId>>
    PROVE  UNCHANGED <<Shown, lastId>>
<1>1. SameGone
  BY DEF SameGone
<1>2. \A fd \in Fds : table'[fd] = table[fd]
                          \/ (table[fd] \notin Objs /\ table'[fd] \notin Objs)
  BY ConstAssumption DEF Inserted, IInv, TypeOK
<1>3. Shown' = Shown
  BY <1>1, <1>2, ShownKept
<1> QED
  BY <1>3

LEMMA GetStep ==
    ASSUME IInv, NEW t \in Threads, NEW fd \in Fds, NEW next \in Pcs \ {"close_release"},
           Get(t, fd, next)
    PROVE  UNCHANGED <<Shown, lastId>>
<1>1. /\ \A u \in Threads \ {t} : pc'[u] = pc[u] /\ ptr'[u] = ptr[u]
      /\ pc[t] = "idle" /\ pc'[t] = next
  BY DEF Get, Start, IInv, TypeOK
<1> QED
  BY <1>1, QuietStep DEF Get

LEMMA CallStep ==
    ASSUME IInv, OwnInv, NEW t \in Threads, Call(t)
    PROVE  Abstract!Next \/ UNCHANGED <<Shown, lastId>>
<1>1. CASE Open(t) \/ Socket(t) \/ CreatePagingFile(t)
  <2>1. SameGone
    BY <1>1 DEF Open, Socket, CreatePagingFile, SameGone
  <2> QED
    BY <1>1, <2>1, AllocateStep DEF Open, Socket, CreatePagingFile, Types
<1>2. CASE SocketPair(t)
  <2>1. pc[t] = "idle" /\ pc' = [pc EXCEPT ![t] = "pair_adopt"] /\ ptr' = ptr
    BY <1>2 DEF SocketPair, Goto
  <2> QED
    BY <1>2, <2>1, QuietStep DEF SocketPair, IInv, TypeOK
<1>3. ASSUME NEW fd \in Fds, CloseGet(t, fd)
      PROVE  UNCHANGED <<Shown, lastId>>
  <2>1. /\ pc[t] = "idle" /\ pc'[t] # "close_release"
        /\ \A u \in Threads \ {t} : pc'[u] = pc[u] /\ ptr'[u] = ptr[u]
    BY <1>3 DEF CloseGet, Start, IInv, TypeOK
  <2> QED
    BY <1>3, <2>1, QuietStep DEF CloseGet
<1>4. ASSUME NEW fd \in Fds,
             IoGet(t, fd) \/ DupGet(t, fd) \/ AcceptGet(t, fd) \/ MmapGet(t, fd)
                 \/ GiveGet(t, fd)
      PROVE  UNCHANGED <<Shown, lastId>>
  BY <1>4, GetStep
     DEF IoGet, DupGet, AcceptGet, MmapGet, GiveGet, Pcs, EndingPcs, UsingPcs
<1> QED
  BY <1>1, <1>2, <1>3, <1>4 DEF Call

LEMMA EndCallStep ==
    ASSUME IInv, OwnInv, NEW t \in Threads, EndStep(t)
    PROVE  Abstract!Next \/ UNCHANGED <<Shown, lastId>>
<1>1. CASE CloseGetAgain(t)
  <2>1. /\ pc[t] = "close_get" /\ pc'[t] = "close_os" /\ arg[t] \in Fds
        /\ \A u \in Threads \ {t} : pc'[u] = pc[u] /\ ptr'[u] = ptr[u]
    BY <1>1 DEF CloseGetAgain, Start, IInv, TypeOK, ArgInv, FreePcs
  <2> QED
    BY <1>1, <2>1, QuietStep DEF CloseGetAgain
<1> QED
  BY <1>1, CloseStep, ReleaseStep, DeleteStep DEF EndStep

LEMMA UseCallStep ==
    ASSUME IInv, OwnInv, NEW t \in Threads, UseStep(t)
    PROVE  Abstract!Next \/ UNCHANGED <<Shown, lastId>>
<1>1. CASE IoDone(t) \/ DupFails(t) \/ AcceptFails(t) \/ MmapDone(t)
               \/ DupOs(t) \/ AcceptOs(t) \/ MmapCreate(t) \/ HandedOver(t)
  <2>1. /\ pc[t] # "close_release" /\ pc'[t] # "close_release"
        /\ \A u \in Threads \ {t} : pc'[u] = pc[u] /\ ptr'[u] = ptr[u]
    BY <1>1 DEF IoDone, DupFails, AcceptFails, MmapDone, DupOs, AcceptOs, MmapCreate,
                HandedOver, Return, Goto, IInv, TypeOK
  <2>2. UNCHANGED <<table, obj, lastId>>
    BY <1>1 DEF IoDone, DupFails, AcceptFails, MmapDone, DupOs, AcceptOs, MmapCreate,
                HandedOver
  <2> QED
    BY <2>1, <2>2, QuietStep
<1>2. CASE DupRegister(t) \/ AcceptRegister(t) \/ PairAdopt(t) \/ OpenOsfHandleNext(t)
  <2>1. PICK h \in OsHandles : Among(h, hand[t]) /\ hand[t][1] = h
    <3>1. (\E h \in OsHandles : hand[t] = <<h>>) \/ (\E h, k \in OsHandles : hand[t] = <<h, k>>)
      BY <1>2 DEF DupRegister, AcceptRegister, PairAdopt, OpenOsfHandleNext, IInv, HandInv
    <3> QED
      BY <3>1, AmongOne, AmongTwo
  <2>2. SameGone
    BY <1>2 DEF DupRegister, AcceptRegister, PairAdopt, OpenOsfHandleNext, Return, SameGone,
                IInv, TypeOK
  <2>3. \E type \in Types \cup {"Unknown"} : RegisterNext(h, type)
    <3>1. CASE DupRegister(t)
      <4>1. obj[ptr[t]].type \in Types \cup {"Unknown"}
        BY <3>1 DEF DupRegister, IInv, TypeOK, ObjFields, PtrInv, PtrPcs, UsingPcs
      <4> QED
        BY <2>1, <3>1, <4>1 DEF DupRegister
    <3> QED
      BY <1>2, <2>1, <3>1 DEF AcceptRegister, PairAdopt, OpenOsfHandleNext, Types
  <2> QED
    BY <2>1, <2>2, <2>3, AllocateStep
<1> QED
  BY <1>1, <1>2, AdoptStep, BindStep DEF UseStep

LEMMA NextShown ==
    IInv /\ OwnInv /\ [Next]_vars => [Abstract!Next]_(Abstract!fdVars)
<1>1. UNCHANGED vars => UNCHANGED <<Shown, lastId>>
  BY DEF vars, Shown, OsGone
<1>2. IInv /\ OwnInv /\ Next => Abstract!Next \/ UNCHANGED <<Shown, lastId>>
  BY CallStep, EndCallStep, UseCallStep DEF Next
<1> QED
  BY <1>1, <1>2 DEF Abstract!fdVars

\* The table of UnixFD is a descriptor space: whatever threads interleave, it
\* looks to its callers as if descriptors appeared, got their object and
\* disappeared in single steps, one per handle, under numbers that ascend.
THEOREM TableImplements == Spec => ImplementsTable
<1>1. IInv /\ OwnInv /\ [Next]_vars => [Abstract!Next]_(Abstract!fdVars)
  BY NextShown
<1> QED
  BY <1>1, InitShown, Invariance, OwnInvariance, PTL DEF Spec, ImplementsTable, Abstract!Spec
=============================================================================
