------------------------------- MODULE UnixFD -------------------------------
(***************************************************************************)
(* The descriptor table of the "ndk" library: class UnixFD                 *)
(* (usr/src/win/unixfd.cpp), its POSIX entry points (unistd.cpp, osf.cpp,  *)
(* sys/socket.cpp) and mmap (sys/mman.cpp), which rewrites a descriptor's  *)
(* handle.  Threads of one process run calls concurrently; fds_mutex       *)
(* serialises the map, and everything the code does outside of it is a     *)
(* step of its own.                                                        *)
(*                                                                         *)
(* A UnixFD lives on the C++ heap: Objs are its possible addresses, each   *)
(* used once so that an access after delete can be told from an access to  *)
(* a later object.  OsHandles are kernel handle values; the kernel hands   *)
(* out any value that is closed, so a value comes back after CloseHandle.  *)
(***************************************************************************)
EXTENDS Integers

CONSTANTS
    Threads,    \* threads of the process
    Objs,       \* heap addresses of UnixFD objects
    OsHandles,  \* handle values of the kernel
    MaxFd,      \* bound on descriptor numbers
    Null,       \* a null pointer, a zero m_osHandle, no descriptor
    Invalid,    \* INVALID_HANDLE_VALUE
    Absent      \* "the map has no such key"

Fds == 1..MaxFd

ASSUME ConstAssumption ==
    /\ MaxFd \in Nat
    /\ Null \notin Objs /\ Absent \notin Objs /\ Absent # Null
    /\ Null \notin OsHandles /\ Invalid \notin OsHandles /\ Null # Invalid
    /\ Null \notin Threads /\ Null \notin Fds

\* A thread is not an object of the heap.
ASSUME DistinctAssumption == Objs \cap Threads = {}

VARIABLES
    table,   \* fds_map(): descriptor -> object, Null entry, or Absent
    lastId,  \* the static id of getDescriptorId
    obj,     \* the heap: fields of every UnixFD
    mutex,   \* fds_mutex: its holder while it is held across steps
    os,      \* kernel: what each handle value refers to
    pc,      \* where each thread is
    arg,     \* the descriptor each thread's call is about
    ptr,     \* the UnixFD* each thread holds
    hand     \* handles a call has obtained and not yet registered

vars == <<table, lastId, obj, mutex, os, pc, arg, ptr, hand>>

Types == {"File", "Socket", "PagingFile"}
Kinds == {"closed", "file", "socket", "section", "process"}

\* In close() or win32_release_osfhandle(): the calls that end a descriptor.
EndingPcs == {"close_get", "close_os", "close_release", "give_release", "delete"}
UsingPcs == {"io", "dup_os", "dup_register", "accept_os", "accept_register",
             "mmap_create", "mmap_set"}
Pcs == {"idle", "pair_adopt", "holding"} \cup EndingPcs \cup UsingPcs

ObjFields == [state : {"none", "live", "freed"},
              handle : OsHandles \cup {Null, Invalid},
              fd : Fds \cup {Null},
              type : Types \cup {"Unknown"}]

TypeOK ==
    /\ table \in [Fds -> Objs \cup {Null, Absent}]
    /\ lastId \in 0..MaxFd
    /\ obj \in [Objs -> ObjFields]
    /\ mutex \in Threads \cup {Null}
    /\ os \in [OsHandles -> Kinds]
    /\ pc \in [Threads -> Pcs]
    /\ arg \in [Threads -> Fds \cup {Null}]
    /\ ptr \in [Threads -> Objs \cup {Null}]
    /\ hand \in [Threads -> {<<>>} \cup {<<h>> : h \in OsHandles}
                                  \cup (OsHandles \X OsHandles)]

Init ==
    /\ table = [fd \in Fds |-> Absent]
    /\ lastId = 0
    /\ obj = [o \in Objs |-> [state |-> "none", handle |-> Null,
                              fd |-> Null, type |-> "Unknown"]]
    /\ mutex = Null
    /\ os = [h \in OsHandles |-> "closed"]
    /\ pc = [t \in Threads |-> "idle"]
    /\ arg = [t \in Threads |-> Null]
    /\ ptr = [t \in Threads |-> Null]
    /\ hand = [t \in Threads |-> <<>>]

-----------------------------------------------------------------------------
(* Helpers *)

\* Mutants of IsNextId: the next number without looking; the lowest one free.
IsNextId_NoProbe(id) == id = lastId + 1
IsNextId_LowestFree(id) ==
    table[id] = Absent /\ \A k \in Fds : k < id => table[k] # Absent

\* while (fds_map().count(++id)) { }
IsNextId(id) ==
    /\ id > lastId
    /\ table[id] = Absent
    /\ \A k \in Fds : lastId < k /\ k < id => table[k] # Absent

\* The address that new gives out next; which one it is makes no difference.
NextObj == CHOOSE o \in Objs : obj[o].state = "none"

\* new UnixFD(h, .., id, type) and fds_map()[id] = unixfd
Register(o, h, id, type) ==
    /\ obj[o].state = "none" /\ o = NextObj
    /\ obj' = [obj EXCEPT ![o] = [state |-> "live", handle |-> h,
                                  fd |-> id, type |-> type]]
    /\ table' = [table EXCEPT ![id] = o]

\* Mutant of RegisterNext: the static id is incremented once too often.
RegisterNext_TwoSteps(h, type) ==
    \E o \in Objs, id \in Fds :
        IsNextId(id) /\ Register(o, h, id, type) /\ lastId' = id + 1

\* ... under a number that getDescriptorId chooses
RegisterNext(h, type) ==
    \E o \in Objs, id \in Fds :
        /\ IsNextId(id)
        /\ Register(o, h, id, type)
        /\ lastId' = id

\* fds_map()[fd]: operator[] of std::map inserts a null entry for a new key
Inserted(fd) ==
    [table EXCEPT ![fd] = IF @ = Absent THEN Null ELSE @]

MutexFree == mutex = Null

\* Mutant of OsClosed: the switch of close() without "case PagingFile".
OsClosed_NoPagingFile(type, h) ==
    IF h \in OsHandles /\ type # "PagingFile" THEN [os EXCEPT ![h] = "closed"] ELSE os

\* What CloseHandle or closesocket does to the kernel's handles.
\* closesocket refuses a handle that is not a socket; CloseHandle of
\* INVALID_HANDLE_VALUE, the current process, is a no-op.
OsClosed(type, h) ==
    IF h \in OsHandles /\ (type = "Socket" => os[h] = "socket")
    THEN [os EXCEPT ![h] = "closed"]
    ELSE os

Return(t) ==
    /\ pc' = [pc EXCEPT ![t] = "idle"]
    /\ arg' = [arg EXCEPT ![t] = Null]
    /\ ptr' = [ptr EXCEPT ![t] = Null]

Start(t, fd, o, next) ==
    /\ pc' = [pc EXCEPT ![t] = next]
    /\ arg' = [arg EXCEPT ![t] = fd]
    /\ ptr' = [ptr EXCEPT ![t] = o]

Goto(t, next) == pc' = [pc EXCEPT ![t] = next] /\ UNCHANGED <<arg, ptr>>

(***************************************************************************)
(* What callers of a POSIX descriptor owe: a descriptor is ended by one    *)
(* call, which overlaps no other call on it, and is otherwise used only    *)
(* while it is open.  A close of a number that is not open is always       *)
(* allowed: the code answers EBADF.  The first mmap of a paging file does  *)
(* not overlap another one.  Only a socket goes into win32_open_osfhandle, *)
(* which files what it is given as one.                                    *)
(***************************************************************************)
MayEnd(fd) == \A u \in Threads : arg[u] # fd
MayUse(fd) ==
    /\ table[fd] \in Objs
    /\ \A u \in Threads : arg[u] = fd => pc[u] \notin EndingPcs
MayMap(fd) ==
    /\ MayUse(fd)
    /\ obj[table[fd]].handle = Invalid =>
           \A u \in Threads : arg[u] = fd => pc[u] \notin {"mmap_create", "mmap_set"}
MayAdopt(t) == os[hand[t][1]] = "socket"

-----------------------------------------------------------------------------
(* Calls that create a descriptor in one critical section *)

\* UnixFD::open, sopen: _open runs with the mutex held.
Open(t) ==
    /\ pc[t] = "idle" /\ MutexFree
    /\ \E h \in OsHandles :
        /\ os[h] = "closed"
        /\ os' = [os EXCEPT ![h] = "file"]
        /\ RegisterNext(h, "File")
    /\ UNCHANGED <<mutex, pc, arg, ptr, hand>>

\* UnixFD::socket
Socket(t) ==
    /\ pc[t] = "idle" /\ MutexFree
    /\ \E h \in OsHandles :
        /\ os[h] = "closed"
        /\ os' = [os EXCEPT ![h] = "socket"]
        /\ RegisterNext(h, "Socket")
    /\ UNCHANGED <<mutex, pc, arg, ptr, hand>>

\* pagingfile(): UnixFD::create(PagingFile), no kernel object yet
CreatePagingFile(t) ==
    /\ pc[t] = "idle" /\ MutexFree
    /\ RegisterNext(Invalid, "PagingFile")
    /\ UNCHANGED <<mutex, os, pc, arg, ptr, hand>>

-----------------------------------------------------------------------------
(* close() *)

\* unistd close(): the first UnixFD::get; a null result is EBADF.
CloseGet(t, fd) ==
    /\ pc[t] = "idle" /\ MutexFree /\ MayEnd(fd)
    /\ table' = Inserted(fd)
    /\ IF table[fd] \in Objs
       THEN Start(t, fd, Null, "close_get")
       ELSE UNCHANGED <<pc, arg, ptr>>
    /\ UNCHANGED <<lastId, obj, mutex, os, hand>>

\* ... the second UnixFD::get, whose result is dereferenced
CloseGetAgain(t) ==
    /\ pc[t] = "close_get" /\ MutexFree
    /\ table' = Inserted(arg[t])
    /\ Start(t, arg[t], IF table[arg[t]] \in Objs THEN table[arg[t]] ELSE Null,
             "close_os")
    /\ UNCHANGED <<lastId, obj, mutex, os, hand>>

\* UnixFD::close: the kernel handle goes first, without the mutex.
CloseOs(t) ==
    /\ pc[t] = "close_os"
    /\ IF obj[ptr[t]].handle = Null
       THEN Return(t) /\ UNCHANGED os
       ELSE /\ os' = OsClosed(obj[ptr[t]].type, obj[ptr[t]].handle)
            /\ Goto(t, "close_release")
    /\ UNCHANGED <<table, lastId, obj, mutex, hand>>

\* Mutants: release() leaves m_osHandle set; release() leaves the entry.
Cleared_KeepsHandle(o) ==
    [obj EXCEPT ![o] = [state |-> @.state, handle |-> @.handle, fd |-> Null,
                        type |-> "Unknown"]]

Release_KeepsEntry(t) ==
    /\ pc[t] \in {"close_release", "give_release"} /\ MutexFree
    /\ mutex' = t
    /\ obj' = [obj EXCEPT ![ptr[t]].handle = Null]
    /\ pc' = [pc EXCEPT ![t] = "delete"]
    /\ UNCHANGED <<table, lastId, os, arg, ptr, hand>>

\* UnixFD::release: the entry and the fields, under the mutex; the handle
\* is the result, which close() drops and win32_release_osfhandle returns.
Cleared(o) ==
    [obj EXCEPT ![o] = [state |-> @.state, handle |-> Null, fd |-> Null,
                        type |-> "Unknown"]]

Release(t) ==
    /\ pc[t] \in {"close_release", "give_release"} /\ MutexFree
    /\ obj[ptr[t]].handle # Null
    /\ mutex' = t
    /\ table' = IF obj[ptr[t]].fd \in Fds
                THEN [table EXCEPT ![obj[ptr[t]].fd] = Absent]
                ELSE table
    /\ obj' = Cleared(ptr[t])
    /\ hand' = IF pc[t] = "give_release" /\ obj[ptr[t]].handle \in OsHandles
               THEN [hand EXCEPT ![t] = <<obj[ptr[t]].handle>>]
               ELSE hand
    /\ Goto(t, "delete")
    /\ UNCHANGED <<lastId, os>>

\* delete this, still under the mutex: ~UnixFD calls close() once more, which
\* returns at once only because m_osHandle is zero; otherwise it would close
\* the handle and call release, which waits for the mutex it holds.
Delete(t) ==
    /\ pc[t] = "delete"
    /\ IF obj[ptr[t]].handle = Null
       THEN /\ obj' = [obj EXCEPT ![ptr[t]].state = "freed"]
            /\ mutex' = Null
            /\ arg' = [arg EXCEPT ![t] = Null]
            /\ ptr' = [ptr EXCEPT ![t] = Null]
            /\ pc' = [pc EXCEPT ![t] = IF hand[t] = <<>> THEN "idle" ELSE "holding"]
            /\ UNCHANGED os
       ELSE /\ os' = OsClosed(obj[ptr[t]].type, obj[ptr[t]].handle)
            /\ Goto(t, "close_release")
            /\ UNCHANGED <<obj, mutex>>
    /\ UNCHANGED <<table, lastId, hand>>

-----------------------------------------------------------------------------
(* Calls on an open descriptor: get under the mutex, use without it *)

Get(t, fd, next) ==
    /\ pc[t] = "idle" /\ MutexFree
    /\ table' = Inserted(fd)
    /\ Start(t, fd, table[fd], next)
    /\ UNCHANGED <<lastId, obj, mutex, os, hand>>

\* read, write, send, recv, fcntl, select ...: any call that takes the
\* object's handle to the kernel and leaves the table alone
IoGet(t, fd) == MayUse(fd) /\ Get(t, fd, "io")

IoDone(t) ==
    /\ pc[t] = "io"
    /\ Return(t)
    /\ UNCHANGED <<table, lastId, obj, mutex, os, hand>>

\* UnixFD::dup: DuplicateHandle, then the mutex to register the duplicate
DupGet(t, fd) == MayUse(fd) /\ Get(t, fd, "dup_os")

\* A paging file that has no section yet holds INVALID_HANDLE_VALUE, the value
\* that stands for the current process: the duplicate is a process handle.
DupOs(t) ==
    /\ pc[t] = "dup_os"
    /\ \E h \in OsHandles :
        /\ os[h] = "closed"
        /\ os' = [os EXCEPT ![h] = IF obj[ptr[t]].handle = Invalid THEN "process"
                                   ELSE os[obj[ptr[t]].handle]]
        /\ hand' = [hand EXCEPT ![t] = <<h>>]
    /\ Goto(t, "dup_register")
    /\ UNCHANGED <<table, lastId, obj, mutex>>

DupFails(t) ==
    /\ pc[t] = "dup_os"
    /\ Return(t)
    /\ UNCHANGED <<table, lastId, obj, mutex, os, hand>>

DupRegister(t) ==
    /\ pc[t] = "dup_register" /\ MutexFree
    /\ RegisterNext(hand[t][1], obj[ptr[t]].type)
    /\ hand' = [hand EXCEPT ![t] = <<>>]
    /\ Return(t)
    /\ UNCHANGED <<mutex, os>>

\* UnixFD::accept: the kernel's accept, then the mutex
AcceptGet(t, fd) == MayUse(fd) /\ Get(t, fd, "accept_os")

AcceptOs(t) ==
    /\ pc[t] = "accept_os"
    /\ obj[ptr[t]].type = "Socket"
    /\ \E h \in OsHandles :
        /\ os[h] = "closed"
        /\ os' = [os EXCEPT ![h] = "socket"]
        /\ hand' = [hand EXCEPT ![t] = <<h>>]
    /\ Goto(t, "accept_register")
    /\ UNCHANGED <<table, lastId, obj, mutex>>

\* not a socket, or the kernel's accept fails
AcceptFails(t) ==
    /\ pc[t] = "accept_os"
    /\ Return(t)
    /\ UNCHANGED <<table, lastId, obj, mutex, os, hand>>

AcceptRegister(t) ==
    /\ pc[t] = "accept_register" /\ MutexFree
    /\ RegisterNext(hand[t][1], "Socket")
    /\ hand' = [hand EXCEPT ![t] = <<>>]
    /\ Return(t)
    /\ UNCHANGED <<mutex, os>>

-----------------------------------------------------------------------------
(* socketpair(), pipe(): two kernel sockets, adopted one after the other *)

SocketPair(t) ==
    /\ pc[t] = "idle"
    /\ \E h1, h2 \in OsHandles :
        /\ h1 # h2 /\ os[h1] = "closed" /\ os[h2] = "closed"
        /\ os' = [os EXCEPT ![h1] = "socket", ![h2] = "socket"]
        /\ hand' = [hand EXCEPT ![t] = <<h1, h2>>]
    /\ Goto(t, "pair_adopt")
    /\ UNCHANGED <<table, lastId, obj, mutex>>

\* adopt(-1, sockets[i], Socket)
PairAdopt(t) ==
    /\ pc[t] = "pair_adopt" /\ MutexFree
    /\ RegisterNext(hand[t][1], "Socket")
    /\ IF hand[t] \in OsHandles \X OsHandles
       THEN hand' = [hand EXCEPT ![t] = <<hand[t][2]>>] /\ UNCHANGED pc
       ELSE hand' = [hand EXCEPT ![t] = <<>>] /\ pc' = [pc EXCEPT ![t] = "idle"]
    /\ UNCHANGED <<mutex, os, arg, ptr>>

-----------------------------------------------------------------------------
(* osf.cpp: taking a handle out of a descriptor and putting one in *)

\* win32_release_osfhandle: get, then release, whatever the type; sendmsg does
\* the same to the duplicate it is about to send.
GiveGet(t, fd) ==
    /\ MayEnd(fd) /\ table[fd] \in Objs
    /\ Get(t, fd, "give_release")

\* The handle leaves the process: the peer that got it in a message adopts it
\* with DUPLICATE_CLOSE_SOURCE, or the caller closes it.
HandedOver(t) ==
    /\ pc[t] = "holding"
    /\ os' = [os EXCEPT ![hand[t][1]] = "closed"]
    /\ hand' = [hand EXCEPT ![t] = <<>>]
    /\ pc' = [pc EXCEPT ![t] = "idle"]
    /\ UNCHANGED <<table, lastId, obj, mutex, arg, ptr>>

\* win32_open_osfhandle: adopt(h, Socket, fd), fd = -1 or a number of the
\* caller's choice, which the code asserts is not in the map
OpenOsfHandle(t, fd) ==
    /\ pc[t] = "holding" /\ MutexFree /\ MayAdopt(t)
    /\ table[fd] = Absent
    /\ \E o \in Objs : Register(o, hand[t][1], fd, "Socket")
    /\ hand' = [hand EXCEPT ![t] = <<>>]
    /\ pc' = [pc EXCEPT ![t] = "idle"]
    /\ UNCHANGED <<lastId, mutex, os, arg, ptr>>

OpenOsfHandleNext(t) ==
    /\ pc[t] = "holding" /\ MutexFree /\ MayAdopt(t)
    /\ RegisterNext(hand[t][1], "Socket")
    /\ hand' = [hand EXCEPT ![t] = <<>>]
    /\ pc' = [pc EXCEPT ![t] = "idle"]
    /\ UNCHANGED <<mutex, os, arg, ptr>>

-----------------------------------------------------------------------------
(* mmap of a descriptor *)

MmapGet(t, fd) == MayMap(fd) /\ Get(t, fd, "mmap_create")

\* First mapping of a paging file: CreateFileMapping makes the section ...
MmapCreate(t) ==
    /\ pc[t] = "mmap_create"
    /\ obj[ptr[t]].type = "PagingFile" /\ obj[ptr[t]].handle = Invalid
    /\ \E h \in OsHandles :
        /\ os[h] = "closed"
        /\ os' = [os EXCEPT ![h] = "section"]
        /\ hand' = [hand EXCEPT ![t] = <<h>>]
    /\ Goto(t, "mmap_set")
    /\ UNCHANGED <<table, lastId, obj, mutex>>

\* ... which becomes the descriptor's handle, whether MapViewOfFile worked
\* or not.
MmapSetOsHandle(t) ==
    /\ pc[t] = "mmap_set"
    /\ obj' = [obj EXCEPT ![ptr[t]].handle = hand[t][1]]
    /\ hand' = [hand EXCEPT ![t] = <<>>]
    /\ Return(t)
    /\ UNCHANGED <<table, lastId, mutex, os>>

\* A file's section is closed again before mmap returns, a paging file that
\* has a section is mapped through it, and a failure changes nothing.
MmapDone(t) ==
    /\ pc[t] = "mmap_create"
    /\ Return(t)
    /\ UNCHANGED <<table, lastId, obj, mutex, os, hand>>

-----------------------------------------------------------------------------
Call(t) ==
    \/ Open(t) \/ Socket(t) \/ CreatePagingFile(t) \/ SocketPair(t)
    \/ \E fd \in Fds :
        \/ CloseGet(t, fd) \/ IoGet(t, fd) \/ DupGet(t, fd)
        \/ AcceptGet(t, fd) \/ MmapGet(t, fd) \/ GiveGet(t, fd)

\* The rest of a call that ends a descriptor.
EndStep(t) == CloseGetAgain(t) \/ CloseOs(t) \/ Release(t) \/ Delete(t)

UseStep(t) ==
    \/ IoDone(t)
    \/ DupOs(t) \/ DupFails(t) \/ DupRegister(t)
    \/ AcceptOs(t) \/ AcceptFails(t) \/ AcceptRegister(t)
    \/ MmapCreate(t) \/ MmapSetOsHandle(t) \/ MmapDone(t)
    \/ PairAdopt(t) \/ HandedOver(t) \/ OpenOsfHandleNext(t)
    \/ \E fd \in Fds : OpenOsfHandle(t, fd)

Next == \E t \in Threads : Call(t) \/ EndStep(t) \/ UseStep(t)

Spec == Init /\ [][Next]_vars

\* std::mutex admits every waiter in the end on the platform's scheduler, and
\* closing a handle does not block: each thread finishes the calls that end
\* a descriptor.
Fairness == \A t \in Threads : SF_vars(EndStep(t))
FairSpec == Spec /\ Fairness

-----------------------------------------------------------------------------
(* Properties *)

\* The kernel handle of o has been closed, its entry not yet erased.
OsGone(o) == \E t \in Threads : ptr[t] = o /\ pc[t] = "close_release"

\* A thread that has taken a UnixFD* out of the table holds a live object that
\* the table still has under the number the call was made with, until release
\* erases it: no step of close, dup, accept, read or mmap touches an object
\* another thread has deleted, or the descriptor of somebody else.
PointersLive ==
    \A t \in Threads :
        /\ ptr[t] \in Objs => obj[ptr[t]].state = "live"
        /\ pc[t] \in (EndingPcs \cup UsingPcs) \ {"close_get", "delete"} =>
               /\ ptr[t] \in Objs
               /\ table[arg[t]] = ptr[t]
               /\ obj[ptr[t]].fd = arg[t]

\* The table and the heap agree: an entry leads to a live object that carries
\* the entry's number, and a live object that is not being deleted has its
\* entry, so that no descriptor is lost and none is listed twice.
TableAgrees ==
    /\ \A fd \in Fds : table[fd] \in Objs =>
           obj[table[fd]].state = "live" /\ obj[table[fd]].fd = fd
    /\ \A o \in Objs : obj[o].state = "live" =>
           \/ obj[o].fd \in Fds /\ table[obj[o].fd] = o
           \/ \E t \in Threads : pc[t] = "delete" /\ ptr[t] = o

\* Who answers for an open handle: the live object that carries it, up to the
\* moment close() gives it back to the kernel, or a call about to register it.
Carries(o, h) == obj[o].state = "live" /\ obj[o].handle = h /\ ~OsGone(o)
Among(h, handles) == \E i \in DOMAIN handles : handles[i] = h
Owners(h) ==
    {o \in Objs : Carries(o, h)} \cup {t \in Threads : Among(h, hand[t])}

\* What the handle of a descriptor may refer to: a paging file's is a section,
\* or the process if it was duplicated before its first mapping.
KindsOf(type) ==
    CASE type = "File" -> {"file"}
      [] type = "Socket" -> {"socket"}
      [] OTHER -> {"section", "process"}

\* Every open kernel handle has exactly one owner and a closed one has none,
\* though the kernel may hand a value out again between CloseHandle and the
\* erase: nothing is closed twice, nothing leaks, no descriptor aliases
\* another one's handle, and a handle is of the kind its descriptor says.
HandleOwnership ==
    \A h \in OsHandles :
        /\ os[h] = "closed" => Owners(h) = {}
        /\ os[h] # "closed" => \E x \in Objs \cup Threads : Owners(h) = {x}
        /\ \A o \in Owners(h) \cap Objs : os[h] \in KindsOf(obj[o].type)

\* A number that getDescriptorId has passed and that is closed never names a
\* descriptor again, unless a caller of win32_open_osfhandle asks for it: a
\* late close or read of an old number cannot reach a new descriptor.
NumbersRetire ==
    [][\A fd \in Fds :
          fd <= lastId /\ table[fd] \notin Objs /\ table'[fd] \in Objs =>
              \E t \in Threads : pc[t] = "holding" /\ pc'[t] = "idle"]_vars

\* A call that ends a descriptor returns: the destructor that release runs
\* with the mutex held does not come back for the mutex.
EndingReturns ==
    \A t \in Threads : pc[t] \in EndingPcs ~> pc[t] \in {"idle", "holding"}

\* The table implements the abstract descriptor space: a descriptor is there
\* from its registration to the moment its kernel handle is closed.
Shown == [fd \in Fds |-> IF table[fd] \in Objs /\ ~OsGone(table[fd])
                         THEN obj[table[fd]].handle ELSE Null]
Abstract == INSTANCE FdTable WITH desc <- Shown, last <- lastId
ImplementsTable == Abstract!Spec
-----------------------------------------------------------------------------
(* The inductive invariant behind PointersLive, TableAgrees and             *)
(* HandleOwnership *)

\* Calls that carry a registered object's pointer.
PtrPcs == {"close_os", "close_release", "give_release"} \cup UsingPcs
\* Threads outside of any call on a descriptor.
FreePcs == {"idle", "pair_adopt", "holding"}

\* fds_mutex is held across steps by the thread that deletes, and only by it.
MutexInv == \A t \in Threads : mutex = t <=> pc[t] = "delete"

\* A call carries the handles it is about to register, and no others.
HandInv ==
    \A t \in Threads :
        /\ pc[t] \in {"dup_register", "accept_register", "mmap_set", "holding"} =>
               \E h \in OsHandles : hand[t] = <<h>>
        /\ pc[t] = "pair_adopt" =>
               \/ \E h \in OsHandles : hand[t] = <<h>>
               \/ \E h, k \in OsHandles : hand[t] = <<h, k>>
        /\ pc[t] = "delete" =>
               hand[t] = <<>> \/ \E h \in OsHandles : hand[t] = <<h>>
        /\ pc[t] \in {"idle", "close_get", "close_os", "close_release",
                       "give_release", "io", "dup_os", "accept_os", "mmap_create"} =>
               hand[t] = <<>>

ArgInv ==
    \A t \in Threads : IF pc[t] \in FreePcs THEN arg[t] = Null /\ ptr[t] = Null
                                            ELSE arg[t] \in Fds

PtrInv ==
    \A t \in Threads :
        /\ pc[t] \in PtrPcs => ptr[t] \in Objs /\ table[arg[t]] = ptr[t]
        /\ pc[t] = "close_get" => ptr[t] = Null /\ table[arg[t]] \in Objs
        /\ pc[t] = "delete" =>
               /\ ptr[t] \in Objs
               /\ obj[ptr[t]].state = "live" /\ obj[ptr[t]].handle = Null
               /\ \A fd \in Fds : table[fd] # ptr[t]

EntryInv ==
    \A fd \in Fds : table[fd] \in Objs =>
        /\ obj[table[fd]].state = "live"
        /\ obj[table[fd]].fd = fd
        /\ obj[table[fd]].handle # Null

\* One call ends a descriptor and no other call is on it.
ExclInv ==
    \A t, u \in Threads :
        t # u /\ pc[t] \in EndingPcs => arg[u] # arg[t]

LiveInv ==
    \A o \in Objs : obj[o].state = "live" =>
        \/ obj[o].fd \in Fds /\ table[obj[o].fd] = o
        \/ \E t \in Threads : pc[t] = "delete" /\ ptr[t] = o

\* Only a paging file is without a kernel object.
BlankInv == \A o \in Objs : obj[o].handle = Invalid => obj[o].type = "PagingFile"

\* A first mapping works on the paging file it found, still without a section.
CallInv ==
    \A t \in Threads : pc[t] = "mmap_set" =>
        obj[ptr[t]].type = "PagingFile" /\ obj[ptr[t]].handle = Invalid

MappingPcs == {"mmap_create", "mmap_set"}

\* A first mapping is alone.
MapInv ==
    \A t, u \in Threads :
        t # u /\ pc[t] \in MappingPcs /\ pc[u] \in MappingPcs /\ arg[t] = arg[u] =>
            obj[ptr[t]].handle # Invalid

\* What the handles in a call's hands refer to.
HandKinds(t) ==
    CASE pc[t] = "dup_register" -> KindsOf(obj[ptr[t]].type)
      [] pc[t] = "mmap_set" -> {"section"}
      [] pc[t] \in {"delete", "holding"} -> Kinds \ {"closed"}
      [] OTHER -> {"socket"}

\* A handle that has an owner is open, and of the owner's kind.
KindInv ==
    \A h \in OsHandles :
        /\ \A o \in Objs : Carries(o, h) => os[h] \in KindsOf(obj[o].type)
        /\ \A t \in Threads : Among(h, hand[t]) => os[h] \in HandKinds(t)

\* No handle has two owners.
OneOwner ==
    \A h \in OsHandles :
        /\ \A o, p \in Objs : Carries(o, h) /\ Carries(p, h) => o = p
        /\ \A t, u \in Threads : Among(h, hand[t]) /\ Among(h, hand[u]) => t = u
        /\ \A o \in Objs, t \in Threads : ~(Carries(o, h) /\ Among(h, hand[t]))

\* The two handles of a pair differ.
PairInv ==
    \A t \in Threads, h, k \in OsHandles : hand[t] = <<h, k>> => h # k

\* An open handle has an owner.
SomeOwner ==
    \A h \in OsHandles : os[h] # "closed" =>
        \/ \E o \in Objs : Carries(o, h)
        \/ \E t \in Threads : Among(h, hand[t])

OwnInv == CallInv /\ MapInv /\ KindInv /\ OneOwner /\ PairInv /\ SomeOwner

IInv == TypeOK /\ MutexInv /\ HandInv /\ ArgInv /\ PtrInv /\ EntryInv
            /\ ExclInv /\ LiveInv
=============================================================================
