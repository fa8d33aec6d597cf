# Verification of the Android compatibility layer of WebKitLibraries

The repository bundles the libraries that the Android port of WebKit builds on.
Most directories are third-party code, built as it is. The repository's own
logic is the layer that lets Android code run on Windows: the `ndk` shims that
give POSIX descriptors a Windows kernel underneath, the Windows parts of
`cutils` and `liblog`, the `np` extension of pthreads, and `libdl`. This
directory models that layer in TLA+, checks it with TLC and proves theorems
about it with TLAPS.

`ndk/` below stands for
`src/android/prebuilts/ndk/current/platforms/android-14/arch-x86/usr/`, `cutils/`
for `src/android/system/core/libcutils/` and its headers.

## Inventory

| Component | State | Operations | What is hard | What makes it correct |
|---|---|---|---|---|
| Descriptor table, `ndk/src/win/unixfd.cpp`, `unistd.cpp`, `osf.cpp`, `sys/mman.cpp` | a map from numbers to `UnixFD` objects under `fds_mutex`, a static number, the objects' handles | open, socket, socketpair, accept, dup, read, write, mmap, close, release, adopt | the pointer that `get` returns is used without the mutex; the kernel handle is closed before the entry is erased; the destructor re-enters `close` | pointers stay live, table and heap agree, one owner per kernel handle, numbers are not recycled |
| Descriptor passing, `ndk/src/sys/socket.cpp` (`sendmsg`, `recvmsg`) | a stream of frames, handles duplicated for the peer | send, receive, adopt | partial writes and reads, a peer that stops or exits, handles that belong to nobody while they travel | whole messages in order, one holder per descriptor, calls return |
| Thread groups, `pthreadnp/pthread.cpp` | a group's keys, storage and count on the heap, thread-local pointers to it | init, create, key create/delete/set/get, thread exit | the main thread frees what workers point to; recycled keys; a once-routine that workers skip | no use after free, keys neither shared nor lost |
| Atomics on Windows, `cutils/atomic-windows.h` | the word | inc, dec, add, and, or, swap, cas, loads, stores | the value returned is read in a step of its own | no lost update; the previous value |
| Timer resolution and `select`/`poll`, `ndk/src/win/timer_resolution_controller.cpp`, `sys/select.cpp`, `poll.cpp` | an atomic counter, the system's resolution, the callers' sets | FD_ZERO, FD_SET, FD_CLR, FD_ISSET, select, poll | the system call follows the counter without atomicity; a set holds descriptors before a call and handles after it | the resolution is raised while a short wait runs; an answer is about the socket that was asked for |
| Lazy locks and log, `cutils/threads.h`, `threads.c`, `liblog/logd_write_win32.cpp` | init flags, critical section, log buffer | lock, unlock, store get/set, log | unsynchronised first initialisation; a read without the lock; an early return | the section excludes, log lines are whole, a thread reads back its own value |
| Hash map, `cutils/hashmap.c` | buckets, size | put, get, remove, memoize, forEach | expansion; callbacks that re-enter | a finite map; each entry visited once |
| Dynamic loader, `libdl/dlfcn.c` | list of global modules, last error | dlopen, dlclose, dlsym, dlerror | modules opened more than once | global modules stay findable while open |
| Other shims (`dirent`, `fcntl`, `netdb`, `stdlib`, time, properties, Winsock forwards) | none of their own | forwards | - | - |
| `ashmem`, `uio`, `properties`, `sched_policy`, `qtaguid` of `cutils` | none of their own | forwards to the kernel or to `UnixFD` | - | - |
| Other sources of `cutils` and `liblog` | - | named by no `CMakeLists.txt` | - | - |
| boringssl, cairo, curl, ... zlib, pthreads-win32 | third party | - | - | - |

How they interact: every POSIX call of `ndk` goes through `UnixFD::get`;
`sendmsg` and `recvmsg` call `dup`, `release` and `adopt` of the table and wait
in `select`, which uses the timer resolution; `ashmem-host.c` creates paging
files through `osf.cpp`; everything logs through `liblog`, which locks a lazy
mutex of `cutils`; WebKit itself (outside of this repository) passes shared memory
between its processes over `sendmsg`.

`PROJECT.json` lists the hazards found, each at its line, with the properties
that cover it, or the reason why none does. Several are excluded by an assumption
about callers (below); no property is named for those.

## Modules

| Module | Models |
|---|---|
| `FdTable` | what a descriptor table promises: a partial map from numbers to handles |
| `UnixFD` | the table as implemented; refines `FdTable` |
| `UnixFD_proofs` | theorems about `UnixFD`: its invariant, ownership of handles, the refinement |
| `MsgSocket`, `MsgSocket_proofs` | descriptor passing between two processes, theorems |
| `PthreadNp`, `PthreadNp_proofs` | thread groups and shared keys, theorems |
| `AtomicWindows`, `AtomicWindows_proofs` | the atomic operations, theorems |
| `ModularArithmetic` | lemmas about remainders, for counters of a fixed width |
| `FiniteMap` | what a hash map promises |
| `Hashmap`, `Hashmap_proofs` | the hash map of `cutils`; refines `FiniteMap`; theorems |
| `TimerResolution` | the timer resolution around a wait |
| `Select`, `Select_proofs` | `select`, `poll` and the `FD_` macros; extends `TimerResolution`; theorems about both |
| `LazyLock` | the lazily initialised mutex |
| `AndroidLog` | the log and its buffer, on `LazyLock` |
| `ThreadStore` | the thread store, on an instance of `LazyLock` |
| `CutilsThreads`, `CutilsThreads_proofs` | threads that log and use a store; composes the two; theorems about lock, log and store |
| `MC...` | the small instances that TLC checks |

### UnixFD

`table` is `fds_map()`, `lastId` the static of `getDescriptorId`, `obj` the heap,
`mutex` is `fds_mutex` where it is held across steps (only `release` does so,
into the destructor), `os` says what the kernel has behind each handle value.
`pc`, `arg`, `ptr`, `hand` are the locals of each thread's call. A critical
section is one action; what happens between two of them is an action of its own:
the second `get` of `close`, `CloseHandle`, `DuplicateHandle`, the kernel's
`accept`, `CreateFileMapping`, `setOSHandle`. A closed handle value may be handed
out again at once. Heap addresses are used once, so that an access to a deleted
object can be told from an access to a new one.

A handle taken out of its descriptor, of whatever type (`GiveGet`), is with its
caller until it leaves the process (`HandedOver`: a peer adopts it and closes the
source) or becomes a descriptor again (`OpenOsfHandle`), which files it as a socket.
`dup` has no guard of its own: of a paging file that was never mapped it
duplicates `INVALID_HANDLE_VALUE`, which the kernel takes for the current process, and
the new descriptor holds a handle of kind "process".

Four assumptions stand for the callers. `MayEnd`: a descriptor is ended by one
call, which overlaps no other call on it. `MayUse`: it is used while it is open.
`MayMap`: first mappings of one paging file do not overlap. `MayAdopt`: only
sockets are given to `win32_open_osfhandle`. Closing a
number that is not open is always allowed. These are the rules of POSIX
descriptors in one process, and without them the code does reach deleted objects:
nothing counts the references that `get` gives out.

A read, a write, a `select` or a `fcntl` of a descriptor is one kind of call here
(`IoGet`, `IoDone`), as none of them changes the table.

### MsgSocket

The frame of message `m` is the units from `Offset[m]` to `Offset[m + 1]`, a header
of `HeadLen` and a body of any length, none included; each unit is the pair of its
message and its place, so a cut, a repeated or a displaced unit shows. The
receiver takes the body's length from the header's first units (`ReadSize`) and
compares it with the total at its end (`TotLen`); a header that fails this or the check of the
magic number (`GoodHeader`) is an error. After a header without a body nothing more is read. `frame` holds the handle values that the
sender has packed, `sOs` and `rOs` what handles of the two processes refer to. A
write moves any number of units that fit, a read any number that are there; a
timeout may fire when the socket is not ready. A caller that gets an error closes
the connection. The sending process may exit at any point, and its handles with it. When
`DuplicateHandle` fails, the local that it should have set is an arbitrary value.
`sTable` is an unrelated file of the sender, which makes handle values come back.
The receiver's table is not modelled, only the handles that adopting gives it.
`Bad` counts the numbers in a list that are no descriptors: the sender skips each
and takes one byte off `cmsg_len`, and the receiver divides by the size of an
`int` (`FdCount`), which comes out right for one of them. With more, the receiver goes on
to a slot that nobody has written, whose content is arbitrary (`Offered`).
A receiver that left no room for control gets the data alone (`DeliverDataOnly`);
the duplicates stay open in the sender, as they do when a `sendmsg` fails half-way. Nobody
closes them: `InFlightOpen` and `OneHolder` describe this leak and do not forbid it.

### PthreadNp

`group` is the heap of `pthread_main_thread_data`, `main` and `isMain` a thread's data,
`once` the state of `pthread_once`, `held` the keys that callers have. Critical
sections of the group's mutex are one action each. `Joined` stands for the
callers: a main thread outlives the threads of its group. `Start` covers both ways
for a worker to get the address, `pthread_create_np` and `pthread_init_current_np`.

### AtomicWindows

Four words used as the header describes: a counter, flags, a slot, and a lock
made of `acquire_cas` and `release_store`. The two steps of an operation are two
actions. `net`, `flag` and `locking` record what threads believe they did.

### Hashmap

`buckets` is the array as a sequence of chains, each the sequence of its entries
from the head; an entry's copy of the hash is `Hash` of its key. An operation
is one action, the expansion that a trailing `expandIfNecessary` makes or fails
to make included. `hashmapMemoize` of a new key is two: what it does before its
callback, and what it does after it, with the link `p` it has kept (`calls`, a
stack of such calls). Between the two, callbacks read the map, and where
`CallbackAdds` is set they also put and memoise. `ValueSet` says where the kept
link leads by then. `Places` are where the array has entries, `Before` the order in which a
loop comes to them; an expansion puts each in front of its new chain, so the
entries that go to one chain get there from the last to the first (`Rehashed`). Callbacks of `hashmapMemoize` do not remove, and one thread at a time uses
a map, as `hashmapLock` is there for. `hashmapForEach` is a step per callback:
`walk` has the keys given out so far, and what comes next (`Ahead`) is read from the
map after the callback. In between, the callback replaces values and removes
entries other than the current one (`MayRemove`); it does not add. A key that is there is answered by
`hashmapMemoize`, and a key that is not by `hashmapRemove`, as by `hashmapGet`.

### TimerResolution

`count` is `highResolutionTimerCount`; `begun` is what the system counts, the
calls of `timeBeginPeriod` less those of `timeEndPeriod`. A thread in `select`
counts itself, calls the system if it was the first, waits, counts itself out, and
calls the system if it was the last: each is a step, so the system calls of two
threads may come in the other order.

### Select

`phase` is where a thread is in `select` or `poll`, `set` the `fd_array` of its
`fd_set`, `form` whether that holds descriptors, handles, or what a failed call
left. `wanted` and `ready` are what the caller asked for and what the kernel found.
`over` remembers that a caller put in more than `FD_SETSIZE` since `FD_ZERO`:
`FD_SET` then drops descriptors silently, and `AnswersMatch` allows the set to miss some
but never to report a wrong one. `poll` has `fds`, its converted copy, and `revents`, in which the
caller may have left anything; a `poll` that fails (`PollFails`) copies that back. A thread in `select` goes through
the steps of `TimerResolution`, so each step of `Select` is one of those or leaves
their variables alone. Handles and descriptors are integers that overlap: a set
that was converted twice, or not at all, would show. `Building` stands for the
callers: a set that `select` has rewritten is cleared before it is filled again,
and a caller of `FD_ISSET` looks after a `select` without an error. `malloc` in `poll` succeeds.

### LazyLock, AndroidLog, ThreadStore, CutilsThreads

`init` is the integer `lock->init`, `owner` the critical section, `at` a thread's
place in `mutex_lock`; each read and each write of `init` is a step, as nothing
synchronises them. Initialising a section that is in use makes it free.
`AndroidLog` adds the static buffer, filled piece by piece, and what the debugger gets;
`__android_log_assert` writes strings of its own outside of the mutex.
`ThreadStore` has the same lock in a `thread_store_t` (-1 and -2 for 1 and 2), the TLS
index that is allocated under it or not (`TlsAllocFails`, which leaves
`TLS_OUT_OF_INDEXES` in `tls`), and `tlsData`, the kernel's slots;
index 0, which an unset store names, is somebody else's. In `CutilsThreads` a
thread makes one call at a time, to the log or to the store.

`RaceFree` (through `MayLook`) is an assumption on callers that the code does
not enforce: while one thread has found a lock new and not said so, no other
looks. With it, threads still overlap the initialisation and wait for it. Without it
the lock does not exclude: finding 5.

### What callers are assumed to do

The guards that are not in the code, all in one place. A behaviour that breaks
one of them is in no run and under no theorem.

| Guard | Assumption | What it hides |
|---|---|---|
| `UnixFD!MayEnd`, `MayUse` | no call on a descriptor overlaps the one that ends it | use of a deleted object (`unixfd.cpp:236`) |
| `UnixFD!MayMap` | one first `mmap` of a paging file at a time | a lost section (`mman.cpp:117`) |
| `UnixFD!MayAdopt` | `win32_open_osfhandle` gets sockets | a file filed as a socket (`osf.cpp:33`) |
| `UnixFD!OpenOsfHandle` | the number asked for is free, as the code asserts | - |
| `MsgSocket` | a caller closes the connection after an error (`socket.cpp:41-43`) | a stream cut by the sender that goes on |
| `FewBad` (theorems), `BadDef` (run) | at most one number in a list is no descriptor | a slot that nobody wrote (`socket.cpp:318`) |
| `PthreadNp!Joined` | workers end before their main thread | freed group data (`pthread.cpp:118`) |
| `Select!Building` | `FD_ZERO` before a set is built | a set that holds handles where descriptors are expected |
| `Hashmap!MayRemove`, `MayAdd` | callbacks of `hashmapForEach` neither remove the current entry nor add; those of `hashmapMemoize` do not remove | a freed entry is read (`hashmap.c:316`) |
| `RaceFree` | first uses of a lock do not coincide | finding 5, shown by `log_race` |

## Runs

| Run | Checks | Shows |
|---|---|---|
| `unixfd` | `TypeOK PointersLive TableAgrees HandleOwnership NumbersRetire EndingReturns ImplementsTable` | two threads, three objects, three handle values, numbers up to 3 (623,000 states); safety, refinement of `FdTable`, and liveness |
| `pthread_np` | `TypeOK GroupsLive KeyBeforeUse KeysAccounted FreshKeysReadZero ChildrenCounted` | four threads, two groups, two keys, a `size_t` of 4 values |
| `atomic_safety` | `TypeOK CountKept FlagsKept LockExcludes` | two threads, two arithmetic operations each, words modulo 4; deadlock is checked |
| `atomic_returns` | `ReturnsPrevious`, violated | finding 1 |
| `msg_socket` | `TypeOK MessagesWhole InFlightOpen DescriptorsArrive OneHolder SendReturns BodyReturns` | three messages of different lengths, the first with two descriptors and a number that is none, the last a header alone, through a socket smaller than a frame |
| `msg_header` | `RecvReturns`, violated | finding 2 |
| `msg_adopt` | `AdoptSucceeds`, violated | finding 3 |
| `hashmap` | `TypeOK EntriesPlaced SizeCounts EachVisited ImplementsMap` | five key addresses, two of them equal, three with one hash, capacities for 1 and 4 buckets; refinement of `FiniteMap` |
| `hashmap_memoize` | `MemoizeStores`, violated | finding 4 |
| `select` | `SelectTypeOK RaisedInside LoweredOutside BegunBounded AnswersMatch` | one thread that puts up to three sockets into a set for two, one that polls, two that sleep and are interchangeable; deadlock is checked |
| `log` | `TypeOK Excludes LinesWhole ReadsBack CallsReturn` | three threads, two TLS indexes, `RaceFree`; deadlock is checked |
| `log_race` | `LinesWhole`, violated | the same without `RaceFree`: finding 5 |

Bounds. `Objs` and `MaxFd` bound how many descriptors a run creates: three are
enough for one that is closed, one that reuses its handle value, and a third that is there meanwhile.
Two threads reach every interleaving of two calls, and the
code keeps no state that relates more than two. `MaxKey` and `Word` replace 1024
and 2^32; both limits are met. `MaxOps` bounds arithmetic only.
`Capacity` (3) is smaller than the first frame (4) and larger than a header (2), so
frames are cut inside and across both parts; the second frame has 3 units and the
third 2, so an end of one message and the beginning of the next may be in the socket at once.
The keys of `hashmap` fill 1, 2, 4 and 8 buckets, three expansions, of which the
last two split chains; an expansion that fails is tried again by the next addition.
`select` has three threads around the counter: one that raises the resolution late,
one that lowers it meanwhile, and one more; the theorems hold for any number. Its
`FD_SETSIZE` of 2 replaces 250; sets are filled to it and beyond. In `log` a third
thread comes while the first initialises a lock and the second waits for it.
Two runs explore fewer interleavings than there are, and lose none that matters. In
`unixfd`, `InOrder` has the kernel hand out closed handle values in one order, unless an
object still remembers the value (the run also passes without it, in twice the time). In
`select`, `Apart` has `poll` begin and end where the other threads have not begun,
as `poll` shares nothing with them; they run while it is in the kernel. The theorems need neither.
Runs with `CHECK_DEADLOCK FALSE` are of systems that may stop: heap addresses or
numbers are used up, every thread has ended, the connection is closed.

Fairness. `EndingReturns` assumes strong fairness of the steps of a call that ends
a descriptor: they wait for `fds_mutex` only, which the platform gives every
waiter in the end. `MsgSpec` assumes weak fairness of a `sendmsg` or `recvmsg` that
is under way, each on its own process; nothing makes anyone call, close or exit. `RecvSpec`
keeps only the receiver's: the sender may stop for ever, which is what the
timeout is for. `CutilsThreads` assumes strong fairness of each thread's steps inside
a call: they wait for a critical section, which admits every waiter in the end, or
in a loop of `Sleep` for the thread that is initialising it. No call has to begin.

## Findings

1. `atomic-windows.h` reads the word and drops the result of the interlocked
   instruction, so an operation may return a value that is not the previous one,
   against `atomic.h:63` ("return the previous value") and `:95`.
   `CountKept`, `FlagsKept` and `LockExcludes` hold all the same. A reference
   count that frees at "previous value 1" would free twice or never.
2. `recvmsg` reads the header in a loop without `select`: once a part of it has arrived
   and the peer stops, it spins, against the comment at `socket.cpp:41-43`.
3. `UnixFD::adopt` compares `OpenProcess`'s result with `INVALID_HANDLE_VALUE`,
   but a failure is `NULL`: for a sender that has exited, `DuplicateHandle`
   fails, `ASSERT(success)` does not hold, and an unset handle is registered.
4. `hashmapMemoize` writes its callback's value through a link that it took before
   the callback (`hashmap.c:268`). A callback that adds to the map, as that of a
   memoised recursive function does, may expand it: the write goes to a freed array or to another
   entry, and the new entry keeps `NULL`, against `hashmap.h:76-77`.
   With callbacks that only read, `hashmap` shows that all is well.
5. `mutex_lock` on Windows asks an ordinary integer whether the mutex is new
   (`threads.h:115`). Two threads whose first lines coincide both initialise it, the
   second while the first is inside, and the debugger gets a line of both, against
   `log.h:23-26` ("mutex-protected data structures").

## Proofs

The theorems hold for every value of the constants that the named assumptions
allow; the runs show the same properties on one instance. No theorem bounds
anything: threads, addresses, keys, messages, buffers and widths are arbitrary.
Every invariant was first checked with TLC on the instance of its run.

| Module | Theorems | From | Assumptions |
|---|---|---|---|
| `UnixFD_proofs` | `TypeCorrect` `PointersStayLive` `TableStaysAgreed` `HandlesStayOwned` `NumbersStayRetired` `TableImplements` | `IInv`, `OwnInv` | `ConstAssumption` (special values are distinct), `DistinctAssumption` (a thread is no heap address) |
| `MsgSocket_proofs` | `MessagesTyped` `WholeMessages`; `FramesStayOpen` `DescriptorsKept` `AdoptionMoves` | `WholeInv`; `HandleInv` | `MsgAssumption`, `ObjectsAssumption`; the last three `FewBad` |
| `PthreadNp_proofs` | `GroupsTyped` `GroupsStayLive` `KeysStayAccounted` `KeyExistsBeforeUse` `NewKeysReadZero` `ChildrenStayCounted` | `NpInv` | `NpAssumption` (finitely many threads) |
| `AtomicWindows_proofs` | `WordsTyped` `NoUpdateLost` `NoFlagLost` `CasLockExcludes` | their conjunction, `AInv` | `AtomicAssumption` |
| `Select_proofs` | `RaisedInsideHolds` `LoweredOutsideHolds` `BegunBoundedHolds` `SelectImplementsTimer` `SetsTyped` `AnswersRight` | `TimerInv`, `SelectInv` | `TimerAssumption` (finitely many threads), `SelectAssumption` (two sockets have two handles) |
| `CutilsThreads_proofs` | `ThreadsTyped`; `LockExcludes` `LinesStayWhole` `StoreReadsBack` | `LogInv`, `StoreInv` | `LockAssumption`, `IndexAssumption`; the last three `RaceFree` |
| `Hashmap_proofs` | `HashTyped` `EntriesStayPlaced` `SizeStaysCounted` `EachVisitedOnce`; `MapImplements` | `Sound`, `Visited`, `Memo` | `HashmapAssumption` (equal keys have equal hashes); the last `CallbackAdds = FALSE` |
| `ModularArithmetic` | lemmas: adding to a remainder adds to the number | - | - |

`UnixFD`. A pointer is live because the table still has it (`PtrInv`), an entry
leads to a live object (`EntryInv`), and the only call that may erase it is the
one that has the descriptor to itself (`ExclInv`); that the deleting thread is the
one with the mutex is `MutexInv`; `HandInv` and `ArgInv` say what a call carries.
Ownership is a second invariant, inductive given the first. An owner is the
object that carries a handle or the call that has it in hand. An owned handle is open
and of its owner's kind (`KindInv`), so a handle value that the kernel hands out has
no owner yet; that it then has one (`SomeOwner`) and only one (`OneOwner`) is
followed through registration, the two closes, release, and a handle's way out of the
process. That only a paging file is without a kernel object is `BlankInv`.
`NumbersStayRetired` is an action property: a registration takes a number beyond
every earlier choice. `TableImplements` is the refinement of `FdTable`: every
step of the code is one step of the abstract table or none. A descriptor
disappears there when the kernel closes its handle, which is before the entry is erased,
and an allocation happens when the object is registered.

`MsgSocket`. Each unit that has been written and not received is in the stream
at its place (`StreamInv`; places are numbered through all frames by `Offset`, and a
place belongs to one message only, `OnePlace`), and what has been read is the beginning of the
current frame (`BufferInv`): with the phases (`PhaseInv`) this gives whole messages in
order, however the stream cuts them. `HandleInv` follows each descriptor: a sender's handle that
refers to a sent object is the one in its frame and its slot is not adopted yet
(`SenderHolds`); a receiver's is the one that adopting that slot gave (`ReceiverHolds`).
`FewBad` asks that a list has at most one number that is no descriptor. It is not a
convenience: the receiver's division absorbs one byte and no more (`CountsAgree`),
so with two such numbers it adopts a slot that nobody has written. The run
`msg_socket` includes a list with one.

`PthreadNp`. The address a thread has is of a group that has existed
(`MainInv`), the main thread in its destructor is the last to know it
(`LastInv`), and whoever passed `pthread_once` found it done (`OnceInv`).
`ChildrenStayCounted` counts the workers of a group: each step moves one thread in or out,
and the count is compared modulo the width of `size_t`.

`AtomicWindows`. The operations interleave, but the word changes in one step
each, so `net`, the sum that the threads believe in, is the word modulo
its width; the flag of a thread is touched by nobody else; the lock is 1 exactly
while one thread is between its `acquire_cas` and `release_store`.

`Select`. The counter is the number of threads about to raise or waiting, one
thread at most is about to raise, and what the system has counted is explained by
the calls still to come. It is an induction over cardinalities: `Moves` says what one
thread's step does to the number of threads at each point. `SelectImplementsTimer` says that each step
of `select` and `poll` is one of these or leaves their variables alone, so the three theorems
carry over (`ResolutionRestored`). `SelectInv` has one statement per set and one per `poll` array: what
a set holds is the image, under `form`, of those descriptors that it had room for (`SetHolds`), which are
all that were asked for unless it overflowed. The copying and removing
loops are filters and tails of sequences, whose lemmas come first.

`CutilsThreads`. The first thread is alone until the section is initialised,
and `init` does not go back (`LazyInv`); the thread that has the mutex finds in the
buffer what its own earlier steps put there (`BufferInv`); at most one TLS index is
allocated, and what it holds is what each thread stored (`IndexInv`). `LazyLock` is proved once and used
for the log's mutex and for the store's. Type correctness needs no `RaceFree`; the other
three fail without it, as `log_race` shows for `LinesWhole`.

`Hashmap`. The proofs speak of places, a chain and a position in it, and of
the entry at each. An operation appends, writes or removes at one place; an expansion is
a bijection of places that keeps entries (`RehashedMap`). That `bucketCount`
stays a power of 2 (`DoublePower`), which masking in place of `%` relies on, is
part of `TypeOK`. `Sound` says that entries are where a lookup
goes, no two have equal keys, and `size` with the unfinished calls of `hashmapMemoize` is their number. `Visited`
says that the keys given to the callback are those of the entries up to the current place.
`MapImplements` is the refinement of `FiniteMap`: each operation is the abstract one, and an
expansion, which may also fail, changes nothing. Its premise, that callbacks of
`hashmapMemoize` do not add, is what `Memo` needs: the link leads to the
entry of the call. With callbacks that add it is false, finding 4; the first
four theorems hold with them.

Only model-checked: liveness (`EndingReturns`, `SendReturns`, `BodyReturns`,
`CallsReturn`), which rests on fairness and so on `ENABLED`, out of the prover's
reach. No result here needs an induction over data, as the models have no
recursive definitions where theorems are.

## Not modelled

Memory barriers: the atomics are steps of a sequentially consistent memory. The
CRT slots that `_open_osfhandle` opens, `m_flags` and file offsets of the
table; names, flags and iovec copying of messages; failure
of `malloc` other than the hash map's (`poll` would write through a null pointer); `mutex_init` and `mutex_destroy`; the
start of Winsock, which fills a table of function pointers once (its race is
listed as a hazard). `libdl` is dlfcn-win32, third-party code that declares itself
not thread-safe. The vendored libraries are the bulk of the repository and have
projects of their own; what is said here is about the layer that is this repository's. Components without a module are in the plan or have no state of
their own, as `PROJECT.json` says of each.

## Plan

The order is that of importance: the descriptor table and what passes through it,
then what workers and callbacks share, then the small counters. Done: `UnixFD`,
`FdTable`, `MsgSocket`, `PthreadNp`, `AtomicWindows`, `Hashmap`, `FiniteMap`,
`TimerResolution`, `Select`, `LazyLock`, `AndroidLog`, `ThreadStore`, with the
runs and theorems above. Left, in this order:

1. `MsgSocket` over two descriptor tables, in place of bare handles.
2. `mutex_init` and `mutex_destroy`, the start of Winsock, and the list of global
   objects of `libdl` (`dlfcn.c:221-227`).
