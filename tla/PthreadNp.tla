------------------------------ MODULE PthreadNp ------------------------------
(***************************************************************************)
(* The "np" extension of pthreads (pthreadnp/pthread.cpp).  A thread that  *)
(* calls pthread_init_main_np becomes the main thread of a group; the      *)
(* threads it creates, or gives its identifier to, become workers of that  *)
(* group and share its keys.  The group's data is on the heap, its address *)
(* is the identifier, and the destructor of the main thread's thread data  *)
(* frees it.                                                               *)
(*                                                                         *)
(* A critical section of main_thread_mutex is one step: what it touches is *)
(* touched outside of it only by the get and set of a shared key, whose    *)
(* callers do not overlap the key's deletion.                              *)
(***************************************************************************)
EXTENDS Integers, FiniteSets

CONSTANTS
    Threads,
    Groups,   \* heap addresses of pthread_main_thread_data
    Values,   \* what a shared key may hold besides 0
    MaxKey,   \* thread_shared_key_max
    Word,     \* size_t is counted modulo Word
    NoGroup

ASSUME NpAssumption ==
    /\ MaxKey \in Nat \ {0} /\ Word \in Nat \ {0}
    /\ NoGroup \notin Groups /\ 0 \notin Values
    /\ IsFiniteSet(Threads)

Keys == 1..(MaxKey - 1)

VARIABLES
    once,   \* thread_once and thread_data_key: "no", "running", "done"
    group,  \* the heap: pthread_main_thread_data at each address
    pc,     \* where each thread is
    main,   \* main_thread_data of each thread, or the argument it starts with
    isMain, \* is_main_thread of each thread
    held    \* shared keys that callers have created and not deleted

npVars == <<once, group, pc, main, isMain, held>>

GroupData == [state : {"none", "live", "freed"},
              next : 1..MaxKey,             \* thread_shared_key_next
              deleted : SUBSET Keys,        \* thread_shared_key_deleted
              storage : [Keys -> Values \cup {0}],
              children : 0..(Word - 1)]

\* Threads that are in no group, threads on their way into one, members, and
\* threads whose thread data is gone.
Outside == {"fresh", "once", "init_main"}
Pcs == Outside \cup {"attach", "count", "member", "free", "ended"}

TypeOK ==
    /\ once \in {"no", "running", "done"}
    /\ group \in [Groups -> GroupData]
    /\ pc \in [Threads -> Pcs]
    /\ main \in [Threads -> Groups \cup {NoGroup}]
    /\ isMain \in [Threads -> BOOLEAN]
    /\ held \in [Groups -> SUBSET Keys]

Unused == [state |-> "none", next |-> 1, deleted |-> {},
           storage |-> [k \in Keys |-> 0], children |-> 0]

Init ==
    /\ once = "no"
    /\ group = [g \in Groups |-> Unused]
    /\ pc = [t \in Threads |-> "fresh"]
    /\ main = [t \in Threads |-> NoGroup]
    /\ isMain = [t \in Threads |-> FALSE]
    /\ held = [g \in Groups |-> {}]

-----------------------------------------------------------------------------
Goto(t, next) == pc' = [pc EXCEPT ![t] = next]

\* Threads that have, or start with, the address of g.
Knows(g) == {t \in Threads : main[t] = g}
Member(t) == pc[t] = "member"

\* pthread_init_main_np: pthread_once, whose routine creates thread_data_key.
\* A caller that finds it running waits.  pthread_create_np does the same for
\* a caller that has no thread data.
OnceBegin(t) ==
    /\ pc[t] = "fresh" /\ once = "no"
    /\ once' = "running"
    /\ Goto(t, "once")
    /\ UNCHANGED <<group, main, isMain, held>>

OnceEnd(t) ==
    /\ pc[t] = "once"
    /\ once' = "done"
    /\ Goto(t, "init_main")
    /\ UNCHANGED <<group, main, isMain, held>>

\* Mutant of OncePassed: callers do not wait for a routine that is running.
OncePassed_NoWait == once # "no"

OncePassed == once = "done"

OnceSkip(t) ==
    /\ pc[t] = "fresh" /\ OncePassed
    /\ Goto(t, "init_main")
    /\ UNCHANGED <<once, group, main, isMain, held>>

\* ... then the group and the thread data
InitMain(t) ==
    /\ pc[t] = "init_main"
    /\ \E g \in Groups :
        /\ group[g].state = "none"
        /\ group' = [group EXCEPT ![g] = [Unused EXCEPT !.state = "live"]]
        /\ main' = [main EXCEPT ![t] = g]
    /\ isMain' = [isMain EXCEPT ![t] = TRUE]
    /\ Goto(t, "member")
    /\ UNCHANGED <<once, held>>

\* pthread_create_np by u, or pthread_init_current_np of t with the identifier
\* that u passed on: t starts with the address of u's group.
Start(u, t) ==
    /\ Member(u) /\ pc[t] = "fresh"
    /\ main' = [main EXCEPT ![t] = main[u]]
    /\ Goto(t, "attach")
    /\ UNCHANGED <<once, group, isMain, held>>

\* pthread_init_current_private: thread data and pthread_setspecific ...
Attach(t) ==
    /\ pc[t] = "attach"
    /\ Goto(t, "count")
    /\ UNCHANGED <<once, group, main, isMain, held>>

\* ... then ++child_threads under the group's mutex
Count(t) ==
    /\ pc[t] = "count"
    /\ group' = [group EXCEPT ![main[t]].children = (@ + 1) % Word]
    /\ Goto(t, "member")
    /\ UNCHANGED <<once, main, isMain, held>>

-----------------------------------------------------------------------------
(* Shared keys *)

\* Mutant of Taken: a deleted key is handed out again and stays deleted.
Taken_StaysDeleted(g, k) ==
    [group EXCEPT ![g].next = IF k = @ THEN @ + 1 ELSE @]

\* The data of the group once key k has been handed out.
Taken(g, k) ==
    LET next == IF k = group[g].next THEN k + 1 ELSE group[g].next
    IN  [group EXCEPT ![g] = [state |-> @.state, storage |-> @.storage,
             children |-> @.children, next |-> next, deleted |-> @.deleted \ {k}]]

\* Mutant of IsNewKey: the assertion admits one key too many.
IsNewKey_OneMore(g, k) ==
    IF group[g].deleted = {} THEN k = group[g].next /\ k <= MaxKey
    ELSE k \in group[g].deleted /\ \A j \in group[g].deleted : k <= j

\* The least deleted key, or else the next one; assert(next < max) stops a
\* program that runs out of keys.
IsNewKey(g, k) ==
    IF group[g].deleted = {} THEN k = group[g].next /\ k < MaxKey
    ELSE k \in group[g].deleted /\ \A j \in group[g].deleted : k <= j

KeyCreate(t) ==
    /\ Member(t)
    /\ \E k \in 1..MaxKey :
        /\ IsNewKey(main[t], k)
        /\ group' = Taken(main[t], k)
        /\ held' = [held EXCEPT ![main[t]] = @ \cup {k}]
    /\ UNCHANGED <<once, pc, main, isMain>>

\* Mutant of Wiped: pthread_shared_key_delete_np leaves the value.
Wiped_Keeps(g, k) == group[g].storage

Wiped(g, k) == [group[g].storage EXCEPT ![k] = 0]

\* A key is deleted once, by a thread of its group.
KeyDelete(t, k) ==
    /\ Member(t)
    /\ LET g == main[t] IN
        /\ k \in held[g]
        /\ group' = [group EXCEPT ![g].storage = Wiped(g, k),
                                  ![g].deleted = @ \cup {k}]
        /\ held' = [held EXCEPT ![g] = @ \ {k}]
    /\ UNCHANGED <<once, pc, main, isMain>>

\* pthread_setshared_np, without the mutex (pthread_getshared_np only reads)
SetShared(t, k, v) ==
    /\ Member(t)
    /\ k \in held[main[t]]
    /\ group' = [group EXCEPT ![main[t]].storage[k] = v]
    /\ UNCHANGED <<once, pc, main, isMain, held>>

-----------------------------------------------------------------------------
(* The end of a thread: pthread_thread_destructor *)

\* Threads that may still reach the group: a main thread outlives them, as a
\* caller that joins its workers does.
Joined(t) == isMain[t] => \A u \in Knows(main[t]) : u = t \/ pc[u] = "ended"

\* Mutant of Exit: the destructor of a worker does not count down.
Exit_Uncounted(t) ==
    /\ Member(t) /\ Joined(t)
    /\ Goto(t, "free")
    /\ UNCHANGED <<once, group, main, isMain, held>>

\* --child_threads under the mutex, for the main thread too, which was never
\* counted: child_threads wraps just before it is freed.
Exit(t) ==
    /\ Member(t) /\ Joined(t)
    /\ group' = [group EXCEPT ![main[t]].children = (@ - 1) % Word]
    /\ Goto(t, "free")
    /\ UNCHANGED <<once, main, isMain, held>>

\* Mutant of FreesGroup: every thread frees the group's data.
FreesGroup_Always(t) == TRUE

FreesGroup(t) == isMain[t]

Free(t) ==
    /\ pc[t] = "free"
    /\ IF FreesGroup(t)
       THEN /\ group' = [group EXCEPT ![main[t]].state = "freed"]
            /\ held' = [held EXCEPT ![main[t]] = {}]
       ELSE UNCHANGED <<group, held>>
    /\ Goto(t, "ended")
    /\ UNCHANGED <<once, main, isMain>>

-----------------------------------------------------------------------------
Next ==
    \E t \in Threads :
        \/ OnceBegin(t) \/ OnceEnd(t) \/ OnceSkip(t) \/ InitMain(t)
        \/ Attach(t) \/ Count(t) \/ KeyCreate(t) \/ Exit(t) \/ Free(t)
        \/ \E u \in Threads : Start(u, t)
        \/ \E k \in Keys : KeyDelete(t, k)
        \/ \E k \in Keys, v \in Values : SetShared(t, k, v)

NpSpec == Init /\ [][Next]_npVars

-----------------------------------------------------------------------------
(* Properties *)

\* A thread on its way into a group, in it or about to leave it reaches data
\* that has not been freed: only the main thread frees it, after the others.
GroupsLive ==
    \A t \in Threads :
        pc[t] \in {"attach", "count", "member", "free"} =>
            main[t] \in Groups /\ group[main[t]].state = "live"

\* pthread_setspecific is never called with a key that does not exist yet: a
\* worker does not go through pthread_once, and relies on its main thread
\* having waited for the routine to end.
KeyBeforeUse ==
    \A t \in Threads : pc[t] \in {"init_main", "attach"} => once = "done"

\* Every key below next is with a caller or in the set of deleted keys, never
\* in both: no key is handed to two callers and none is lost.
KeysAccounted ==
    \A g \in Groups : group[g].state = "live" =>
        /\ held[g] \cap group[g].deleted = {}
        /\ held[g] \cup group[g].deleted = 1..(group[g].next - 1)

\* A key that nobody has reads 0: the next caller of pthread_shared_key_create_np
\* does not see the value of the last one.
FreshKeysReadZero ==
    \A g \in Groups : group[g].state = "live" =>
        \A k \in Keys \ held[g] : group[g].storage[k] = 0

Workers(g) == {u \in Knows(g) : Member(u) /\ ~isMain[u]}

\* child_threads counts the workers that have registered and not yet ended, as
\* long as the main thread has not ended either.
ChildrenCounted ==
    \A g \in Groups : \A t \in Knows(g) :
        isMain[t] /\ pc[t] = "member" =>
            group[g].children = Cardinality(Workers(g)) % Word

-----------------------------------------------------------------------------
(* What makes the properties inductive *)

\* Threads outside of every group know none; the others know one that exists.
MainInv ==
    \A t \in Threads :
        /\ pc[t] \in Outside => main[t] = NoGroup /\ ~isMain[t]
        /\ pc[t] \notin Outside =>
               main[t] \in Groups /\ group[main[t]].state # "none"
        /\ pc[t] \in {"attach", "count"} => ~isMain[t]

\* A main thread that is about to free its group is the last to know it.
LastInv ==
    \A t, u \in Threads :
        isMain[t] /\ pc[t] = "free" /\ main[u] = main[t] => u = t \/ pc[u] = "ended"

\* A group is live until its main thread has freed it, and keys of a group that
\* is not live are nobody's.
StateInv ==
    /\ \A g \in Groups : group[g].state # "live" => held[g] = {}
    /\ \A g \in Groups : group[g].state = "none" => \A t \in Threads : main[t] # g

\* Whoever has passed pthread_once found its routine done.
OnceInv == \A t \in Threads : pc[t] \notin {"fresh", "once"} => once = "done"

NpInv == TypeOK /\ OnceInv /\ MainInv /\ LastInv /\ StateInv /\ GroupsLive
             /\ KeysAccounted /\ FreshKeysReadZero
=============================================================================
