-------------------------- MODULE PthreadNp_proofs --------------------------
(***************************************************************************)
(* The groups and shared keys of PthreadNp for any number of threads,      *)
(* groups and keys.  NpInv is inductive.  GroupsLive rests on LastInv: a   *)
(* main thread that has begun to end is the last one to know its group, so *)
(* nobody can start a worker in it any more; the keys rest on StateInv and *)
(* on the least deleted key being taken out of the set under the mutex.    *)
(***************************************************************************)
EXTENDS PthreadNp, FiniteSetTheorems, ModularArithmetic

LEMMA InitNpInv == Init => NpInv
<1> SUFFICES ASSUME Init PROVE NpInv
  OBVIOUS
<1> USE NpAssumption DEF Init
<1>1. TypeOK
  BY DEF TypeOK, Unused, GroupData, Keys, Pcs, Outside
<1>2. OnceInv /\ MainInv /\ LastInv /\ StateInv /\ GroupsLive
  BY DEF OnceInv, MainInv, LastInv, StateInv, GroupsLive, Outside, Unused
<1>3. KeysAccounted /\ FreshKeysReadZero
  BY DEF KeysAccounted, FreshKeysReadZero, Unused
<1> QED
  BY <1>1, <1>2, <1>3 DEF NpInv

LEMMA StutterKeeps == NpInv /\ UNCHANGED npVars => NpInv'
  BY DEF NpInv, npVars, TypeOK, OnceInv, MainInv, LastInv, StateInv, GroupsLive,
         KeysAccounted, FreshKeysReadZero

-----------------------------------------------------------------------------
(* One lemma per action, preceded by what it writes where that takes more  *)
(* than one step.                                                          *)

LEMMA OnceKeeps ==
    ASSUME NpInv, NEW t \in Threads, OnceBegin(t) \/ OnceEnd(t) \/ OnceSkip(t) \/ Attach(t)
    PROVE  NpInv'
<1> USE NpAssumption DEF NpInv, OnceBegin, OnceEnd, OnceSkip, Attach, OncePassed, Goto, Outside, Pcs
<1>1. TypeOK'
  BY DEF TypeOK, MainInv, Keys, GroupData
<1>2. OnceInv'
  BY DEF TypeOK, OnceInv, MainInv, GroupsLive
<1>3. MainInv'
  BY DEF TypeOK, MainInv, GroupsLive, GroupData
<1>4. LastInv'
  BY DEF TypeOK, MainInv, LastInv, StateInv
<1>5. StateInv'
  BY DEF TypeOK, MainInv, StateInv, GroupsLive, GroupData
<1>6. GroupsLive'
  BY DEF TypeOK, MainInv, LastInv, StateInv, GroupsLive, GroupData
<1>7. KeysAccounted'
  BY DEF TypeOK, MainInv, StateInv, KeysAccounted, GroupsLive, GroupData, Keys
<1>8. FreshKeysReadZero'
  BY DEF TypeOK, MainInv, StateInv, FreshKeysReadZero, GroupsLive, GroupData, Keys
<1> QED
  BY <1>1, <1>2, <1>3, <1>4, <1>5, <1>6, <1>7, <1>8

LEMMA FreshGroup == [Unused EXCEPT !.state = "live"] \in GroupData
<1>1. [k \in Keys |-> 0] \in [Keys -> Values \cup {0}] /\ {} \in SUBSET Keys
  OBVIOUS
<1>2. 1 \in 1..MaxKey /\ 0 \in 0..(Word - 1)
  BY NpAssumption
<1>3. [Unused EXCEPT !.state = "live"] =
         [state |-> "live", next |-> 1, deleted |-> {},
          storage |-> [k \in Keys |-> 0], children |-> 0]
  BY DEF Unused
<1> QED
  BY <1>1, <1>2, <1>3 DEF GroupData

LEMMA InitMainTypes ==
    ASSUME NpInv, NEW t \in Threads, InitMain(t)
    PROVE  TypeOK'
<1> USE NpAssumption DEF NpInv
<1>1. [Unused EXCEPT !.state = "live"] \in GroupData
  BY FreshGroup
<1>2. group' \in [Groups -> GroupData] /\ main' \in [Threads -> Groups \cup {NoGroup}]
  BY <1>1 DEF InitMain, TypeOK
<1> QED
  BY <1>2 DEF InitMain, Goto, TypeOK, Pcs

LEMMA InitMainKeeps ==
    ASSUME NpInv, NEW t \in Threads, InitMain(t)
    PROVE  NpInv'
<1> USE NpAssumption DEF NpInv, InitMain, Unused, Goto, Outside, Pcs
<1>1. TypeOK'
  BY InitMainTypes
<1>2. OnceInv'
  BY DEF TypeOK, OnceInv, MainInv, GroupsLive
<1>3. MainInv'
  BY DEF TypeOK, MainInv, GroupsLive, GroupData
<1>4. LastInv'
  BY DEF TypeOK, MainInv, LastInv, StateInv
<1>5. StateInv'
  BY DEF TypeOK, MainInv, StateInv, GroupsLive, GroupData
<1>6. GroupsLive'
  BY DEF TypeOK, MainInv, LastInv, StateInv, GroupsLive, GroupData
<1>7. KeysAccounted'
  BY DEF TypeOK, MainInv, StateInv, KeysAccounted, GroupsLive, GroupData, Keys
<1>8. FreshKeysReadZero'
  BY DEF TypeOK, MainInv, StateInv, FreshKeysReadZero, GroupsLive, GroupData, Keys
<1> QED
  BY <1>1, <1>2, <1>3, <1>4, <1>5, <1>6, <1>7, <1>8

LEMMA StartKeeps ==
    ASSUME NpInv, NEW t \in Threads, NEW u \in Threads, Start(u, t)
    PROVE  NpInv'
<1> USE NpAssumption DEF NpInv, Start, Member, Goto, Outside, Pcs
<1>1. TypeOK'
  BY DEF TypeOK, MainInv, Keys, GroupData
<1>2. OnceInv'
  BY DEF TypeOK, OnceInv, MainInv, GroupsLive
<1>3. MainInv'
  BY DEF TypeOK, MainInv, GroupsLive, GroupData
<1>4. LastInv'
  BY DEF TypeOK, MainInv, LastInv, StateInv
<1>5. StateInv'
  BY DEF TypeOK, MainInv, StateInv, GroupsLive, GroupData
<1>6. GroupsLive'
  BY DEF TypeOK, MainInv, LastInv, StateInv, GroupsLive, GroupData
<1>7. KeysAccounted'
  BY DEF TypeOK, MainInv, StateInv, KeysAccounted, GroupsLive, GroupData, Keys
<1>8. FreshKeysReadZero'
  BY DEF TypeOK, MainInv, StateInv, FreshKeysReadZero, GroupsLive, GroupData, Keys
<1> QED
  BY <1>1, <1>2, <1>3, <1>4, <1>5, <1>6, <1>7, <1>8

LEMMA CountTypes ==
    ASSUME NpInv, NEW t \in Threads, Count(t)
    PROVE  TypeOK'
<1> USE NpAssumption DEF NpInv
<1>1. main[t] \in Groups
  BY DEF Count, MainInv, Outside
<1>2. (group[main[t]].children + 1) % Word \in 0..(Word - 1)
  BY <1>1 DEF TypeOK, GroupData
<1>3. group' \in [Groups -> GroupData]
  BY ZenonT(40), <1>1, <1>2 DEF Count, TypeOK, GroupData
<1> QED
  BY <1>3 DEF Count, Goto, TypeOK, Pcs

LEMMA CountKeeps ==
    ASSUME NpInv, NEW t \in Threads, Count(t)
    PROVE  NpInv'
<1> USE NpAssumption DEF NpInv, Count, Goto, Outside, Pcs
<1>1. TypeOK'
  BY CountTypes
<1>2. OnceInv'
  BY DEF TypeOK, OnceInv, MainInv, GroupsLive
<1>3. MainInv'
  BY DEF TypeOK, MainInv, GroupsLive, GroupData
<1>4. LastInv'
  BY DEF TypeOK, MainInv, LastInv, StateInv
<1>5. StateInv'
  BY DEF TypeOK, MainInv, StateInv, GroupsLive, GroupData
<1>6. GroupsLive'
  BY DEF TypeOK, MainInv, LastInv, StateInv, GroupsLive, GroupData
<1>7. KeysAccounted'
  BY DEF TypeOK, MainInv, StateInv, KeysAccounted, GroupsLive, GroupData, Keys
<1>8. FreshKeysReadZero'
  BY DEF TypeOK, MainInv, StateInv, FreshKeysReadZero, GroupsLive, GroupData, Keys
<1> QED
  BY <1>1, <1>2, <1>3, <1>4, <1>5, <1>6, <1>7, <1>8

LEMMA KeyCreateTypes ==
    ASSUME NpInv, NEW t \in Threads, KeyCreate(t)
    PROVE  TypeOK'
<1> USE NpAssumption DEF NpInv
<1>1. main[t] \in Groups
  BY DEF KeyCreate, Member, MainInv, Outside
<1>2. PICK k \in 1..MaxKey : /\ IsNewKey(main[t], k)
                             /\ group' = Taken(main[t], k)
                             /\ held' = [held EXCEPT ![main[t]] = @ \cup {k}]
  BY DEF KeyCreate
<1>3. k \in Keys
  BY <1>1, <1>2 DEF IsNewKey, Keys, TypeOK, GroupData
<1>4. group' \in [Groups -> GroupData]
  BY <1>1, <1>2, <1>3 DEF Taken, TypeOK, GroupData, Keys
<1> QED
  BY <1>1, <1>2, <1>3, <1>4 DEF KeyCreate, TypeOK

LEMMA KeyCreateKeeps ==
    ASSUME NpInv, NEW t \in Threads, KeyCreate(t)
    PROVE  NpInv'
<1> USE NpAssumption DEF NpInv, KeyCreate, IsNewKey, Taken, Member, Outside, Pcs
<1>1. TypeOK'
  BY KeyCreateTypes
<1>2. OnceInv'
  BY DEF TypeOK, OnceInv, MainInv, GroupsLive
<1>3. MainInv'
  BY DEF TypeOK, MainInv, GroupsLive, GroupData
<1>4. LastInv'
  BY DEF TypeOK, MainInv, LastInv, StateInv
<1>5. StateInv'
  BY DEF TypeOK, MainInv, StateInv, GroupsLive, GroupData
<1>6. GroupsLive'
  BY DEF TypeOK, MainInv, LastInv, StateInv, GroupsLive, GroupData
<1>7. KeysAccounted'
  BY DEF TypeOK, MainInv, StateInv, KeysAccounted, GroupsLive, GroupData, Keys
<1>8. FreshKeysReadZero'
  BY DEF TypeOK, MainInv, StateInv, FreshKeysReadZero, GroupsLive, GroupData, Keys
<1> QED
  BY <1>1, <1>2, <1>3, <1>4, <1>5, <1>6, <1>7, <1>8

LEMMA KeyDeleteKeeps ==
    ASSUME NpInv, NEW t \in Threads, NEW k \in Keys, KeyDelete(t, k)
    PROVE  NpInv'
<1> USE NpAssumption DEF NpInv, KeyDelete, Wiped, Member, Outside, Pcs
<1>1. TypeOK'
  BY ZenonT(40) DEF TypeOK, MainInv, Keys, GroupData
<1>2. OnceInv'
  BY DEF TypeOK, OnceInv, MainInv, GroupsLive
<1>3. MainInv'
  BY DEF TypeOK, MainInv, GroupsLive, GroupData
<1>4. LastInv'
  BY DEF TypeOK, MainInv, LastInv, StateInv
<1>5. StateInv'
  BY DEF TypeOK, MainInv, StateInv, GroupsLive, GroupData
<1>6. GroupsLive'
  BY DEF TypeOK, MainInv, LastInv, StateInv, GroupsLive, GroupData
<1>7. KeysAccounted'
  BY DEF TypeOK, MainInv, StateInv, KeysAccounted, GroupsLive, GroupData, Keys
<1>8. FreshKeysReadZero'
  BY DEF TypeOK, MainInv, StateInv, FreshKeysReadZero, GroupsLive, GroupData, Keys
<1> QED
  BY <1>1, <1>2, <1>3, <1>4, <1>5, <1>6, <1>7, <1>8

LEMMA SetSharedKeeps ==
    ASSUME NpInv, NEW t \in Threads, NEW k \in Keys, NEW v \in Values, SetShared(t, k, v)
    PROVE  NpInv'
<1> USE NpAssumption DEF NpInv, SetShared, Member, Outside, Pcs
<1>1. TypeOK'
  BY ZenonT(40) DEF TypeOK, MainInv, Keys, GroupData
<1>2. OnceInv'
  BY DEF TypeOK, OnceInv, MainInv, GroupsLive
<1>3. MainInv'
  BY DEF TypeOK, MainInv, GroupsLive, GroupData
<1>4. LastInv'
  BY DEF TypeOK, MainInv, LastInv, StateInv
<1>5. StateInv'
  BY DEF TypeOK, MainInv, StateInv, GroupsLive, GroupData
<1>6. GroupsLive'
  BY DEF TypeOK, MainInv, LastInv, StateInv, GroupsLive, GroupData
<1>7. KeysAccounted'
  BY DEF TypeOK, MainInv, StateInv, KeysAccounted, GroupsLive, GroupData, Keys
<1>8. FreshKeysReadZero'
  BY DEF TypeOK, MainInv, StateInv, FreshKeysReadZero, GroupsLive, GroupData, Keys
<1> QED
  BY <1>1, <1>2, <1>3, <1>4, <1>5, <1>6, <1>7, <1>8

LEMMA ExitTypes ==
    ASSUME NpInv, NEW t \in Threads, Exit(t)
    PROVE  TypeOK'
<1> USE NpAssumption DEF NpInv
<1>1. main[t] \in Groups
  BY DEF Exit, Member, MainInv, Outside
<1>2. (group[main[t]].children - 1) % Word \in 0..(Word - 1)
  BY <1>1 DEF TypeOK, GroupData
<1>3. group' \in [Groups -> GroupData]
  BY ZenonT(40), <1>1, <1>2 DEF Exit, TypeOK, GroupData
<1> QED
  BY <1>3 DEF Exit, Goto, TypeOK, Pcs

LEMMA ExitKeeps ==
    ASSUME NpInv, NEW t \in Threads, Exit(t)
    PROVE  NpInv'
<1> USE NpAssumption DEF NpInv, Exit, Member, Joined, Knows, Goto, Outside, Pcs
<1>1. TypeOK'
  BY ExitTypes
<1>2. OnceInv'
  BY DEF TypeOK, OnceInv, MainInv, GroupsLive
<1>3. MainInv'
  BY DEF TypeOK, MainInv, GroupsLive, GroupData
<1>4. LastInv'
  BY DEF TypeOK, MainInv, LastInv, StateInv
<1>5. StateInv'
  BY DEF TypeOK, MainInv, StateInv, GroupsLive, GroupData
<1>6. GroupsLive'
  BY DEF TypeOK, MainInv, LastInv, StateInv, GroupsLive, GroupData
<1>7. KeysAccounted'
  BY DEF TypeOK, MainInv, StateInv, KeysAccounted, GroupsLive, GroupData, Keys
<1>8. FreshKeysReadZero'
  BY DEF TypeOK, MainInv, StateInv, FreshKeysReadZero, GroupsLive, GroupData, Keys
<1> QED
  BY <1>1, <1>2, <1>3, <1>4, <1>5, <1>6, <1>7, <1>8

LEMMA FreeData ==
    ASSUME NpInv, NEW t \in Threads, Free(t)
    PROVE  TypeOK' /\ StateInv' /\ KeysAccounted' /\ FreshKeysReadZero'
<1> USE NpAssumption DEF NpInv
<1>1. main[t] \in Groups /\ main' = main /\ group[main[t]].state # "none"
  BY DEF Free, MainInv, Outside
<1>2. CASE isMain[t]
  <2>1. /\ group' = [group EXCEPT ![main[t]].state = "freed"]
        /\ held' = [held EXCEPT ![main[t]] = {}]
    BY <1>2 DEF Free, FreesGroup
  <2>2. TypeOK'
    <3>1. group' \in [Groups -> GroupData]
      BY ZenonT(40), <1>1, <2>1 DEF TypeOK, GroupData
    <3> QED
      BY <1>1, <2>1, <3>1 DEF Free, Goto, TypeOK, Pcs
  <2>3. StateInv'
    BY <1>1, <2>1 DEF TypeOK, StateInv, GroupData
  <2>4. KeysAccounted' /\ FreshKeysReadZero'
    BY <1>1, <2>1 DEF TypeOK, KeysAccounted, FreshKeysReadZero, GroupData
  <2> QED
    BY <2>2, <2>3, <2>4
<1>3. CASE ~isMain[t]
  BY <1>1, <1>3 DEF Free, FreesGroup, Goto, TypeOK, Pcs, StateInv, KeysAccounted, FreshKeysReadZero
<1> QED
  BY <1>2, <1>3

LEMMA FreeKeeps ==
    ASSUME NpInv, NEW t \in Threads, Free(t)
    PROVE  NpInv'
<1> USE NpAssumption DEF NpInv, Free, FreesGroup, Goto, Outside, Pcs
<1>1. TypeOK'
  BY FreeData
<1>2. OnceInv'
  BY DEF TypeOK, OnceInv, MainInv, GroupsLive
<1>3. MainInv'
  BY DEF TypeOK, MainInv, GroupsLive, GroupData
<1>4. LastInv'
  BY DEF TypeOK, MainInv, LastInv, StateInv
<1>5. StateInv'
  BY FreeData
<1>6. GroupsLive'
  BY DEF TypeOK, MainInv, LastInv, StateInv, GroupsLive, GroupData
<1>7. KeysAccounted'
  BY FreeData
<1>8. FreshKeysReadZero'
  BY FreeData
<1> QED
  BY <1>1, <1>2, <1>3, <1>4, <1>5, <1>6, <1>7, <1>8

-----------------------------------------------------------------------------
LEMMA NextKeeps == NpInv /\ [Next]_npVars => NpInv'
<1> SUFFICES ASSUME NpInv, Next PROVE NpInv'
  BY StutterKeeps
<1> QED
  BY OnceKeeps, InitMainKeeps, StartKeeps, CountKeeps, KeyCreateKeeps,
     KeyDeleteKeeps, SetSharedKeeps, ExitKeeps, FreeKeeps DEF Next

\* NpInv holds in every behaviour: what the results below are read off from.
THEOREM NpInvariance == NpSpec => []NpInv
<1>1. Init => NpInv
  BY InitNpInv
<1>2. NpInv /\ [Next]_npVars => NpInv'
  BY NextKeeps
<1> QED
  BY <1>1, <1>2, PTL DEF NpSpec

\* No thread reaches a group's data after its main thread has freed it.
THEOREM GroupsStayLive == NpSpec => []GroupsLive
<1>1. NpInv => GroupsLive
  BY DEF NpInv
<1> QED
  BY <1>1, NpInvariance, PTL

\* No shared key has two owners and none is lost.
THEOREM KeysStayAccounted == NpSpec => []KeysAccounted
<1>1. NpInv => KeysAccounted
  BY DEF NpInv
<1> QED
  BY <1>1, NpInvariance, PTL

\* A key that is handed out reads 0, also one that somebody had before.
THEOREM NewKeysReadZero == NpSpec => []FreshKeysReadZero
<1>1. NpInv => FreshKeysReadZero
  BY DEF NpInv
<1> QED
  BY <1>1, NpInvariance, PTL

\* thread_data_key exists whenever a thread calls pthread_setspecific with it.
THEOREM KeyExistsBeforeUse == NpSpec => []KeyBeforeUse
<1>1. NpInv => KeyBeforeUse
  BY DEF NpInv, OnceInv, KeyBeforeUse
<1> QED
  BY <1>1, NpInvariance, PTL


-----------------------------------------------------------------------------
(* child_threads *)

LEMMA WorkersFinite ==
    ASSUME NEW g
    PROVE  IsFiniteSet(Workers(g)) /\ Cardinality(Workers(g)) \in Nat
<1>1. Workers(g) \subseteq Threads
  BY DEF Workers, Knows
<1>2. IsFiniteSet(Workers(g))
  BY <1>1, NpAssumption, FS_Subset
<1> QED
  BY <1>2, FS_CardinalityType

\* Steps that neither count a worker nor change who is one.
LEMMA SameCount ==
    ASSUME ChildrenCounted,
           \A g \in Groups : group'[g].children = group[g].children,
           \A t \in Threads : pc'[t] = "member" /\ ~isMain'[t] <=> pc[t] = "member" /\ ~isMain[t],
           \A t \in Threads : pc'[t] = "member" =>
               main'[t] = main[t] /\ isMain'[t] = isMain[t] /\ pc[t] = "member"
    PROVE  ChildrenCounted'
<1>1. ASSUME NEW g \in Groups, NEW t \in Knows(g)', isMain'[t], pc'[t] = "member"
      PROVE  group'[g].children = Cardinality(Workers(g)') % Word
  <2>1. t \in Knows(g) /\ isMain[t] /\ pc[t] = "member"
    BY <1>1 DEF Knows
  <2>2. Workers(g)' = Workers(g)
    BY DEF Workers, Knows, Member
  <2> QED
    BY <1>1, <2>1, <2>2 DEF ChildrenCounted
<1> QED
  BY <1>1 DEF ChildrenCounted

LEMMA QuietCounts ==
    ASSUME NpInv, ChildrenCounted, NEW t \in Threads,
           \/ OnceBegin(t) \/ OnceEnd(t) \/ OnceSkip(t) \/ Attach(t) \/ KeyCreate(t)
           \/ Free(t) \/ (\E u \in Threads : Start(u, t)) \/ (\E k \in Keys : KeyDelete(t, k))
           \/ (\E k \in Keys, v \in Values : SetShared(t, k, v))
    PROVE  ChildrenCounted'
<1> USE DEF Goto
<1>1. pc \in [Threads -> Pcs] /\ main \in [Threads -> Groups \cup {NoGroup}]
  BY DEF NpInv, TypeOK
<1>2. CASE OnceBegin(t) \/ OnceEnd(t) \/ OnceSkip(t) \/ Attach(t)
  BY <1>1, <1>2, SameCount DEF OnceBegin, OnceEnd, OnceSkip, Attach
<1>3. CASE \E u \in Threads : Start(u, t)
  BY <1>1, <1>3, SameCount DEF Start
<1>4. CASE KeyCreate(t) \/ (\E k \in Keys : KeyDelete(t, k))
              \/ (\E k \in Keys, v \in Values : SetShared(t, k, v))
  <2>1. main[t] \in Groups
    BY <1>4 DEF KeyCreate, KeyDelete, SetShared, Member, NpInv, GroupsLive
  <2>2. /\ UNCHANGED <<pc, main, isMain>>
        /\ \A g \in Groups : group'[g].children = group[g].children
    <3>1. CASE KeyCreate(t)
      <4>1. PICK k \in 1..MaxKey : group' = Taken(main[t], k)
        BY <3>1 DEF KeyCreate
      <4>2. \A g \in Groups : group'[g].children = group[g].children
        BY <2>1, <4>1 DEF Taken, NpInv, TypeOK
      <4> QED
        BY <3>1, <4>2 DEF KeyCreate
    <3>2. CASE \E k \in Keys : KeyDelete(t, k)
      <4>1. PICK k \in Keys : KeyDelete(t, k)
        BY <3>2
      <4>2. group' = [group EXCEPT ![main[t]].storage = Wiped(main[t], k),
                                   ![main[t]].deleted = @ \cup {k}]
        BY <4>1 DEF KeyDelete
      <4>3. \A g \in Groups : group'[g].children = group[g].children
        BY <2>1, <4>2 DEF NpInv, TypeOK, GroupData
      <4> QED
        BY <4>1, <4>3 DEF KeyDelete
    <3>3. CASE \E k \in Keys, v \in Values : SetShared(t, k, v)
      BY <2>1, <3>3 DEF SetShared, NpInv, TypeOK, GroupData
    <3> QED
      BY <1>4, <3>1, <3>2, <3>3
  <2> QED
    BY <2>2, SameCount
<1>5. CASE Free(t)
  <2>1. /\ UNCHANGED <<main, isMain>> /\ pc[t] = "free" /\ pc' = [pc EXCEPT ![t] = "ended"]
        /\ \A g \in Groups : group'[g].children = group[g].children
    <3>1. CASE FreesGroup(t)
      BY <1>5, <3>1 DEF Free, NpInv, TypeOK, GroupData
    <3>2. CASE ~FreesGroup(t)
      BY <1>5, <3>2 DEF Free
    <3> QED
      BY <3>1, <3>2
  <2> QED
    BY <1>1, <2>1, SameCount
<1> QED
  BY <1>2, <1>3, <1>4, <1>5

\* A new group has no workers.
LEMMA InitMainCounts ==
    ASSUME NpInv, ChildrenCounted, NEW t \in Threads, InitMain(t)
    PROVE  ChildrenCounted'
<1>1. PICK n \in Groups : /\ group[n].state = "none" /\ main' = [main EXCEPT ![t] = n]
                          /\ group' = [group EXCEPT ![n] = [Unused EXCEPT !.state = "live"]]
  BY DEF InitMain
<1>2. /\ pc[t] = "init_main" /\ pc' = [pc EXCEPT ![t] = "member"]
      /\ isMain' = [isMain EXCEPT ![t] = TRUE]
  BY DEF InitMain, Goto
<1>3. \A u \in Threads : main[u] # n
  BY <1>1 DEF NpInv, StateInv
<1>4. /\ pc'[t] = "member" /\ isMain'[t] /\ main'[t] = n
      /\ \A u \in Threads : u # t => pc'[u] = pc[u] /\ isMain'[u] = isMain[u]
                                     /\ main'[u] = main[u]
  BY <1>1, <1>2 DEF NpInv, TypeOK
<1>5. ASSUME NEW g \in Groups, NEW m \in Knows(g)', isMain'[m], pc'[m] = "member"
      PROVE  group'[g].children = Cardinality(Workers(g)') % Word
  <2>1. CASE g = n
    <3>1. Workers(g)' = {}
      BY <1>3, <1>4, <2>1 DEF Workers, Knows, Member
    <3>2. group'[g].children = 0
      BY <1>1, <2>1 DEF Unused, NpInv, TypeOK
    <3>3. 0 % Word = 0
      BY NpAssumption
    <3> QED
      BY <3>1, <3>2, <3>3, FS_EmptySet
  <2>2. CASE g # n
    <3>1. Workers(g)' = Workers(g)
      BY <1>2, <1>4, <2>2 DEF Workers, Knows, Member
    <3>2. m \in Knows(g) /\ isMain[m] /\ pc[m] = "member"
      BY <1>4, <1>5, <2>2 DEF Knows
    <3>3. group'[g] = group[g]
      BY <1>1, <2>2 DEF NpInv, TypeOK
    <3> QED
      BY <3>1, <3>2, <3>3 DEF ChildrenCounted, Member
  <2> QED
    BY <2>1, <2>2
<1> QED
  BY <1>5 DEF ChildrenCounted, Member

\* ++child_threads comes with one worker more.
LEMMA CountCounts ==
    ASSUME NpInv, ChildrenCounted, NEW t \in Threads, Count(t)
    PROVE  ChildrenCounted'
<1>1. /\ pc[t] = "count" /\ pc' = [pc EXCEPT ![t] = "member"] /\ UNCHANGED <<main, isMain>>
      /\ group' = [group EXCEPT ![main[t]].children = (@ + 1) % Word]
  BY DEF Count, Goto
<1>2. main[t] \in Groups /\ ~isMain[t]
  BY <1>1 DEF NpInv, MainInv, Outside
<1>3. pc'[t] = "member" /\ \A u \in Threads : u # t => pc'[u] = pc[u]
  BY <1>1 DEF NpInv, TypeOK
<1>4. ASSUME NEW g \in Groups, NEW m \in Knows(g)', isMain'[m], pc'[m] = "member"
      PROVE  group'[g].children = Cardinality(Workers(g)') % Word
  <2>1. m \in Knows(g) /\ isMain[m] /\ pc[m] = "member"
    BY <1>1, <1>2, <1>3, <1>4 DEF Knows
  <2>2. group[g].children = Cardinality(Workers(g)) % Word
    BY <2>1 DEF ChildrenCounted, Member
  <2>3. CASE g = main[t]
    <3>1. Workers(g)' = Workers(g) \cup {t} /\ t \notin Workers(g)
      BY <1>1, <1>2, <1>3, <2>3 DEF Workers, Knows, Member
    <3>2. PICK c \in Nat : c = Cardinality(Workers(g))
      BY WorkersFinite
    <3>3. Cardinality(Workers(g)') = c + 1
      BY <3>1, <3>2, WorkersFinite, FS_AddElement
    <3>4. group'[g].children = (group[g].children + 1) % Word
      BY <1>1, <2>3 DEF NpInv, TypeOK
    <3>5. ((c % Word) + 1) % Word = (c + 1) % Word
      <4>1. c \in Int /\ 1 \in Int /\ Word \in Nat \ {0}
        BY NpAssumption
      <4> QED
        BY <4>1, AddRemainder, Zenon
    <3> QED
      BY <2>2, <3>2, <3>3, <3>4, <3>5
  <2>4. CASE g # main[t]
    <3>1. Workers(g)' = Workers(g)
      BY <1>1, <1>3, <2>4 DEF Workers, Knows, Member
    <3>2. group'[g] = group[g]
      BY <1>1, <2>4 DEF NpInv, TypeOK
    <3> QED
      BY <2>2, <3>1, <3>2
  <2> QED
    BY <2>3, <2>4
<1> QED
  BY <1>4 DEF ChildrenCounted, Member

\* --child_threads comes with one worker less, or with the end of the group.
LEMMA ExitCounts ==
    ASSUME NpInv, ChildrenCounted, NEW t \in Threads, Exit(t)
    PROVE  ChildrenCounted'
<1>1. /\ pc[t] = "member" /\ pc' = [pc EXCEPT ![t] = "free"] /\ UNCHANGED <<main, isMain>>
      /\ group' = [group EXCEPT ![main[t]].children = (@ - 1) % Word] /\ Joined(t)
  BY DEF Exit, Goto, Member
<1>2. main[t] \in Groups
  BY <1>1 DEF NpInv, GroupsLive
<1>3. pc'[t] = "free" /\ \A u \in Threads : u # t => pc'[u] = pc[u]
  BY <1>1 DEF NpInv, TypeOK
<1>4. ASSUME NEW g \in Groups, NEW m \in Knows(g)', isMain'[m], pc'[m] = "member"
      PROVE  group'[g].children = Cardinality(Workers(g)') % Word
  <2>1. m \in Knows(g) /\ m # t /\ isMain[m] /\ pc[m] = "member"
    BY <1>1, <1>3, <1>4 DEF Knows
  <2>2. group[g].children = Cardinality(Workers(g)) % Word
    BY <2>1 DEF ChildrenCounted, Member
  <2>3. CASE g = main[t]
    <3>1. ~isMain[t]
      BY <1>1, <2>1, <2>3 DEF Joined, Knows
    <3>2. Workers(g)' = Workers(g) \ {t} /\ t \in Workers(g)
      BY <1>1, <1>3, <2>3, <3>1 DEF Workers, Knows, Member
    <3>3. PICK c \in Nat : c = Cardinality(Workers(g))
      BY WorkersFinite
    <3>4. Cardinality(Workers(g)') = c - 1
      BY <3>2, <3>3, WorkersFinite, FS_RemoveElement
    <3>5. group'[g].children = (group[g].children - 1) % Word
      BY <1>1, <2>3 DEF NpInv, TypeOK
    <3>6. ((c % Word) + (-1)) % Word = (c + (-1)) % Word
      <4>1. c \in Int /\ -1 \in Int /\ Word \in Nat \ {0}
        BY NpAssumption
      <4> QED
        BY <4>1, AddRemainder, Zenon
    <3>7. PICK b \in Int : b = c % Word
      BY NpAssumption
    <3>8. b + (-1) = b - 1 /\ c + (-1) = c - 1
      OBVIOUS
    <3> QED
      BY <2>2, <3>3, <3>4, <3>5, <3>6, <3>7, <3>8
  <2>4. CASE g # main[t]
    <3>1. Workers(g)' = Workers(g)
      BY <1>1, <1>3, <2>4 DEF Workers, Knows, Member
    <3>2. group'[g] = group[g]
      BY <1>1, <2>4 DEF NpInv, TypeOK
    <3> QED
      BY <2>2, <3>1, <3>2
  <2> QED
    BY <2>3, <2>4
<1> QED
  BY <1>4 DEF ChildrenCounted, Member

\* child_threads counts the workers of a group while its main thread runs, modulo
\* the word, for any number of threads.
THEOREM ChildrenStayCounted == NpSpec => []ChildrenCounted
<1>1. Init => NpInv /\ ChildrenCounted
  <2> SUFFICES ASSUME Init PROVE NpInv /\ ChildrenCounted
    OBVIOUS
  <2>1. \A t \in Threads : ~isMain[t]
    BY DEF Init
  <2> QED
    BY <2>1, InitNpInv DEF ChildrenCounted, Knows
<1>2. NpInv /\ ChildrenCounted /\ [Next]_npVars => NpInv' /\ ChildrenCounted'
  <2> SUFFICES ASSUME NpInv, ChildrenCounted, [Next]_npVars
               PROVE  NpInv' /\ ChildrenCounted'
    OBVIOUS
  <2>1. NpInv'
    BY NextKeeps
  <2>2. CASE UNCHANGED npVars
    BY <2>1, <2>2, SameCount DEF npVars
  <2>3. CASE Next
    <3>1. PICK t \in Threads :
              \/ OnceBegin(t) \/ OnceEnd(t) \/ OnceSkip(t) \/ InitMain(t)
              \/ Attach(t) \/ Count(t) \/ KeyCreate(t) \/ Exit(t) \/ Free(t)
              \/ (\E u \in Threads : Start(u, t))
              \/ (\E k \in Keys : KeyDelete(t, k))
              \/ (\E k \in Keys, v \in Values : SetShared(t, k, v))
      BY <2>3 DEF Next
    <3> QED
      BY <2>1, <3>1, QuietCounts, InitMainCounts, CountCounts, ExitCounts
  <2> QED
    BY <2>2, <2>3
<1> QED
  BY <1>1, <1>2, PTL DEF NpSpec

\* Every variable keeps its type, and child_threads its width.
THEOREM GroupsTyped == NpSpec => []TypeOK
<1>1. NpInv => TypeOK
  BY DEF NpInv
<1> QED
  BY <1>1, NpInvariance, PTL
=============================================================================
