------------------------------- MODULE Hashmap -------------------------------
(***************************************************************************)
(* libcutils/hashmap.c: a hash map with chained buckets that doubles its   *)
(* buckets, and hashmapMemoize, which calls back in the middle of an       *)
(* insertion.  A map is used by one thread at a time (hashmapLock).        *)
(*                                                                         *)
(* A chain is the sequence of its entries from the bucket on; the entry's  *)
(* copy of the hash is Hash of its key.                                    *)
(***************************************************************************)
EXTENDS Integers, SequencesExt

CONSTANTS
    Keys,         \* pointers to keys
    Content,      \* what each points to, as the map's equals sees it
    Hash,         \* hashKey of each
    Values,
    Capacities,   \* initial capacities
    CallbackAdds, \* whether callbacks of hashmapMemoize add to the map
    Null, Absent

Contents == {Content[k] : k \in Keys}
KeyWith == [c \in Contents |-> CHOOSE k \in Keys : Content[k] = c]

\* Equal keys have equal hashes, as every hash map asks of its functions.
ASSUME HashmapAssumption ==
    /\ Hash \in [Keys -> Nat] /\ DOMAIN Content = Keys
    /\ \A j, k \in Keys : Content[j] = Content[k] => Hash[j] = Hash[k]
    /\ Capacities \subseteq Nat /\ CallbackAdds \in BOOLEAN
    /\ Null \notin Values \cup Keys /\ Absent \notin Values \cup {Null}

VARIABLES
    buckets, \* the chains; bucketCount is how many there are
    size,
    calls,   \* the hashmapMemoize calls whose callback runs, outermost first
    walk,    \* hashmapForEach: keys given to the callback so far, the last one now
    result   \* what the last operation returned

hashVars == <<buckets, size, calls, walk, result>>

bucketCount == Len(buckets)

Entry == [key : Keys, value : Values \cup {Null}]

\* n has no odd divisor but 1.
IsPowerOf2(n) == \A d \in 1..n : n % d = 0 => d = 1 \/ d % 2 = 0

\* A call of hashmapMemoize has p, the address of the link to its new entry: in
\* the array of count buckets, or in the entry with key pred.
Frame == [key : Keys, pred : Keys \cup {Null}, count : Nat]

TypeOK ==
    /\ buckets \in Seq(Seq(Entry))
    /\ bucketCount > 0 /\ IsPowerOf2(bucketCount)
    /\ size \in Nat
    /\ calls \in Seq(Frame)
    /\ walk \in Seq(Keys)
    /\ result \in Values \cup {Null, TRUE, FALSE}

-----------------------------------------------------------------------------
(* hashmapCreate *)

\* Doubled from 1 on while it is not more than 4/3 of the capacity.
InitialCount(capacity) ==
    LET minimum == (capacity * 4) \div 3
    IN  CHOOSE n \in 1..(2 * minimum + 1) : IsPowerOf2(n) /\ n > minimum /\ (n = 1 \/ n <= 2 * minimum)

Init ==
    /\ \E capacity \in Capacities : buckets = [i \in 1..InitialCount(capacity) |-> <<>>]
    /\ size = 0
    /\ calls = <<>> /\ walk = <<>>
    /\ result = Null

-----------------------------------------------------------------------------
(* Finding an entry *)

\* Mutant of equalKeys: keys are taken for equal when their hashes are.
equalKeys_HashOnly(j, k) == Hash[j] = Hash[k]

equalKeys(j, k) == j = k \/ (Hash[j] = Hash[k] /\ Content[j] = Content[k])

\* Bucket numbers start at 1; count is a power of 2, so masking is %.
calculateIndex(count, k) == (Hash[k] % count) + 1

Chain(k) == buckets[calculateIndex(bucketCount, k)]

\* The place of k's entry in its chain, or 0.
Place(k) == SelectInSeq(Chain(k), LAMBDA e : equalKeys(e.key, k))

\* Where it is in the buckets.
Current(k) == <<calculateIndex(bucketCount, k), Place(k)>>

HasKey(k) == Place(k) # 0
Found(k, absent) == LET i == Place(k) IN IF i = 0 THEN absent ELSE Chain(k)[i].value
ValueOf(k) == Found(k, Null)

-----------------------------------------------------------------------------
(* Going through the entries *)

\* Where b has entries: the number of a chain and a place in it.
Places(b) == UNION {{n} \X DOMAIN b[n] : n \in DOMAIN b}

EntryAt(b, p) == b[p[1]][p[2]]

\* A loop over the buckets and their chains comes to p before q.
Before(p, q) == p[1] < q[1] \/ (p[1] = q[1] /\ p[2] < q[2])

FirstOf(S) == CHOOSE p \in S : \A q \in S : ~Before(q, p)

-----------------------------------------------------------------------------
(* expandIfNecessary *)

\* The places of b whose entries go to chain i.
Going(b, index, i) == {p \in Places(b) : index[EntryAt(b, p).key] = i}

\* The n-th of them from the end.
FromEnd(S, n) == CHOOSE p \in S : Cardinality({q \in S : Before(p, q)}) = n - 1

\* The entries of b, taken in order, each put in front of its chain,
\* whose number index gives.
Rehashed(b, count, index) ==
    [i \in 1..count |->
        [n \in 1..Cardinality(Going(b, index, i)) |->
            EntryAt(b, FromEnd(Going(b, index, i), n))]]

\* Mutants: the entries keep the index of the old array; one bucket more.
Expanded_OldIndex(b) ==
    Rehashed(b, 2 * Len(b), [k \in Keys |-> calculateIndex(Len(b), k)])
Expanded_OneMore(b) ==
    Rehashed(b, Len(b) + 1, [k \in Keys |-> calculateIndex(Len(b) + 1, k)])

Expanded(b) ==
    Rehashed(b, 2 * Len(b), [k \in Keys |-> calculateIndex(2 * Len(b), k)])

\* b after an addition that made the size n; calloc may fail.
AfterAdding(b, n) ==
    IF n > (Len(b) * 3) \div 4 THEN {Expanded(b), b} ELSE {b}

-----------------------------------------------------------------------------
(* Operations *)

\* A new entry goes to the end of its chain.
Appended(k, v) ==
    [buckets EXCEPT ![calculateIndex(bucketCount, k)] = Append(@, [key |-> k, value |-> v])]

\* The i-th entry of k's chain gets value v.
Written(k, i, v) ==
    [buckets EXCEPT ![calculateIndex(bucketCount, k)][i].value = v]

\* The callers' part: callbacks of hashmapForEach do not add, and those of
\* hashmapMemoize do or do not.
MayAdd == walk = <<>> /\ (calls = <<>> \/ CallbackAdds)

PutNew(k, v) ==
    /\ MayAdd /\ ~HasKey(k)
    /\ buckets' \in AfterAdding(Appended(k, v), size + 1)
    /\ size' = size + 1
    /\ result' = Null
    /\ UNCHANGED <<calls, walk>>

\* The entry keeps the key it was made with.
PutReplaces(k, v) ==
    /\ (MayAdd \/ walk # <<>>) /\ HasKey(k)
    /\ buckets' = Written(k, Place(k), v)
    /\ result' = ValueOf(k)
    /\ UNCHANGED <<size, calls, walk>>

\* hashmapPut or hashmapMemoize, and createEntry returns NULL
AddFails(k) ==
    /\ MayAdd /\ ~HasKey(k)
    /\ result' = Null
    /\ UNCHANGED <<buckets, size, calls, walk>>

hashmapPut(k, v) == PutNew(k, v) \/ PutReplaces(k, v)

\* Asking in a callback of hashmapForEach changes nothing there, and is left out.
Asks(answer) == walk = <<>> /\ result' = answer /\ UNCHANGED <<buckets, size, calls, walk>>

hashmapGet(k) == Asks(ValueOf(k))

hashmapContainsKey(k) == Asks(HasKey(k))

\* The callers' part: callbacks of hashmapMemoize remove nothing, and those of
\* hashmapForEach do not remove the entry they are called for.
MayRemove(k) == calls = <<>> /\ (walk # <<>> => ~equalKeys(Last(walk), k))

\* Mutant of hashmapRemove: the size stays.
hashmapRemove_SizeStays(k) ==
    /\ MayRemove(k) /\ HasKey(k)
    /\ buckets' = [buckets EXCEPT ![calculateIndex(bucketCount, k)] = RemoveAt(@, Place(k))]
    /\ result' = ValueOf(k)
    /\ UNCHANGED <<size, calls, walk>>

\* Removing a key that is not there answers and changes nothing, as hashmapGet
\* does.
hashmapRemove(k) ==
    /\ MayRemove(k) /\ HasKey(k)
    /\ buckets' = [buckets EXCEPT ![calculateIndex(bucketCount, k)] = RemoveAt(@, Place(k))]
    /\ size' = size - 1
    /\ result' = ValueOf(k)
    /\ UNCHANGED <<calls, walk>>

-----------------------------------------------------------------------------
(* hashmapMemoize: a key that is there answers like hashmapGet *)

\* A new entry with no value yet, which size does not count; then the callback.
MemoizeBegin(k) ==
    /\ MayAdd /\ ~HasKey(k)
    /\ buckets' = Appended(k, Null)
    /\ calls' = Append(calls,
           [key |-> k, count |-> bucketCount,
            pred |-> IF Chain(k) = <<>> THEN Null ELSE Chain(k)[Len(Chain(k))].key])
    /\ UNCHANGED <<size, walk, result>>

\* (*p)->value = v, where p is what it was before the callback: the head of a
\* chain, the link of the entry with key pred, or a slot of an array that an
\* expansion has freed, where the entry may still be found or not.
ValueSet(f, v) ==
    IF f.pred # Null
    THEN LET next == Place(f.pred) + 1
         IN  IF next <= Len(Chain(f.pred)) THEN {Written(f.pred, next, v)} ELSE {}
    ELSE IF f.count = bucketCount THEN {Written(f.key, 1, v)}
    ELSE {Written(f.key, Place(f.key), v), buckets}

\* The callback returns v.
MemoizeEnd(v) ==
    /\ calls # <<>>
    /\ \E b \in ValueSet(Last(calls), v) : buckets' \in AfterAdding(b, size + 1)
    /\ size' = size + 1
    /\ calls' = Front(calls)
    /\ result' = v
    /\ UNCHANGED walk

-----------------------------------------------------------------------------
(* hashmapForEach *)

\* Mutant of Ahead: the next entry is taken from the next bucket.
Ahead_NextBucket(k) ==
    {p \in Places(buckets) : p[1] > calculateIndex(bucketCount, k)}

\* Where the entries are that are still to come when the one with key k is the
\* current one: entry->next and what follows it, then the buckets from i + 1 on.
Ahead(k) ==
    {p \in Places(buckets) : Before(Current(k), p)}

KeyOf(p) == EntryAt(buckets, p).key

ForEachStep(next) == walk' = next /\ result' = Null /\ UNCHANGED <<buckets, size, calls>>

\* The first entry is given to the callback, and one after the other: the link
\* to the next entry is read after the callback.
ForEachBegin ==
    /\ walk = <<>> /\ calls = <<>>
    /\ size > 0
    /\ ForEachStep(<<KeyOf(FirstOf(Places(buckets)))>>)

ForEachNext ==
    /\ walk # <<>> /\ Ahead(Last(walk)) # {}
    /\ ForEachStep(Append(walk, KeyOf(FirstOf(Ahead(Last(walk))))))

\* The last entry's callback returns, or any entry's returns false.
ForEachEnd == walk # <<>> /\ ForEachStep(<<>>)

-----------------------------------------------------------------------------
Next ==
    \/ ForEachBegin \/ ForEachNext \/ ForEachEnd
    \/ \E k \in Keys : hashmapGet(k) \/ hashmapContainsKey(k) \/ hashmapRemove(k) \/ AddFails(k) \/ MemoizeBegin(k)
    \/ \E v \in Values \cup {Null} : MemoizeEnd(v) \/ \E k \in Keys : hashmapPut(k, v)

HashSpec == Init /\ [][Next]_hashVars

-----------------------------------------------------------------------------
(* Properties *)

\* Every entry is in the bucket its hash leads to, whatever expansions moved
\* it, and no two entries have equal keys: a lookup finds the one there is.
EntriesPlaced ==
    \A p \in Places(buckets) :
        /\ calculateIndex(bucketCount, KeyOf(p)) = p[1]
        /\ \A q \in Places(buckets) : p[1] = q[1] /\ equalKeys(KeyOf(p), KeyOf(q)) => p = q

\* size counts the entries, but those whose callback has not returned.
SizeCounts == size + Len(calls) = Cardinality(Places(buckets))

\* "Invokes the given callback on each entry in the map": no entry is visited
\* twice, and when none is ahead all that the map has were visited, whatever
\* callbacks replaced and removed.
EachVisited ==
    walk # <<>> =>
        /\ IsInjective(walk)
        /\ Ahead(Last(walk)) = {} => \A p \in Places(buckets) : KeyOf(p) \in ToSet(walk)

\* What the map has for each content a key can have
Shown == [c \in Contents |-> Found(KeyWith[c], Absent)]

\* The map behaves as a finite map from contents to values, collisions, equal
\* keys at different addresses, expansions and failing allocations included.
Abstract == INSTANCE FiniteMap WITH map <- Shown
ImplementsMap == Abstract!Spec

\* "If a value is not found, this function gets a value and creates an entry using
\* the given callback": the entry of hashmapMemoize has the callback's value.
MemoizeStores ==
    [][\A k \in Keys :
          Len(calls') < Len(calls) /\ k = Last(calls).key => ValueOf(k)' = result']_hashVars
=============================================================================
