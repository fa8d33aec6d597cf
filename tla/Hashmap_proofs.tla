--------------------------- MODULE Hashmap_proofs ---------------------------
(***************************************************************************)
(* The hash map of cutils, for any keys, hashes, capacities and callbacks. *)
(*                                                                         *)
(* The first parts are about an array of chains b.  Entries(b) is what it  *)
(* holds: a lookup depends on nothing else (FoundBy), and each of the four *)
(* changes of the code does to it what it should (AppendedMap, WrittenMap, *)
(* RemovedMap, ExpandedMap).                                               *)
(***************************************************************************)
EXTENDS Hashmap, ModularArithmetic, FiniteSetTheorems, SequenceTheorems

-----------------------------------------------------------------------------
(* Numbers *)

\* A set of natural numbers that has an element has a least one.
LEMMA LeastNumber ==
    ASSUME NEW S \in SUBSET Nat, S # {}
    PROVE  \E m \in S : \A n \in S : m <= n
<1>1. PICK m \in S : \A n \in S : ~ (<<n, m>> \in OpToRel(<, Nat))
  BY NatLessThanWellFounded, WFMin
<1>2. \A n \in S : ~(n < m)
  BY <1>1 DEF OpToRel
<1> QED
  BY <1>2

LEMMA IndexRange ==
    ASSUME NEW count \in Nat \ {0}, NEW k \in Keys
    PROVE  calculateIndex(count, k) \in 1..count
<1>1. Hash[k] \in Nat
  BY HashmapAssumption
<1>2. Hash[k] \in Int
  BY <1>1
<1>3. Hash[k] % count \in 0..(count - 1)
  BY <1>2, Remainder, Zenon
<1> QED
  BY <1>3 DEF calculateIndex

\* Doubling adds no odd divisor.
LEMMA DoublePower ==
    ASSUME NEW n \in Nat \ {0}, IsPowerOf2(n)
    PROVE  IsPowerOf2(2 * n)
<1> SUFFICES ASSUME NEW d \in 1..(2 * n), (2 * n) % d = 0, d % 2 # 0
             PROVE  d = 1
  BY DEF IsPowerOf2
<1>1. d \in Nat \ {0} /\ n \in Int /\ 2 * n \in Int
  OBVIOUS
<1>2. PICK q \in Int : n = d * q + (n % d)
  BY <1>1, Remainder
<1>3. PICK p \in Int : 2 * n = d * p + 0
  <2>1. PICK p \in Int : 2 * n = d * p + ((2 * n) % d)
    BY <1>1, Remainder, Zenon
  <2> QED
    BY <2>1
<1> DEFINE r == n % d
<1>4. r \in 0..(d - 1)
  BY <1>1, Remainder
<1> HIDE DEF r
<1>5. 2 * r # d
  <2>1. ASSUME 2 * r = d PROVE FALSE
    <3>1. d = 2 * r + 0 /\ r \in Int /\ d \in Int
      BY <1>4, <2>1
    <3>2. PICK h \in Int : d = 2 * h + (d % 2)
      BY <1>1, Remainder
    <3>3. d % 2 \in 0..1
      BY <1>1, Remainder
    <3> QED
      BY <3>1, <3>2, <3>3, <1>4
  <2> QED
    BY <2>1
<1>6. d * (2 * q) = 2 * (d * q) /\ d * q \in Int
  BY <1>1
<1>7. n = d * q + r
  BY <1>2 DEF r
<1>8. 2 * n = d * (2 * q) + 2 * r
  BY <1>4, <1>6, <1>7
<1>9. r = 0
  <2>1. CASE 2 * r < d
    <3>1. 2 * r \in 0..(d - 1) /\ 2 * q \in Int /\ 0 \in 0..(d - 1)
      BY <1>1, <1>4, <2>1
    <3>2. d * (2 * q) + 2 * r = d * p + 0
      BY <1>3, <1>8
    <3>3. 2 * r = 0
      BY <1>1, <3>1, <3>2, OneRemainder
    <3> QED
      BY <1>4, <3>3
  <2>2. CASE 2 * r > d
    <3>1. 2 * r - d \in 0..(d - 1) /\ 2 * q + 1 \in Int /\ 0 \in 0..(d - 1)
      BY <1>1, <1>4, <2>2
    <3>2. d * (2 * q + 1) = d * (2 * q) + d
      BY <1>1
    <3>3. d * (2 * q + 1) + (2 * r - d) = d * p + 0
      BY <1>3, <1>4, <1>6, <1>8, <3>2
    <3>4. 2 * r - d = 0
      BY <1>1, <3>1, <3>3, OneRemainder
    <3> QED
      BY <1>4, <2>2, <3>4
  <2> QED
    BY <1>4, <1>5, <2>1, <2>2
<1>10. n % d = 0 /\ d <= n
  <2>1. n % d = 0
    BY <1>9 DEF r
  <2>2. n = d * q
    BY <1>6, <1>7, <1>9
  <2>3. q >= 1
    <3>1. ASSUME q <= 0 PROVE d * q <= 0
      BY <3>1
    <3> QED
      BY <2>2, <3>1
  <2>4. d * q >= d
    BY <2>3
  <2> QED
    BY <2>1, <2>2, <2>4
<1> QED
  BY <1>10 DEF IsPowerOf2

\* hashmapCreate finds a number of buckets.
LEMMA InitialCountPower ==
    ASSUME NEW capacity \in Nat
    PROVE  InitialCount(capacity) \in Nat \ {0} /\ IsPowerOf2(InitialCount(capacity))
<1> DEFINE minimum == (capacity * 4) \div 3
           Fits(m, n) == IsPowerOf2(n) /\ n > m /\ (n = 1 \/ n <= 2 * m)
           Bad == {m \in Nat : ~ \E n \in Nat \ {0} : Fits(m, n)}
<1>1. Bad = {}
  <2> SUFFICES ASSUME Bad # {} PROVE FALSE
    OBVIOUS
  <2>1. PICK m \in Bad : \A n \in Bad : m <= n
    BY LeastNumber
  <2>2. m # 0
    <3>1. IsPowerOf2(1)
      BY DEF IsPowerOf2
    <3> QED
      BY <3>1
  <2>3. m - 1 \in Nat /\ m - 1 \notin Bad
    BY <2>1, <2>2
  <2>4. PICK n \in Nat \ {0} : Fits(m - 1, n)
    BY <2>3
  <2>5. CASE n > m
    BY <2>3, <2>4, <2>5
  <2>6. CASE n = m
    <3>1. IsPowerOf2(2 * m)
      BY <2>2, <2>4, <2>6, DoublePower
    <3> QED
      BY <2>2, <3>1
  <2> QED
    BY <2>3, <2>4, <2>5, <2>6
<1>2. minimum \in Nat
  OBVIOUS
<1>3. PICK n \in Nat \ {0} : Fits(minimum, n)
  BY <1>1, <1>2
<1>4. n \in 1..(2 * minimum + 1)
  BY <1>2, <1>3
<1> HIDE DEF minimum
<1>5. InitialCount(capacity) = CHOOSE x \in 1..(2 * minimum + 1) : Fits(minimum, x)
  BY DEF InitialCount, minimum
<1>6. \E x \in 1..(2 * minimum + 1) : Fits(minimum, x)
  BY <1>3, <1>4
<1> HIDE DEF Fits
<1>7. InitialCount(capacity) \in 1..(2 * minimum + 1) /\ Fits(minimum, InitialCount(capacity))
  BY <1>5, <1>6
<1> QED
  BY <1>2, <1>7 DEF Fits


-----------------------------------------------------------------------------
(* What an array of chains holds *)

Entries(b) == {EntryAt(b, p) : p \in Places(b)}

\* EntriesPlaced, of b
Placed(b) ==
    \A p \in Places(b) :
        /\ calculateIndex(Len(b), EntryAt(b, p).key) = p[1]
        /\ \A q \in Places(b) :
               p[1] = q[1] /\ equalKeys(EntryAt(b, p).key, EntryAt(b, q).key) => p = q

IsMap(b) == b \in Seq(Seq(Entry)) /\ Len(b) > 0 /\ Placed(b)

\* Keys are equal when what they point to is.
LEMMA EqualKeys ==
    ASSUME NEW j \in Keys, NEW k \in Keys
    PROVE  equalKeys(j, k) <=> Content[j] = Content[k]
BY HashmapAssumption DEF equalKeys

LEMMA EqualIndex ==
    ASSUME NEW j \in Keys, NEW k \in Keys, equalKeys(j, k), NEW count
    PROVE  calculateIndex(count, j) = calculateIndex(count, k)
BY HashmapAssumption DEF equalKeys, calculateIndex

LEMMA EntryFields ==
    ASSUME NEW e \in Entry
    PROVE  /\ e.key \in Keys
           /\ e.value \in Values \cup {Null}
           /\ e = [key |-> e.key, value |-> e.value]
BY DEF Entry

LEMMA ChainTypes ==
    ASSUME NEW b \in Seq(Seq(Entry)), NEW n \in 1..Len(b)
    PROVE  /\ b[n] \in Seq(Entry)
           /\ Len(b[n]) \in Nat
           /\ DOMAIN b[n] = 1..Len(b[n])
           /\ \A i \in 1..Len(b[n]) : b[n][i] \in Entry
<1>1. b[n] \in Seq(Entry)
  OBVIOUS
<1> QED
  BY <1>1

LEMMA PlaceTypes ==
    ASSUME NEW b \in Seq(Seq(Entry))
    PROVE  /\ Len(b) \in Nat /\ DOMAIN b = 1..Len(b)
           /\ \A n \in 1..Len(b) : \A i : i \in 1..Len(b[n]) <=> <<n, i>> \in Places(b)
           /\ \A p \in Places(b) : /\ p = <<p[1], p[2]>>
                                   /\ p[1] \in 1..Len(b)
                                   /\ p[2] \in 1..Len(b[p[1]])
                                   /\ EntryAt(b, p) \in Entry
                                   /\ EntryAt(b, p).key \in Keys
<1>1. Len(b) \in Nat /\ DOMAIN b = 1..Len(b)
  OBVIOUS
<1>2. \A n \in 1..Len(b) : DOMAIN b[n] = 1..Len(b[n])
  BY ChainTypes
<1>3. \A n \in 1..Len(b) : \A i : i \in 1..Len(b[n]) <=> <<n, i>> \in Places(b)
  BY <1>1, <1>2 DEF Places
<1>4. ASSUME NEW p \in Places(b)
      PROVE  /\ p = <<p[1], p[2]>>
             /\ p[1] \in 1..Len(b)
             /\ p[2] \in 1..Len(b[p[1]])
  BY <1>1, <1>2 DEF Places
<1>5. ASSUME NEW p \in Places(b)
      PROVE  EntryAt(b, p) \in Entry /\ EntryAt(b, p).key \in Keys
  <2>1. EntryAt(b, p) \in Entry
    BY <1>4, ChainTypes DEF EntryAt
  <2> QED
    BY <2>1, EntryFields
<1> QED
  BY <1>1, <1>3, <1>4, <1>5

\* Entries with equal keys are the same entry, in one place.
LEMMA OnePlaced ==
    ASSUME NEW b, IsMap(b), NEW p \in Places(b), NEW q \in Places(b),
           equalKeys(EntryAt(b, p).key, EntryAt(b, q).key)
    PROVE  p = q
<1>1. EntryAt(b, p).key \in Keys /\ EntryAt(b, q).key \in Keys
  BY PlaceTypes DEF IsMap
<1>2. p[1] = q[1]
  BY <1>1, EqualIndex DEF IsMap, Placed
<1> QED
  BY <1>2 DEF IsMap, Placed

\* So there are as many entries as places.
LEMMA EntryCount ==
    ASSUME NEW b, IsMap(b)
    PROVE  /\ IsFiniteSet(Places(b)) <=> IsFiniteSet(Entries(b))
           /\ IsFiniteSet(Entries(b)) => Cardinality(Places(b)) = Cardinality(Entries(b))
<1> DEFINE f == [p \in Places(b) |-> EntryAt(b, p)]
           g == [e \in Entries(b) |-> CHOOSE p \in Places(b) : EntryAt(b, p) = e]
<1>1. \A p, q \in Places(b) : EntryAt(b, p) = EntryAt(b, q) => p = q
  BY OnePlaced DEF equalKeys
<1>2. f \in Bijection(Places(b), Entries(b))
  BY <1>1 DEF Entries, Bijection, Injection, Surjection, IsInjective
<1>3. \A e \in Entries(b) : g[e] \in Places(b) /\ EntryAt(b, g[e]) = e
  BY DEF Entries
<1>4. \A p \in Places(b) : EntryAt(b, p) \in Entries(b) /\ g[EntryAt(b, p)] = p
  BY <1>1 DEF Entries
<1>5. g \in Bijection(Entries(b), Places(b))
  <2> HIDE DEF g
  <2>1. g \in [Entries(b) -> Places(b)]
    BY <1>3 DEF g
  <2>2. g \in Injection(Entries(b), Places(b))
    BY <1>3, <2>1 DEF Injection, IsInjective
  <2>3. g \in Surjection(Entries(b), Places(b))
    BY <1>4, <2>1 DEF Surjection
  <2> QED
    BY <2>2, <2>3 DEF Bijection
<1>6. ExistsBijection(Places(b), Entries(b)) /\ ExistsBijection(Entries(b), Places(b))
  BY <1>2, <1>5 DEF ExistsBijection
<1> QED
  BY <1>6, FS_Bijection

-----------------------------------------------------------------------------
(* Lookups *)

\* Place and Found, of b
PlaceIn(b, k) ==
    SelectInSeq(b[calculateIndex(Len(b), k)], LAMBDA e : equalKeys(e.key, k))

FoundIn(b, k, absent) ==
    IF PlaceIn(b, k) = 0 THEN absent ELSE b[calculateIndex(Len(b), k)][PlaceIn(b, k)].value

LEMMA LookupHere ==
    ASSUME NEW k, NEW absent
    PROVE  /\ Place(k) = PlaceIn(buckets, k)
           /\ Found(k, absent) = FoundIn(buckets, k, absent)
           /\ Place(k)' = PlaceIn(buckets', k)
           /\ Found(k, absent)' = FoundIn(buckets', k, absent)
<1>1. Place(k) = PlaceIn(buckets, k)
  BY DEF Place, PlaceIn, Chain, bucketCount
<1>2. Place(k)' = PlaceIn(buckets', k)
  BY DEF Place, PlaceIn, Chain, bucketCount, SelectInSeq
<1>3. Found(k, absent) = FoundIn(buckets, k, absent)
  BY <1>1 DEF Found, FoundIn, Chain, bucketCount
<1>4. Found(k, absent)' = FoundIn(buckets', k, absent)
  BY <1>2 DEF Found, FoundIn, Chain, bucketCount
<1> QED
  BY <1>1, <1>2, <1>3, <1>4

\* A lookup finds the place of the one entry with an equal key.
LEMMA Sought ==
    ASSUME NEW b, IsMap(b), NEW k \in Keys
    PROVE  /\ calculateIndex(Len(b), k) \in 1..Len(b)
           /\ \A p \in Places(b) :
                  equalKeys(EntryAt(b, p).key, k)
                    => p = <<calculateIndex(Len(b), k), PlaceIn(b, k)>> /\ PlaceIn(b, k) # 0
           /\ PlaceIn(b, k) # 0
                => /\ <<calculateIndex(Len(b), k), PlaceIn(b, k)>> \in Places(b)
                   /\ equalKeys(b[calculateIndex(Len(b), k)][PlaceIn(b, k)].key, k)
<1> DEFINE n == calculateIndex(Len(b), k)
           I == {i \in 1..Len(b[n]) : equalKeys(b[n][i].key, k)}
<1>0. b \in Seq(Seq(Entry)) /\ Len(b) \in Nat \ {0}
  BY PlaceTypes DEF IsMap
<1>1. n \in 1..Len(b)
  BY <1>0, IndexRange
<1> HIDE DEF n
<1>2. b[n] \in Seq(Entry) /\ Len(b[n]) \in Nat
  BY <1>0, <1>1, ChainTypes
<1>3. \A i, j \in I : i = j
  <2> SUFFICES ASSUME NEW i \in I, NEW j \in I PROVE i = j
    OBVIOUS
  <2>1. <<n, i>> \in Places(b) /\ <<n, j>> \in Places(b)
    BY <1>0, <1>1, PlaceTypes
  <2>2. EntryAt(b, <<n, i>>) = b[n][i] /\ EntryAt(b, <<n, j>>) = b[n][j]
    BY DEF EntryAt
  <2>3. b[n][i].key \in Keys /\ b[n][j].key \in Keys
    BY <1>0, <2>1, <2>2, PlaceTypes
  <2>4. equalKeys(b[n][i].key, b[n][j].key)
    BY <2>3, EqualKeys
  <2>5. <<n, i>> = <<n, j>>
    BY <2>1, <2>2, <2>4, OnePlaced
  <2> QED
    BY <2>5
<1>4. PlaceIn(b, k) = IF I # {} THEN Min(I) ELSE 0
  BY DEF PlaceIn, SelectInSeq, n
<1>5. ASSUME NEW i \in I PROVE PlaceIn(b, k) = i
  <2>1. I = {i} /\ i \in Nat
    BY <1>2, <1>3
  <2>2. Min({i}) = i
    BY <2>1 DEF Min
  <2> QED
    BY <1>4, <2>1, <2>2
<1>6. ASSUME NEW p \in Places(b), equalKeys(EntryAt(b, p).key, k)
      PROVE  p = <<n, PlaceIn(b, k)>> /\ PlaceIn(b, k) # 0
  <2>1. /\ p = <<p[1], p[2]>> /\ p[1] \in 1..Len(b) /\ p[2] \in 1..Len(b[p[1]])
        /\ EntryAt(b, p).key \in Keys
    BY <1>0, PlaceTypes
  <2>2. p[1] = n
    BY <1>6, <2>1, EqualIndex DEF IsMap, Placed, n
  <2>3. p[2] \in I
    BY <1>6, <2>1, <2>2 DEF EntryAt
  <2>4. PlaceIn(b, k) = p[2] /\ p[2] # 0
    BY <1>2, <1>5, <2>3
  <2> QED
    BY <2>1, <2>2, <2>4
<1>7. ASSUME PlaceIn(b, k) # 0
      PROVE  <<n, PlaceIn(b, k)>> \in Places(b) /\ equalKeys(b[n][PlaceIn(b, k)].key, k)
  <2>1. PICK i \in I : TRUE
    BY <1>4, <1>7
  <2>2. PlaceIn(b, k) = i
    BY <1>5
  <2> QED
    BY <1>0, <1>1, <2>2, PlaceTypes
<1> QED
  BY <1>1, <1>6, <1>7 DEF n

\* What a lookup answers depends on the entries alone.
LEMMA FoundBy ==
    ASSUME NEW b, IsMap(b), NEW k \in Keys, NEW absent
    PROVE  /\ \A e \in Entries(b) :
                  equalKeys(e.key, k) => FoundIn(b, k, absent) = e.value /\ PlaceIn(b, k) # 0
           /\ (\A e \in Entries(b) : ~equalKeys(e.key, k))
                => FoundIn(b, k, absent) = absent /\ PlaceIn(b, k) = 0
<1>1. ASSUME NEW e \in Entries(b), equalKeys(e.key, k)
      PROVE  FoundIn(b, k, absent) = e.value /\ PlaceIn(b, k) # 0
  <2>1. PICK p \in Places(b) : e = EntryAt(b, p)
    BY DEF Entries
  <2>2. p = <<calculateIndex(Len(b), k), PlaceIn(b, k)>> /\ PlaceIn(b, k) # 0
    BY <1>1, <2>1, Sought
  <2> QED
    BY <2>1, <2>2 DEF FoundIn, EntryAt
<1>2. ASSUME \A e \in Entries(b) : ~equalKeys(e.key, k)
      PROVE  FoundIn(b, k, absent) = absent /\ PlaceIn(b, k) = 0
  <2>1. PlaceIn(b, k) = 0
    <3> DEFINE p == <<calculateIndex(Len(b), k), PlaceIn(b, k)>>
    <3>1. ASSUME PlaceIn(b, k) # 0 PROVE FALSE
      <4>1. p \in Places(b) /\ equalKeys(EntryAt(b, p).key, k)
        BY <3>1, Sought DEF EntryAt
      <4>2. EntryAt(b, p) \in Entries(b)
        BY <4>1 DEF Entries
      <4> QED
        BY <1>2, <4>1, <4>2
    <3> QED
      BY <3>1
  <2> QED
    BY <2>1 DEF FoundIn
<1> QED
  BY <1>1, <1>2

\* The entry that a lookup found.
LEMMA FoundEntry ==
    ASSUME NEW b, IsMap(b), NEW k \in Keys, PlaceIn(b, k) # 0
    PROVE  LET p == <<calculateIndex(Len(b), k), PlaceIn(b, k)>>
           IN  /\ p \in Places(b) /\ EntryAt(b, p) \in Entries(b)
               /\ equalKeys(EntryAt(b, p).key, k)
               /\ \A absent : FoundIn(b, k, absent) = EntryAt(b, p).value
BY Sought DEF FoundIn, EntryAt, Entries


-----------------------------------------------------------------------------
(* The changes of the array *)

\* What is placed stays so when entries go, or move in their chains.
LEMMA StillPlaced ==
    ASSUME NEW b, IsMap(b), NEW c, Len(c) = Len(b), NEW f,
           \A p \in Places(c) : /\ f[p] \in Places(b) /\ f[p][1] = p[1]
                                /\ EntryAt(b, f[p]).key = EntryAt(c, p).key,
           \A p, q \in Places(c) : f[p] = f[q] => p = q
    PROVE  Placed(c)
<1> SUFFICES ASSUME NEW p \in Places(c)
             PROVE  /\ calculateIndex(Len(c), EntryAt(c, p).key) = p[1]
                    /\ \A q \in Places(c) :
                           p[1] = q[1] /\ equalKeys(EntryAt(c, p).key, EntryAt(c, q).key)
                              => p = q
  BY DEF Placed
<1>1. calculateIndex(Len(c), EntryAt(c, p).key) = p[1]
  <2>1. calculateIndex(Len(b), EntryAt(b, f[p]).key) = f[p][1]
    BY DEF IsMap, Placed
  <2> QED
    BY <2>1
<1>2. ASSUME NEW q \in Places(c), equalKeys(EntryAt(c, p).key, EntryAt(c, q).key)
      PROVE  p = q
  <2>1. equalKeys(EntryAt(b, f[p]).key, EntryAt(b, f[q]).key)
    BY <1>2
  <2>2. f[p] = f[q]
    BY <2>1, OnePlaced
  <2> QED
    BY <2>2
<1> QED
  BY <1>1, <1>2

LEMMA SamePlaces ==
    ASSUME NEW b, IsMap(b), NEW c, Len(c) = Len(b), Places(c) = Places(b),
           \A p \in Places(b) : EntryAt(c, p).key = EntryAt(b, p).key
    PROVE  Placed(c)
<1> DEFINE f == [p \in Places(c) |-> p]
<1>1. \A p \in Places(c) : /\ f[p] \in Places(b) /\ f[p][1] = p[1]
                           /\ EntryAt(b, f[p]).key = EntryAt(c, p).key
  OBVIOUS
<1>2. \A p, q \in Places(c) : f[p] = f[q] => p = q
  OBVIOUS
<1> HIDE DEF f
<1> QED
  BY <1>1, <1>2, StillPlaced

\* A new entry for a key that was not there.
AppendedTo(b, k, v) ==
    [b EXCEPT ![calculateIndex(Len(b), k)] = Append(@, [key |-> k, value |-> v])]

LEMMA AppendedMap ==
    ASSUME NEW b, IsMap(b), NEW k \in Keys, NEW v \in Values \cup {Null}, PlaceIn(b, k) = 0
    PROVE  LET n == calculateIndex(Len(b), k)
               e == [key |-> k, value |-> v]
               c == AppendedTo(b, k, v)
           IN  /\ IsMap(c)
               /\ Len(c) = Len(b)
               /\ e \notin Entries(b)
               /\ Entries(c) = Entries(b) \cup {e}
               /\ n \in 1..Len(b)
               /\ c[n] = Append(b[n], e)
               /\ Len(c[n]) = Len(b[n]) + 1
               /\ c[n][Len(c[n])] = e
<1> DEFINE n == calculateIndex(Len(b), k)
           e == [key |-> k, value |-> v]
           c == AppendedTo(b, k, v)
<1>a. n = calculateIndex(Len(b), k) /\ e = [key |-> k, value |-> v]
  OBVIOUS
<1>b. c = [b EXCEPT ![n] = Append(@, e)]
  BY DEF AppendedTo
<1> HIDE DEF n, e, c
<1>0. b \in Seq(Seq(Entry)) /\ Len(b) \in Nat \ {0} /\ DOMAIN b = 1..Len(b)
  BY PlaceTypes DEF IsMap
<1>1. n \in 1..Len(b)
  BY <1>a, <1>0, IndexRange
<1>2. e \in Entry /\ e.key = k
  BY <1>a DEF Entry
<1>3. b[n] \in Seq(Entry) /\ Len(b[n]) \in Nat /\ DOMAIN b[n] = 1..Len(b[n])
  BY <1>0, <1>1, ChainTypes
<1>4. /\ Append(b[n], e) \in Seq(Entry)
      /\ Len(Append(b[n], e)) = Len(b[n]) + 1
      /\ \A i \in 1..Len(b[n]) : Append(b[n], e)[i] = b[n][i]
      /\ Append(b[n], e)[Len(b[n]) + 1] = e
  BY <1>2, <1>3, AppendProperties
<1> DEFINE s == Append(b[n], e)
<1>5. c = [b EXCEPT ![n] = s] /\ s \in Seq(Entry)
  BY <1>b, <1>4
<1> HIDE DEF s
<1>6. c \in Seq(Seq(Entry)) /\ Len(c) = Len(b)
  BY <1>0, <1>1, <1>5, ExceptSeq
<1>7. c[n] = Append(b[n], e) /\ \A m \in 1..Len(b) : m # n => c[m] = b[m]
  BY <1>0, <1>1, <1>5, ExceptSeq DEF s
<1> DEFINE new == <<n, Len(b[n]) + 1>>
<1>8. \A p \in Places(b) : p \in Places(c) /\ EntryAt(c, p) = EntryAt(b, p) /\ p # new
  <2> SUFFICES ASSUME NEW p \in Places(b)
               PROVE  p \in Places(c) /\ EntryAt(c, p) = EntryAt(b, p) /\ p # new
    OBVIOUS
  <2>1. p = <<p[1], p[2]>> /\ p[1] \in 1..Len(b) /\ p[2] \in 1..Len(b[p[1]])
    BY <1>0, PlaceTypes
  <2>2. p[2] \in 1..Len(c[p[1]]) /\ c[p[1]][p[2]] = b[p[1]][p[2]]
    BY <1>3, <1>4, <1>7, <2>1
  <2>3. p \in Places(c)
    <3>1. p[1] \in 1..Len(c) /\ c \in Seq(Seq(Entry))
      BY <1>6, <2>1
    <3>2. <<p[1], p[2]>> \in Places(c)
      BY <2>2, <3>1, PlaceTypes
    <3> QED
      BY <2>1, <3>2
  <2>4. p # new
    BY <1>3, <2>1
  <2> QED
    BY <2>2, <2>3, <2>4 DEF EntryAt
<1>9. new \in Places(c) /\ EntryAt(c, new) = e
  <2>1. Len(b[n]) + 1 \in 1..Len(c[n])
    BY <1>3, <1>4, <1>7
  <2>2. new \in Places(c)
    BY <1>1, <1>6, <2>1, PlaceTypes
  <2> QED
    BY <1>4, <1>7, <2>2 DEF EntryAt
<1>10. \A p \in Places(c) : p \in Places(b) \/ p = new
  <2> SUFFICES ASSUME NEW p \in Places(c) PROVE p \in Places(b) \/ p = new
    OBVIOUS
  <2>1. p = <<p[1], p[2]>> /\ p[1] \in 1..Len(b) /\ p[2] \in 1..Len(c[p[1]])
    BY <1>6, PlaceTypes
  <2>2. CASE p[1] # n
    BY <1>0, <1>7, <2>1, <2>2, PlaceTypes
  <2>3. CASE p[1] = n /\ p[2] <= Len(b[n])
    <3>1. p[2] \in 1..Len(b[n])
      BY <1>3, <1>4, <1>7, <2>1, <2>3
    <3> QED
      BY <1>0, <1>1, <2>1, <2>3, <3>1, PlaceTypes
  <2>4. CASE p[1] = n /\ ~(p[2] <= Len(b[n]))
    <3>1. p[2] = Len(b[n]) + 1
      BY <1>3, <1>4, <1>7, <2>1, <2>4
    <3> QED
      BY <2>1, <2>4, <3>1
  <2> QED
    BY <2>2, <2>3, <2>4
<1> HIDE DEF new
<1>11. \A p \in Places(b) : ~equalKeys(EntryAt(b, p).key, k) /\ ~equalKeys(k, EntryAt(b, p).key)
  <2> SUFFICES ASSUME NEW p \in Places(b)
               PROVE  ~equalKeys(EntryAt(b, p).key, k) /\ ~equalKeys(k, EntryAt(b, p).key)
    OBVIOUS
  <2>1. ~equalKeys(EntryAt(b, p).key, k)
    BY Sought
  <2>2. EntryAt(b, p).key \in Keys
    BY <1>0, PlaceTypes
  <2> QED
    BY <2>1, <2>2, EqualKeys
<1>12. new[1] = n
  BY DEF new
<1>13. Placed(c)
  <2> SUFFICES ASSUME NEW p \in Places(c)
               PROVE  /\ calculateIndex(Len(c), EntryAt(c, p).key) = p[1]
                      /\ \A q \in Places(c) :
                             p[1] = q[1] /\ equalKeys(EntryAt(c, p).key, EntryAt(c, q).key)
                                => p = q
    BY DEF Placed
  <2>1. calculateIndex(Len(c), EntryAt(c, p).key) = p[1]
    <3>1. CASE p \in Places(b)
      <4>1. calculateIndex(Len(b), EntryAt(b, p).key) = p[1]
        BY <3>1 DEF IsMap, Placed
      <4> QED
        BY <1>6, <1>8, <3>1, <4>1
    <3>2. CASE p = new
      <4>1. EntryAt(c, p).key = k
        BY <1>2, <1>9, <3>2
      <4> QED
        BY <1>a, <1>6, <1>12, <3>2, <4>1
    <3> QED
      BY <1>10, <3>1, <3>2
  <2>2. ASSUME NEW q \in Places(c), p[1] = q[1],
               equalKeys(EntryAt(c, p).key, EntryAt(c, q).key)
        PROVE  p = q
    <3>1. CASE p = new \/ q = new
      BY <1>2, <1>8, <1>9, <1>10, <1>11, <2>2, <3>1
    <3>2. CASE p \in Places(b) /\ q \in Places(b)
      BY <1>8, <2>2, <3>2 DEF IsMap, Placed
    <3> QED
      BY <1>10, <3>1, <3>2
  <2> QED
    BY <2>1, <2>2
<1>14. Entries(c) = Entries(b) \cup {e}
  <2>1. ASSUME NEW x \in Entries(c) PROVE x \in Entries(b) \cup {e}
    <3>1. PICK p \in Places(c) : x = EntryAt(c, p)
      BY DEF Entries
    <3> QED
      BY <1>8, <1>9, <1>10, <3>1 DEF Entries
  <2>2. ASSUME NEW x \in Entries(b) PROVE x \in Entries(c)
    <3>1. PICK p \in Places(b) : x = EntryAt(b, p)
      BY DEF Entries
    <3> QED
      BY <1>8, <3>1 DEF Entries
  <2>3. e \in Entries(c)
    BY <1>9 DEF Entries
  <2> QED
    BY <2>1, <2>2, <2>3
<1>15. e \notin Entries(b)
  BY <1>2, <1>11 DEF Entries, equalKeys
<1>16. Len(c[n]) = Len(b[n]) + 1 /\ c[n][Len(c[n])] = e
  BY <1>4, <1>7
<1> QED
  BY <1>0, <1>1, <1>6, <1>7, <1>13, <1>14, <1>15, <1>16 DEF IsMap, n, e, c

\* Another value for an entry.
WrittenIn(b, n, i, v) == [b EXCEPT ![n][i].value = v]

LEMMA WrittenMap ==
    ASSUME NEW b, IsMap(b), NEW v \in Values \cup {Null}, NEW n, NEW i, <<n, i>> \in Places(b)
    PROVE  LET c == WrittenIn(b, n, i, v)
           IN  /\ IsMap(c)
               /\ Len(c) = Len(b)
               /\ Places(c) = Places(b)
               /\ \A q \in Places(b) :
                      EntryAt(c, q) = IF q = <<n, i>> THEN [key |-> EntryAt(b, q).key, value |-> v]
                                      ELSE EntryAt(b, q)
               /\ \A q \in Places(b) : EntryAt(c, q).key = EntryAt(b, q).key
<1> DEFINE c == WrittenIn(b, n, i, v)
<1>0. b \in Seq(Seq(Entry)) /\ Len(b) \in Nat \ {0} /\ DOMAIN b = 1..Len(b)
  BY PlaceTypes DEF IsMap
<1>1. n \in 1..Len(b) /\ i \in 1..Len(b[n])
  <2>1. <<n, i>>[1] \in 1..Len(b) /\ <<n, i>>[2] \in 1..Len(b[<<n, i>>[1]])
    BY <1>0, PlaceTypes
  <2> QED
    BY <2>1
<1>2. /\ b[n] \in Seq(Entry) /\ Len(b[n]) \in Nat /\ DOMAIN b[n] = 1..Len(b[n])
      /\ b[n][i] \in Entry
  BY <1>0, <1>1, ChainTypes
<1> DEFINE e == [b[n][i] EXCEPT !.value = v]
           s == [b[n] EXCEPT ![i] = e]
<1>3. e \in Entry /\ e = [key |-> b[n][i].key, value |-> v] /\ e.key = b[n][i].key
  BY <1>2 DEF Entry
<1>4. c = [b EXCEPT ![n] = s]
  BY DEF WrittenIn
<1> HIDE DEF e, c
<1>6. s \in Seq(Entry) /\ Len(s) = Len(b[n])
  BY <1>1, <1>2, <1>3, ExceptSeq
<1>7. s[i] = e /\ \A j \in 1..Len(b[n]) : j # i => s[j] = b[n][j]
  BY <1>1, <1>2, <1>3, ExceptSeq
<1> HIDE DEF s
<1>8. \A x \in Seq(Entry) :
         /\ [b EXCEPT ![n] = x] \in Seq(Seq(Entry))
         /\ Len([b EXCEPT ![n] = x]) = Len(b)
  BY <1>0, <1>1, ExceptSeq
<1>9. c \in Seq(Seq(Entry)) /\ Len(c) = Len(b)
  BY <1>4, <1>6, <1>8, Zenon
<1>10. c[n] = s /\ \A m \in 1..Len(b) : m # n => c[m] = b[m]
  BY <1>0, <1>1, <1>4, <1>6, ExceptSeq
<1>11. \A m \in 1..Len(b) : Len(c[m]) = Len(b[m])
  BY <1>6, <1>10
<1>12. Places(c) = Places(b)
  <2>1. ASSUME NEW p \in Places(c) PROVE p \in Places(b)
    <3>1. p = <<p[1], p[2]>> /\ p[1] \in 1..Len(b) /\ p[2] \in 1..Len(b[p[1]])
      BY <1>9, <1>11, PlaceTypes
    <3> QED
      BY <1>0, <3>1, PlaceTypes
  <2>2. ASSUME NEW p \in Places(b) PROVE p \in Places(c)
    <3>1. p = <<p[1], p[2]>> /\ p[1] \in 1..Len(c) /\ p[2] \in 1..Len(c[p[1]])
      BY <1>0, <1>9, <1>11, PlaceTypes
    <3>2. <<p[1], p[2]>> \in Places(c)
      BY <1>9, <3>1, PlaceTypes, Zenon
    <3> QED
      BY <3>1, <3>2
  <2> QED
    BY <2>1, <2>2
<1>13. ASSUME NEW q \in Places(b)
       PROVE  /\ EntryAt(c, q) = IF q = <<n, i>> THEN [key |-> EntryAt(b, q).key, value |-> v]
                                 ELSE EntryAt(b, q)
              /\ EntryAt(c, q).key = EntryAt(b, q).key
  <2>1. q = <<q[1], q[2]>> /\ q[1] \in 1..Len(b) /\ q[2] \in 1..Len(b[q[1]])
    BY <1>0, PlaceTypes
  <2>2. CASE q = <<n, i>>
    BY <1>3, <1>7, <1>10, <2>2 DEF EntryAt
  <2>3. CASE q # <<n, i>>
    BY <1>7, <1>10, <2>1, <2>3 DEF EntryAt
  <2> QED
    BY <2>2, <2>3
<1>14. Placed(c)
  <2>1. Len(c) = Len(b)
    BY <1>9
  <2>2. \A q \in Places(b) : EntryAt(c, q).key = EntryAt(b, q).key
    BY <1>13
  <2> QED
    BY <1>12, <2>1, <2>2, SamePlaces
<1> QED
  BY <1>0, <1>9, <1>12, <1>13, <1>14 DEF IsMap, c

\* What a link leads to that leads to no entry is not written.
LEMMA WrittenNowhere ==
    ASSUME NEW b \in Seq(Seq(Entry)), NEW v, NEW n \in 1..Len(b), NEW i, <<n, i>> \notin Places(b)
    PROVE  WrittenIn(b, n, i, v) = b
<1>1. b[n] \in Seq(Entry) /\ DOMAIN b[n] = 1..Len(b[n]) /\ DOMAIN b = 1..Len(b)
  BY PlaceTypes, ChainTypes
<1>2. i \notin DOMAIN b[n]
  BY <1>1, PlaceTypes
<1> DEFINE e == [b[n][i] EXCEPT !.value = v]
<1>3. [b[n] EXCEPT ![i] = e] = b[n]
  BY <1>1, <1>2
<1>4. [b EXCEPT ![n] = b[n]] = b
  BY <1>1
<1> QED
  BY <1>3, <1>4 DEF WrittenIn


\* Where the entry at q was before the i-th entry left chain n.
Kept(n, i, q) == IF q[1] = n /\ q[2] >= i THEN <<n, q[2] + 1>> ELSE q

LEMMA RemovedAt ==
    ASSUME NEW S, NEW s \in Seq(S), NEW i \in 1..Len(s)
    PROVE  /\ RemoveAt(s, i) \in Seq(S)
           /\ Len(RemoveAt(s, i)) = Len(s) - 1
           /\ \A j \in 1..(Len(s) - 1) : RemoveAt(s, i)[j] = IF j < i THEN s[j] ELSE s[j + 1]
<1>0. Len(s) \in Nat /\ \A j \in 1..Len(s) : s[j] \in S
  OBVIOUS
<1> DEFINE head == SubSeq(s, 1, i - 1)
           tail == SubSeq(s, i + 1, Len(s))
<1>1. /\ head \in Seq(S)
      /\ Len(head) = i - 1
      /\ \A j \in 1..(i - 1) : head[j] = s[j]
  <2>1. 1 \in Int /\ i - 1 \in Int /\ \A j \in 1..(i - 1) : s[j] \in S
    BY <1>0
  <2>2. /\ head \in Seq(S)
        /\ Len(head) = IF 1 <= i - 1 THEN i - 1 - 1 + 1 ELSE 0
        /\ \A j \in 1..(i - 1 - 1 + 1) : head[j] = s[1 + j - 1]
    BY <2>1, SubSeqProperties
  <2> QED
    BY <1>0, <2>2
<1>2. /\ tail \in Seq(S)
      /\ Len(tail) = Len(s) - i
      /\ \A j \in 1..(Len(s) - i) : tail[j] = s[i + j]
  <2>1. i + 1 \in Int /\ Len(s) \in Int /\ \A j \in (i + 1)..Len(s) : s[j] \in S
    BY <1>0
  <2>2. /\ tail \in Seq(S)
        /\ Len(tail) = IF i + 1 <= Len(s) THEN Len(s) - (i + 1) + 1 ELSE 0
        /\ \A j \in 1..(Len(s) - (i + 1) + 1) : tail[j] = s[(i + 1) + j - 1]
    BY <2>1, SubSeqProperties
  <2> QED
    BY <1>0, <2>2
<1> HIDE DEF head, tail
<1>3. /\ head \o tail \in Seq(S)
      /\ Len(head \o tail) = Len(head) + Len(tail)
      /\ \A j \in 1..(Len(head) + Len(tail)) :
             (head \o tail)[j] = IF j <= Len(head) THEN head[j] ELSE tail[j - Len(head)]
  BY <1>1, <1>2, ConcatProperties
<1>4. RemoveAt(s, i) = head \o tail
  BY DEF RemoveAt, head, tail
<1>5. ASSUME NEW j \in 1..(Len(s) - 1)
      PROVE  (head \o tail)[j] = IF j < i THEN s[j] ELSE s[j + 1]
  <2>1. j \in 1..(Len(head) + Len(tail))
    BY <1>0, <1>1, <1>2
  <2>0. /\ (head \o tail)[j] = IF j <= Len(head) THEN head[j] ELSE tail[j - Len(head)]
        /\ Len(head) = i - 1
    BY <1>1, <1>3, <2>1
  <2>2. CASE j < i
    <3>1. j \in 1..(i - 1) /\ j <= Len(head)
      BY <1>0, <2>0, <2>2
    <3>2. head[j] = s[j]
      BY <1>1, <3>1
    <3> QED
      BY <2>0, <2>2, <3>1, <3>2
  <2>3. CASE j >= i
    <3>1. j - Len(head) \in 1..(Len(s) - i) /\ i + (j - Len(head)) = j + 1
      BY <1>0, <1>1, <2>3
    <3>2. tail[j - Len(head)] = s[j + 1]
      BY <1>2, <3>1
    <3>3. ~(j <= Len(head)) /\ ~(j < i)
      BY <1>0, <2>0, <2>3
    <3> QED
      BY <2>0, <3>2, <3>3
  <2>4. j < i \/ j >= i
    BY <1>0
  <2> QED
    BY <2>2, <2>3, <2>4
<1>6. Len(head) + Len(tail) = Len(s) - 1
  BY <1>0, <1>1, <1>2
<1> QED
  BY <1>3, <1>4, <1>5, <1>6

\* The places of c are those that are left in b.
Left(b, c, n, i) ==
    /\ \A q \in Places(c) : /\ Kept(n, i, q) \in Places(b) \ {<<n, i>>}
                            /\ Kept(n, i, q)[1] = q[1]
                            /\ EntryAt(c, q) = EntryAt(b, Kept(n, i, q))
    /\ \A p \in Places(b) \ {<<n, i>>} : \E q \in Places(c) : Kept(n, i, q) = p
    /\ \A q, r \in Places(c) : /\ Kept(n, i, q) = Kept(n, i, r) => q = r
                               /\ Before(q, r) <=> Before(Kept(n, i, q), Kept(n, i, r))

LEMMA LeftPlaced ==
    ASSUME NEW b, IsMap(b), NEW c, Len(c) = Len(b), NEW n, NEW i, Left(b, c, n, i)
    PROVE  Placed(c)
<1> DEFINE f == [q \in Places(c) |-> Kept(n, i, q)]
<1>1. \A q \in Places(c) : /\ f[q] \in Places(b) /\ f[q][1] = q[1]
                           /\ EntryAt(b, f[q]).key = EntryAt(c, q).key
  BY DEF Left
<1>2. \A q, r \in Places(c) : f[q] = f[r] => q = r
  BY DEF Left
<1> HIDE DEF f
<1> QED
  BY <1>1, <1>2, StillPlaced

\* An entry that goes: the others keep their order.
LEMMA RemovedMap ==
    ASSUME NEW b, IsMap(b), NEW n, NEW i, <<n, i>> \in Places(b),
           NEW c, c = [b EXCEPT ![n] = RemoveAt(@, i)]
    PROVE  /\ IsMap(c)
           /\ Len(c) = Len(b)
           /\ Left(b, c, n, i)
           /\ Entries(c) = Entries(b) \ {EntryAt(b, <<n, i>>)}
<1>0. b \in Seq(Seq(Entry)) /\ Len(b) \in Nat \ {0} /\ DOMAIN b = 1..Len(b)
  BY PlaceTypes DEF IsMap
<1>1. n \in 1..Len(b) /\ i \in 1..Len(b[n])
  <2>1. <<n, i>>[1] \in 1..Len(b) /\ <<n, i>>[2] \in 1..Len(b[<<n, i>>[1]])
    BY <1>0, PlaceTypes
  <2> QED
    BY <2>1
<1>2. b[n] \in Seq(Entry) /\ Len(b[n]) \in Nat
  BY <1>0, <1>1, ChainTypes
<1> DEFINE s == RemoveAt(b[n], i)
<1>3. /\ s \in Seq(Entry)
      /\ Len(s) = Len(b[n]) - 1
      /\ \A j \in 1..(Len(b[n]) - 1) : s[j] = IF j < i THEN b[n][j] ELSE b[n][j + 1]
  BY <1>1, <1>2, RemovedAt
<1>4. c = [b EXCEPT ![n] = s]
  OBVIOUS
<1> HIDE DEF s
<1>5. \A x \in Seq(Entry) :
         /\ [b EXCEPT ![n] = x] \in Seq(Seq(Entry))
         /\ Len([b EXCEPT ![n] = x]) = Len(b)
         /\ \A m \in 1..Len(b) : [b EXCEPT ![n] = x][m] = IF m = n THEN x ELSE b[m]
  BY <1>0, <1>1, ExceptSeq
<1>6. c \in Seq(Seq(Entry)) /\ Len(c) = Len(b)
  BY <1>3, <1>4, <1>5, Zenon
<1>7. c[n] = s /\ \A m \in 1..Len(b) : m # n => c[m] = b[m]
  <2>1. \A m \in 1..Len(b) : [b EXCEPT ![n] = s][m] = IF m = n THEN s ELSE b[m]
    BY <1>3, <1>5
  <2> QED
    BY <1>1, <1>4, <2>1
<1>8. ASSUME NEW q \in Places(c)
      PROVE  /\ q = <<q[1], q[2]>> /\ q[1] \in 1..Len(b) /\ q[2] \in 1..Len(c[q[1]])
             /\ q[2] \in Nat
             /\ q[1] = n => q[2] \in 1..(Len(b[n]) - 1)
             /\ Kept(n, i, q) \in Places(b) \ {<<n, i>>}
             /\ EntryAt(c, q) = EntryAt(b, Kept(n, i, q))
             /\ Kept(n, i, q)[1] = q[1]
             /\ Kept(n, i, q)[2] = IF q[1] = n /\ q[2] >= i THEN q[2] + 1 ELSE q[2]
  <2>1. q = <<q[1], q[2]>> /\ q[1] \in 1..Len(b) /\ q[2] \in 1..Len(c[q[1]])
    BY <1>6, PlaceTypes
  <2>2. q[1] = n => q[2] \in 1..(Len(b[n]) - 1)
    BY <1>3, <1>7, <2>1
  <2>3. Kept(n, i, q)[2] = IF q[1] = n /\ q[2] >= i THEN q[2] + 1 ELSE q[2]
    BY DEF Kept
  <2>4. Kept(n, i, q)[1] = q[1]
    BY DEF Kept
  <2>5. q[1] # n => c[q[1]] = b[q[1]]
    BY <1>7, <2>1
  <2>6. Kept(n, i, q)[2] \in 1..Len(b[q[1]])
    BY <1>1, <1>2, <2>1, <2>2, <2>3, <2>5
  <2>7. Kept(n, i, q) = <<q[1], Kept(n, i, q)[2]>>
    BY <2>1 DEF Kept
  <2>8. Kept(n, i, q) \in Places(b)
    BY <1>0, <2>1, <2>6, <2>7, PlaceTypes
  <2>9. Kept(n, i, q) # <<n, i>>
    BY <1>1, <1>2, <2>1, <2>2, <2>3, <2>4
  <2>10. c[q[1]][q[2]] = b[q[1]][Kept(n, i, q)[2]]
    <3>1. CASE q[1] = n
      BY SMTT(20), <1>1, <1>2, <1>3, <1>7, <2>2, <2>3, <3>1
    <3>2. CASE q[1] # n
      BY <2>3, <2>5, <3>2
    <3> QED
      BY <3>1, <3>2
  <2>11. EntryAt(c, q) = EntryAt(b, Kept(n, i, q))
    BY <2>4, <2>10 DEF EntryAt
  <2>12. q[2] \in Nat
    <3>1. c[q[1]] \in Seq(Entry)
      BY <1>6, <2>1, ChainTypes
    <3> QED
      BY <2>1, <3>1
  <2> QED
    BY <2>1, <2>2, <2>3, <2>4, <2>8, <2>9, <2>11, <2>12
<1>9. ASSUME NEW p \in Places(b) \ {<<n, i>>}
      PROVE  \E q \in Places(c) : Kept(n, i, q) = p
  <2>1. p = <<p[1], p[2]>> /\ p[1] \in 1..Len(b) /\ p[2] \in 1..Len(b[p[1]])
    BY <1>0, PlaceTypes
  <2>2. CASE p[1] # n
    <3>1. c[p[1]] = b[p[1]]
      BY <1>7, <2>1, <2>2
    <3>2. <<p[1], p[2]>> \in Places(c)
      BY <1>6, <2>1, <3>1, PlaceTypes
    <3>3. Kept(n, i, p) = p
      BY <2>2 DEF Kept
    <3> QED
      BY <2>1, <3>2, <3>3
  <2>3. CASE p[1] = n
    <3> DEFINE j == IF p[2] < i THEN p[2] ELSE p[2] - 1
    <3>1. p[2] # i /\ p[2] \in 1..Len(b[n])
      BY <2>1, <2>3
    <3>2. j \in 1..(Len(b[n]) - 1) /\ (IF j >= i THEN j + 1 ELSE j) = p[2]
      BY <1>1, <1>2, <3>1
    <3> HIDE DEF j
    <3>3. <<n, j>> \in Places(c)
      BY <1>1, <1>3, <1>6, <1>7, <3>2, PlaceTypes
    <3>4. Kept(n, i, <<n, j>>) = <<n, p[2]>>
      BY <3>2 DEF Kept
    <3> QED
      BY <2>1, <2>3, <3>3, <3>4
  <2> QED
    BY <2>2, <2>3
<1>10. ASSUME NEW q \in Places(c), NEW r \in Places(c)
       PROVE  /\ Kept(n, i, q) = Kept(n, i, r) => q = r
              /\ Before(q, r) <=> Before(Kept(n, i, q), Kept(n, i, r))
  <2>0. /\ q[2] \in Nat /\ r[2] \in Nat /\ i \in Nat
        /\ Kept(n, i, q)[2] = IF q[1] = n /\ q[2] >= i THEN q[2] + 1 ELSE q[2]
        /\ Kept(n, i, r)[2] = IF r[1] = n /\ r[2] >= i THEN r[2] + 1 ELSE r[2]
    <3>1. i \in Nat
      BY <1>1, <1>2
    <3> QED
      BY <1>8, <3>1, Zenon
  <2>1. q[1] = r[1] => (q[2] < r[2] <=> Kept(n, i, q)[2] < Kept(n, i, r)[2])
    BY <2>0
  <2>2. q[1] = r[1] /\ Kept(n, i, q)[2] = Kept(n, i, r)[2] => q[2] = r[2]
    BY <2>0
  <2>3. Kept(n, i, q)[1] = q[1] /\ Kept(n, i, r)[1] = r[1]
    BY <1>8
  <2>4. Before(q, r) <=> Before(Kept(n, i, q), Kept(n, i, r))
    BY <2>1, <2>3 DEF Before
  <2>5. ASSUME Kept(n, i, q) = Kept(n, i, r) PROVE q = r
    <3>1. q[1] = r[1] /\ q[2] = r[2]
      BY <2>2, <2>3, <2>5
    <3>2. q = <<q[1], q[2]>> /\ r = <<r[1], r[2]>>
      BY <1>8
    <3> QED
      BY <3>1, <3>2
  <2> QED
    BY <2>4, <2>5
<1>11. Left(b, c, n, i)
  BY <1>8, <1>9, <1>10 DEF Left
<1>12. Entries(c) = Entries(b) \ {EntryAt(b, <<n, i>>)}
  <2>1. ASSUME NEW x \in Entries(c) PROVE x \in Entries(b) \ {EntryAt(b, <<n, i>>)}
    <3>1. PICK q \in Places(c) : x = EntryAt(c, q)
      BY DEF Entries
    <3>2. Kept(n, i, q) \in Places(b) /\ Kept(n, i, q) # <<n, i>> /\ x = EntryAt(b, Kept(n, i, q))
      BY <1>8, <3>1
    <3>3. EntryAt(b, Kept(n, i, q)) # EntryAt(b, <<n, i>>)
      BY <3>2, OnePlaced DEF equalKeys
    <3> QED
      BY <3>2, <3>3 DEF Entries
  <2>2. ASSUME NEW x \in Entries(b), x # EntryAt(b, <<n, i>>) PROVE x \in Entries(c)
    <3>1. PICK p \in Places(b) : x = EntryAt(b, p)
      BY DEF Entries
    <3>2. PICK q \in Places(c) : Kept(n, i, q) = p
      BY <1>9, <2>2, <3>1
    <3>3. x = EntryAt(c, q)
      BY <1>8, <3>1, <3>2
    <3> QED
      BY <3>3 DEF Entries
  <2> QED
    BY <2>1, <2>2
<1>13. Placed(c)
  BY <1>6, <1>11, LeftPlaced
<1> QED
  BY <1>0, <1>6, <1>11, <1>12, <1>13 DEF IsMap


-----------------------------------------------------------------------------
(* The order of the entries *)

LEMMA PlacesAreNumbers ==
    ASSUME NEW b \in Seq(Seq(Entry))
    PROVE  Places(b) \subseteq Nat \X Nat
<1> SUFFICES ASSUME NEW p \in Places(b) PROVE p \in Nat \X Nat
  OBVIOUS
<1>1. p = <<p[1], p[2]>> /\ p[1] \in 1..Len(b) /\ p[2] \in 1..Len(b[p[1]])
  BY PlaceTypes
<1>2. Len(b) \in Nat /\ Len(b[p[1]]) \in Nat
  BY <1>1, ChainTypes, PlaceTypes
<1>3. p[1] \in Nat /\ p[2] \in Nat
  BY <1>1, <1>2
<1> QED
  BY <1>1, <1>3

LEMMA BeforeOrders ==
    ASSUME NEW p \in Nat \X Nat, NEW q \in Nat \X Nat
    PROVE  /\ ~Before(p, p)
           /\ Before(p, q) => ~Before(q, p)
           /\ p = q \/ Before(p, q) \/ Before(q, p)
           /\ \A r \in Nat \X Nat : Before(p, q) /\ Before(q, r) => Before(p, r)
BY DEF Before

\* A loop begins with what comes before all the rest.
LEMMA TheFirst ==
    ASSUME NEW S \in SUBSET (Nat \X Nat), S # {}
    PROVE  FirstOf(S) \in S /\ \A q \in S : q = FirstOf(S) \/ Before(FirstOf(S), q)
<1> DEFINE Chains == {p[1] : p \in S}
<1>1. Chains \in SUBSET Nat /\ Chains # {}
  OBVIOUS
<1>2. PICK n \in Chains : \A m \in Chains : n <= m
  BY <1>1, LeastNumber
<1> DEFINE In == {p[2] : p \in {x \in S : x[1] = n}}
<1>3. In \in SUBSET Nat /\ In # {}
  BY <1>2
<1>4. PICK i \in In : \A j \in In : i <= j
  BY <1>3, LeastNumber
<1>5. PICK p \in S : p[1] = n /\ p[2] = i
  BY <1>4
<1>6. ASSUME NEW q \in S PROVE ~Before(q, p)
  <2>1. q[1] \in Nat /\ q[2] \in Nat /\ n \in Nat /\ i \in Nat
    BY <1>1, <1>3
  <2>2. n <= q[1] /\ (q[1] = n => i <= q[2])
    BY <1>2, <1>4
  <2> QED
    BY <1>5, <2>1, <2>2 DEF Before
<1>7. FirstOf(S) \in S /\ \A q \in S : ~Before(q, FirstOf(S))
  BY <1>5, <1>6 DEF FirstOf
<1> QED
  BY <1>7, BeforeOrders

\* Counted from the end, each place of a finite set has its number.
LEMMA Ranks ==
    ASSUME NEW S \in SUBSET (Nat \X Nat), IsFiniteSet(S)
    PROVE  /\ Cardinality(S) \in Nat
           /\ \A n \in 1..Cardinality(S) : FromEnd(S, n) \in S
           /\ \A p \in S : \E n \in 1..Cardinality(S) : FromEnd(S, n) = p
           /\ \A m, n \in 1..Cardinality(S) : FromEnd(S, m) = FromEnd(S, n) => m = n
<1> DEFINE N == Cardinality(S)
           After(p) == {q \in S : Before(p, q)}
           rank == [p \in S |-> Cardinality(After(p))]
<1>1. N \in Nat
  BY FS_CardinalityType
<1>2. ASSUME NEW p \in S
      PROVE  IsFiniteSet(After(p)) /\ Cardinality(After(p)) \in 0..(N - 1)
  <2>1. After(p) \in SUBSET S /\ After(p) # S
    BY BeforeOrders
  <2>2. IsFiniteSet(After(p)) /\ Cardinality(After(p)) <= N /\ Cardinality(After(p)) # N
    BY <2>1, FS_Subset
  <2>3. Cardinality(After(p)) \in Nat
    BY <2>2, FS_CardinalityType
  <2> QED
    BY <1>1, <2>2, <2>3
<1>3. ASSUME NEW p \in S, NEW q \in S, Before(p, q)
      PROVE  Cardinality(After(p)) # Cardinality(After(q))
  <2>1. After(q) \in SUBSET After(p) /\ q \in After(p) /\ q \notin After(q)
    BY <1>3, BeforeOrders
  <2>2. After(p) # After(q)
    BY <2>1
  <2> HIDE DEF After
  <2> QED
    BY <1>2, <2>1, <2>2, FS_Subset
<1>4. ASSUME NEW p \in S, NEW q \in S, Cardinality(After(p)) = Cardinality(After(q))
      PROVE  p = q
  BY <1>3, <1>4, BeforeOrders
<1> HIDE DEF After
<1>5. rank \in Injection(S, 0..(N - 1))
  BY <1>2, <1>4 DEF Injection, IsInjective
<1>6. IsFiniteSet(0..(N - 1)) /\ Cardinality(0..(N - 1)) = N
  <2>1. 0 \in Int /\ N - 1 \in Int
    BY <1>1
  <2>2. IsFiniteSet(0..(N - 1)) /\ Cardinality(0..(N - 1)) = IF 0 > N - 1 THEN 0 ELSE N - 1 - 0 + 1
    BY <2>1, FS_Interval
  <2> QED
    BY <1>1, <2>2
<1>7. rank \in Surjection(S, 0..(N - 1))
  BY <1>5, <1>6, FS_Injection
<1>8. \A m \in 0..(N - 1) : \E p \in S : Cardinality(After(p)) = m
  BY <1>7 DEF Surjection
<1>9. ASSUME NEW n \in 1..N
      PROVE  FromEnd(S, n) \in S /\ Cardinality(After(FromEnd(S, n))) = n - 1
  <2>1. n - 1 \in 0..(N - 1)
    BY <1>1
  <2>2. \E p \in S : Cardinality(After(p)) = n - 1
    BY <1>8, <2>1
  <2>3. FromEnd(S, n) = CHOOSE p \in S : Cardinality(After(p)) = n - 1
    BY DEF FromEnd, After
  <2> QED
    BY <2>2, <2>3
<1>10. ASSUME NEW p \in S PROVE \E n \in 1..N : FromEnd(S, n) = p
  <2> DEFINE n == Cardinality(After(p)) + 1
  <2>1. n \in 1..N /\ n - 1 = Cardinality(After(p))
    BY <1>1, <1>2
  <2>2. FromEnd(S, n) \in S /\ Cardinality(After(FromEnd(S, n))) = Cardinality(After(p))
    BY <1>9, <2>1
  <2>3. FromEnd(S, n) = p
    BY <1>4, <2>2
  <2> QED
    BY <2>1, <2>3
<1>11. ASSUME NEW m \in 1..N, NEW n \in 1..N, FromEnd(S, m) = FromEnd(S, n)
       PROVE  m = n
  <2>1. m - 1 = n - 1
    BY <1>9, <1>11
  <2> QED
    BY <1>1, <2>1
<1> QED
  BY <1>1, <1>9, <1>10, <1>11

-----------------------------------------------------------------------------
(* Expansion *)

\* The entries stay, in other chains.
LEMMA RehashedMap ==
    ASSUME NEW b, IsMap(b), IsFiniteSet(Places(b)), NEW count \in Nat \ {0},
           NEW index, index = [k \in Keys |-> calculateIndex(count, k)],
           NEW c, c = Rehashed(b, count, index)
    PROVE  /\ IsMap(c)
           /\ Len(c) = count
           /\ Entries(c) = Entries(b)
<1> DEFINE G(i) == Going(b, index, i)
           N(i) == Cardinality(G(i))
           s(i) == [n \in 1..N(i) |-> EntryAt(b, FromEnd(G(i), n))]
<1>0. b \in Seq(Seq(Entry)) /\ Places(b) \subseteq Nat \X Nat
  BY PlacesAreNumbers DEF IsMap
<1>1. ASSUME NEW i
      PROVE  /\ G(i) \subseteq Places(b)
             /\ G(i) \in SUBSET (Nat \X Nat) /\ IsFiniteSet(G(i))
             /\ \A p \in Places(b) : p \in G(i) <=> index[EntryAt(b, p).key] = i
  <2>1. G(i) \subseteq Places(b)
    BY DEF Going
  <2>2. IsFiniteSet(G(i))
    BY <2>1, FS_Subset
  <2>3. \A p \in Places(b) : p \in G(i) <=> index[EntryAt(b, p).key] = i
    BY DEF Going
  <2> HIDE DEF G
  <2> QED
    BY <1>0, <2>1, <2>2, <2>3
<1> HIDE DEF G
<1>2. ASSUME NEW i
      PROVE  /\ N(i) \in Nat
             /\ \A n \in 1..N(i) : FromEnd(G(i), n) \in G(i)
             /\ \A p \in G(i) : \E n \in 1..N(i) : FromEnd(G(i), n) = p
             /\ \A m, n \in 1..N(i) : FromEnd(G(i), m) = FromEnd(G(i), n) => m = n
  BY <1>1, Ranks
<1> HIDE DEF N
<1>3. c = [i \in 1..count |-> s(i)]
  BY DEF Rehashed, s, N, G
<1>4. ASSUME NEW i
      PROVE  s(i) \in Seq(Entry) /\ Len(s(i)) = N(i)
  <2>1. \A n \in 1..N(i) : EntryAt(b, FromEnd(G(i), n)) \in Entry
    BY <1>0, <1>1, <1>2, PlaceTypes
  <2>2. N(i) \in Nat
    BY <1>2
  <2> QED
    BY <2>1, <2>2
<1>5. ASSUME NEW i, NEW n \in 1..N(i)
      PROVE  s(i)[n] = EntryAt(b, FromEnd(G(i), n))
  OBVIOUS
<1> HIDE DEF s
<1>6. c \in Seq(Seq(Entry)) /\ Len(c) = count
  BY <1>3, <1>4
<1>7. \A i \in 1..count : c[i] = s(i)
  BY <1>3
<1>8. ASSUME NEW p \in Places(c)
      PROVE  /\ p = <<p[1], p[2]>> /\ p[1] \in 1..count /\ p[2] \in 1..N(p[1])
             /\ FromEnd(G(p[1]), p[2]) \in G(p[1])
             /\ FromEnd(G(p[1]), p[2]) \in Places(b)
             /\ EntryAt(c, p) = EntryAt(b, FromEnd(G(p[1]), p[2]))
  <2>1. p = <<p[1], p[2]>> /\ p[1] \in 1..count /\ p[2] \in 1..Len(c[p[1]])
    BY <1>6, PlaceTypes
  <2>2. p[2] \in 1..N(p[1])
    BY <1>4, <1>7, <2>1
  <2>3. EntryAt(c, p) = EntryAt(b, FromEnd(G(p[1]), p[2]))
    BY <1>5, <1>7, <2>1, <2>2 DEF EntryAt
  <2>4. FromEnd(G(p[1]), p[2]) \in G(p[1])
    BY <1>2, <2>2
  <2>5. FromEnd(G(p[1]), p[2]) \in Places(b)
    BY <1>1, <2>4
  <2> QED
    BY <2>1, <2>2, <2>3, <2>4, <2>5
<1>9. ASSUME NEW p \in Places(b)
      PROVE  \E q \in Places(c) : EntryAt(c, q) = EntryAt(b, p)
  <2> DEFINE i == index[EntryAt(b, p).key]
  <2>1. EntryAt(b, p).key \in Keys
    BY <1>0, PlaceTypes
  <2>2. i = calculateIndex(count, EntryAt(b, p).key)
    BY <2>1
  <2>3. i \in 1..count
    BY <2>1, <2>2, IndexRange
  <2>4. p \in G(i)
    BY <1>1
  <2> HIDE DEF i
  <2>5. PICK n \in 1..N(i) : FromEnd(G(i), n) = p
    BY <1>2, <2>4
  <2>6. c[i][n] = EntryAt(b, p) /\ n \in 1..Len(c[i])
    BY <1>4, <1>5, <1>7, <2>3, <2>5
  <2>7. <<i, n>> \in Places(c)
    BY <1>6, <2>3, <2>6, PlaceTypes
  <2> QED
    BY <2>6, <2>7 DEF EntryAt
<1>10. Placed(c)
  <2> SUFFICES ASSUME NEW p \in Places(c)
               PROVE  /\ calculateIndex(Len(c), EntryAt(c, p).key) = p[1]
                      /\ \A q \in Places(c) :
                             p[1] = q[1] /\ equalKeys(EntryAt(c, p).key, EntryAt(c, q).key)
                                => p = q
    BY DEF Placed
  <2>1. calculateIndex(Len(c), EntryAt(c, p).key) = p[1]
    <3>1. index[EntryAt(c, p).key] = p[1]
      BY <1>1, <1>8
    <3>2. EntryAt(c, p).key \in Keys
      BY <1>6, PlaceTypes
    <3> QED
      BY <1>6, <3>1, <3>2
  <2>2. ASSUME NEW q \in Places(c), p[1] = q[1],
               equalKeys(EntryAt(c, p).key, EntryAt(c, q).key)
        PROVE  p = q
    <3>1. FromEnd(G(p[1]), p[2]) = FromEnd(G(q[1]), q[2])
      BY <1>8, <2>2, OnePlaced
    <3>2. p[2] = q[2]
      BY <1>2, <1>8, <2>2, <3>1
    <3> QED
      BY <1>8, <2>2, <3>2
  <2> QED
    BY <2>1, <2>2
<1>11. Entries(c) = Entries(b)
  <2>1. ASSUME NEW x \in Entries(c) PROVE x \in Entries(b)
    BY <1>8 DEF Entries
  <2>2. ASSUME NEW x \in Entries(b) PROVE x \in Entries(c)
    BY <1>9 DEF Entries
  <2> QED
    BY <2>1, <2>2
<1> QED
  BY <1>6, <1>10, <1>11 DEF IsMap

LEMMA ExpandedMap ==
    ASSUME NEW b, IsMap(b), IsFiniteSet(Places(b)), NEW n, NEW c \in AfterAdding(b, n)
    PROVE  /\ IsMap(c)
           /\ Len(c) \in {Len(b), 2 * Len(b)}
           /\ Entries(c) = Entries(b)
           /\ IsFiniteSet(Places(c))
           /\ Cardinality(Places(c)) = Cardinality(Places(b))
           /\ IsPowerOf2(Len(b)) => IsPowerOf2(Len(c))
<1>0. b \in Seq(Seq(Entry)) /\ Len(b) \in Nat \ {0}
  BY PlaceTypes DEF IsMap
<1>1. 2 * Len(b) \in Nat \ {0}
  BY <1>0
<1>2. c = b \/ c = Expanded(b)
  BY DEF AfterAdding
<1>3. /\ IsMap(c)
      /\ Len(c) \in {Len(b), 2 * Len(b)}
      /\ Entries(c) = Entries(b)
  <2> DEFINE index == [k \in Keys |-> calculateIndex(2 * Len(b), k)]
  <2>1. CASE c = Expanded(b)
    <3>1. c = Rehashed(b, 2 * Len(b), index)
      BY <2>1 DEF Expanded
    <3> HIDE DEF index
    <3>2. index = [k \in Keys |-> calculateIndex(2 * Len(b), k)]
      BY DEF index
    <3> QED
      BY <1>1, <3>1, <3>2, RehashedMap
  <2> QED
    BY <1>2, <2>1
<1>4. IsFiniteSet(Places(c)) /\ Cardinality(Places(c)) = Cardinality(Places(b))
  BY <1>3, EntryCount
<1>5. IsPowerOf2(Len(b)) => IsPowerOf2(2 * Len(b))
  BY <1>0, DoublePower
<1> QED
  BY <1>3, <1>4, <1>5


-----------------------------------------------------------------------------
(* What holds whatever the callbacks do *)

\* An inductive invariant, from which TypeOK, EntriesPlaced and SizeCounts follow
Sound ==
    /\ IsMap(buckets) /\ IsPowerOf2(Len(buckets))
    /\ IsFiniteSet(Places(buckets))
    /\ size \in Nat /\ calls \in Seq(Frame) /\ walk \in Seq(Keys)
    /\ result \in Values \cup {Null, TRUE, FALSE}
    /\ size + Len(calls) = Cardinality(Places(buckets))
    /\ walk # <<>> => calls = <<>>

LEMMA EntriesPlacedIs == EntriesPlaced <=> Placed(buckets)
BY DEF EntriesPlaced, Placed, KeyOf, bucketCount

LEMMA SoundTyped == Sound => TypeOK /\ EntriesPlaced /\ SizeCounts
<1>1. buckets \in Seq(Seq(Entry)) => (bucketCount > 0 <=> Len(buckets) > 0)
  BY DEF bucketCount
<1> QED
  BY EntriesPlacedIs, <1>1 DEF Sound, TypeOK, SizeCounts, IsMap, bucketCount

LEMMA InitSound == Init => Sound
<1> SUFFICES ASSUME Init PROVE Sound
  OBVIOUS
<1>1. PICK capacity \in Capacities : buckets = [i \in 1..InitialCount(capacity) |-> <<>>]
  BY DEF Init
<1>2. InitialCount(capacity) \in Nat \ {0} /\ IsPowerOf2(InitialCount(capacity))
  BY InitialCountPower, HashmapAssumption
<1> DEFINE n == InitialCount(capacity)
<1> HIDE DEF n
<1>3. buckets = [i \in 1..n |-> <<>>] /\ n \in Nat \ {0} /\ IsPowerOf2(n)
  BY <1>1, <1>2 DEF n
<1>4. <<>> \in Seq(Entry) /\ Len(<<>>) = 0
  BY EmptySeq
<1>5. buckets \in Seq(Seq(Entry)) /\ Len(buckets) = n /\ \A i \in 1..n : buckets[i] = <<>>
  BY <1>3, <1>4
<1>6. Places(buckets) = {}
  <2> SUFFICES ASSUME NEW p \in Places(buckets) PROVE FALSE
    OBVIOUS
  <2>1. p[1] \in 1..n /\ p[2] \in 1..Len(buckets[p[1]])
    BY <1>5, PlaceTypes
  <2> QED
    BY <1>4, <1>5, <2>1
<1>7. IsFiniteSet(Places(buckets)) /\ Cardinality(Places(buckets)) = 0
  BY <1>6, FS_EmptySet
<1>8. IsMap(buckets)
  BY <1>3, <1>5, <1>6 DEF IsMap, Placed
<1>9. /\ size = 0 /\ calls = <<>> /\ walk = <<>> /\ result = Null
  BY DEF Init
<1>10. size + Len(calls) = 0
  BY <1>9
<1>11. calls \in Seq(Frame) /\ walk \in Seq(Keys)
  BY <1>9, EmptySeq
<1> QED
  BY <1>3, <1>5, <1>7, <1>8, <1>9, <1>10, <1>11 DEF Sound

\* Whatever a link leads to, the array stays a map with the same keys.
LEMMA WrittenSound ==
    ASSUME Sound, NEW k \in Keys, NEW i, NEW v \in Values \cup {Null}
    PROVE  /\ IsMap(Written(k, i, v))
           /\ Len(Written(k, i, v)) = Len(buckets)
           /\ Places(Written(k, i, v)) = Places(buckets)
           /\ \A p \in Places(buckets) :
                  EntryAt(Written(k, i, v), p).key = EntryAt(buckets, p).key
<1> DEFINE n == calculateIndex(Len(buckets), k)
<1>1. Written(k, i, v) = WrittenIn(buckets, n, i, v)
  BY DEF Written, WrittenIn, bucketCount
<1>2. IsMap(buckets) /\ buckets \in Seq(Seq(Entry)) /\ n \in 1..Len(buckets)
  BY Sought DEF Sound, IsMap
<1> HIDE DEF n
<1>3. CASE <<n, i>> \in Places(buckets)
  <2>1. /\ IsMap(WrittenIn(buckets, n, i, v))
        /\ Len(WrittenIn(buckets, n, i, v)) = Len(buckets)
        /\ Places(WrittenIn(buckets, n, i, v)) = Places(buckets)
        /\ \A p \in Places(buckets) :
               EntryAt(WrittenIn(buckets, n, i, v), p).key = EntryAt(buckets, p).key
    BY <1>2, <1>3, WrittenMap
  <2> QED
    BY <1>1, <2>1
<1>4. CASE <<n, i>> \notin Places(buckets)
  <2>1. WrittenIn(buckets, n, i, v) = buckets
    BY <1>2, <1>4, WrittenNowhere
  <2> QED
    BY <1>1, <1>2, <2>1
<1> QED
  BY <1>3, <1>4

\* A key that a lookup does not find is appended; the array may then double.
LEMMA AppendedSound ==
    ASSUME Sound, NEW k \in Keys, ~HasKey(k), NEW v \in Values \cup {Null}
    PROVE  /\ IsMap(Appended(k, v))
           /\ Len(Appended(k, v)) = Len(buckets)
           /\ Entries(Appended(k, v)) = Entries(buckets) \cup {[key |-> k, value |-> v]}
           /\ IsFiniteSet(Places(Appended(k, v)))
           /\ Cardinality(Places(Appended(k, v))) = Cardinality(Places(buckets)) + 1
<1> DEFINE e == [key |-> k, value |-> v]
           c == AppendedTo(buckets, k, v)
<1>1. Appended(k, v) = c
  BY DEF Appended, AppendedTo, bucketCount
<1>2. IsMap(buckets) /\ PlaceIn(buckets, k) = 0 /\ IsFiniteSet(Places(buckets))
  BY LookupHere DEF Sound, HasKey
<1>4. /\ IsMap(c)
      /\ Len(c) = Len(buckets)
      /\ e \notin Entries(buckets)
      /\ Entries(c) = Entries(buckets) \cup {e}
  BY <1>2, AppendedMap
<1> HIDE DEF c
<1>5. /\ IsFiniteSet(Entries(buckets))
      /\ Cardinality(Places(buckets)) = Cardinality(Entries(buckets))
  BY <1>2, EntryCount
<1>6. /\ IsFiniteSet(Entries(c))
      /\ Cardinality(Entries(c)) = Cardinality(Entries(buckets)) + 1
  BY <1>4, <1>5, FS_AddElement
<1>7. IsFiniteSet(Places(c)) /\ Cardinality(Places(c)) = Cardinality(Places(buckets)) + 1
  BY <1>4, <1>5, <1>6, EntryCount
<1> QED
  BY <1>1, <1>4, <1>7

\* The removed entry is one that the array has.
LEMMA RemovedSound ==
    ASSUME Sound, NEW k \in Keys, HasKey(k), NEW c,
           c = [buckets EXCEPT ![calculateIndex(bucketCount, k)] = RemoveAt(@, Place(k))]
    PROVE  LET n == calculateIndex(Len(buckets), k)
               i == Place(k)
           IN  /\ IsMap(c)
               /\ Len(c) = Len(buckets)
               /\ <<n, i>> \in Places(buckets)
               /\ equalKeys(EntryAt(buckets, <<n, i>>).key, k)
               /\ Left(buckets, c, n, i)
               /\ Entries(c) = Entries(buckets) \ {EntryAt(buckets, <<n, i>>)}
               /\ IsFiniteSet(Places(c))
               /\ Cardinality(Places(c)) = Cardinality(Places(buckets)) - 1
<1> DEFINE n == calculateIndex(Len(buckets), k)
           i == Place(k)
           e == EntryAt(buckets, <<n, i>>)
<1>1. IsMap(buckets) /\ IsFiniteSet(Places(buckets))
  BY DEF Sound
<1>2. i = PlaceIn(buckets, k) /\ i # 0
  BY LookupHere DEF HasKey
<1>3. <<n, i>> \in Places(buckets) /\ equalKeys(e.key, k) /\ e \in Entries(buckets)
  BY <1>1, <1>2, FoundEntry
<1>4. c = [buckets EXCEPT ![n] = RemoveAt(@, i)]
  BY DEF bucketCount
<1> HIDE DEF n, i
<1>5. /\ IsMap(c)
      /\ Len(c) = Len(buckets)
      /\ Left(buckets, c, n, i)
      /\ Entries(c) = Entries(buckets) \ {e}
  BY <1>1, <1>3, <1>4, RemovedMap
<1>6. /\ IsFiniteSet(Entries(buckets))
      /\ Cardinality(Places(buckets)) = Cardinality(Entries(buckets))
  BY <1>1, EntryCount
<1>7. /\ IsFiniteSet(Entries(c))
      /\ Cardinality(Entries(c)) = Cardinality(Entries(buckets)) - 1
  BY <1>3, <1>5, <1>6, FS_RemoveElement
<1>8. IsFiniteSet(Places(c)) /\ Cardinality(Places(c)) = Cardinality(Places(buckets)) - 1
  BY <1>5, <1>6, <1>7, EntryCount
<1> QED
  BY <1>3, <1>5, <1>8 DEF n, i


LEMMA EndOfCalls ==
    ASSUME NEW S, NEW s \in Seq(S), s # <<>>
    PROVE  /\ Last(s) \in S
           /\ Front(s) \in Seq(S)
           /\ Len(s) \in Nat \ {0}
           /\ Len(Front(s)) = Len(s) - 1
<1> DEFINE m == Len(s)
<1>1. m \in Nat \ {0} /\ \A i \in 1..m : s[i] \in S
  BY EmptySeq
<1>2. Last(s) \in S
  BY <1>1 DEF Last
<1>3. Front(s) = SubSeq(s, 1, m - 1)
  BY DEF Front
<1> HIDE DEF m
<1>4. 1 \in Int /\ m - 1 \in Int /\ \A i \in 1..(m - 1) : s[i] \in S
  BY <1>1
<1>5. /\ SubSeq(s, 1, m - 1) \in Seq(S)
      /\ Len(SubSeq(s, 1, m - 1)) = IF 1 <= m - 1 THEN m - 1 - 1 + 1 ELSE 0
  BY <1>4, SubSeqProperties
<1>6. (IF 1 <= m - 1 THEN m - 1 - 1 + 1 ELSE 0) = m - 1
  BY <1>1
<1>7. Front(s) \in Seq(S) /\ Len(Front(s)) = m - 1
  BY <1>3, <1>5, <1>6, Zenon
<1> QED
  BY <1>1, <1>2, <1>7 DEF m

LEMMA FrameFields ==
    ASSUME NEW f \in Frame
    PROVE  /\ f.key \in Keys /\ f.pred \in Keys \cup {Null} /\ f.count \in Nat
BY DEF Frame

\* What the end of a hashmapMemoize may have written to.
LEMMA ValueSetSound ==
    ASSUME Sound, NEW f \in Frame, NEW v \in Values \cup {Null}, NEW b \in ValueSet(f, v)
    PROVE  /\ IsMap(b)
           /\ Len(b) = Len(buckets)
           /\ Places(b) = Places(buckets)
<1>1. f.key \in Keys /\ f.pred \in Keys \cup {Null}
  BY FrameFields
<1>2. b = buckets \/ \E k \in Keys : \E i : b = Written(k, i, v)
  BY <1>1 DEF ValueSet
<1>3. CASE b = buckets
  BY <1>3 DEF Sound
<1>4. CASE \E k \in Keys : \E i : b = Written(k, i, v)
  BY <1>4, WrittenSound
<1> QED
  BY <1>2, <1>3, <1>4

\* What is found is a value or Null.
LEMMA FoundValue ==
    ASSUME Sound, NEW k \in Keys
    PROVE  /\ ValueOf(k) \in Values \cup {Null}
           /\ HasKey(k) \in BOOLEAN
           /\ HasKey(k) => Places(buckets) # {}
<1>1. IsMap(buckets) /\ buckets \in Seq(Seq(Entry))
  BY DEF Sound, IsMap
<1>2. ValueOf(k) = FoundIn(buckets, k, Null) /\ (HasKey(k) <=> PlaceIn(buckets, k) # 0)
  BY LookupHere DEF ValueOf, HasKey
<1>3. CASE PlaceIn(buckets, k) = 0
  BY <1>2, <1>3 DEF FoundIn, HasKey
<1>4. CASE PlaceIn(buckets, k) # 0
  <2> DEFINE p == <<calculateIndex(Len(buckets), k), PlaceIn(buckets, k)>>
  <2>1. p \in Places(buckets) /\ FoundIn(buckets, k, Null) = EntryAt(buckets, p).value
    BY <1>1, <1>4, FoundEntry
  <2> HIDE DEF p
  <2>2. EntryAt(buckets, p) \in Entry
    BY <1>1, <2>1, PlaceTypes
  <2>3. EntryAt(buckets, p).value \in Values \cup {Null}
    BY <2>2, EntryFields
  <2> QED
    BY <1>2, <2>1, <2>3 DEF HasKey
<1> QED
  BY <1>3, <1>4

\* hashmapForEach changes neither the array nor the size.
LEMMA VisitSound ==
    ASSUME Sound, NEW next \in Seq(Keys), next # <<>> => calls = <<>>, ForEachStep(next)
    PROVE  Sound'
<1>1. /\ walk' = next /\ result' = Null
      /\ UNCHANGED <<buckets, size, calls>>
  BY DEF ForEachStep
<1>2. IsMap(buckets)' /\ IsPowerOf2(Len(buckets))' /\ IsFiniteSet(Places(buckets))'
  BY <1>1 DEF Sound
<1>3. (size + Len(calls) = Cardinality(Places(buckets)))'
  BY <1>1 DEF Sound
<1> QED
  BY <1>1, <1>2, <1>3 DEF Sound

LEMMA AsksSound ==
    ASSUME Sound, NEW answer \in Values \cup {Null, TRUE, FALSE}, result' = answer,
           UNCHANGED <<buckets, size, calls, walk>>
    PROVE  Sound'
<1>2. IsMap(buckets)' /\ IsPowerOf2(Len(buckets))' /\ IsFiniteSet(Places(buckets))'
  BY DEF Sound
<1>3. (size + Len(calls) = Cardinality(Places(buckets)))'
  BY DEF Sound
<1> QED
  BY <1>2, <1>3 DEF Sound

\* The entries after an operation that changed the array.
LEMMA ChangeSound ==
    ASSUME Sound, IsMap(buckets'), Len(buckets') \in {Len(buckets), 2 * Len(buckets)},
           IsFiniteSet(Places(buckets')), size' \in Nat, calls' \in Seq(Frame),
           size' + Len(calls') = Cardinality(Places(buckets')),
           result' \in Values \cup {Null, TRUE, FALSE},
           walk' = walk, walk # <<>> => calls' = <<>>
    PROVE  Sound'
<1>1. Len(buckets) \in Nat \ {0} /\ IsPowerOf2(Len(buckets))
  BY PlaceTypes DEF Sound, IsMap
<1>2. IsPowerOf2(2 * Len(buckets))
  BY <1>1, DoublePower
<1>3. IsPowerOf2(Len(buckets'))
  BY <1>1, <1>2
<1> QED
  BY <1>3 DEF Sound

LEMMA KeyOfPlace ==
    ASSUME Sound, NEW p \in Places(buckets)
    PROVE  KeyOf(p) \in Keys
BY PlaceTypes DEF Sound, IsMap, KeyOf

LEMMA PlacesNumbered ==
    ASSUME Sound
    PROVE  Places(buckets) \subseteq Nat \X Nat /\ \A k : Ahead(k) \subseteq Places(buckets)
BY PlacesAreNumbers DEF Sound, IsMap, Ahead

LEMMA NextSound == Sound /\ [Next]_hashVars => Sound'
<1> SUFFICES ASSUME Sound, [Next]_hashVars PROVE Sound'
  OBVIOUS
<1>0. /\ IsMap(buckets) /\ IsFiniteSet(Places(buckets))
      /\ Cardinality(Places(buckets)) = size + Len(calls)
      /\ size \in Nat /\ calls \in Seq(Frame) /\ Len(calls) \in Nat
      /\ walk \in Seq(Keys) /\ (walk # <<>> => calls = <<>>)
  BY DEF Sound
<1>1. CASE UNCHANGED hashVars
  <2>1. result' \in Values \cup {Null, TRUE, FALSE}
    BY <1>1 DEF Sound, hashVars
  <2> QED
    BY <1>1, <2>1, AsksSound DEF hashVars
<1>2. CASE ForEachBegin
  <2>1. Places(buckets) # {}
    <3>1. Len(calls) = 0 /\ size > 0
      BY <1>2, EmptySeq DEF ForEachBegin
    <3> QED
      BY <1>0, <3>1, FS_EmptySet
  <2>2. FirstOf(Places(buckets)) \in Places(buckets)
    BY <2>1, PlacesNumbered, TheFirst
  <2>3. <<KeyOf(FirstOf(Places(buckets)))>> \in Seq(Keys)
    BY <2>2, KeyOfPlace
  <2> QED
    BY <1>2, <2>3, VisitSound DEF ForEachBegin
<1>3. CASE ForEachNext
  <2>1. FirstOf(Ahead(Last(walk))) \in Places(buckets)
    <3>1. Ahead(Last(walk)) \subseteq Places(buckets) /\ Ahead(Last(walk)) # {}
      BY <1>3, PlacesNumbered DEF ForEachNext
    <3>2. Ahead(Last(walk)) \in SUBSET (Nat \X Nat)
      BY <3>1, PlacesNumbered
    <3> QED
      BY <3>1, <3>2, TheFirst
  <2>2. Append(walk, KeyOf(FirstOf(Ahead(Last(walk))))) \in Seq(Keys)
    BY <1>0, <2>1, KeyOfPlace, AppendProperties
  <2> QED
    BY <1>0, <1>3, <2>2, VisitSound DEF ForEachNext
<1>4. CASE ForEachEnd
  <2>1. <<>> \in Seq(Keys)
    BY EmptySeq
  <2> QED
    BY <1>4, <2>1, VisitSound DEF ForEachEnd
<1>5. ASSUME NEW k \in Keys, hashmapGet(k) PROVE Sound'
  <2>1. ValueOf(k) \in Values \cup {Null, TRUE, FALSE}
    BY FoundValue
  <2> QED
    BY <1>5, <2>1, AsksSound DEF hashmapGet, Asks
<1>6. ASSUME NEW k \in Keys, hashmapContainsKey(k) PROVE Sound'
  <2>1. HasKey(k) \in Values \cup {Null, TRUE, FALSE}
    BY FoundValue
  <2> QED
    BY <1>6, <2>1, AsksSound DEF hashmapContainsKey, Asks
<1>7. ASSUME NEW k \in Keys, AddFails(k) PROVE Sound'
  <2>1. Null \in Values \cup {Null, TRUE, FALSE}
    OBVIOUS
  <2> QED
    BY <1>7, <2>1, AsksSound DEF AddFails
<1>8. ASSUME NEW k \in Keys, hashmapRemove(k) PROVE Sound'
  <2>1. /\ HasKey(k) /\ calls = <<>>
        /\ buckets' = [buckets EXCEPT ![calculateIndex(bucketCount, k)] = RemoveAt(@, Place(k))]
        /\ size' = size - 1 /\ result' = ValueOf(k)
        /\ calls' = calls /\ walk' = walk
    BY <1>8 DEF hashmapRemove, MayRemove
  <2>2. /\ IsMap(buckets') /\ Len(buckets') = Len(buckets)
        /\ IsFiniteSet(Places(buckets'))
        /\ Cardinality(Places(buckets')) = Cardinality(Places(buckets)) - 1
    BY <2>1, RemovedSound
  <2>3. Cardinality(Places(buckets')) \in Nat
    BY <2>2, FS_CardinalityType
  <2>4. size' \in Nat /\ size' + Len(calls') = Cardinality(Places(buckets'))
    <3>1. Len(calls) = 0
      BY <2>1, EmptySeq
    <3> QED
      BY <1>0, <2>1, <2>2, <2>3, <3>1
  <2>5. result' \in Values \cup {Null, TRUE, FALSE}
    BY <2>1, FoundValue
  <2> QED
    BY <1>0, <2>1, <2>2, <2>4, <2>5, ChangeSound
<1>9. ASSUME NEW k \in Keys, MemoizeBegin(k) PROVE Sound'
  <2> DEFINE f == [key |-> k, count |-> bucketCount,
                   pred |-> IF Chain(k) = <<>> THEN Null ELSE Chain(k)[Len(Chain(k))].key]
  <2>1. /\ ~HasKey(k) /\ walk = <<>>
        /\ buckets' = Appended(k, Null)
        /\ calls' = Append(calls, f)
        /\ size' = size /\ result' = result /\ walk' = walk
    BY <1>9 DEF MemoizeBegin, MayAdd
  <2>2. /\ IsMap(buckets') /\ Len(buckets') = Len(buckets)
        /\ IsFiniteSet(Places(buckets'))
        /\ Cardinality(Places(buckets')) = Cardinality(Places(buckets)) + 1
    BY <2>1, AppendedSound
  <2>3. f \in Frame
    <3>1. /\ buckets \in Seq(Seq(Entry)) /\ Len(buckets) \in Nat
          /\ calculateIndex(Len(buckets), k) \in 1..Len(buckets)
      BY <1>0, PlaceTypes, Sought DEF IsMap
    <3>2. Chain(k) \in Seq(Entry)
      BY <3>1, ChainTypes DEF Chain, bucketCount
    <3>3. Chain(k) # <<>> => Chain(k)[Len(Chain(k))].key \in Keys
      BY <3>2, EndOfCalls, EntryFields DEF Last
    <3> QED
      BY <3>1, <3>3 DEF Frame, bucketCount
  <2> HIDE DEF f
  <2>4. calls' \in Seq(Frame) /\ Len(calls') = Len(calls) + 1
    BY <1>0, <2>1, <2>3, AppendProperties
  <2>5. size' \in Nat /\ size' + Len(calls') = Cardinality(Places(buckets'))
    BY <1>0, <2>1, <2>2, <2>4
  <2>6. result' \in Values \cup {Null, TRUE, FALSE}
    BY <2>1 DEF Sound
  <2> QED
    BY <2>1, <2>2, <2>4, <2>5, <2>6, ChangeSound
<1>10. ASSUME NEW v \in Values \cup {Null}, MemoizeEnd(v) PROVE Sound'
  <2>1. /\ calls # <<>> /\ calls' = Front(calls) /\ size' = size + 1 /\ result' = v /\ walk' = walk
    BY <1>10 DEF MemoizeEnd
  <2>2. PICK b \in ValueSet(Last(calls), v) : buckets' \in AfterAdding(b, size + 1)
    BY <1>10 DEF MemoizeEnd
  <2>3. /\ Last(calls) \in Frame /\ Front(calls) \in Seq(Frame)
        /\ Len(calls) \in Nat \ {0} /\ Len(Front(calls)) = Len(calls) - 1
    BY <1>0, <2>1, EndOfCalls
  <2>4. IsMap(b) /\ Len(b) = Len(buckets) /\ Places(b) = Places(buckets)
    BY <2>3, ValueSetSound
  <2>5. /\ IsMap(buckets') /\ Len(buckets') \in {Len(b), 2 * Len(b)}
        /\ IsFiniteSet(Places(buckets'))
        /\ Cardinality(Places(buckets')) = Cardinality(Places(b))
    BY <1>0, <2>2, <2>4, ExpandedMap
  <2>6. size' \in Nat /\ size' + Len(calls') = Cardinality(Places(buckets'))
    BY <1>0, <2>1, <2>3, <2>4, <2>5
  <2>7. Len(buckets') \in {Len(buckets), 2 * Len(buckets)} /\ calls' \in Seq(Frame)
    BY <2>1, <2>3, <2>4, <2>5
  <2>8. result' \in Values \cup {Null, TRUE, FALSE} /\ (walk # <<>> => calls' = <<>>)
    BY <1>0, <2>1
  <2> QED
    BY <2>1, <2>5, <2>6, <2>7, <2>8, ChangeSound
<1>11. ASSUME NEW k \in Keys, NEW v \in Values \cup {Null}, PutNew(k, v) PROVE Sound'
  <2>1. /\ ~HasKey(k) /\ walk = <<>>
        /\ buckets' \in AfterAdding(Appended(k, v), size + 1)
        /\ calls' = calls /\ size' = size + 1 /\ result' = Null /\ walk' = walk
    BY <1>11 DEF PutNew, MayAdd
  <2>2. /\ IsMap(Appended(k, v)) /\ Len(Appended(k, v)) = Len(buckets)
        /\ IsFiniteSet(Places(Appended(k, v)))
        /\ Cardinality(Places(Appended(k, v))) = Cardinality(Places(buckets)) + 1
    BY <2>1, AppendedSound
  <2>3. /\ IsMap(buckets') /\ Len(buckets') \in {Len(buckets), 2 * Len(buckets)}
        /\ IsFiniteSet(Places(buckets'))
        /\ Cardinality(Places(buckets')) = Cardinality(Places(buckets)) + 1
    BY <2>1, <2>2, ExpandedMap
  <2>4. size' \in Nat /\ size' + Len(calls') = Cardinality(Places(buckets'))
    BY <1>0, <2>1, <2>3
  <2> QED
    BY <1>0, <2>1, <2>3, <2>4, ChangeSound
<1>12. ASSUME NEW k \in Keys, NEW v \in Values \cup {Null}, PutReplaces(k, v) PROVE Sound'
  <2>1. /\ buckets' = Written(k, Place(k), v)
        /\ result' = ValueOf(k) /\ size' = size /\ calls' = calls /\ walk' = walk
    BY <1>12 DEF PutReplaces
  <2>2. IsMap(buckets') /\ Len(buckets') = Len(buckets) /\ Places(buckets') = Places(buckets)
    BY <2>1, WrittenSound
  <2>3. result' \in Values \cup {Null, TRUE, FALSE}
    BY <2>1, FoundValue
  <2>4. /\ size' \in Nat /\ size' + Len(calls') = Cardinality(Places(buckets'))
        /\ IsFiniteSet(Places(buckets')) /\ calls' \in Seq(Frame)
    BY <1>0, <2>1, <2>2
  <2> QED
    BY <1>0, <2>1, <2>2, <2>3, <2>4, ChangeSound
<1> QED
  BY <1>1, <1>2, <1>3, <1>4, <1>5, <1>6, <1>7, <1>8, <1>9, <1>10, <1>11, <1>12
     DEF Next, hashmapPut

LEMMA AlwaysSound == HashSpec => []Sound
<1>1. Init => Sound
  BY InitSound
<1>2. Sound /\ [Next]_hashVars => Sound'
  BY NextSound
<1> QED
  BY <1>1, <1>2, PTL DEF HashSpec

\* The array is one of chains of entries, their number is a power of 2, and the
\* size, the calls and the walk are what the code keeps them to be.
THEOREM HashTyped == HashSpec => []TypeOK
<1>1. Sound => TypeOK
  BY SoundTyped
<1> QED
  BY <1>1, AlwaysSound, PTL

\* Every entry is in the chain that its hash leads to and no two have equal keys,
\* through every addition, removal and expansion of hashmap.c, whatever the
\* callbacks of hashmapMemoize add.
THEOREM EntriesStayPlaced == HashSpec => []EntriesPlaced
<1>1. Sound => EntriesPlaced
  BY SoundTyped
<1> QED
  BY <1>1, AlwaysSound, PTL

\* size and the calls of hashmapMemoize that have not returned count the entries.
THEOREM SizeStaysCounted == HashSpec => []SizeCounts
<1>1. Sound => SizeCounts
  BY SoundTyped
<1> QED
  BY <1>1, AlwaysSound, PTL


-----------------------------------------------------------------------------
(* Visiting the entries *)

\* The keys w were given to the callback, the last one that of the entry at p.
VisitedTo(b, w, p) ==
    /\ p \in Places(b)
    /\ EntryAt(b, p).key = Last(w)
    /\ IsInjective(w)
    /\ \A q \in Places(b) : EntryAt(b, q).key \in ToSet(w) <=> ~Before(p, q)

Visited == walk # <<>> => \E p : VisitedTo(buckets, walk, p)

LEMMA CurrentIs ==
    ASSUME Sound, NEW p \in Places(buckets)
    PROVE  Current(KeyOf(p)) = p
<1>1. EntryAt(buckets, p).key \in Keys /\ IsMap(buckets)
  BY KeyOfPlace DEF KeyOf, Sound
<1>2. equalKeys(EntryAt(buckets, p).key, EntryAt(buckets, p).key)
  BY DEF equalKeys
<1>3. p = <<calculateIndex(Len(buckets), EntryAt(buckets, p).key),
            PlaceIn(buckets, EntryAt(buckets, p).key)>>
  BY <1>1, <1>2, Sought
<1> QED
  BY <1>3, LookupHere DEF Current, KeyOf, bucketCount

LEMMA VisitedIs ==
    ASSUME Sound, Visited, walk # <<>>
    PROVE  VisitedTo(buckets, walk, Current(Last(walk)))
<1>1. PICK p : VisitedTo(buckets, walk, p)
  BY DEF Visited
<1>2. p \in Places(buckets) /\ KeyOf(p) = Last(walk)
  BY <1>1 DEF VisitedTo, KeyOf
<1>3. Current(Last(walk)) = p
  BY <1>2, CurrentIs
<1> QED
  BY <1>1, <1>3

LEMMA VisitedAppend ==
    ASSUME NEW w \in Seq(Keys), NEW k \in Keys, k \notin ToSet(w), IsInjective(w)
    PROVE  /\ Last(Append(w, k)) = k
           /\ IsInjective(Append(w, k))
           /\ ToSet(Append(w, k)) = ToSet(w) \cup {k}
<1> DEFINE u == Append(w, k)
           m == Len(w)
<1>1. /\ u \in Seq(Keys) /\ Len(u) = m + 1 /\ m \in Nat
      /\ \A i \in 1..m : u[i] = w[i]
      /\ u[m + 1] = k
  BY AppendProperties
<1>2. DOMAIN u = 1..(m + 1) /\ DOMAIN w = 1..m
  BY <1>1
<1> HIDE DEF u
<1>3. Last(u) = k
  BY <1>1 DEF Last
<1>4. \A i \in 1..m : w[i] # k
  BY <1>2 DEF ToSet
<1> HIDE DEF m
<1>5. IsInjective(u)
  <2> SUFFICES ASSUME NEW i \in 1..(m + 1), NEW j \in 1..(m + 1), u[i] = u[j] PROVE i = j
    BY <1>2 DEF IsInjective
  <2>1. (i \in 1..m \/ i = m + 1) /\ (j \in 1..m \/ j = m + 1)
    BY <1>1
  <2>2. CASE i \in 1..m /\ j \in 1..m
    BY <1>1, <1>2, <2>2 DEF IsInjective
  <2>3. CASE i = m + 1 /\ j \in 1..m
    BY <1>1, <1>4, <2>3
  <2>4. CASE i \in 1..m /\ j = m + 1
    BY <1>1, <1>4, <2>4
  <2> QED
    BY <2>1, <2>2, <2>3, <2>4
<1>6. ToSet(u) = ToSet(w) \cup {k}
  <2>1. ToSet(u) = {u[i] : i \in 1..(m + 1)} /\ ToSet(w) = {w[i] : i \in 1..m}
    BY <1>2 DEF ToSet
  <2>2. \A i \in 1..(m + 1) : i \in 1..m \/ i = m + 1
    BY <1>1
  <2>3. \A i \in 1..m : i \in 1..(m + 1)
    BY <1>1
  <2>4. m + 1 \in 1..(m + 1)
    BY <1>1
  <2>5. ASSUME NEW x \in ToSet(u) PROVE x \in ToSet(w) \cup {k}
    BY <1>1, <2>1, <2>2
  <2>6. ASSUME NEW x \in ToSet(w) PROVE x \in ToSet(u)
    BY <1>1, <2>1, <2>3
  <2>7. k \in ToSet(u)
    BY <1>1, <2>1, <2>4
  <2> QED
    BY <2>5, <2>6, <2>7
<1> QED
  BY <1>3, <1>5, <1>6 DEF u

LEMMA VisitBegins ==
    ASSUME NEW b, IsMap(b), Places(b) # {}
    PROVE  VisitedTo(b, <<EntryAt(b, FirstOf(Places(b))).key>>, FirstOf(Places(b)))
<1> DEFINE f == FirstOf(Places(b))
           k == EntryAt(b, f).key
<1>1. Places(b) \subseteq Nat \X Nat
  BY PlacesAreNumbers DEF IsMap
<1>2. f \in Places(b) /\ \A q \in Places(b) : q = f \/ Before(f, q)
  BY <1>1, TheFirst
<1> HIDE DEF f
<1>3. ASSUME NEW q \in Places(b) PROVE EntryAt(b, q).key = k <=> ~Before(f, q)
  <2>1. CASE q = f
    BY <1>1, <1>2, <2>1, BeforeOrders
  <2>2. CASE q # f
    BY <1>2, <2>2, OnePlaced DEF equalKeys
  <2> QED
    BY <2>1, <2>2
<1> HIDE DEF k
<1>4. Last(<<k>>) = k /\ IsInjective(<<k>>) /\ ToSet(<<k>>) = {k}
  BY DEF Last, IsInjective, ToSet
<1>5. EntryAt(b, f).key = k
  BY DEF k
<1>6. VisitedTo(b, <<k>>, f)
  BY <1>2, <1>3, <1>4, <1>5 DEF VisitedTo
<1> QED
  BY <1>6 DEF k, f

LEMMA VisitGoesOn ==
    ASSUME NEW b, IsMap(b), NEW w \in Seq(Keys), NEW p, VisitedTo(b, w, p),
           NEW S, S = {q \in Places(b) : Before(p, q)}, S # {}
    PROVE  VisitedTo(b, Append(w, EntryAt(b, FirstOf(S)).key), FirstOf(S))
<1> DEFINE f == FirstOf(S)
           k == EntryAt(b, f).key
<1>1. Places(b) \subseteq Nat \X Nat /\ b \in Seq(Seq(Entry)) /\ p \in Places(b)
  BY PlacesAreNumbers DEF IsMap, VisitedTo
<1>2. S \in SUBSET (Nat \X Nat)
  BY <1>1
<1>3. f \in S /\ \A q \in S : q = f \/ Before(f, q)
  BY <1>2, TheFirst
<1> HIDE DEF f
<1>4. f \in Places(b) /\ Before(p, f) /\ k \in Keys
  BY <1>1, <1>3, PlaceTypes
<1>5. k \notin ToSet(w) /\ IsInjective(w)
  BY <1>4 DEF VisitedTo
<1>6. ASSUME NEW q \in Places(b)
      PROVE  EntryAt(b, q).key \in ToSet(w) \cup {k} <=> ~Before(f, q)
  <2>0. p \in Nat \X Nat /\ q \in Nat \X Nat /\ f \in Nat \X Nat
    BY <1>1, <1>4
  <2>1. EntryAt(b, q).key = k <=> q = f
    BY <1>4, OnePlaced DEF equalKeys
  <2>2. EntryAt(b, q).key \in ToSet(w) <=> ~Before(p, q)
    BY DEF VisitedTo
  <2>3. CASE Before(p, q)
    <3>1. q = f \/ Before(f, q)
      BY <1>3, <2>3
    <3>2. ~Before(f, f)
      BY <2>0, BeforeOrders
    <3> QED
      BY <2>1, <2>2, <2>3, <3>1, <3>2
  <2>4. CASE ~Before(p, q)
    <3>1. Before(f, q) => Before(p, q)
      BY <1>4, <2>0, BeforeOrders
    <3> QED
      BY <2>2, <2>4, <3>1
  <2> QED
    BY <2>3, <2>4
<1> HIDE DEF k
<1>7. /\ Last(Append(w, k)) = k
      /\ IsInjective(Append(w, k))
      /\ ToSet(Append(w, k)) = ToSet(w) \cup {k}
  BY <1>4, <1>5, VisitedAppend
<1>8. EntryAt(b, f).key = k
  BY DEF k
<1>9. VisitedTo(b, Append(w, k), f)
  BY <1>4, <1>6, <1>7, <1>8 DEF VisitedTo
<1> QED
  BY <1>9 DEF k, f

\* Removing another entry than the current one.
LEMMA VisitWithout ==
    ASSUME NEW b, NEW c, NEW n, NEW i, Left(b, c, n, i),
           NEW w, NEW p, VisitedTo(b, w, p), p # <<n, i>>
    PROVE  \E q : VisitedTo(c, w, q)
<1>1. PICK q \in Places(c) : Kept(n, i, q) = p
  BY DEF Left, VisitedTo
<1>2. EntryAt(c, q).key = Last(w)
  BY <1>1 DEF Left, VisitedTo
<1>3. ASSUME NEW r \in Places(c) PROVE EntryAt(c, r).key \in ToSet(w) <=> ~Before(q, r)
  <2>1. Kept(n, i, r) \in Places(b) /\ EntryAt(c, r) = EntryAt(b, Kept(n, i, r))
    BY DEF Left
  <2>2. Before(q, r) <=> Before(p, Kept(n, i, r))
    BY <1>1 DEF Left
  <2> QED
    BY <2>1, <2>2 DEF VisitedTo
<1>4. VisitedTo(c, w, q)
  BY <1>2, <1>3 DEF VisitedTo
<1> QED
  BY <1>4

LEMMA VisitStays ==
    ASSUME NEW b, NEW c, Places(c) = Places(b),
           \A p \in Places(b) : EntryAt(c, p).key = EntryAt(b, p).key,
           NEW w, NEW p, VisitedTo(b, w, p)
    PROVE  VisitedTo(c, w, p)
BY DEF VisitedTo

LEMMA NextVisited == Sound /\ Visited /\ [Next]_hashVars => Visited'
<1> SUFFICES ASSUME Sound, Visited, [Next]_hashVars PROVE Visited'
  OBVIOUS
<1>0. IsMap(buckets) /\ walk \in Seq(Keys) /\ (walk # <<>> => calls = <<>>)
  BY DEF Sound
<1>1. CASE UNCHANGED <<buckets, walk>>
  BY <1>1 DEF Visited
<1>2. CASE walk' = <<>>
  BY <1>2 DEF Visited
<1>3. CASE ForEachBegin
  <2>1. Places(buckets) # {}
    <3>1. calls = <<>> /\ size > 0 /\ size + Len(calls) = Cardinality(Places(buckets)) /\ size \in Nat
      BY <1>3 DEF ForEachBegin, Sound
    <3>2. Cardinality(Places(buckets)) # 0
      BY <3>1, EmptySeq
    <3> QED
      BY <3>2, FS_EmptySet
  <2>2. VisitedTo(buckets, <<KeyOf(FirstOf(Places(buckets)))>>, FirstOf(Places(buckets)))
    BY <1>0, <2>1, VisitBegins DEF KeyOf
  <2>3. walk' = <<KeyOf(FirstOf(Places(buckets)))>> /\ buckets' = buckets
    BY <1>3 DEF ForEachBegin, ForEachStep
  <2> QED
    BY <2>2, <2>3 DEF Visited
<1>4. CASE ForEachNext
  <2> DEFINE S == Ahead(Last(walk))
             p == Current(Last(walk))
  <2>1. VisitedTo(buckets, walk, p)
    BY <1>4, VisitedIs DEF ForEachNext
  <2>2. S = {q \in Places(buckets) : Before(p, q)} /\ S # {}
    BY <1>4 DEF ForEachNext, Ahead
  <2>3. walk' = Append(walk, EntryAt(buckets, FirstOf(S)).key) /\ buckets' = buckets
    BY <1>4 DEF ForEachNext, ForEachStep, KeyOf
  <2> HIDE DEF S, p
  <2>4. VisitedTo(buckets, Append(walk, EntryAt(buckets, FirstOf(S)).key), FirstOf(S))
    BY <1>0, <2>1, <2>2, VisitGoesOn
  <2> QED
    BY <2>3, <2>4 DEF Visited
<1>5. CASE ForEachEnd
  BY <1>2, <1>5 DEF ForEachEnd, ForEachStep
<1>6. ASSUME NEW k \in Keys, hashmapGet(k) \/ hashmapContainsKey(k) \/ AddFails(k)
      PROVE  Visited'
  BY <1>1, <1>6 DEF hashmapGet, hashmapContainsKey, Asks, AddFails
<1>7. ASSUME NEW k \in Keys, hashmapRemove(k) PROVE Visited'
  <2> DEFINE n == calculateIndex(Len(buckets), k)
             i == Place(k)
  <2>1. /\ HasKey(k) /\ (walk # <<>> => ~equalKeys(Last(walk), k))
        /\ buckets' = [buckets EXCEPT ![calculateIndex(bucketCount, k)] = RemoveAt(@, Place(k))]
        /\ walk' = walk
    BY <1>7 DEF hashmapRemove, MayRemove
  <2>2. Left(buckets, buckets', n, i) /\ equalKeys(EntryAt(buckets, <<n, i>>).key, k)
    BY <2>1, RemovedSound
  <2> HIDE DEF n, i
  <2>3. ASSUME walk # <<>> PROVE \E q : VisitedTo(buckets', walk, q)
    <3>1. PICK p : VisitedTo(buckets, walk, p)
      BY <2>3 DEF Visited
    <3>2. p # <<n, i>>
      BY <2>1, <2>2, <2>3, <3>1 DEF VisitedTo
    <3> QED
      BY <2>2, <3>1, <3>2, VisitWithout
  <2> QED
    BY <2>1, <2>3 DEF Visited
<1>8. ASSUME NEW k \in Keys, MemoizeBegin(k) PROVE Visited'
  BY <1>2, <1>8 DEF MemoizeBegin, MayAdd
<1>9. ASSUME NEW v \in Values \cup {Null}, MemoizeEnd(v) PROVE Visited'
  BY <1>0, <1>2, <1>9 DEF MemoizeEnd
<1>10. ASSUME NEW k \in Keys, NEW v \in Values \cup {Null}, PutNew(k, v) PROVE Visited'
  BY <1>2, <1>10 DEF PutNew, MayAdd
<1>11. ASSUME NEW k \in Keys, NEW v \in Values \cup {Null}, PutReplaces(k, v) PROVE Visited'
  <2>1. buckets' = Written(k, Place(k), v) /\ walk' = walk
    BY <1>11 DEF PutReplaces
  <2>2. /\ Places(buckets') = Places(buckets)
        /\ \A p \in Places(buckets) : EntryAt(buckets', p).key = EntryAt(buckets, p).key
    BY <2>1, WrittenSound
  <2>3. ASSUME NEW p, VisitedTo(buckets, walk, p) PROVE VisitedTo(buckets', walk, p)
    BY <2>2, <2>3, VisitStays
  <2> QED
    BY <2>1, <2>3 DEF Visited
<1>12. CASE UNCHANGED hashVars
  BY <1>1, <1>12 DEF hashVars
<1> QED
  BY <1>3, <1>4, <1>5, <1>6, <1>7, <1>8, <1>9, <1>10, <1>11, <1>12 DEF Next, hashmapPut

\* hashmapForEach gives each entry to the callback at most once, and all that
\* are left when it ends, whatever the callbacks replace and remove.
THEOREM EachVisitedOnce == HashSpec => []EachVisited
<1>1. Init => Visited
  BY DEF Init, Visited
<1>2. Sound /\ Visited => EachVisited
  <2> SUFFICES ASSUME Sound, Visited, walk # <<>>
               PROVE  /\ IsInjective(walk)
                      /\ Ahead(Last(walk)) = {} =>
                             \A p \in Places(buckets) : KeyOf(p) \in ToSet(walk)
    BY DEF EachVisited
  <2>1. VisitedTo(buckets, walk, Current(Last(walk)))
    BY VisitedIs
  <2>2. ASSUME Ahead(Last(walk)) = {}, NEW p \in Places(buckets)
        PROVE  KeyOf(p) \in ToSet(walk)
    BY <2>1, <2>2 DEF VisitedTo, Ahead, KeyOf
  <2> QED
    BY <2>1, <2>2 DEF VisitedTo
<1>3. Sound /\ Visited /\ [Next]_hashVars => Visited'
  BY NextVisited
<1> QED
  BY <1>1, <1>2, <1>3, AlwaysSound, PTL DEF HashSpec


-----------------------------------------------------------------------------
(* The map is a finite map *)

\* The map of FiniteMap that an array stands for
MapOf(b) == [c \in Contents |-> FoundIn(b, KeyWith[c], Absent)]

LEMMA ContentKey ==
    ASSUME NEW c \in Contents
    PROVE  KeyWith[c] \in Keys /\ Content[KeyWith[c]] = c
BY DEF Contents, KeyWith

LEMMA MapIs == Shown = MapOf(buckets) /\ Shown' = MapOf(buckets')
<1>1. \A k, absent : /\ Found(k, absent) = FoundIn(buckets, k, absent)
                     /\ Found(k, absent)' = FoundIn(buckets', k, absent)
  BY LookupHere
<1>2. Shown = MapOf(buckets)
  BY <1>1 DEF MapOf, Shown
<1>3. Shown' = [c \in Contents |-> Found(KeyWith[c], Absent)']
  BY DEF Contents, KeyWith, Shown
<1>4. [c \in Contents |-> Found(KeyWith[c], Absent)'] = MapOf(buckets')
  BY <1>1 DEF MapOf
<1> QED
  BY <1>2, <1>3, <1>4

LEMMA EntryKeys ==
    ASSUME NEW b, IsMap(b), NEW e \in Entries(b)
    PROVE  e \in Entry /\ e.key \in Keys /\ e.value # Absent
<1>1. e \in Entry
  BY PlaceTypes DEF Entries, IsMap
<1> QED
  BY <1>1, EntryFields, HashmapAssumption

LEMMA MapAt ==
    ASSUME NEW b, IsMap(b), NEW k \in Keys
    PROVE  /\ Content[k] \in Contents
           /\ \A e \in Entries(b) : equalKeys(e.key, k) => MapOf(b)[Content[k]] = e.value
           /\ (\A e \in Entries(b) : ~equalKeys(e.key, k)) => MapOf(b)[Content[k]] = Absent
<1>1. Content[k] \in Contents
  BY DEF Contents
<1> DEFINE j == KeyWith[Content[k]]
<1>2. j \in Keys /\ Content[j] = Content[k]
  BY <1>1, ContentKey
<1>3. MapOf(b)[Content[k]] = FoundIn(b, j, Absent)
  BY <1>1 DEF MapOf
<1> HIDE DEF j
<1>4. \A e \in Entries(b) : equalKeys(e.key, k) <=> equalKeys(e.key, j)
  BY <1>2, EntryKeys, EqualKeys
<1> QED
  BY <1>1, <1>2, <1>3, <1>4, FoundBy

LEMMA MapSame ==
    ASSUME NEW b, IsMap(b), NEW c, IsMap(c), Entries(c) = Entries(b)
    PROVE  MapOf(c) = MapOf(b)
<1> SUFFICES ASSUME NEW x \in Contents PROVE MapOf(c)[x] = MapOf(b)[x]
  BY DEF MapOf
<1> DEFINE k == KeyWith[x]
<1>1. k \in Keys /\ Content[k] = x
  BY ContentKey
<1> HIDE DEF k
<1>2. CASE \E e \in Entries(b) : equalKeys(e.key, k)
  BY <1>1, <1>2, MapAt
<1>3. CASE \A e \in Entries(b) : ~equalKeys(e.key, k)
  BY <1>1, <1>3, MapAt
<1> QED
  BY <1>2, <1>3

\* Arrays whose entries differ in those for k: w is what c has for it.
Differs(b, c, k, w) ==
    /\ \A e \in Entries(b) \cup Entries(c) :
           ~equalKeys(e.key, k) => (e \in Entries(b) <=> e \in Entries(c))
    /\ \/ \E e \in Entries(c) : equalKeys(e.key, k) /\ e.value = w
       \/ w = Absent /\ \A e \in Entries(c) : ~equalKeys(e.key, k)

LEMMA MapUpdate ==
    ASSUME NEW b, IsMap(b), NEW c, IsMap(c), NEW k \in Keys, NEW w, Differs(b, c, k, w)
    PROVE  MapOf(c) = [MapOf(b) EXCEPT ![Content[k]] = w]
<1>1. MapOf(c)[Content[k]] = w
  BY MapAt DEF Differs
<1>2. ASSUME NEW x \in Contents, x # Content[k] PROVE MapOf(c)[x] = MapOf(b)[x]
  <2> DEFINE j == KeyWith[x]
  <2>1. j \in Keys /\ Content[j] = x
    BY ContentKey
  <2> HIDE DEF j
  <2>2. \A e \in Entries(b) \cup Entries(c) : equalKeys(e.key, j) => ~equalKeys(e.key, k)
    <3> SUFFICES ASSUME NEW e \in Entries(b) \cup Entries(c), equalKeys(e.key, j)
                 PROVE  ~equalKeys(e.key, k)
      OBVIOUS
    <3>1. e.key \in Keys
      BY EntryKeys
    <3> QED
      BY <1>2, <2>1, <3>1, EqualKeys
  <2>3. CASE \E e \in Entries(b) : equalKeys(e.key, j)
    <3>1. PICK e \in Entries(b) : equalKeys(e.key, j)
      BY <2>3
    <3>2. e \in Entries(c)
      BY <2>2, <3>1 DEF Differs
    <3> QED
      BY <2>1, <3>1, <3>2, MapAt
  <2>4. CASE \A e \in Entries(b) : ~equalKeys(e.key, j)
    <3>1. \A e \in Entries(c) : ~equalKeys(e.key, j)
      BY <2>2, <2>4 DEF Differs
    <3> QED
      BY <2>1, <2>4, <3>1, MapAt
  <2> QED
    BY <2>3, <2>4
<1>3. Content[k] \in Contents
  BY DEF Contents
<1>4. MapOf(b) = [x \in Contents |-> MapOf(b)[x]] /\ MapOf(c) = [x \in Contents |-> MapOf(c)[x]]
  BY DEF MapOf
<1> HIDE DEF MapOf
<1> QED
  BY <1>1, <1>2, <1>3, <1>4

\* What lookups answer is what FiniteMap answers.
LEMMA MapAnswers ==
    ASSUME Sound, NEW k \in Keys
    PROVE  /\ Content[k] \in Contents
           /\ HasKey(k) <=> MapOf(buckets)[Content[k]] # Absent
           /\ ValueOf(k) = IF MapOf(buckets)[Content[k]] # Absent
                           THEN MapOf(buckets)[Content[k]] ELSE Null
<1>1. IsMap(buckets)
  BY DEF Sound
<1>2. ValueOf(k) = FoundIn(buckets, k, Null) /\ (HasKey(k) <=> PlaceIn(buckets, k) # 0)
  BY LookupHere DEF ValueOf, HasKey
<1>3. CASE \E e \in Entries(buckets) : equalKeys(e.key, k)
  <2>1. PICK e \in Entries(buckets) : equalKeys(e.key, k)
    BY <1>3
  <2>2. MapOf(buckets)[Content[k]] = e.value /\ e.value # Absent
    BY <1>1, <2>1, MapAt, EntryKeys
  <2>3. FoundIn(buckets, k, Null) = e.value /\ PlaceIn(buckets, k) # 0
    BY <1>1, <2>1, FoundBy
  <2> QED
    BY <1>1, <1>2, <2>2, <2>3, MapAt
<1>4. CASE \A e \in Entries(buckets) : ~equalKeys(e.key, k)
  <2>1. MapOf(buckets)[Content[k]] = Absent
    BY <1>1, <1>4, MapAt
  <2>2. FoundIn(buckets, k, Null) = Null /\ PlaceIn(buckets, k) = 0
    BY <1>1, <1>4, FoundBy
  <2> QED
    BY <1>1, <1>2, <2>1, <2>2, MapAt
<1> QED
  BY <1>3, <1>4

LEMMA AppendedDiffers ==
    ASSUME Sound, NEW k \in Keys, ~HasKey(k), NEW v \in Values \cup {Null}
    PROVE  MapOf(Appended(k, v)) = [MapOf(buckets) EXCEPT ![Content[k]] = v]
<1> DEFINE e == [key |-> k, value |-> v]
<1>1. /\ IsMap(buckets) /\ IsMap(Appended(k, v))
      /\ Entries(Appended(k, v)) = Entries(buckets) \cup {e}
  BY AppendedSound DEF Sound
<1>2. equalKeys(e.key, k) /\ e.value = v
  BY DEF equalKeys
<1> HIDE DEF e
<1>3. Differs(buckets, Appended(k, v), k, v)
  BY <1>1, <1>2 DEF Differs
<1> QED
  BY <1>1, <1>3, MapUpdate

LEMMA RemovedDiffers ==
    ASSUME Sound, NEW k \in Keys, HasKey(k), NEW c,
           c = [buckets EXCEPT ![calculateIndex(bucketCount, k)] = RemoveAt(@, Place(k))]
    PROVE  MapOf(c) = [MapOf(buckets) EXCEPT ![Content[k]] = Absent]
<1> DEFINE p == <<calculateIndex(Len(buckets), k), Place(k)>>
<1>1. /\ IsMap(buckets) /\ IsMap(c)
      /\ p \in Places(buckets)
      /\ equalKeys(EntryAt(buckets, p).key, k)
      /\ Entries(c) = Entries(buckets) \ {EntryAt(buckets, p)}
  BY RemovedSound DEF Sound
<1> HIDE DEF p
<1>2. ASSUME NEW e \in Entries(buckets), equalKeys(e.key, k) PROVE e = EntryAt(buckets, p)
  <2>1. PICK q \in Places(buckets) : e = EntryAt(buckets, q)
    BY DEF Entries
  <2>2. e.key \in Keys /\ EntryAt(buckets, p).key \in Keys
    BY <1>1, EntryKeys DEF Entries
  <2>3. equalKeys(EntryAt(buckets, q).key, EntryAt(buckets, p).key)
    BY <1>1, <1>2, <2>1, <2>2, EqualKeys
  <2>4. q = p
    BY <1>1, <2>3, OnePlaced
  <2> QED
    BY <2>1, <2>4
<1>3. Differs(buckets, c, k, Absent)
  BY <1>1, <1>2 DEF Differs
<1> QED
  BY <1>1, <1>3, MapUpdate

\* The entry at <<n, i>> has a key equal to k.
LEMMA WrittenDiffers ==
    ASSUME Sound, NEW k \in Keys, NEW n, NEW i, <<n, i>> \in Places(buckets),
           equalKeys(EntryAt(buckets, <<n, i>>).key, k), NEW v \in Values \cup {Null}
    PROVE  /\ IsMap(WrittenIn(buckets, n, i, v))
           /\ MapOf(WrittenIn(buckets, n, i, v)) = [MapOf(buckets) EXCEPT ![Content[k]] = v]
<1> DEFINE c == WrittenIn(buckets, n, i, v)
           p == <<n, i>>
<1>1. /\ IsMap(buckets) /\ IsMap(c) /\ Places(c) = Places(buckets)
      /\ \A q \in Places(buckets) :
             EntryAt(c, q) = IF q = p THEN [key |-> EntryAt(buckets, q).key, value |-> v]
                             ELSE EntryAt(buckets, q)
  <2>1. IsMap(buckets) /\ <<n, i>> \in Places(buckets)
    BY DEF Sound
  <2> QED
    BY <2>1, WrittenMap
<1> HIDE DEF c
<1>2. p \in Places(buckets) /\ equalKeys(EntryAt(buckets, p).key, k)
  OBVIOUS
<1> HIDE DEF p
<1>3. ASSUME NEW q \in Places(buckets), equalKeys(EntryAt(buckets, q).key, k) PROVE q = p
  <2>1. EntryAt(buckets, q).key \in Keys /\ EntryAt(buckets, p).key \in Keys
    BY <1>1, <1>2, EntryKeys DEF Entries
  <2>2. equalKeys(EntryAt(buckets, q).key, EntryAt(buckets, p).key)
    BY <1>2, <1>3, <2>1, EqualKeys
  <2> QED
    BY <1>1, <1>2, <2>2, OnePlaced
<1>4. EntryAt(c, p).value = v /\ equalKeys(EntryAt(c, p).key, k)
  BY <1>1, <1>2
<1>5. \E e \in Entries(c) : equalKeys(e.key, k) /\ e.value = v
  BY <1>1, <1>2, <1>4 DEF Entries
<1>6. ASSUME NEW e \in Entries(buckets), ~equalKeys(e.key, k) PROVE e \in Entries(c)
  <2>1. PICK q \in Places(buckets) : e = EntryAt(buckets, q)
    BY DEF Entries
  <2>2. q # p
    BY <1>2, <1>6, <2>1
  <2>3. e = EntryAt(c, q)
    BY <1>1, <2>1, <2>2
  <2> QED
    BY <1>1, <2>3 DEF Entries
<1>7. ASSUME NEW e \in Entries(c), ~equalKeys(e.key, k) PROVE e \in Entries(buckets)
  <2>1. PICK q \in Places(c) : e = EntryAt(c, q)
    BY DEF Entries
  <2>2. q # p
    BY <1>4, <1>7, <2>1
  <2>3. e = EntryAt(buckets, q)
    BY <1>1, <2>1, <2>2
  <2> QED
    BY <1>1, <2>1, <2>3 DEF Entries
<1>8. Differs(buckets, c, k, v)
  BY <1>5, <1>6, <1>7 DEF Differs
<1>9. IsMap(c) /\ MapOf(c) = [MapOf(buckets) EXCEPT ![Content[k]] = v]
  BY <1>1, <1>8, MapUpdate
<1> QED
  BY <1>9 DEF c


-----------------------------------------------------------------------------
(* hashmapMemoize, with callbacks that do not add *)

\* The entry of call f is the last one of its chain, where its link leads to.
LinkKept(b, f) ==
    LET n == calculateIndex(Len(b), f.key)
    IN  /\ f.count = Len(b)
        /\ <<n, Len(b[n])>> \in Places(b)
        /\ b[n][Len(b[n])] = [key |-> f.key, value |-> Null]
        /\ IF f.pred = Null THEN Len(b[n]) = 1
           ELSE <<n, Len(b[n]) - 1>> \in Places(b) /\ b[n][Len(b[n]) - 1].key = f.pred

Memo == calls # <<>> => Len(calls) = 1 /\ LinkKept(buckets, Last(calls))

\* A new entry is linked to by the array, if its chain was empty, or by the entry
\* that was the last one.
LEMMA LinkMade ==
    ASSUME Sound, NEW k \in Keys, ~HasKey(k), NEW f,
           f = [key |-> k, count |-> bucketCount,
                pred |-> IF Chain(k) = <<>> THEN Null ELSE Chain(k)[Len(Chain(k))].key]
    PROVE  LinkKept(Appended(k, Null), f)
<1> DEFINE n == calculateIndex(Len(buckets), k)
           e == [key |-> k, value |-> Null]
           c == AppendedTo(buckets, k, Null)
           s == buckets[n]
<1>1. Appended(k, Null) = c
  BY DEF Appended, AppendedTo, bucketCount
<1>2. IsMap(buckets) /\ PlaceIn(buckets, k) = 0 /\ buckets \in Seq(Seq(Entry))
  BY LookupHere DEF Sound, HasKey, IsMap
<1>3. /\ IsMap(c)
      /\ Len(c) = Len(buckets)
      /\ n \in 1..Len(buckets)
      /\ c[n] = Append(s, e)
      /\ Len(c[n]) = Len(s) + 1
      /\ c[n][Len(c[n])] = e
  BY <1>2, AppendedMap
<1>4. s \in Seq(Entry) /\ Len(s) \in Nat /\ \A i \in 1..Len(s) : s[i] \in Entry
  BY <1>2, <1>3, ChainTypes
<1>5. f.key = k /\ f.count = Len(buckets) /\ f.pred = IF s = <<>> THEN Null ELSE s[Len(s)].key
  BY DEF Chain, bucketCount
<1> HIDE DEF n, c, s
<1>6. c \in Seq(Seq(Entry)) /\ n \in 1..Len(c)
  BY <1>3 DEF IsMap
<1>7. \A i \in 1..(Len(s) + 1) : <<n, i>> \in Places(c)
  BY <1>3, <1>6, PlaceTypes
<1>8. <<n, Len(c[n])>> \in Places(c)
  <2>1. Len(s) + 1 \in 1..(Len(s) + 1)
    BY <1>4
  <2> QED
    BY <1>3, <1>7, <2>1
<1>9. CASE s = <<>>
  <2>1. Len(s) = 0 /\ f.pred = Null
    BY <1>5, <1>9, EmptySeq
  <2>2. Len(c[n]) = 1
    BY <1>3, <2>1
  <2> QED
    BY <1>1, <1>3, <1>5, <1>8, <2>1, <2>2 DEF LinkKept, n
<1>10. CASE s # <<>>
  <2>1. Len(s) \in Nat \ {0}
    BY <1>4, <1>10, EmptySeq
  <2>2. Len(c[n]) - 1 = Len(s) /\ Len(s) \in 1..Len(s) /\ Len(s) \in 1..(Len(s) + 1)
    BY <1>3, <2>1
  <2>3. c[n][Len(c[n]) - 1] = s[Len(s)] /\ <<n, Len(c[n]) - 1>> \in Places(c)
    <3>1. e \in Entry
      BY DEF Entry
    <3> HIDE DEF e
    <3>2. \A i \in 1..Len(s) : Append(s, e)[i] = s[i]
      BY <1>4, <3>1, AppendProperties
    <3> QED
      BY <1>3, <1>7, <2>2, <3>2
  <2>4. s[Len(s)].key \in Keys /\ f.pred = s[Len(s)].key
    BY <1>4, <1>5, <1>10, <2>2, EntryFields
  <2>5. f.pred # Null
    BY <2>4, HashmapAssumption
  <2> QED
    BY <1>1, <1>3, <1>5, <1>8, <2>3, <2>4, <2>5 DEF LinkKept, n
<1> QED
  BY <1>9, <1>10

\* The link that was kept leads to the call's own entry.
LEMMA LinkLeads ==
    ASSUME Sound, NEW f \in Frame, LinkKept(buckets, f), NEW v \in Values \cup {Null}
    PROVE  LET n == calculateIndex(Len(buckets), f.key)
           IN  ValueSet(f, v) = {WrittenIn(buckets, n, Len(buckets[n]), v)}
<1> DEFINE n == calculateIndex(Len(buckets), f.key)
           m == Len(buckets[n])
<1>1. f.key \in Keys /\ f.pred \in Keys \cup {Null}
  BY FrameFields
<1>2. IsMap(buckets) /\ buckets \in Seq(Seq(Entry)) /\ n \in 1..Len(buckets) /\ m \in Nat
  BY <1>1, Sought, ChainTypes DEF Sound, IsMap
<1>3. /\ f.count = Len(buckets)
      /\ <<n, m>> \in Places(buckets)
      /\ IF f.pred = Null THEN m = 1
         ELSE <<n, m - 1>> \in Places(buckets) /\ buckets[n][m - 1].key = f.pred
  BY DEF LinkKept
<1>4. CASE f.pred = Null
  <2>1. ValueSet(f, v) = {Written(f.key, 1, v)}
    BY <1>3, <1>4 DEF ValueSet, bucketCount
  <2>2. Written(f.key, 1, v) = WrittenIn(buckets, n, 1, v)
    BY DEF Written, WrittenIn, bucketCount
  <2> QED
    BY <1>3, <1>4, <2>1, <2>2
<1>5. CASE f.pred # Null
  <2> DEFINE p == <<n, m - 1>>
  <2>1. p \in Places(buckets) /\ EntryAt(buckets, p).key = f.pred /\ f.pred \in Keys
    BY <1>1, <1>3, <1>5 DEF EntryAt
  <2>2. p = <<calculateIndex(Len(buckets), f.pred), PlaceIn(buckets, f.pred)>>
    BY <1>2, <2>1, Sought DEF equalKeys
  <2>3. calculateIndex(Len(buckets), f.pred) = n /\ Place(f.pred) = m - 1
    BY <2>2, LookupHere
  <2> HIDE DEF n
  <2>4. Chain(f.pred) = buckets[n]
    BY <2>3 DEF Chain, bucketCount
  <2>5. Place(f.pred) + 1 = m /\ m <= Len(Chain(f.pred))
    BY <1>2, <2>3, <2>4
  <2>6. Written(f.pred, m, v) = WrittenIn(buckets, n, m, v)
    BY <2>3 DEF Written, WrittenIn, bucketCount
  <2>7. ValueSet(f, v) = {Written(f.pred, m, v)}
    BY <1>5, <2>5 DEF ValueSet
  <2> QED
    BY <2>6, <2>7 DEF n
<1> QED
  BY <1>4, <1>5

LEMMA NextMemo ==
    ASSUME CallbackAdds = FALSE, Sound, Memo, [Next]_hashVars
    PROVE  Memo'
<1>0. calls \in Seq(Frame) /\ (walk # <<>> => calls = <<>>)
  BY DEF Sound
<1>1. CASE UNCHANGED <<buckets, calls>>
  BY <1>1 DEF Memo
<1>2. CASE calls' = <<>>
  BY <1>2 DEF Memo
<1>3. CASE ForEachBegin \/ ForEachNext \/ ForEachEnd
  BY <1>1, <1>3 DEF ForEachBegin, ForEachNext, ForEachEnd, ForEachStep
<1>4. ASSUME NEW k \in Keys, hashmapGet(k) \/ hashmapContainsKey(k) \/ AddFails(k)
      PROVE  Memo'
  BY <1>1, <1>4 DEF hashmapGet, hashmapContainsKey, Asks, AddFails
<1>5. ASSUME NEW k \in Keys, hashmapRemove(k) PROVE Memo'
  BY <1>2, <1>5 DEF hashmapRemove, MayRemove
<1>6. ASSUME NEW k \in Keys, MemoizeBegin(k) PROVE Memo'
  <2> DEFINE f == [key |-> k, count |-> bucketCount,
                   pred |-> IF Chain(k) = <<>> THEN Null ELSE Chain(k)[Len(Chain(k))].key]
  <2>1. calls = <<>> /\ ~HasKey(k) /\ buckets' = Appended(k, Null) /\ calls' = Append(calls, f)
    BY <1>6 DEF MemoizeBegin, MayAdd
  <2>2. LinkKept(Appended(k, Null), f)
    BY <2>1, LinkMade
  <2> HIDE DEF f
  <2>3. calls' = <<f>>
    BY <2>1
  <2>4. Len(calls') = 1 /\ Last(calls') = f
    BY <2>3 DEF Last
  <2>5. LinkKept(buckets', Last(calls'))
    BY <2>1, <2>2, <2>4
  <2>6. LinkKept(buckets, Last(calls))'
    BY <2>5 DEF LinkKept, Last
  <2> QED
    BY <2>4, <2>6 DEF Memo
<1>7. ASSUME NEW v \in Values \cup {Null}, MemoizeEnd(v) PROVE Memo'
  <2>1. Len(calls) = 1 /\ calls # <<>> /\ calls' = Front(calls)
    BY <1>7 DEF MemoizeEnd, Memo
  <2>2. calls' \in Seq(Frame) /\ Len(calls') = 0
    BY <1>0, <2>1, EndOfCalls
  <2>3. calls' = <<>>
    BY <2>2
  <2> QED
    BY <1>2, <2>3
<1>8. ASSUME NEW k \in Keys, NEW v \in Values \cup {Null}, PutNew(k, v) PROVE Memo'
  BY <1>2, <1>8 DEF PutNew, MayAdd
<1>9. ASSUME NEW k \in Keys, NEW v \in Values \cup {Null}, PutReplaces(k, v) PROVE Memo'
  BY <1>0, <1>2, <1>9 DEF PutReplaces, MayAdd
<1>10. CASE UNCHANGED hashVars
  BY <1>1, <1>10 DEF hashVars
<1> QED
  BY <1>3, <1>4, <1>5, <1>6, <1>7, <1>8, <1>9, <1>10 DEF Next, hashmapPut


-----------------------------------------------------------------------------
(* The steps of FiniteMap *)

LEMMA InitEmpty == Init => Abstract!Init
<1> SUFFICES ASSUME Init PROVE Shown = [c \in Contents |-> Absent] /\ result = Null
  BY DEF Abstract!Init
<1>1. Sound /\ size = 0 /\ calls = <<>> /\ result = Null
  BY InitSound DEF Init
<1>2. IsMap(buckets) /\ Places(buckets) = {}
  <2>1. Len(calls) = 0
    BY <1>1, EmptySeq
  <2> QED
    BY <1>1, <2>1, FS_EmptySet DEF Sound
<1>3. Entries(buckets) = {}
  BY <1>2 DEF Entries
<1>4. ASSUME NEW c \in Contents PROVE MapOf(buckets)[c] = Absent
  <2>1. KeyWith[c] \in Keys /\ Content[KeyWith[c]] = c
    BY ContentKey
  <2> QED
    BY <1>2, <1>3, <2>1, MapAt
<1>5. MapOf(buckets) = [c \in Contents |-> MapOf(buckets)[c]]
  BY DEF MapOf
<1> HIDE DEF MapOf
<1> QED
  BY <1>1, <1>4, <1>5, MapIs

LEMMA ExpandedSame ==
    ASSUME NEW b, IsMap(b), IsFiniteSet(Places(b)), NEW n, NEW c \in AfterAdding(b, n)
    PROVE  MapOf(c) = MapOf(b)
BY ExpandedMap, MapSame

LEMMA Answers ==
    ASSUME Sound, NEW k \in Keys
    PROVE  /\ Content[k] \in Contents
           /\ HasKey(k) <=> Abstract!Present(Content[k])
           /\ ValueOf(k) = Abstract!Answer(Content[k])
BY MapAnswers, MapIs DEF Abstract!Present, Abstract!Answer

\* Every step of the hash map is one of the finite map.
LEMMA NextMaps ==
    ASSUME CallbackAdds = FALSE, Sound, Memo, [Next]_hashVars
    PROVE  [Abstract!Next]_(Abstract!mapVars)
<1>0. IsMap(buckets) /\ IsFiniteSet(Places(buckets)) /\ calls \in Seq(Frame)
  BY DEF Sound
<1>1. Shown = MapOf(buckets) /\ Shown' = MapOf(buckets') /\ (buckets' = buckets => Shown' = Shown)
  BY MapIs
<1>2. CASE UNCHANGED hashVars
  BY <1>1, <1>2 DEF hashVars, Abstract!mapVars
<1>3. CASE ForEachBegin \/ ForEachNext \/ ForEachEnd
  <2>1. result' = Null /\ buckets' = buckets
    BY <1>3 DEF ForEachBegin, ForEachNext, ForEachEnd, ForEachStep
  <2> QED
    BY <1>1, <2>1 DEF Abstract!Next, Abstract!Visit
<1>4. ASSUME NEW k \in Keys, hashmapGet(k) PROVE Abstract!Next
  <2>1. result' = ValueOf(k) /\ buckets' = buckets
    BY <1>4 DEF hashmapGet, Asks
  <2>2. Abstract!Get(Content[k]) /\ Content[k] \in Contents
    BY <1>1, <2>1, Answers DEF Abstract!Get
  <2> QED
    BY <2>2 DEF Abstract!Next
<1>5. ASSUME NEW k \in Keys, hashmapContainsKey(k) PROVE Abstract!Next
  <2>1. result' = HasKey(k) /\ buckets' = buckets
    BY <1>5 DEF hashmapContainsKey, Asks
  <2>2. HasKey(k) = Abstract!Present(Content[k]) /\ Content[k] \in Contents
    BY Answers DEF HasKey, Abstract!Present
  <2>3. Abstract!ContainsKey(Content[k])
    BY <1>1, <2>1, <2>2 DEF Abstract!ContainsKey
  <2> QED
    BY <2>2, <2>3 DEF Abstract!Next
<1>6. ASSUME NEW k \in Keys, AddFails(k) PROVE Abstract!Next
  <2>1. result' = Null /\ buckets' = buckets
    BY <1>6 DEF AddFails
  <2> QED
    BY <1>1, <2>1 DEF Abstract!Next, Abstract!Visit
<1>7. ASSUME NEW k \in Keys, hashmapRemove(k) PROVE Abstract!Next
  <2>1. /\ HasKey(k) /\ result' = ValueOf(k)
        /\ buckets' = [buckets EXCEPT ![calculateIndex(bucketCount, k)] = RemoveAt(@, Place(k))]
    BY <1>7 DEF hashmapRemove
  <2>2. MapOf(buckets') = [MapOf(buckets) EXCEPT ![Content[k]] = Absent]
    BY <2>1, RemovedDiffers
  <2>3. Abstract!Remove(Content[k]) /\ Content[k] \in Contents
    BY <1>1, <2>1, <2>2, Answers DEF Abstract!Remove
  <2> QED
    BY <2>3 DEF Abstract!Next
<1>8. ASSUME NEW k \in Keys, MemoizeBegin(k) PROVE Abstract!Next
  <2>1. ~HasKey(k) /\ result' = result /\ buckets' = Appended(k, Null)
    BY <1>8 DEF MemoizeBegin
  <2>2. MapOf(buckets') = [MapOf(buckets) EXCEPT ![Content[k]] = Null]
    BY <2>1, AppendedDiffers
  <2>3. Abstract!MemoizeBegin(Content[k]) /\ Content[k] \in Contents
    BY <1>1, <2>1, <2>2, Answers DEF Abstract!MemoizeBegin
  <2> QED
    BY <2>3 DEF Abstract!Next
<1>9. ASSUME NEW v \in Values \cup {Null}, MemoizeEnd(v) PROVE Abstract!Next
  <2> DEFINE f == Last(calls)
             n == calculateIndex(Len(buckets), f.key)
             m == Len(buckets[n])
             b == WrittenIn(buckets, n, m, v)
  <2>1. calls # <<>> /\ result' = v
    BY <1>9 DEF MemoizeEnd
  <2>2. f \in Frame /\ f.key \in Keys
    BY <1>0, <2>1, EndOfCalls, FrameFields
  <2>3. LinkKept(buckets, f)
    BY <2>1 DEF Memo
  <2>4. ValueSet(f, v) = {b}
    BY <2>2, <2>3, LinkLeads
  <2>5. buckets' \in AfterAdding(b, size + 1)
    BY <1>9, <2>4 DEF MemoizeEnd
  <2>6. <<n, m>> \in Places(buckets) /\ EntryAt(buckets, <<n, m>>) = [key |-> f.key, value |-> Null]
    BY <2>3 DEF LinkKept, EntryAt
  <2> HIDE DEF f, n, m
  <2>7. equalKeys(EntryAt(buckets, <<n, m>>).key, f.key)
    BY <2>6 DEF equalKeys
  <2>8. IsMap(b) /\ MapOf(b) = [MapOf(buckets) EXCEPT ![Content[f.key]] = v]
    BY <2>2, <2>6, <2>7, WrittenDiffers
  <2>9. IsFiniteSet(Places(b))
    BY <1>0, <2>6, WrittenMap
  <2> HIDE DEF b
  <2>10. MapOf(buckets') = MapOf(b)
    BY <2>5, <2>8, <2>9, ExpandedSame
  <2>11. EntryAt(buckets, <<n, m>>) \in Entries(buckets) /\ EntryAt(buckets, <<n, m>>).value = Null
    BY <2>6 DEF Entries
  <2>12. MapOf(buckets)[Content[f.key]] = Null /\ Content[f.key] \in Contents
    BY <1>0, <2>2, <2>7, <2>11, MapAt
  <2>13. Abstract!MemoizeEnd(Content[f.key], v)
    BY <1>1, <2>1, <2>8, <2>10, <2>12 DEF Abstract!MemoizeEnd
  <2> QED
    BY <2>12, <2>13 DEF Abstract!Next
<1>10. ASSUME NEW k \in Keys, NEW v \in Values \cup {Null}, PutNew(k, v) PROVE Abstract!Next
  <2>1. ~HasKey(k) /\ result' = Null /\ buckets' \in AfterAdding(Appended(k, v), size + 1)
    BY <1>10 DEF PutNew
  <2>2. /\ IsMap(Appended(k, v)) /\ IsFiniteSet(Places(Appended(k, v)))
        /\ MapOf(Appended(k, v)) = [MapOf(buckets) EXCEPT ![Content[k]] = v]
    BY <2>1, AppendedSound, AppendedDiffers
  <2>3. MapOf(buckets') = [MapOf(buckets) EXCEPT ![Content[k]] = v]
    BY <2>1, <2>2, ExpandedSame
  <2>4. Abstract!Answer(Content[k]) = Null
    BY <2>1, Answers DEF Abstract!Answer
  <2>5. Abstract!Put(Content[k], v) /\ Content[k] \in Contents
    BY <1>1, <2>1, <2>3, <2>4, Answers DEF Abstract!Put
  <2> QED
    BY <2>5 DEF Abstract!Next
<1>11. ASSUME NEW k \in Keys, NEW v \in Values \cup {Null}, PutReplaces(k, v)
       PROVE  Abstract!Next
  <2> DEFINE n == calculateIndex(Len(buckets), k)
             m == Place(k)
  <2>1. HasKey(k) /\ result' = ValueOf(k) /\ buckets' = Written(k, Place(k), v)
    BY <1>11 DEF PutReplaces
  <2>2. buckets' = WrittenIn(buckets, n, m, v)
    BY <2>1 DEF Written, WrittenIn, bucketCount
  <2>3. m = PlaceIn(buckets, k) /\ m # 0
    BY <2>1, LookupHere DEF HasKey
  <2>4. <<n, m>> \in Places(buckets) /\ equalKeys(EntryAt(buckets, <<n, m>>).key, k)
    BY <1>0, <2>3, FoundEntry
  <2> HIDE DEF n, m
  <2>5. MapOf(buckets') = [MapOf(buckets) EXCEPT ![Content[k]] = v]
    BY <2>2, <2>4, WrittenDiffers
  <2>6. Abstract!Put(Content[k], v) /\ Content[k] \in Contents
    BY <1>1, <2>1, <2>5, Answers DEF Abstract!Put
  <2> QED
    BY <2>6 DEF Abstract!Next
<1> QED
  BY <1>2, <1>3, <1>4, <1>5, <1>6, <1>7, <1>8, <1>9, <1>10, <1>11 DEF Next, hashmapPut

\* Callers see a finite map from contents to values: collisions, equal keys at
\* different addresses, expansions and allocations that fail make no difference,
\* as long as the callbacks of hashmapMemoize do not add to the map.
THEOREM MapImplements ==
    ASSUME CallbackAdds = FALSE
    PROVE  HashSpec => ImplementsMap
<1>1. Init => Abstract!Init
  BY InitEmpty
<1>2. Init => Memo
  BY DEF Init, Memo
<1>3. Sound /\ Memo /\ [Next]_hashVars => Memo'
  BY NextMemo
<1>4. Sound /\ Memo /\ [Next]_hashVars => [Abstract!Next]_(Abstract!mapVars)
  BY NextMaps
<1> QED
  BY <1>1, <1>2, <1>3, <1>4, AlwaysSound, PTL DEF HashSpec, ImplementsMap, Abstract!Spec
=============================================================================
