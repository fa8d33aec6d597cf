---------------------------- MODULE Select_proofs ----------------------------
(***************************************************************************)
(* select(), poll() and the timer resolution around them: the resolution   *)
(* is raised and lowered in balance, for every finite set of threads,      *)
(* whatever sets they pass; select() and poll() answer for the descriptors *)
(* they were asked about, for any sockets, handles and FD_SETSIZE.         *)
(*                                                                         *)
(* The first part is about TimerResolution alone.  Each step of Select is  *)
(* one of its steps or leaves its state alone, so what it promises holds   *)
(* of Select; the last part adds what the sets hold (SelectInv).           *)
(***************************************************************************)
EXTENDS Select, FiniteSetTheorems, SequenceTheorems, TLAPS

-----------------------------------------------------------------------------
(* How many threads are at a step *)

LEMMA ManyType ==
    ASSUME NEW step
    PROVE  IsFiniteSet(At(step)) /\ Many(step) \in Nat /\ (Many(step) = 0 <=> At(step) = {})
<1>1. IsFiniteSet(At(step))
  BY TimerAssumption, FS_Subset DEF At
<1> QED
  BY <1>1, FS_CardinalityType, FS_EmptySet DEF Many

\* A thread that goes from one step to another takes its count along.
LEMMA Moves ==
    ASSUME TypeOK, NEW t \in Threads, NEW from, NEW to,
           pc[t] = from, from # to, Goto(t, to)
    PROVE  /\ Many(from) >= 1
           /\ Many(from)' = Many(from) - 1
           /\ Many(to)' = Many(to) + 1
           /\ \A step : step # to /\ step # from => Many(step)' = Many(step)
<1>1. \A u \in Threads : pc'[u] = IF u = t THEN to ELSE pc[u]
  BY DEF TypeOK, Goto
<1>2. At(from)' = At(from) \ {t} /\ t \in At(from)
  BY <1>1 DEF At
<1>3. At(to)' = At(to) \cup {t} /\ t \notin At(to)
  BY <1>1 DEF At
<1>4. Many(from)' = Many(from) - 1
  BY <1>2, ManyType, FS_RemoveElement DEF Many
<1>5. Many(to)' = Many(to) + 1
  BY <1>3, ManyType, FS_AddElement DEF Many
<1>6. ASSUME NEW step, step # to, step # from
      PROVE  Many(step)' = Many(step)
  <2>1. At(step)' = At(step)
    BY <1>1, <1>6 DEF At
  <2> QED
    BY <2>1 DEF Many
<1>7. Many(from) >= 1
  <2>1. Many(from) \in Nat /\ Many(from) # 0
    BY <1>2, ManyType
  <2> QED
    BY <2>1
<1> QED
  BY <1>4, <1>5, <1>6, <1>7

\* A thread's step keeps the range of pc.
LEMMA GotoType ==
    ASSUME TypeOK, NEW t \in Threads,
           NEW to \in {"idle", "begin", "wait", "long_wait", "end"}, Goto(t, to)
    PROVE  pc' \in [Threads -> {"idle", "begin", "wait", "long_wait", "end"}]
BY DEF TypeOK, Goto

-----------------------------------------------------------------------------
(* The inductive invariant *)

LEMMA InitTimerInv == Init => TimerInv
<1> SUFFICES ASSUME Init PROVE TimerInv
  OBVIOUS
<1>1. TypeOK
  BY DEF Init, TypeOK
<1>2. At("begin") = {} /\ At("wait") = {} /\ At("end") = {}
  BY DEF Init, At
<1>3. Many("begin") = 0 /\ Many("wait") = 0 /\ Many("end") = 0
  BY <1>2, ManyType
<1> QED
  BY <1>1, <1>3 DEF Init, Balanced, TimerInv

LEMMA NextTimerInv == TimerInv /\ [Next]_timerVars => TimerInv'
<1> SUFFICES ASSUME TimerInv, [Next]_timerVars PROVE TimerInv'
  OBVIOUS
<1> USE DEF TimerInv
<1>m. Many("begin") \in Nat /\ Many("wait") \in Nat /\ Many("end") \in Nat
  BY ManyType
<1>1. ASSUME NEW t \in Threads, EnterShort(t)
      PROVE  TimerInv'
  <2>1. CASE count = 0
    <3>1. count' = 1 /\ begun' = begun /\ pc[t] = "idle" /\ Goto(t, "begin")
      BY <1>1, <2>1 DEF EnterShort, IsFirst
    <3>2. /\ Many("begin")' = Many("begin") + 1
          /\ Many("wait")' = Many("wait")
          /\ Many("end")' = Many("end")
      BY <3>1, Moves
    <3>3. TypeOK'
      BY <3>1, GotoType DEF TypeOK
    <3> QED
      BY <1>m, <2>1, <3>1, <3>2, <3>3 DEF Balanced, TypeOK
  <2>2. CASE count # 0
    <3>1. count' = count + 1 /\ begun' = begun /\ pc[t] = "idle" /\ Goto(t, "wait")
      BY <1>1, <2>2 DEF EnterShort, IsFirst, TypeOK
    <3>2. /\ Many("begin")' = Many("begin")
          /\ Many("wait")' = Many("wait") + 1
          /\ Many("end")' = Many("end")
      BY <3>1, Moves
    <3>3. TypeOK'
      BY <3>1, GotoType DEF TypeOK
    <3> QED
      BY <1>m, <2>2, <3>1, <3>2, <3>3 DEF Balanced, TypeOK
  <2> QED
    BY <2>1, <2>2
<1>2. ASSUME NEW t \in Threads, EnterLong(t) \/ LeaveLong(t)
      PROVE  TimerInv'
  <2>1. PICK from \in {"idle", "long_wait"}, to \in {"idle", "long_wait"} :
          pc[t] = from /\ from # to /\ Goto(t, to)
    BY <1>2 DEF EnterLong, LeaveLong
  <2>2. count' = count /\ begun' = begun
    BY <1>2 DEF EnterLong, LeaveLong
  <2>3. /\ Many("begin")' = Many("begin")
        /\ Many("wait")' = Many("wait")
        /\ Many("end")' = Many("end")
    BY <2>1, Moves
  <2>4. TypeOK'
    BY <2>1, <2>2, GotoType DEF TypeOK
  <2> QED
    BY <2>2, <2>3, <2>4 DEF Balanced
<1>3. ASSUME NEW t \in Threads, TimeBeginPeriod(t)
      PROVE  TimerInv'
  <2>1. pc[t] = "begin" /\ Goto(t, "wait") /\ count' = count /\ begun' = begun + 1
    BY <1>3 DEF TimeBeginPeriod
  <2>2. /\ Many("begin")' = Many("begin") - 1
        /\ Many("wait")' = Many("wait") + 1
        /\ Many("end")' = Many("end")
    BY <2>1, Moves
  <2>3. TypeOK'
    BY <2>1, GotoType DEF TypeOK
  <2> QED
    BY <1>m, <2>1, <2>2, <2>3 DEF Balanced, TypeOK
<1>4. ASSUME NEW t \in Threads, LeaveShort(t)
      PROVE  TimerInv'
  <2>0. pc[t] = "wait" /\ count' = count - 1 /\ begun' = begun
    BY <1>4 DEF LeaveShort
  <2>1. CASE count = 1
    <3>1. Goto(t, "end")
      BY <1>4, <2>1 DEF LeaveShort, IsLast
    <3>2. /\ Many("wait") >= 1
          /\ Many("begin")' = Many("begin")
          /\ Many("wait")' = Many("wait") - 1
          /\ Many("end")' = Many("end") + 1
      BY <2>0, <3>1, Moves
    <3>3. TypeOK'
      BY <2>0, <2>1, <3>1, GotoType DEF TypeOK
    <3> QED
      BY <1>m, <2>0, <2>1, <3>2, <3>3 DEF Balanced, TypeOK
  <2>2. CASE count # 1
    <3>1. Goto(t, "idle")
      BY <1>4, <2>2 DEF LeaveShort, IsLast, TypeOK
    <3>2. /\ Many("wait") >= 1
          /\ Many("begin")' = Many("begin")
          /\ Many("wait")' = Many("wait") - 1
          /\ Many("end")' = Many("end")
      BY <2>0, <3>1, Moves
    <3>3. count >= 2
      BY <1>m, <2>2, <3>2 DEF Balanced, TypeOK
    <3>4. TypeOK'
      BY <2>0, <3>1, <3>3, GotoType DEF TypeOK
    <3> QED
      BY <1>m, <2>0, <3>2, <3>3, <3>4 DEF Balanced, TypeOK
  <2> QED
    BY <2>1, <2>2
<1>5. ASSUME NEW t \in Threads, TimeEndPeriod(t)
      PROVE  TimerInv'
  <2>1. pc[t] = "end" /\ Goto(t, "idle") /\ count' = count /\ begun' = begun - 1
    BY <1>5 DEF TimeEndPeriod
  <2>2. /\ Many("end") >= 1
        /\ Many("begin")' = Many("begin")
        /\ Many("wait")' = Many("wait")
        /\ Many("end")' = Many("end") - 1
    BY <2>1, Moves
  <2>3. begun >= 1
    BY <1>m, <2>2 DEF Balanced, TypeOK
  <2>4. TypeOK'
    BY <2>1, <2>3, GotoType DEF TypeOK
  <2> QED
    BY <1>m, <2>1, <2>2, <2>4 DEF Balanced, TypeOK
<1>6. ASSUME UNCHANGED timerVars
      PROVE  TimerInv'
  BY <1>6 DEF timerVars, TypeOK, Balanced, Many, At
<1> QED
  BY <1>1, <1>2, <1>3, <1>4, <1>5, <1>6 DEF Next, ShortStep

\* The counter, the threads and the system's count stay in balance.
THEOREM TimerInvariance == TimerSpec => []TimerInv
BY InitTimerInv, NextTimerInv, PTL DEF TimerSpec

-----------------------------------------------------------------------------
(* What follows from it *)

\* The counter and the system's count never go below zero: every
\* timeEndPeriod (line 52) has a timeBeginPeriod before it.
THEOREM TypeCorrect == TimerSpec => []TypeOK
<1>1. TimerInv => TypeOK
  BY DEF TimerInv
<1> QED
  BY <1>1, TimerInvariance, PTL

\* While a short wait goes on and no thread is between counting itself and
\* line 71, the resolution is high.
THEOREM RaisedInsideHolds == TimerSpec => []RaisedInside
<1>1. TimerInv => RaisedInside
  <2> SUFFICES ASSUME TimerInv, At("wait") # {}, At("begin") = {} PROVE begun > 0
    BY DEF RaisedInside
  <2>1. /\ Many("wait") \in Nat /\ Many("wait") # 0
        /\ Many("begin") = 0
        /\ Many("end") \in Nat
    BY ManyType
  <2> QED
    BY <2>1 DEF TimerInv, Balanced, TypeOK
<1> QED
  BY <1>1, TimerInvariance, PTL

\* When no short wait is under way, the system is back where it started,
\* whatever the order in which line 71 and line 52 were reached.
THEOREM LoweredOutsideHolds == TimerSpec => []LoweredOutside
<1>1. TimerInv => LoweredOutside
  <2> SUFFICES ASSUME TimerInv, At("begin") \cup At("wait") \cup At("end") = {}
               PROVE  begun = 0
    BY DEF LoweredOutside
  <2>1. At("begin") = {} /\ At("wait") = {} /\ At("end") = {}
    OBVIOUS
  <2>2. Many("begin") = 0 /\ Many("wait") = 0 /\ Many("end") = 0
    BY <2>1, ManyType
  <2> QED
    BY <2>2 DEF TimerInv, Balanced, TypeOK
<1> QED
  BY <1>1, TimerInvariance, PTL

\* The begins that are not yet ended exceed the threads about to reach line 52
\* by one at most.
THEOREM BegunBoundedHolds == TimerSpec => []BegunBounded
<1>1. TimerInv => BegunBounded
  <2> SUFFICES ASSUME TimerInv PROVE BegunBounded
    OBVIOUS
  <2>1. Many("begin") \in Nat /\ Many("end") \in Nat
    BY ManyType
  <2> QED
    BY <2>1 DEF TimerInv, Balanced, TypeOK, BegunBounded
<1> QED
  BY <1>1, TimerInvariance, PTL

-----------------------------------------------------------------------------
(* The sets *)

\* The elements of a sequence are finitely many, as many as its places when no
\* two are alike.
LEMMA SeqElements ==
    ASSUME NEW S, NEW s \in Seq(S)
    PROVE  /\ ToSet(s) \subseteq S
           /\ IsFiniteSet(ToSet(s))
           /\ Cardinality(ToSet(s)) <= Len(s)
           /\ Cardinality(ToSet(s)) = Len(s) <=> IsInjective(s)
<1>1. DOMAIN s = 1..Len(s) /\ Len(s) \in Nat /\ s \in [1..Len(s) -> S]
  OBVIOUS
<1>2. s \in Surjection(1..Len(s), ToSet(s))
  BY <1>1 DEF Surjection, ToSet
<1>3. IsFiniteSet(1..Len(s)) /\ Cardinality(1..Len(s)) = Len(s)
  BY <1>1, FS_Interval
<1>4. s \in Injection(1..Len(s), ToSet(s)) <=> IsInjective(s)
  BY <1>1 DEF Injection, ToSet
<1>5. ToSet(s) \subseteq S
  BY <1>1 DEF ToSet
<1> QED
  BY <1>1, <1>2, <1>3, <1>4, <1>5, FS_Surjection

\* A finite set's elements in some order, each once.
LEMMA SetInOrder ==
    ASSUME NEW S, IsFiniteSet(S)
    PROVE  /\ SetToSeq(S) \in Seq(S)
           /\ Len(SetToSeq(S)) = Cardinality(S)
           /\ ToSet(SetToSeq(S)) = S
<1> DEFINE n == Cardinality(S)
<1>1. n \in Nat /\ ExistsBijection(1..n, S)
  BY FS_CardinalityType
<1>2. \E f \in [1..n -> S] : IsInjective(f)
  BY <1>1 DEF ExistsBijection, Bijection, Injection
<1> DEFINE s == SetToSeq(S)
<1>3. s \in [1..n -> S] /\ IsInjective(s)
  BY <1>2 DEF SetToSeq
<1> HIDE DEF n, s
<1>4. s \in Seq(S)
  BY <1>1, <1>3, SeqDef
<1>5. Len(s) = n
  BY <1>1, <1>3, <1>4
<1>6. Cardinality(ToSet(s)) = n /\ ToSet(s) \in SUBSET S
  BY <1>3, <1>4, <1>5, SeqElements
<1>7. ToSet(s) = S
  BY <1>6, FS_Subset DEF n
<1> QED
  BY <1>4, <1>5, <1>7 DEF n, s

\* FD_SET
LEMMA AddedOnce ==
    ASSUME NEW S, NEW s \in Seq(S), NEW x \in S, IsInjective(s)
    PROVE  /\ Added(s, x) \in Seq(S)
           /\ IsInjective(Added(s, x))
           /\ x \in ToSet(s) => Added(s, x) = s
           /\ x \notin ToSet(s) /\ Len(s) < FD_SETSIZE
                 => /\ ToSet(Added(s, x)) = ToSet(s) \cup {x}
                    /\ Len(Added(s, x)) = Len(s) + 1
<1>1. CASE x \notin ToSet(s) /\ Len(s) < FD_SETSIZE
  <2>1. Added(s, x) = Append(s, x)
    BY <1>1 DEF Added
  <2>2. /\ Append(s, x) \in Seq(S)
        /\ DOMAIN Append(s, x) = 1..(Len(s) + 1)
        /\ Len(Append(s, x)) = Len(s) + 1
        /\ \A i \in 1..Len(s) : Append(s, x)[i] = s[i]
        /\ Append(s, x)[Len(s) + 1] = x
        /\ DOMAIN s = 1..Len(s)
        /\ Len(s) \in Nat
    OBVIOUS
  <2>3. IsInjective(Append(s, x))
    BY <1>1, <2>2 DEF IsInjective, ToSet
  <2>4. ToSet(Append(s, x)) = ToSet(s) \cup {x}
    BY <2>2 DEF ToSet
  <2> QED
    BY <1>1, <2>1, <2>2, <2>3, <2>4
<1>2. CASE ~(x \notin ToSet(s) /\ Len(s) < FD_SETSIZE)
  BY <1>2 DEF Added
<1> QED
  BY <1>1, <1>2

\* FD_CLR
LEMMA RemovedOnce ==
    ASSUME NEW S, NEW s \in Seq(S), NEW x, IsInjective(s)
    PROVE  /\ RemoveFirst(s, x) \in Seq(S)
           /\ IsInjective(RemoveFirst(s, x))
           /\ ToSet(RemoveFirst(s, x)) = ToSet(s) \ {x}
           /\ x \notin ToSet(s) => RemoveFirst(s, x) = s
           /\ x \in ToSet(s) => Len(RemoveFirst(s, x)) = Len(s) - 1
<1>0. DOMAIN s = 1..Len(s) /\ Len(s) \in Nat
  OBVIOUS
<1>1. CASE x \notin ToSet(s)
  <2>1. ~ \E i \in 1..Len(s) : s[i] = x
    BY <1>0, <1>1 DEF ToSet
  <2>2. RemoveFirst(s, x) = s
    BY <2>1 DEF RemoveFirst
  <2> QED
    BY <1>1, <2>2
<1>2. CASE x \in ToSet(s)
  <2>1. PICK k \in 1..Len(s) : s[k] = x
    BY <1>0, <1>2 DEF ToSet
  <2>2. {i \in 1..Len(s) : s[i] = x} = {k}
    BY <1>0, <2>1 DEF IsInjective
  <2>3. Min({k}) = k
    BY <2>1 DEF Min
  <2>4. SelectInSeq(s, LAMBDA v : v = x) = k
    BY <2>2, <2>3 DEF SelectInSeq
  <2>5. RemoveFirst(s, x) = RemoveAt(s, k)
    BY <2>1, <2>4 DEF RemoveFirst
  <2> DEFINE a == SubSeq(s, 1, k - 1)
             b == SubSeq(s, k + 1, Len(s))
             r == a \o b
  <2>6. /\ a \in Seq(S)
        /\ Len(a) = k - 1
        /\ \A i \in 1..(k - 1) : a[i] = s[i]
    BY <1>0, <2>1
  <2>7. /\ b \in Seq(S)
        /\ Len(b) = Len(s) - k
        /\ \A i \in 1..(Len(s) - k) : b[i] = s[k + i]
    BY <1>0, <2>1
  <2> HIDE DEF a, b
  <2>8. /\ r \in Seq(S)
        /\ Len(r) = Len(s) - 1
        /\ DOMAIN r = 1..(Len(s) - 1)
        /\ \A i \in 1..(Len(s) - 1) : r[i] = IF i < k THEN s[i] ELSE s[i + 1]
    <3>1. Len(a) + Len(b) = Len(s) - 1
      BY <1>0, <2>1, <2>6, <2>7
    <3>2. r \in Seq(S) /\ Len(r) = Len(s) - 1
      BY <2>6, <2>7, <3>1, ConcatProperties
    <3>3. \A i \in 1..(Len(s) - 1) : r[i] = IF i <= k - 1 THEN a[i] ELSE b[i - (k - 1)]
      BY <2>6, <2>7, <3>1, ConcatProperties
    <3> HIDE DEF r
    <3>4. ASSUME NEW i \in 1..(Len(s) - 1)
          PROVE  r[i] = IF i < k THEN s[i] ELSE s[i + 1]
      <4>1. CASE i < k
        BY <1>0, <2>1, <2>6, <3>3, <4>1
      <4>2. CASE ~(i < k)
        <5>1. i - (k - 1) \in 1..(Len(s) - k) /\ k + (i - (k - 1)) = i + 1
          BY <1>0, <2>1, <4>2
        <5>2. ~(i <= k - 1)
          BY <1>0, <2>1, <4>2
        <5>3. r[i] = b[i - (k - 1)]
          BY <3>3, <5>2
        <5> QED
          BY <2>7, <4>2, <5>1, <5>3
      <4> QED
        BY <4>1, <4>2
    <3>5. DOMAIN r = 1..(Len(s) - 1)
      BY <3>2
    <3> QED
      BY <3>2, <3>4, <3>5
  <2> HIDE DEF r
  <2>9. IsInjective(r)
    BY SMTT(20), <1>0, <2>1, <2>8 DEF IsInjective
  <2>10. ToSet(r) = ToSet(s) \ {x}
    <3>1. ASSUME NEW i \in 1..(Len(s) - 1) PROVE r[i] \in ToSet(s) \ {x}
      BY <1>0, <2>1, <2>8, <3>1 DEF ToSet, IsInjective
    <3>2. ASSUME NEW i \in 1..Len(s), s[i] # x PROVE s[i] \in ToSet(r)
      <4>1. CASE i < k
        BY <2>1, <2>8, <3>2, <4>1 DEF ToSet
      <4>2. CASE i > k
        <5>1. i - 1 \in 1..(Len(s) - 1) /\ r[i - 1] = s[i]
          BY <1>0, <2>1, <2>8, <3>2, <4>2
        <5> QED
          BY <2>8, <5>1 DEF ToSet
      <4> QED
        BY <2>1, <3>2, <4>1, <4>2
    <3> QED
      BY <1>0, <2>8, <3>1, <3>2 DEF ToSet
  <2>11. RemoveFirst(s, x) = r
    BY <2>5 DEF RemoveAt, r, a, b
  <2> QED
    BY <1>2, <2>8, <2>9, <2>10, <2>11
<1> QED
  BY <1>1, <1>2

\* convert_fd_set
LEMMA ConvertedHandles ==
    ASSUME NEW s \in Seq(Sockets)
    PROVE  /\ Converted(s) \in Seq(Handles)
           /\ Len(Converted(s)) = Len(s)
           /\ DOMAIN Converted(s) = DOMAIN s
           /\ ToSet(Converted(s)) = {HandleOf[fd] : fd \in ToSet(s)}
<1>1. DOMAIN s = 1..Len(s) /\ Len(s) \in Nat /\ \A i \in 1..Len(s) : s[i] \in Sockets
  OBVIOUS
<1>2. Converted(s) \in [1..Len(s) -> Handles]
  BY <1>1 DEF Converted, Handles
<1>3. Converted(s) \in Seq(Handles)
  BY <1>1, <1>2, SeqDef
<1>4. DOMAIN Converted(s) = 1..Len(s) /\ Len(Converted(s)) = Len(s)
  BY <1>1, <1>2, <1>3
<1>5. ToSet(Converted(s)) = {HandleOf[fd] : fd \in ToSet(s)}
  BY <1>1 DEF ToSet, Converted
<1> QED
  BY <1>1, <1>3, <1>4, <1>5

\* What Winsock's select leaves
LEMMA KeptHandles ==
    ASSUME NEW S, NEW s \in Seq(S), NEW r
    PROVE  /\ Kept(s, r) \in Seq(S)
           /\ Len(Kept(s, r)) <= Len(s)
           /\ ToSet(Kept(s, r)) = ToSet(s) \cap {HandleOf[fd] : fd \in r}
<1> DEFINE K == ToSet(s) \cap {HandleOf[fd] : fd \in r}
<1>1. /\ IsFiniteSet(ToSet(s))
      /\ ToSet(s) \subseteq S
      /\ Cardinality(ToSet(s)) <= Len(s)
  BY SeqElements
<1>2. IsFiniteSet(K) /\ Cardinality(K) <= Cardinality(ToSet(s))
  BY <1>1, FS_Subset
<1>3. /\ SetToSeq(K) \in Seq(K)
      /\ Len(SetToSeq(K)) = Cardinality(K)
      /\ ToSet(SetToSeq(K)) = K
  BY <1>2, SetInOrder
<1>4. SetToSeq(K) \in Seq(S)
  BY <1>1, <1>3, SeqMonotonic
<1>5. Cardinality(K) <= Len(s)
  <2>1. Cardinality(K) \in Nat /\ Cardinality(ToSet(s)) \in Nat /\ Len(s) \in Nat
    BY <1>1, <1>2, FS_CardinalityType
  <2> QED
    BY <1>1, <1>2, <2>1
<1> QED
  BY <1>3, <1>4, <1>5 DEF Kept


\* The descriptors are those of a set when its elements are.
LEMMA SeqNarrow ==
    ASSUME NEW S, NEW s \in Seq(S), NEW T, ToSet(s) \subseteq T
    PROVE  s \in Seq(T)
<1>1. Len(s) \in Nat /\ s \in [1..Len(s) -> S]
  OBVIOUS
<1>2. \A i \in 1..Len(s) : s[i] \in T
  BY <1>1 DEF ToSet
<1>3. s \in [1..Len(s) -> T]
  BY <1>1, <1>2
<1> QED
  BY <1>1, <1>3, SeqDef

\* Handles tell sockets apart.
LEMMA HandlesApart ==
    ASSUME NEW a \in SUBSET Sockets, NEW b \in SUBSET Sockets
    PROVE  /\ {HandleOf[fd] : fd \in a} \cap {HandleOf[fd] : fd \in b}
                = {HandleOf[fd] : fd \in a \cap b}
           /\ \A fd \in Sockets : HandleOf[fd] \in {HandleOf[x] : x \in a} <=> fd \in a
BY SelectAssumption

-----------------------------------------------------------------------------
(* The timer resolution around select() *)

\* A step of Select is one of the timer resolution, or leaves it alone.
LEMMA TimerStep == [SelectNext]_selectVars => [Next]_timerVars
<1> SUFFICES ASSUME [SelectNext]_selectVars PROVE [Next]_timerVars
  OBVIOUS
<1>1. ASSUME NEW t \in Selectors, SetStep(t) PROVE [Next]_timerVars
  BY <1>1 DEF SetStep, FdZero, FdSet, FdClr
<1>2. ASSUME NEW t \in Threads, SelectStep(t) PROVE [Next]_timerVars
  BY <1>2 DEF SelectStep, SelectCall, SelectRaises, Convert, Selects, SelectFails,
              SelectReturns, SelectLowers, Next, ShortStep
<1>3. ASSUME NEW t \in Pollers, PollCall(t) \/ PollReturns(t) \/ PollFails(t)
      PROVE  [Next]_timerVars
  BY <1>3 DEF PollCall, PollReturns, PollFails
<1>4. ASSUME UNCHANGED selectVars PROVE [Next]_timerVars
  BY <1>4 DEF selectVars
<1> QED
  BY <1>1, <1>2, <1>3, <1>4 DEF SelectNext

\* select() and poll() use the timer resolution as TimerResolution does,
\* whatever sets are passed, and whether the wait ends well or in an error.
THEOREM SelectImplementsTimer == SelectSpec => TimerSpec
<1>1. SelectInit => Init
  BY DEF SelectInit
<1> QED
  BY <1>1, TimerStep, PTL DEF SelectSpec, TimerSpec

-----------------------------------------------------------------------------
(* What the sets hold *)

\* A thread goes on, the others stay where they are.
LEMMA EntersPhase ==
    ASSUME SelectTypeOK, NEW t \in Threads, NEW now,
           NEW next \in {"out", "convert", "kernel", "leave", "failed"}, Enters(t, now, next)
    PROVE  /\ phase' \in [Threads -> {"out", "convert", "kernel", "leave", "failed"}]
           /\ phase[t] = now
           /\ phase'[t] = next
           /\ \A u \in Threads : u # t => phase'[u] = phase[u]
BY DEF SelectTypeOK, Enters

LEMMA SetSame ==
    ASSUME NEW u, SetKept(u), phase'[u] = phase[u], set'[u] = set[u], form'[u] = form[u],
           wanted'[u] = wanted[u], over'[u] = over[u], ready'[u] = ready[u]
    PROVE  SetKept(u)'
BY DEF SetKept, SetHolds, Holding

LEMMA PollSame ==
    ASSUME NEW u, PollKept(u), phase'[u] = phase[u], fds'[u] = fds[u], copy'[u] = copy[u],
           revents'[u] = revents[u], ready'[u] = ready[u]
    PROVE  PollKept(u)'
BY DEF PollKept, Converted

LEMMA InitSelectInv == SelectInit => SelectInv
<1> SUFFICES ASSUME SelectInit PROVE SelectInv
  OBVIOUS
<1>1. TypeOK
  BY InitTimerInv DEF SelectInit, TimerInv
<1>2. SelectTypeOK
  <2>1. \A S : <<>> \in Seq(S) /\ Len(<<>>) = 0
    OBVIOUS
  <2> QED
    BY <1>1, <2>1, SelectAssumption DEF SelectInit, SelectTypeOK
<1>3. ASSUME NEW t \in Selectors PROVE SetKept(t)
  <2>1. /\ phase[t] = "out" /\ set[t] = <<>> /\ form[t] = "fds" /\ wanted[t] = {}
        /\ over[t] = FALSE
    BY SelectAssumption DEF SelectInit
  <2>2. ToSet(<<>>) = {} /\ IsInjective(<<>>) /\ Len(<<>>) = 0
    BY DEF ToSet, IsInjective
  <2>3. IsFiniteSet({}) /\ Cardinality({}) = 0
    BY FS_EmptySet
  <2>4. SetHolds(t, {})
    BY <2>1, <2>2, <2>3, SelectAssumption DEF SetHolds, Holding
  <2> QED
    BY <2>1, <2>3, <2>4 DEF SetKept
<1>4. ASSUME NEW t \in Pollers PROVE PollKept(t)
  BY SelectAssumption DEF SelectInit, PollKept
<1> QED
  BY <1>2, <1>3, <1>4 DEF SelectInv, SetInv, PollInv


\* A step of a caller with a set keeps what the others have, so only its own
\* set and their types are left to show.
LEMMA SelectorMoves ==
    ASSUME SelectInv, TypeOK', NEW t \in Selectors,
           phase' = [phase EXCEPT ![t] = phase'[t]],
           phase'[t] \in {"out", "convert", "kernel", "leave", "failed"},
           set' = [set EXCEPT ![t] = set'[t]],
           set'[t] \in Seq(Sockets \cup Handles),
           Len(set'[t]) <= FD_SETSIZE,
           form' = [form EXCEPT ![t] = form'[t]],
           form'[t] \in {"fds", "handles", "failed"},
           wanted' = [wanted EXCEPT ![t] = wanted'[t]],
           wanted'[t] \in SUBSET Sockets,
           over' = [over EXCEPT ![t] = over'[t]],
           over'[t] \in BOOLEAN,
           ready' = [ready EXCEPT ![t] = ready'[t]],
           ready'[t] \in SUBSET Sockets,
           UNCHANGED pollVars,
           SetKept(t)'
    PROVE  SelectInv'
<1>0. t \in Threads /\ t \notin Pollers
  BY SelectAssumption
<1>1. SelectTypeOK
  BY DEF SelectInv
<1>2. /\ \A u \in Threads : u # t => phase'[u] = phase[u]
      /\ \A u \in Selectors : u # t => /\ set'[u] = set[u]
                                       /\ form'[u] = form[u]
                                       /\ wanted'[u] = wanted[u]
                                       /\ over'[u] = over[u]
      /\ \A u \in Selectors \cup Pollers : u # t => ready'[u] = ready[u]
      /\ fds' = fds /\ copy' = copy /\ revents' = revents
  BY <1>1 DEF SelectTypeOK, pollVars
<1>3. /\ phase' \in [Threads -> {"out", "convert", "kernel", "leave", "failed"}]
      /\ form' \in [Selectors -> {"fds", "handles", "failed"}]
      /\ wanted' \in [Selectors -> SUBSET Sockets]
      /\ over' \in [Selectors -> BOOLEAN]
      /\ ready' \in [Selectors \cup Pollers -> SUBSET Sockets]
  BY <1>1 DEF SelectTypeOK
<1>4. /\ set' \in [Selectors -> Seq(Sockets \cup Handles)]
      /\ \A u \in Selectors : Len(set'[u]) <= FD_SETSIZE
  <2>1. set' \in [Selectors -> Seq(Sockets \cup Handles)]
    BY <1>1 DEF SelectTypeOK
  <2> QED
    BY <1>1, <1>2, <2>1 DEF SelectTypeOK
<1>5. SelectTypeOK'
  BY <1>1, <1>2, <1>3, <1>4 DEF SelectTypeOK
<1>6. ASSUME NEW u \in Selectors PROVE SetKept(u)'
  <2>1. CASE u # t
    <3>1. SetKept(u) /\ u \in Threads
      BY SelectAssumption DEF SelectInv, SetInv
    <3> QED
      BY <1>2, <2>1, <3>1, SetSame
  <2> QED
    BY <2>1
<1>7. ASSUME NEW u \in Pollers PROVE PollKept(u)'
  <2>1. PollKept(u) /\ u \in Threads /\ u # t
    BY <1>0, SelectAssumption DEF SelectInv, PollInv
  <2> QED
    BY <1>2, <2>1, PollSame
<1> QED
  BY <1>5, <1>6, <1>7 DEF SelectInv, SetInv, PollInv

\* So does a step of a caller without a set ...
LEMMA SleeperMoves ==
    ASSUME SelectInv, TypeOK', NEW t \in Threads \ (Selectors \cup Pollers),
           phase' = [phase EXCEPT ![t] = phase'[t]],
           phase'[t] \in {"out", "convert", "kernel", "leave", "failed"},
           UNCHANGED <<setVars, ready, pollVars>>
    PROVE  SelectInv'
<1>1. SelectTypeOK
  BY DEF SelectInv
<1>2. /\ \A u \in Threads : u # t => phase'[u] = phase[u]
      /\ phase' \in [Threads -> {"out", "convert", "kernel", "leave", "failed"}]
      /\ set' = set /\ form' = form /\ wanted' = wanted /\ over' = over /\ ready' = ready
      /\ fds' = fds /\ copy' = copy /\ revents' = revents
  BY <1>1 DEF SelectTypeOK, setVars, pollVars
<1>3. SelectTypeOK'
  BY <1>1, <1>2 DEF SelectTypeOK
<1>4. ASSUME NEW u \in Selectors PROVE SetKept(u)'
  <2>1. SetKept(u) /\ phase'[u] = phase[u]
    BY <1>2, SelectAssumption DEF SelectInv, SetInv
  <2> QED
    BY <1>2, <2>1, SetSame
<1>5. ASSUME NEW u \in Pollers PROVE PollKept(u)'
  <2>1. PollKept(u) /\ phase'[u] = phase[u]
    BY <1>2, SelectAssumption DEF SelectInv, PollInv
  <2> QED
    BY <1>2, <2>1, PollSame
<1> QED
  BY <1>3, <1>4, <1>5 DEF SelectInv, SetInv, PollInv

\* ... and one of a caller of poll().
LEMMA PollerMoves ==
    ASSUME SelectInv, TypeOK', NEW t \in Pollers,
           phase' = [phase EXCEPT ![t] = phase'[t]],
           phase'[t] \in {"out", "kernel", "failed"},
           fds' = [fds EXCEPT ![t] = fds'[t]],
           fds'[t] \in Seq(Sockets),
           copy' = [copy EXCEPT ![t] = copy'[t]],
           copy'[t] \in Seq(Handles),
           revents' = [revents EXCEPT ![t] = revents'[t]],
           revents'[t] \in Seq(BOOLEAN),
           Len(fds'[t]) = Len(revents'[t]),
           ready' = [ready EXCEPT ![t] = ready'[t]],
           ready'[t] \in SUBSET Sockets,
           UNCHANGED setVars,
           PollKept(t)'
    PROVE  SelectInv'
<1>0. t \in Threads /\ t \notin Selectors
  BY SelectAssumption
<1>1. SelectTypeOK
  BY DEF SelectInv
<1>2. /\ \A u \in Threads : u # t => phase'[u] = phase[u]
      /\ \A u \in Pollers : u # t => /\ fds'[u] = fds[u]
                                     /\ copy'[u] = copy[u]
                                     /\ revents'[u] = revents[u]
      /\ \A u \in Selectors \cup Pollers : u # t => ready'[u] = ready[u]
      /\ set' = set /\ form' = form /\ wanted' = wanted /\ over' = over
  BY <1>1 DEF SelectTypeOK, setVars
<1>3. /\ phase' \in [Threads -> {"out", "convert", "kernel", "leave", "failed"}]
      /\ ready' \in [Selectors \cup Pollers -> SUBSET Sockets]
  BY <1>1 DEF SelectTypeOK
<1>4. fds' \in [Pollers -> Seq(Sockets)]
  BY <1>1 DEF SelectTypeOK
<1>5. copy' \in [Pollers -> Seq(Handles)]
  BY <1>1 DEF SelectTypeOK
<1>6. revents' \in [Pollers -> Seq(BOOLEAN)]
  BY <1>1 DEF SelectTypeOK
<1>7. \A u \in Pollers : Len(fds'[u]) = Len(revents'[u])
  BY <1>1, <1>2, <1>4, <1>6 DEF SelectTypeOK
<1>8. SelectTypeOK'
  BY <1>1, <1>2, <1>3, <1>4, <1>5, <1>6, <1>7 DEF SelectTypeOK
<1>9. ASSUME NEW u \in Selectors PROVE SetKept(u)'
  <2>1. SetKept(u) /\ phase'[u] = phase[u] /\ ready'[u] = ready[u]
    BY <1>0, <1>2, SelectAssumption DEF SelectInv, SetInv
  <2> QED
    BY <1>2, <2>1, SetSame
<1>10. ASSUME NEW u \in Pollers PROVE PollKept(u)'
  <2>1. CASE u # t
    <3>1. PollKept(u) /\ u \in Threads
      BY SelectAssumption DEF SelectInv, PollInv
    <3> QED
      BY <1>2, <2>1, <3>1, PollSame
  <2> QED
    BY <2>1
<1> QED
  BY <1>8, <1>9, <1>10 DEF SelectInv, SetInv, PollInv


\* What is known of a caller with a set, and that leaving a variable alone is
\* leaving its value there.
LEMMA SelectorFacts ==
    ASSUME SelectInv, NEW t \in Selectors
    PROVE  /\ t \in Threads /\ t \notin Pollers
           /\ phase[t] \in {"out", "convert", "kernel", "leave", "failed"}
           /\ set[t] \in Seq(Sockets \cup Handles)
           /\ Len(set[t]) <= FD_SETSIZE
           /\ form[t] \in {"fds", "handles", "failed"}
           /\ wanted[t] \in SUBSET Sockets
           /\ over[t] \in BOOLEAN
           /\ ready[t] \in SUBSET Sockets
           /\ SetKept(t)
           /\ phase = [phase EXCEPT ![t] = phase[t]]
           /\ set = [set EXCEPT ![t] = set[t]]
           /\ form = [form EXCEPT ![t] = form[t]]
           /\ wanted = [wanted EXCEPT ![t] = wanted[t]]
           /\ over = [over EXCEPT ![t] = over[t]]
           /\ ready = [ready EXCEPT ![t] = ready[t]]
BY SelectAssumption DEF SelectInv, SelectTypeOK, SetInv

LEMMA Emptied == ToSet(<<>>) = {} /\ IsInjective(<<>>) /\ Len(<<>>) = 0
BY DEF ToSet, IsInjective

LEMMA FdZeroKeeps ==
    ASSUME SelectInv, TypeOK', NEW t \in Selectors, FdZero(t)
    PROVE  SelectInv'
<1>1. /\ phase' = [phase EXCEPT ![t] = phase[t]]
      /\ set' = [set EXCEPT ![t] = <<>>]
      /\ form' = [form EXCEPT ![t] = "fds"]
      /\ wanted' = [wanted EXCEPT ![t] = {}]
      /\ over' = [over EXCEPT ![t] = FALSE]
      /\ ready' = [ready EXCEPT ![t] = {}]
      /\ UNCHANGED pollVars
      /\ phase[t] = "out"
  BY SelectorFacts DEF FdZero
<1>2. /\ phase'[t] = "out" /\ set'[t] = <<>> /\ form'[t] = "fds" /\ wanted'[t] = {}
      /\ over'[t] = FALSE /\ ready'[t] = {}
  BY <1>1, SelectorFacts DEF SelectInv, SelectTypeOK
<1>3. IsFiniteSet({}) /\ Cardinality({}) = 0
  BY FS_EmptySet
<1>4. SetKept(t)'
  <2>1. SetHolds(t, {})'
    BY <1>2, <1>3, Emptied, SelectAssumption DEF SetHolds, Holding
  <2> QED
    BY <1>2, <1>3, <2>1 DEF SetKept
<1>5. <<>> \in Seq(Sockets \cup Handles) /\ Len(<<>>) <= FD_SETSIZE
  BY Emptied, SelectAssumption
<1>u. /\ phase' = [phase EXCEPT ![t] = phase'[t]] /\ set' = [set EXCEPT ![t] = set'[t]]
      /\ form' = [form EXCEPT ![t] = form'[t]]
      /\ wanted' = [wanted EXCEPT ![t] = wanted'[t]]
      /\ over' = [over EXCEPT ![t] = over'[t]]
      /\ ready' = [ready EXCEPT ![t] = ready'[t]] /\ UNCHANGED pollVars
  BY <1>1, <1>2
<1>t. /\ phase'[t] \in {"out", "convert", "kernel", "leave", "failed"}
      /\ set'[t] \in Seq(Sockets \cup Handles) /\ Len(set'[t]) <= FD_SETSIZE
      /\ form'[t] \in {"fds", "handles", "failed"}
      /\ wanted'[t] \in SUBSET Sockets /\ over'[t] \in BOOLEAN
      /\ ready'[t] \in SUBSET Sockets
  BY <1>2, <1>5
<1> QED
  BY <1>t, <1>u, <1>4, SelectorMoves

LEMMA FdSetKeeps ==
    ASSUME SelectInv, TypeOK', NEW t \in Selectors, NEW fd \in Sockets, FdSet(t, fd)
    PROVE  SelectInv'
<1> DEFINE s == Added(set[t], fd)
           w == wanted[t] \cup {fd}
           o == over[t] \/ Cardinality(w) > FD_SETSIZE
<1>1. /\ phase' = [phase EXCEPT ![t] = phase[t]]
      /\ set' = [set EXCEPT ![t] = s]
      /\ form' = [form EXCEPT ![t] = form[t]]
      /\ wanted' = [wanted EXCEPT ![t] = w]
      /\ over' = [over EXCEPT ![t] = o]
      /\ ready' = [ready EXCEPT ![t] = ready[t]]
      /\ UNCHANGED pollVars
      /\ phase[t] = "out" /\ form[t] = "fds"
  BY SelectorFacts DEF FdSet, Building
<1>2. /\ phase'[t] = "out" /\ set'[t] = s /\ form'[t] = "fds" /\ wanted'[t] = w
      /\ over'[t] = o /\ ready'[t] = ready[t]
  BY <1>1, SelectorFacts DEF SelectInv, SelectTypeOK
<1>3. PICK held \in SUBSET wanted[t] :
        /\ ToSet(set[t]) = held /\ IsInjective(set[t])
        /\ Len(set[t]) = Cardinality(held)
        /\ IsFiniteSet(held) /\ Cardinality(held) <= FD_SETSIZE
        /\ ~over[t] => held = wanted[t]
  BY <1>1, SelectorFacts DEF SetKept, SetHolds, Holding
<1>4. IsFiniteSet(w) /\ o \in BOOLEAN
  BY SelectorFacts, FS_AddElement DEF SetKept
<1> DEFINE h == IF fd \in held \/ Len(set[t]) < FD_SETSIZE THEN held \cup {fd} ELSE held
<1>5. /\ s \in Seq(Sockets \cup Handles)
      /\ IsInjective(s)
      /\ ToSet(s) = h
      /\ Len(s) = Cardinality(h)
      /\ IsFiniteSet(h)
      /\ Cardinality(h) <= FD_SETSIZE
  <2>1. /\ s \in Seq(Sockets \cup Handles)
        /\ IsInjective(s)
        /\ fd \in held => s = set[t]
        /\ fd \notin held /\ Len(set[t]) < FD_SETSIZE
             => ToSet(s) = held \cup {fd} /\ Len(s) = Len(set[t]) + 1
    BY SMTT(20), <1>3, SelectorFacts, AddedOnce
  <2>2. CASE fd \in held
    <3>1. h = held
      BY <2>2
    <3> QED
      BY <1>3, <2>1, <2>2, <3>1
  <2>3. CASE fd \notin held /\ Len(set[t]) < FD_SETSIZE
    <3>1. /\ IsFiniteSet(held \cup {fd})
          /\ Cardinality(held \cup {fd}) = Cardinality(held) + 1
          /\ Cardinality(held) \in Nat
      BY <1>3, <2>3, FS_AddElement, FS_CardinalityType
    <3>2. h = held \cup {fd}
      BY <2>3
    <3> QED
      BY <1>3, <2>1, <2>3, <3>1, <3>2, SelectAssumption
  <2>4. CASE fd \notin held /\ ~(Len(set[t]) < FD_SETSIZE)
    <3>1. h = held /\ s = set[t]
      BY <2>4 DEF Added
    <3> QED
      BY <1>3, <2>1, <3>1
  <2> QED
    BY <2>2, <2>3, <2>4
<1>6. h \in SUBSET w /\ (~o => h = w)
  <2>1. CASE ~o /\ fd \notin held
    <3>1. held = wanted[t]
      BY <1>3, <2>1
    <3>2. /\ Cardinality(w) = Cardinality(held) + 1
          /\ Cardinality(held) \in Nat
      BY <1>3, <2>1, <3>1, FS_AddElement, FS_CardinalityType
    <3>3. Len(set[t]) < FD_SETSIZE
      BY <1>3, <2>1, <3>2, SelectAssumption
    <3> QED
      BY <3>1, <3>3
  <2>2. CASE o \/ fd \in held
    BY <1>3, <2>2
  <2> QED
    BY <2>1, <2>2
<1> HIDE DEF s, w, o, h
<1>7. SetKept(t)'
  <2>1. PICK now \in SUBSET w : now = h
    BY <1>6
  <2>2. SetHolds(t, now)'
    BY <1>2, <1>5, <1>6, <2>1 DEF SetHolds, Holding
  <2> QED
    BY <1>2, <1>4, <2>2 DEF SetKept
<1>8. w \in SUBSET Sockets
  BY SelectorFacts DEF w
<1>u. /\ phase' = [phase EXCEPT ![t] = phase'[t]] /\ set' = [set EXCEPT ![t] = set'[t]]
      /\ form' = [form EXCEPT ![t] = form'[t]]
      /\ wanted' = [wanted EXCEPT ![t] = wanted'[t]]
      /\ over' = [over EXCEPT ![t] = over'[t]]
      /\ ready' = [ready EXCEPT ![t] = ready'[t]] /\ UNCHANGED pollVars
  BY <1>1, <1>2
<1>t. /\ phase'[t] \in {"out", "convert", "kernel", "leave", "failed"}
      /\ set'[t] \in Seq(Sockets \cup Handles) /\ Len(set'[t]) <= FD_SETSIZE
      /\ form'[t] \in {"fds", "handles", "failed"}
      /\ wanted'[t] \in SUBSET Sockets /\ over'[t] \in BOOLEAN
      /\ ready'[t] \in SUBSET Sockets
  BY <1>1, <1>2, <1>4, <1>5, <1>8, SelectorFacts
<1> QED
  BY <1>t, <1>u, <1>7, SelectorMoves

LEMMA FdClrKeeps ==
    ASSUME SelectInv, TypeOK', NEW t \in Selectors, NEW fd \in Sockets, FdClr(t, fd)
    PROVE  SelectInv'
<1> DEFINE s == RemoveFirst(set[t], fd)
           w == wanted[t] \ {fd}
<1>1. /\ phase' = [phase EXCEPT ![t] = phase[t]]
      /\ set' = [set EXCEPT ![t] = s]
      /\ form' = [form EXCEPT ![t] = form[t]]
      /\ wanted' = [wanted EXCEPT ![t] = w]
      /\ over' = [over EXCEPT ![t] = over[t]]
      /\ ready' = [ready EXCEPT ![t] = ready[t]]
      /\ UNCHANGED pollVars
      /\ phase[t] = "out" /\ form[t] = "fds"
  BY SelectorFacts DEF FdClr, Building
<1>2. /\ phase'[t] = "out" /\ set'[t] = s /\ form'[t] = "fds" /\ wanted'[t] = w
      /\ over'[t] = over[t] /\ ready'[t] = ready[t]
  BY <1>1, SelectorFacts DEF SelectInv, SelectTypeOK
<1>3. PICK held \in SUBSET wanted[t] :
        /\ ToSet(set[t]) = held /\ IsInjective(set[t])
        /\ IsFiniteSet(held) /\ Cardinality(held) <= FD_SETSIZE
        /\ ~over[t] => held = wanted[t]
  BY <1>1, SelectorFacts DEF SetKept, SetHolds, Holding
<1> DEFINE h == held \ {fd}
<1>4. s \in Seq(Sockets \cup Handles) /\ IsInjective(s) /\ ToSet(s) = h
  BY <1>3, SelectorFacts, RemovedOnce
<1>5. Cardinality(ToSet(s)) = Len(s)
  BY <1>4, SeqElements
<1>6. IsFiniteSet(h) /\ Cardinality(h) <= Cardinality(held) /\ IsFiniteSet(w)
  BY <1>3, SelectorFacts, FS_Subset DEF SetKept
<1>7. Len(s) = Cardinality(h) /\ Cardinality(h) <= FD_SETSIZE
  <2>1. Cardinality(h) \in Nat /\ Cardinality(held) \in Nat
    BY <1>3, <1>6, FS_CardinalityType
  <2>2. Len(s) = Cardinality(h)
    BY <1>4, <1>5
  <2> QED
    BY <1>3, <1>6, <2>1, <2>2, SelectAssumption
<1>8. SetKept(t)'
  <2>1. h \in SUBSET w /\ (~over[t] => h = w)
    BY <1>3
  <2> HIDE DEF s, w, h
  <2>2. SetHolds(t, h)'
    BY <1>2, <1>4, <1>6, <1>7, <2>1 DEF SetHolds, Holding
  <2> QED
    BY <1>2, <1>6, <2>1, <2>2 DEF SetKept
<1> HIDE DEF s, w
<1>9. w \in SUBSET Sockets
  BY SelectorFacts DEF w
<1>u. /\ phase' = [phase EXCEPT ![t] = phase'[t]] /\ set' = [set EXCEPT ![t] = set'[t]]
      /\ form' = [form EXCEPT ![t] = form'[t]]
      /\ wanted' = [wanted EXCEPT ![t] = wanted'[t]]
      /\ over' = [over EXCEPT ![t] = over'[t]]
      /\ ready' = [ready EXCEPT ![t] = ready'[t]] /\ UNCHANGED pollVars
  BY <1>1, <1>2
<1>t. /\ phase'[t] \in {"out", "convert", "kernel", "leave", "failed"}
      /\ set'[t] \in Seq(Sockets \cup Handles) /\ Len(set'[t]) <= FD_SETSIZE
      /\ form'[t] \in {"fds", "handles", "failed"}
      /\ wanted'[t] \in SUBSET Sockets /\ over'[t] \in BOOLEAN
      /\ ready'[t] \in SUBSET Sockets
  BY <1>2, <1>4, <1>7, <1>9, SelectorFacts
<1> QED
  BY <1>t, <1>u, <1>8, SelectorMoves


\* The timer's calls to the system leave the sets alone.
LEMMA TimerCallKeeps ==
    ASSUME SelectInv, TypeOK', UNCHANGED <<phase, setVars, ready, pollVars>>
    PROVE  SelectInv'
<1>1. /\ phase' = phase /\ set' = set /\ form' = form /\ wanted' = wanted /\ over' = over
      /\ ready' = ready /\ fds' = fds /\ copy' = copy /\ revents' = revents
  BY DEF setVars, pollVars
<1>2. SelectTypeOK'
  BY <1>1 DEF SelectInv, SelectTypeOK
<1>3. ASSUME NEW u \in Selectors PROVE SetKept(u)'
  BY <1>1, SetSame DEF SelectInv, SetInv
<1>4. ASSUME NEW u \in Pollers PROVE PollKept(u)'
  BY <1>1, PollSame DEF SelectInv, PollInv
<1> QED
  BY <1>2, <1>3, <1>4 DEF SelectInv, SetInv, PollInv

\* A thread goes on in select() and its set, if it has one, stays.
LEMMA PhaseMoves ==
    ASSUME SelectInv, TypeOK', NEW t \in Threads \ Pollers, NEW now,
           NEW next \in {"out", "convert", "kernel", "leave", "failed"}, Enters(t, now, next),
           UNCHANGED <<setVars, ready, pollVars>>,
           t \in Selectors => SetKept(t)'
    PROVE  SelectInv'
<1>1. SelectTypeOK
  BY DEF SelectInv
<1>2. phase'[t] = next /\ phase' = [phase EXCEPT ![t] = phase'[t]]
  BY <1>1, EntersPhase DEF Enters
<1>3. CASE t \in Selectors
  <2>1. /\ set' = [set EXCEPT ![t] = set'[t]] /\ form' = [form EXCEPT ![t] = form'[t]]
        /\ wanted' = [wanted EXCEPT ![t] = wanted'[t]]
        /\ over' = [over EXCEPT ![t] = over'[t]]
        /\ ready' = [ready EXCEPT ![t] = ready'[t]] /\ UNCHANGED pollVars
    BY <1>3, SelectorFacts DEF setVars
  <2>2. /\ set'[t] \in Seq(Sockets \cup Handles) /\ Len(set'[t]) <= FD_SETSIZE
        /\ form'[t] \in {"fds", "handles", "failed"}
        /\ wanted'[t] \in SUBSET Sockets /\ over'[t] \in BOOLEAN
        /\ ready'[t] \in SUBSET Sockets
    BY <1>3, SelectorFacts DEF setVars
  <2> QED
    BY <1>2, <1>3, <2>1, <2>2, SelectorMoves
<1>4. CASE t \notin Selectors
  BY <1>2, <1>4, SleeperMoves
<1> QED
  BY <1>3, <1>4

LEMMA SelectCallKeeps ==
    ASSUME SelectInv, TypeOK', NEW t \in Threads \ Pollers, SelectCall(t)
    PROVE  SelectInv'
<1>1. /\ Enters(t, "out", "convert") /\ UNCHANGED <<setVars, ready, pollVars>>
      /\ t \in Selectors => form[t] = "fds"
      /\ SelectTypeOK
  BY DEF SelectCall, SelectInv
<1>2. phase[t] = "out" /\ phase'[t] = "convert"
  BY <1>1, EntersPhase
<1>3. t \in Selectors => SetKept(t)'
  BY <1>1, <1>2, SelectorFacts DEF SetKept, SetHolds, Holding, setVars
<1> QED
  BY <1>1, <1>3, PhaseMoves

LEMMA SelectReturnsKeeps ==
    ASSUME SelectInv, TypeOK', NEW t \in Threads \ Pollers, SelectReturns(t)
    PROVE  SelectInv'
<1>1. /\ Enters(t, "leave", "out") /\ UNCHANGED <<setVars, ready, pollVars>>
      /\ SelectTypeOK
  BY DEF SelectReturns, SelectInv
<1>2. phase[t] = "leave" /\ phase'[t] = "out"
  BY <1>1, EntersPhase
<1>3. t \in Selectors => SetKept(t)'
  BY <1>1, <1>2, SelectorFacts DEF SetKept, SetHolds, Holding, setVars
<1> QED
  BY <1>1, <1>3, PhaseMoves

LEMMA ConvertKeeps ==
    ASSUME SelectInv, TypeOK', NEW t \in Threads \ Pollers, Convert(t)
    PROVE  SelectInv'
<1>a. CASE t \in Selectors
  <2>1. /\ phase' = [phase EXCEPT ![t] = "kernel"]
        /\ set' = [set EXCEPT ![t] = Converted(set[t])]
        /\ form' = [form EXCEPT ![t] = "handles"]
        /\ wanted' = wanted /\ over' = over /\ ready' = ready /\ UNCHANGED pollVars
        /\ phase[t] = "convert"
    BY <1>a DEF Convert, Enters
  <2>2. /\ phase'[t] = "kernel" /\ set'[t] = Converted(set[t]) /\ form'[t] = "handles"
        /\ wanted'[t] = wanted[t] /\ over'[t] = over[t] /\ ready'[t] = ready[t]
    BY <1>a, <2>1, SelectorFacts DEF SelectInv, SelectTypeOK
  <2>3. PICK held \in SUBSET wanted[t] :
          /\ ToSet(set[t]) = held
          /\ IsFiniteSet(held) /\ Cardinality(held) <= FD_SETSIZE
          /\ ~over[t] => held = wanted[t]
    BY <1>a, <2>1, SelectorFacts DEF SetKept, SetHolds, Holding
  <2>4. set[t] \in Seq(Sockets)
    BY <1>a, <2>3, SelectorFacts, SeqNarrow
  <2>5. /\ Converted(set[t]) \in Seq(Handles)
        /\ Len(Converted(set[t])) = Len(set[t])
        /\ ToSet(Converted(set[t])) = {HandleOf[fd] : fd \in held}
    BY <2>3, <2>4, ConvertedHandles
  <2>6. Converted(set[t]) \in Seq(Sockets \cup Handles)
    BY <2>5, SeqMonotonic
  <2>7. SetHolds(t, held)'
    BY <2>2, <2>3, <2>5 DEF SetHolds, Holding
  <2>8. SetKept(t)'
    BY <1>a, <2>2, <2>7, SelectorFacts DEF SetKept
  <2>9. /\ phase' = [phase EXCEPT ![t] = phase'[t]] /\ set' = [set EXCEPT ![t] = set'[t]]
        /\ form' = [form EXCEPT ![t] = form'[t]]
        /\ wanted' = [wanted EXCEPT ![t] = wanted'[t]]
        /\ over' = [over EXCEPT ![t] = over'[t]]
        /\ ready' = [ready EXCEPT ![t] = ready'[t]]
    BY <1>a, <2>1, <2>2, SelectorFacts
  <2>10. /\ phase'[t] \in {"out", "convert", "kernel", "leave", "failed"}
         /\ set'[t] \in Seq(Sockets \cup Handles) /\ Len(set'[t]) <= FD_SETSIZE
         /\ form'[t] \in {"fds", "handles", "failed"}
         /\ wanted'[t] \in SUBSET Sockets /\ over'[t] \in BOOLEAN
         /\ ready'[t] \in SUBSET Sockets
    BY <1>a, <2>2, <2>5, <2>6, SelectorFacts
  <2> QED
    BY <1>a, <2>1, <2>8, <2>9, <2>10, SelectorMoves
<1>b. CASE t \notin Selectors
  <2>1. Enters(t, "convert", "kernel") /\ UNCHANGED <<setVars, ready, pollVars>> /\ SelectTypeOK
    BY <1>b DEF Convert, SelectInv, setVars
  <2> QED
    BY <1>b, <2>1, PhaseMoves
<1> QED
  BY <1>a, <1>b

LEMMA SelectsKeeps ==
    ASSUME SelectInv, TypeOK', NEW t \in Threads \ Pollers, Selects(t)
    PROVE  SelectInv'
<1>a. CASE t \in Selectors
  <2>1. PICK r \in SUBSET Sockets :
          /\ ready' = [ready EXCEPT ![t] = r]
          /\ set' = [set EXCEPT ![t] = Kept(set[t], r)]
    BY <1>a DEF Selects
  <2>2. /\ phase' = [phase EXCEPT ![t] = "leave"] /\ phase[t] = "kernel"
        /\ form' = form /\ wanted' = wanted /\ over' = over /\ UNCHANGED pollVars
    BY <1>a DEF Selects, Enters
  <2>3. /\ phase'[t] = "leave" /\ set'[t] = Kept(set[t], r) /\ form'[t] = form[t]
        /\ wanted'[t] = wanted[t] /\ over'[t] = over[t] /\ ready'[t] = r
    BY <1>a, <2>1, <2>2, SelectorFacts DEF SelectInv, SelectTypeOK
  <2>4. PICK held \in SUBSET wanted[t] :
          /\ form[t] = "handles" /\ ToSet(set[t]) = {HandleOf[fd] : fd \in held}
          /\ IsFiniteSet(held) /\ Cardinality(held) <= FD_SETSIZE
          /\ ~over[t] => held = wanted[t]
    BY <1>a, <2>2, SelectorFacts DEF SetKept, SetHolds, Holding
  <2>5. /\ Kept(set[t], r) \in Seq(Sockets \cup Handles)
        /\ Len(Kept(set[t], r)) <= Len(set[t])
        /\ ToSet(Kept(set[t], r)) = ToSet(set[t]) \cap {HandleOf[fd] : fd \in r}
    BY <1>a, SelectorFacts, KeptHandles
  <2>6. ToSet(Kept(set[t], r)) = {HandleOf[fd] : fd \in held \cap r}
    <3>1. held \in SUBSET Sockets
      BY <1>a, SelectorFacts
    <3>2. {HandleOf[fd] : fd \in held} \cap {HandleOf[fd] : fd \in r}
            = {HandleOf[fd] : fd \in held \cap r}
      BY <3>1, HandlesApart
    <3> QED
      BY <2>4, <2>5, <3>2
  <2>7. SetKept(t)'
    <3>1. SetHolds(t, held)'
      BY <2>3, <2>4, <2>6 DEF SetHolds, Holding
    <3> QED
      BY <1>a, <2>3, <2>4, <3>1, SelectorFacts DEF SetKept
  <2>8. /\ phase' = [phase EXCEPT ![t] = phase'[t]] /\ set' = [set EXCEPT ![t] = set'[t]]
        /\ form' = [form EXCEPT ![t] = form'[t]]
        /\ wanted' = [wanted EXCEPT ![t] = wanted'[t]]
        /\ over' = [over EXCEPT ![t] = over'[t]]
        /\ ready' = [ready EXCEPT ![t] = ready'[t]]
    BY <1>a, <2>1, <2>2, <2>3, SelectorFacts
  <2>9. Len(Kept(set[t], r)) <= FD_SETSIZE
    <3>1. Len(Kept(set[t], r)) \in Nat /\ Len(set[t]) \in Nat /\ Len(set[t]) <= FD_SETSIZE
      BY <1>a, <2>5, SelectorFacts
    <3> QED
      BY <2>5, <3>1, SelectAssumption
  <2>10. /\ phase'[t] \in {"out", "convert", "kernel", "leave", "failed"}
         /\ set'[t] \in Seq(Sockets \cup Handles) /\ Len(set'[t]) <= FD_SETSIZE
         /\ form'[t] \in {"fds", "handles", "failed"}
         /\ wanted'[t] \in SUBSET Sockets /\ over'[t] \in BOOLEAN
         /\ ready'[t] \in SUBSET Sockets
    BY <1>a, <2>3, <2>5, <2>9, SelectorFacts
  <2> QED
    BY <1>a, <2>2, <2>7, <2>8, <2>10, SelectorMoves
<1>b. CASE t \notin Selectors
  <2>1. Enters(t, "kernel", "leave") /\ UNCHANGED <<setVars, ready, pollVars>> /\ SelectTypeOK
    BY <1>b DEF Selects, SelectInv, setVars
  <2> QED
    BY <1>b, <2>1, PhaseMoves
<1> QED
  BY <1>a, <1>b

LEMMA SelectFailsKeeps ==
    ASSUME SelectInv, TypeOK', NEW t \in Threads \ Pollers, SelectFails(t)
    PROVE  SelectInv'
<1>a. CASE t \in Selectors
  <2>1. /\ phase' = [phase EXCEPT ![t] = "leave"]
        /\ form' = [form EXCEPT ![t] = "failed"]
        /\ set' = set /\ wanted' = wanted /\ over' = over /\ ready' = ready
        /\ UNCHANGED pollVars
    BY <1>a DEF SelectFails, Enters
  <2>2. /\ phase'[t] = "leave" /\ set'[t] = set[t] /\ form'[t] = "failed"
        /\ wanted'[t] = wanted[t] /\ over'[t] = over[t] /\ ready'[t] = ready[t]
    BY <1>a, <2>1, SelectorFacts DEF SelectInv, SelectTypeOK
  <2>3. SetKept(t)'
    BY <1>a, <2>2, SelectorFacts DEF SetKept, SetHolds, Holding
  <2>4. /\ phase' = [phase EXCEPT ![t] = phase'[t]] /\ set' = [set EXCEPT ![t] = set'[t]]
        /\ form' = [form EXCEPT ![t] = form'[t]]
        /\ wanted' = [wanted EXCEPT ![t] = wanted'[t]]
        /\ over' = [over EXCEPT ![t] = over'[t]]
        /\ ready' = [ready EXCEPT ![t] = ready'[t]]
    BY <1>a, <2>1, <2>2, SelectorFacts
  <2>5. /\ phase'[t] \in {"out", "convert", "kernel", "leave", "failed"}
        /\ set'[t] \in Seq(Sockets \cup Handles) /\ Len(set'[t]) <= FD_SETSIZE
        /\ form'[t] \in {"fds", "handles", "failed"}
        /\ wanted'[t] \in SUBSET Sockets /\ over'[t] \in BOOLEAN
        /\ ready'[t] \in SUBSET Sockets
    BY <1>a, <2>2, SelectorFacts
  <2> QED
    BY <1>a, <2>1, <2>3, <2>4, <2>5, SelectorMoves
<1>b. CASE t \notin Selectors
  <2>1. Enters(t, "kernel", "leave") /\ UNCHANGED <<setVars, ready, pollVars>> /\ SelectTypeOK
    BY <1>b DEF SelectFails, SelectInv, setVars
  <2> QED
    BY <1>b, <2>1, PhaseMoves
<1> QED
  BY <1>a, <1>b


LEMMA PollerFacts ==
    ASSUME SelectInv, NEW t \in Pollers
    PROVE  /\ t \in Threads /\ t \notin Selectors
           /\ fds[t] \in Seq(Sockets)
           /\ copy[t] \in Seq(Handles)
           /\ revents[t] \in Seq(BOOLEAN)
           /\ Len(fds[t]) = Len(revents[t])
           /\ ready[t] \in SUBSET Sockets
           /\ PollKept(t)
           /\ fds = [fds EXCEPT ![t] = fds[t]]
BY SelectAssumption DEF SelectInv, SelectTypeOK, PollInv

LEMMA PollCallKeeps ==
    ASSUME SelectInv, TypeOK', NEW t \in Pollers, PollCall(t)
    PROVE  SelectInv'
<1>1. PICK a \in Sockets, b \in Sockets :
        /\ fds' = [fds EXCEPT ![t] = <<a, b>>]
        /\ copy' = [copy EXCEPT ![t] = Converted(<<a, b>>)]
  BY DEF PollCall
<1>2. /\ phase' = [phase EXCEPT ![t] = "kernel"]
      /\ ready' = [ready EXCEPT ![t] = {}]
      /\ UNCHANGED setVars
  BY DEF PollCall
<1>r. PICK left \in BOOLEAN : revents' = [revents EXCEPT ![t] = <<left, left>>]
  BY DEF PollCall
<1>3. /\ phase'[t] = "kernel" /\ fds'[t] = <<a, b>> /\ copy'[t] = Converted(<<a, b>>)
      /\ revents'[t] = <<left, left>> /\ ready'[t] = {}
  BY <1>1, <1>2, <1>r, PollerFacts DEF SelectInv, SelectTypeOK
<1>4. <<a, b>> \in Seq(Sockets) /\ Len(<<a, b>>) = 2
  OBVIOUS
<1>5. Converted(<<a, b>>) \in Seq(Handles)
  BY <1>4, ConvertedHandles
<1>6. <<left, left>> \in Seq(BOOLEAN) /\ Len(<<left, left>>) = 2
  OBVIOUS
<1>7. PollKept(t)'
  BY <1>3 DEF PollKept, Converted
<1>8. /\ phase' = [phase EXCEPT ![t] = phase'[t]] /\ fds' = [fds EXCEPT ![t] = fds'[t]]
      /\ copy' = [copy EXCEPT ![t] = copy'[t]]
      /\ revents' = [revents EXCEPT ![t] = revents'[t]]
      /\ ready' = [ready EXCEPT ![t] = ready'[t]]
  BY <1>1, <1>2, <1>3, <1>r
<1>9. /\ phase'[t] \in {"out", "kernel", "failed"} /\ fds'[t] \in Seq(Sockets)
      /\ copy'[t] \in Seq(Handles) /\ revents'[t] \in Seq(BOOLEAN)
      /\ Len(fds'[t]) = Len(revents'[t]) /\ ready'[t] \in SUBSET Sockets
  BY <1>3, <1>4, <1>5, <1>6
<1> QED
  BY <1>2, <1>7, <1>8, <1>9, PollerMoves

\* The answers are those of the entries: an entry of the copy has the handle of
\* the entry's own socket, and no other socket has that handle.
LEMMA PollReturnsKeeps ==
    ASSUME SelectInv, TypeOK', NEW t \in Pollers, PollReturns(t)
    PROVE  SelectInv'
<1>1. PICK r \in SUBSET ToSet(fds[t]) :
        /\ ready' = [ready EXCEPT ![t] = r]
        /\ revents' = [revents EXCEPT ![t] =
                          [i \in DOMAIN copy[t] |-> \E fd \in r : HandleOf[fd] = copy[t][i]]]
  BY DEF PollReturns
<1> DEFINE e == [i \in DOMAIN copy[t] |-> \E fd \in r : HandleOf[fd] = copy[t][i]]
<1>2. /\ phase' = [phase EXCEPT ![t] = "out"] /\ phase[t] = "kernel"
      /\ copy' = [copy EXCEPT ![t] = <<>>]
      /\ fds' = fds /\ UNCHANGED setVars
  BY DEF PollReturns, Enters
<1>3. /\ phase'[t] = "out" /\ fds'[t] = fds[t] /\ copy'[t] = <<>> /\ ready'[t] = r
  BY <1>1, <1>2, PollerFacts DEF SelectInv, SelectTypeOK
<1>4. revents'[t] = e
  BY <1>1, PollerFacts DEF SelectInv, SelectTypeOK
<1>5. /\ copy[t] = Converted(fds[t])
      /\ DOMAIN copy[t] = 1..Len(fds[t]) /\ DOMAIN fds[t] = 1..Len(fds[t])
      /\ Len(fds[t]) \in Nat
      /\ \A i \in 1..Len(fds[t]) : fds[t][i] \in Sockets
      /\ \A i \in 1..Len(fds[t]) : copy[t][i] = HandleOf[fds[t][i]]
  <2>1. copy[t] = Converted(fds[t])
    BY <1>2, PollerFacts DEF PollKept
  <2>2. /\ DOMAIN fds[t] = 1..Len(fds[t]) /\ Len(fds[t]) \in Nat
        /\ \A i \in 1..Len(fds[t]) : fds[t][i] \in Sockets
    BY PollerFacts
  <2> QED
    BY <2>1, <2>2 DEF Converted
<1>6. r \in SUBSET Sockets
  BY PollerFacts, SeqElements
<1>7. \A i \in 1..Len(fds[t]) : e[i] <=> fds[t][i] \in r
  <2> TAKE i \in 1..Len(fds[t])
  <2>1. e[i] <=> \E fd \in r : HandleOf[fd] = HandleOf[fds[t][i]]
    BY <1>5
  <2>2. (\E fd \in r : HandleOf[fd] = HandleOf[fds[t][i]]) <=> fds[t][i] \in r
    BY <1>5, <1>6, SelectAssumption
  <2> QED
    BY <2>1, <2>2
<1>8. e \in Seq(BOOLEAN) /\ Len(e) = Len(fds[t])
  <2>1. e \in [1..Len(fds[t]) -> BOOLEAN]
    BY <1>5
  <2>2. e \in Seq(BOOLEAN)
    BY <1>5, <2>1, SeqDef
  <2> HIDE DEF e
  <2> QED
    BY <1>5, <2>1, <2>2
<1> HIDE DEF e
<1>9. PollKept(t)'
  BY <1>3, <1>4, <1>5, <1>7 DEF PollKept
<1>10. /\ phase' = [phase EXCEPT ![t] = phase'[t]] /\ fds' = [fds EXCEPT ![t] = fds'[t]]
       /\ copy' = [copy EXCEPT ![t] = copy'[t]]
       /\ ready' = [ready EXCEPT ![t] = ready'[t]]
  BY <1>1, <1>2, <1>3, PollerFacts
<1>11. revents' = [revents EXCEPT ![t] = revents'[t]]
  BY <1>1, <1>4 DEF e
<1>12. /\ phase'[t] \in {"out", "kernel", "failed"} /\ fds'[t] \in Seq(Sockets)
       /\ copy'[t] \in Seq(Handles) /\ revents'[t] \in Seq(BOOLEAN)
       /\ Len(fds'[t]) = Len(revents'[t]) /\ ready'[t] \in SUBSET Sockets
  BY <1>3, <1>4, <1>6, <1>8, PollerFacts
<1> QED
  BY <1>2, <1>9, <1>10, <1>11, <1>12, PollerMoves

\* A poll() that fails leaves its answers as the caller left them, and nothing is
\* said of them.
LEMMA PollFailsKeeps ==
    ASSUME SelectInv, TypeOK', NEW t \in Pollers, PollFails(t)
    PROVE  SelectInv'
<1>1. /\ phase' = [phase EXCEPT ![t] = "failed"]
      /\ copy' = [copy EXCEPT ![t] = <<>>]
      /\ fds' = fds /\ revents' = revents /\ ready' = ready /\ UNCHANGED setVars
  BY DEF PollFails, Enters
<1>2. /\ phase'[t] = "failed" /\ copy'[t] = <<>> /\ fds'[t] = fds[t]
      /\ revents'[t] = revents[t] /\ ready'[t] = ready[t]
  BY <1>1, PollerFacts DEF SelectInv, SelectTypeOK
<1>3. PollKept(t)'
  BY <1>2 DEF PollKept
<1>4. /\ phase' = [phase EXCEPT ![t] = phase'[t]] /\ fds' = [fds EXCEPT ![t] = fds'[t]]
      /\ copy' = [copy EXCEPT ![t] = copy'[t]]
      /\ revents' = [revents EXCEPT ![t] = revents'[t]]
      /\ ready' = [ready EXCEPT ![t] = ready'[t]]
  BY <1>1, <1>2 DEF SelectInv, SelectTypeOK
<1>5. /\ phase'[t] \in {"out", "kernel", "failed"} /\ fds'[t] \in Seq(Sockets)
      /\ copy'[t] \in Seq(Handles) /\ revents'[t] \in Seq(BOOLEAN)
      /\ Len(fds'[t]) = Len(revents'[t]) /\ ready'[t] \in SUBSET Sockets
  BY <1>2, PollerFacts
<1> QED
  BY <1>1, <1>3, <1>4, <1>5, PollerMoves

LEMMA NextSelectInv ==
    SelectInv /\ TypeOK' /\ [SelectNext]_selectVars => SelectInv'
<1> SUFFICES ASSUME SelectInv, TypeOK', [SelectNext]_selectVars PROVE SelectInv'
  OBVIOUS
<1>1. ASSUME NEW t \in Selectors, SetStep(t) PROVE SelectInv'
  BY <1>1, FdZeroKeeps, FdSetKeeps, FdClrKeeps DEF SetStep
<1>2. ASSUME NEW t \in Threads \ Pollers, SelectStep(t) PROVE SelectInv'
  <2>1. CASE SelectCall(t)
    BY <2>1, SelectCallKeeps
  <2>2. CASE SelectRaises(t)
    BY <2>2, TimerCallKeeps DEF SelectRaises
  <2>3. CASE Convert(t)
    BY <2>3, ConvertKeeps
  <2>4. CASE Selects(t)
    BY <2>4, SelectsKeeps
  <2>5. CASE SelectFails(t)
    BY <2>5, SelectFailsKeeps
  <2>6. CASE SelectReturns(t)
    BY <2>6, SelectReturnsKeeps
  <2>7. CASE SelectLowers(t)
    BY <2>7, TimerCallKeeps DEF SelectLowers
  <2> QED
    BY <1>2, <2>1, <2>2, <2>3, <2>4, <2>5, <2>6, <2>7 DEF SelectStep
<1>3. ASSUME NEW t \in Pollers, PollCall(t) \/ PollReturns(t) \/ PollFails(t)
      PROVE  SelectInv'
  BY <1>3, PollCallKeeps, PollReturnsKeeps, PollFailsKeeps
<1>4. ASSUME UNCHANGED selectVars PROVE SelectInv'
  BY <1>4, TimerCallKeeps DEF selectVars
<1> QED
  BY <1>1, <1>2, <1>3, <1>4 DEF SelectNext

-----------------------------------------------------------------------------
(* What follows from it *)

\* The balance of TimerResolution and what the sets hold, together.
THEOREM SelectInvariance == SelectSpec => [](TimerInv /\ SelectInv)
<1>1. SelectInit => TimerInv /\ SelectInv
  BY InitTimerInv, InitSelectInv DEF SelectInit
<1>2. TimerInv /\ SelectInv /\ [SelectNext]_selectVars => (TimerInv /\ SelectInv)'
  <2> SUFFICES ASSUME TimerInv, SelectInv, [SelectNext]_selectVars
               PROVE  TimerInv' /\ SelectInv'
    OBVIOUS
  <2>1. TimerInv'
    BY TimerStep, NextTimerInv
  <2>2. TypeOK'
    BY <2>1 DEF TimerInv
  <2> QED
    BY <2>1, <2>2, NextSelectInv
<1> QED
  BY <1>1, <1>2, PTL DEF SelectSpec

\* No set overflows (sys/select.h), and the copy of poll() and its answers are
\* as long as the caller's array.
THEOREM SetsTyped == SelectSpec => []SelectTypeOK
<1>1. SelectInv => SelectTypeOK
  BY DEF SelectInv
<1> QED
  BY <1>1, SelectInvariance, PTL

\* FD_ISSET and poll() answer for the sockets that the caller asked about,
\* though a set holds descriptors first and handles then.
THEOREM AnswersRight == SelectSpec => []AnswersMatch
<1>1. SelectInv => AnswersMatch
  <2> SUFFICES ASSUME SelectInv PROVE AnswersMatch
    OBVIOUS
  <2>1. ASSUME NEW t \in Selectors, phase[t] = "out", form[t] = "handles"
        PROVE  LET answers == {fd \in Sockets : FD_ISSET(t, fd)} IN
               /\ answers \subseteq wanted[t] \cap ready[t]
               /\ ~over[t] => answers = wanted[t] \cap ready[t]
    <3>1. PICK held \in SUBSET wanted[t] :
            /\ ToSet(set[t]) = {HandleOf[fd] : fd \in held \cap ready[t]}
            /\ ~over[t] => held = wanted[t]
      BY <2>1, SelectorFacts DEF SetKept, SetHolds, Holding
    <3>2. held \cap ready[t] \in SUBSET Sockets
      BY SelectorFacts
    <3>3. \A fd \in Sockets : FD_ISSET(t, fd) <=> fd \in held \cap ready[t]
      BY <3>1, <3>2, HandlesApart DEF FD_ISSET
    <3>4. {fd \in Sockets : FD_ISSET(t, fd)} = held \cap ready[t]
      BY <3>2, <3>3
    <3> QED
      BY <3>1, <3>4
  <2>2. ASSUME NEW t \in Pollers, phase[t] = "out"
        PROVE  \A i \in DOMAIN fds[t] : revents[t][i] <=> fds[t][i] \in ready[t]
    BY <2>2, PollerFacts DEF PollKept
  <2> QED
    BY <2>1, <2>2 DEF AnswersMatch
<1> QED
  BY <1>1, SelectInvariance, PTL


\* Around select(), whatever becomes of the sets, the resolution is high during
\* short waits, back after them, and not raised once for each.
THEOREM ResolutionRestored == SelectSpec => [](RaisedInside /\ LoweredOutside /\ BegunBounded)
BY SelectImplementsTimer, RaisedInsideHolds, LoweredOutsideHolds, BegunBoundedHolds, PTL
=============================================================================
