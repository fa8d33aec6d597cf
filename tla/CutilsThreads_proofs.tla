------------------------ MODULE CutilsThreads_proofs ------------------------
(***************************************************************************)
(* Threads that log and that use a thread store: the lazily initialised    *)
(* locks exclude, lines of the log are whole, and what a thread stored is  *)
(* what it reads back, for any number of threads of which no two are the   *)
(* first at a lock at once, and for any values and TLS indexes.            *)
(***************************************************************************)
EXTENDS CutilsThreads, SequenceTheorems, TLAPS

-----------------------------------------------------------------------------
(* The log *)

\* The pieces of a line are pieces, and so is what a buffer grows to.
LEMMA LineTypes ==
    ASSUME NEW t \in Threads
    PROVE  /\ <<<<t, "header">>>> \in Seq(Pieces)
           /\ <<<<t, "header">>, <<t, "text">>>> \in Seq(Pieces)
           /\ Line(t) \in Seq(Pieces)
           /\ <<<<t, "assert">>>> \in Seq(Pieces)
<1>1. \A s \in {"header", "text", "newline", "assert"} : <<t, s>> \in Pieces
  BY DEF Pieces
<1> QED BY <1>1 DEF Line

\* Append to a short sequence.
LEMMA AppendShort ==
    ASSUME NEW S, NEW h \in S, NEW x \in S, NEW n \in S
    PROVE  Append(<<h>>, x) = <<h, x>> /\ Append(<<h, x>>, n) = <<h, x, n>>
<1>1. <<h>> \in Seq(S) /\ <<h, x>> \in Seq(S) /\ <<h, x, n>> \in Seq(S) OBVIOUS
<1>2. Len(<<h>>) = 1 /\ Len(<<h, x>>) = 2 /\ Len(<<h, x, n>>) = 3 OBVIOUS
<1>3. Append(<<h>>, x) = <<h, x>>
  <2>1. /\ Append(<<h>>, x) \in Seq(S) /\ Len(Append(<<h>>, x)) = 2
        /\ \A i \in 1..1 : Append(<<h>>, x)[i] = <<h>>[i]
        /\ Append(<<h>>, x)[2] = x
    BY <1>1, <1>2, AppendProperties
  <2>2. \A i \in 1..2 : Append(<<h>>, x)[i] = <<h, x>>[i]
    BY <2>1
  <2> QED BY <1>1, <1>2, <2>1, <2>2, SeqEqual
<1>4. Append(<<h, x>>, n) = <<h, x, n>>
  <2>1. /\ Append(<<h, x>>, n) \in Seq(S) /\ Len(Append(<<h, x>>, n)) = 3
        /\ \A i \in 1..2 : Append(<<h, x>>, n)[i] = <<h, x>>[i]
        /\ Append(<<h, x>>, n)[3] = n
    BY <1>1, <1>2, AppendProperties
  <2>2. \A i \in 1..3 : Append(<<h, x>>, n)[i] = <<h, x, n>>[i]
    BY <2>1
  <2> QED BY <1>1, <1>2, <2>1, <2>2, SeqEqual
<1> QED BY <1>3, <1>4

\* The stages of a line, one append at a time.
LEMMA Appends ==
    ASSUME NEW t \in Threads
    PROVE  /\ Append(<<<<t, "header">>>>, <<t, "text">>)
                  = <<<<t, "header">>, <<t, "text">>>>
           /\ Append(<<<<t, "header">>, <<t, "text">>>>, <<t, "newline">>) = Line(t)
<1>1. \A s \in {"header", "text", "newline"} : <<t, s>> \in Pieces
  BY DEF Pieces
<1> QED BY <1>1, AppendShort DEF Line

\* The invariant holds at the start.
LEMMA InitInv == LogInit => LogInv
<1> SUFFICES ASSUME LogInit PROVE LogInv OBVIOUS
<1> USE LockAssumption DEF LogInit, LockInit
<1>1. LogTypeOK BY DEF LogTypeOK, LockTypeOK, LockPcs, Stages
<1>2. LazyInv BY DEF LazyInv
<1>3. BufferInv BY DEF BufferInv
<1>4. LinesWhole BY DEF LinesWhole
<1> QED BY <1>1, <1>2, <1>3, <1>4 DEF LogInv

-----------------------------------------------------------------------------
(* The lock, whatever its users do with it *)

LockInv == LockTypeOK /\ LazyInv

\* A step of mutex_lock or mutex_unlock keeps the lock's own invariant.
LEMMA LockSteps ==
    ASSUME RaceFree, LockInv, NEW t \in Threads,
           Check(t) \/ Locking(t) \/ Leave(t)
    PROVE  LockInv'
<1> USE LockAssumption DEF LockInv, LockTypeOK, LockPcs, LazyInv, GoOn
<1>1. CASE Check(t)
  <2>1. \A u \in Threads : at[u] # "mark" BY <1>1 DEF Check, MayLook
  <2>2. LockTypeOK' BY <1>1 DEF Check
  <2>3. LazyInv' BY <1>1, <2>1 DEF Check
  <2> QED BY <2>2, <2>3
<1>2. CASE Mark(t)
  <2>1. \A u \in Threads : at[u] \in {"enter", "in"} => FALSE BY <1>2 DEF Mark
  <2>2. LockTypeOK' BY <1>2 DEF Mark
  <2>3. LazyInv' BY <1>2, <2>1 DEF Mark
  <2> QED BY <2>2, <2>3
<1>3. CASE InitializeSection(t)
  <2>1. LockTypeOK' BY <1>3 DEF InitializeSection
  <2>2. LazyInv' BY <1>3 DEF InitializeSection
  <2> QED BY <2>1, <2>2
<1>4. CASE Publish(t)
  <2>1. LockTypeOK' BY <1>4 DEF Publish, Published
  <2>2. LazyInv' BY <1>4 DEF Publish, Published
  <2> QED BY <2>1, <2>2
<1>5. CASE Wait(t)
  <2>1. LockTypeOK' BY <1>5 DEF Wait
  <2>2. LazyInv' BY <1>5 DEF Wait, Ready
  <2> QED BY <2>1, <2>2
<1>6. CASE Enter(t)
  <2>1. LockTypeOK' BY <1>6 DEF Enter
  <2>2. LazyInv' BY <1>6 DEF Enter
  <2> QED BY <2>1, <2>2
<1>7. CASE Leave(t)
  <2>1. LockTypeOK' BY <1>7 DEF Leave
  <2>2. LazyInv' BY <1>7 DEF Leave
  <2> QED BY <2>1, <2>2
<1> QED BY <1>1, <1>2, <1>3, <1>4, <1>5, <1>6, <1>7 DEF Locking

-----------------------------------------------------------------------------
(* The log *)

\* While a thread has the mutex no other thread is past the header stage.
LEMMA OneInside ==
    ASSUME LogInv, NEW t \in Threads, at[t] = "in"
    PROVE  \A u \in Threads : u # t => at[u] # "in" /\ stage[u] = "header"
BY LockAssumption DEF LogInv, LazyInv, BufferInv, LogTypeOK, LockTypeOK, Stages

\* A step on the buffer by the thread that has the mutex.
LEMMA WriteSteps ==
    ASSUME LogInv, NEW t \in Threads, Header(t) \/ Text(t) \/ Newline(t)
    PROVE  LogInv'
<1> USE DEF LogInv, Writes
<1>1. UNCHANGED <<lockVars, output>> /\ at[t] = "in"
  BY DEF Header, Text, Newline
<1>2. \A u \in Threads : u # t => at[u] # "in" /\ stage[u] = "header"
  BY <1>1, OneInside
<1>3. LazyInv' /\ LockTypeOK' /\ LinesWhole'
  BY <1>1 DEF lockVars, LazyInv, LogTypeOK, LockTypeOK, LinesWhole, Line
<1>4. CASE Header(t)
  <2>1. buffer' = <<<<t, "header">>>> /\ stage' = [stage EXCEPT ![t] = "text"]
    BY <1>4 DEF Header
  <2>2. LogTypeOK'
    BY <1>1, <1>3, <2>1, LineTypes DEF LogTypeOK, Stages
  <2>3. BufferInv'
    BY <1>1, <1>2, <2>1 DEF BufferInv, LogTypeOK, lockVars
  <2> QED BY <1>3, <2>2, <2>3
<1>5. CASE Text(t)
  <2>1. buffer = <<<<t, "header">>>>
    BY <1>5 DEF Text, BufferInv
  <2>2. /\ buffer' = <<<<t, "header">>, <<t, "text">>>>
        /\ stage' = [stage EXCEPT ![t] = "newline"]
    BY <1>5, <2>1, Appends DEF Text
  <2>3. LogTypeOK'
    BY <1>1, <1>3, <2>2, LineTypes DEF LogTypeOK, Stages
  <2>4. BufferInv'
    BY <1>1, <1>2, <2>2 DEF BufferInv, LogTypeOK, lockVars
  <2> QED BY <1>3, <2>3, <2>4
<1>6. CASE Newline(t)
  <2>1. buffer = <<<<t, "header">>, <<t, "text">>>>
    BY <1>6 DEF Newline, BufferInv
  <2>2. buffer' = Line(t) /\ stage' = [stage EXCEPT ![t] = "print"]
    BY <1>6, <2>1, Appends DEF Newline
  <2>3. LogTypeOK'
    BY <1>1, <1>3, <2>2, LineTypes DEF LogTypeOK, Stages
  <2>4. BufferInv'
    BY <1>1, <1>2, <2>2 DEF BufferInv, LogTypeOK, lockVars, Line
  <2> QED BY <1>3, <2>3, <2>4
<1> QED BY <1>4, <1>5, <1>6

\* A step of the lock leaves the log alone.
LEMMA LockStepsInv ==
    ASSUME RaceFree, LogInv, NEW t \in Threads,
           LogCall(t) \/ Lock(t) \/ Unlock(t)
    PROVE  LogInv'
<1> USE DEF LogInv
<1>1. LockTypeOK' /\ LazyInv'
  <2>1. Check(t) \/ Locking(t) \/ Leave(t)
    BY DEF LogCall, Lock, Unlock
  <2> QED BY <2>1, LockSteps DEF LockInv, LogTypeOK
<1>2. buffer' = buffer /\ output' = output
  BY DEF LogCall, Lock, Unlock
<1>3. LinesWhole'
  BY <1>2 DEF LinesWhole, Line
<1>4. CASE LogCall(t) \/ Lock(t)
  <2>1. stage' = stage
    BY <1>4 DEF LogCall, Lock
  <2>2. \A u \in Threads : at[u] = "in" => at'[u] = "in"
    BY <1>4 DEF LogCall, Lock, Locking, Check, Mark, InitializeSection, Publish, Wait,
                Enter, GoOn, LogTypeOK, LockTypeOK
  <2>3. LogTypeOK'
    BY <1>1, <1>2, <2>1 DEF LogTypeOK
  <2>4. BufferInv'
    BY <1>2, <2>1, <2>2 DEF BufferInv, Line
  <2> QED BY <1>1, <1>3, <2>3, <2>4
<1>5. CASE Unlock(t)
  <2>1. stage' = [stage EXCEPT ![t] = "header"] /\ at[t] = "in"
    BY <1>5 DEF Unlock, Leave
  <2>2. LogTypeOK'
    BY <1>1, <1>2, <2>1 DEF LogTypeOK, Stages
  <2>3. \A u \in Threads : stage'[u] = "header"
    BY <2>1, OneInside DEF LogTypeOK
  <2>4. BufferInv'
    BY <2>3 DEF BufferInv
  <2> QED BY <1>1, <1>3, <2>2, <2>4
<1> QED BY <1>4, <1>5

\* What goes to the debugger is the buffer of a whole line, or an assertion's.
LEMMA PrintSteps ==
    ASSUME LogInv, NEW t \in Threads, OutputDebugString(t) \/ AssertPiece(t)
    PROVE  LogInv'
<1> USE DEF LogInv
<1>1. UNCHANGED <<lockVars, buffer>>
  BY DEF OutputDebugString, AssertPiece
<1>2. LockTypeOK' /\ LazyInv'
  BY <1>1 DEF lockVars, LogTypeOK, LockTypeOK, LazyInv
<1>3. CASE OutputDebugString(t)
  <2>1. /\ at[t] = "in" /\ buffer = Line(t) /\ output' = Line(t)
        /\ stage' = [stage EXCEPT ![t] = "unlock"]
    BY <1>3 DEF OutputDebugString, BufferInv
  <2>2. LogTypeOK'
    BY <1>1, <1>2, <2>1, LineTypes DEF LogTypeOK, Stages
  <2>3. BufferInv'
    BY <1>1, <2>1, OneInside DEF BufferInv, LogTypeOK, lockVars, Line
  <2>4. LinesWhole'
    BY <2>1 DEF LinesWhole, Line
  <2> QED BY <1>2, <2>2, <2>3, <2>4
<1>4. CASE AssertPiece(t)
  <2>1. output' = <<<<t, "assert">>>> /\ stage' = stage
    BY <1>4 DEF AssertPiece
  <2>2. LogTypeOK'
    BY <1>1, <1>2, <2>1, LineTypes DEF LogTypeOK
  <2>3. BufferInv'
    BY <1>1, <2>1 DEF BufferInv, lockVars, Line
  <2>4. LinesWhole'
    BY <2>1 DEF LinesWhole
  <2> QED BY <1>2, <2>2, <2>3, <2>4
<1> QED BY <1>3, <1>4

\* Every step keeps the invariant.
LEMMA NextInv == ASSUME RaceFree, LogInv, [LogNext]_logVars PROVE LogInv'
<1>1. CASE LogNext
  <2>1. PICK t \in Threads : LogCall(t) \/ AssertPiece(t) \/ LogStep(t)
    BY <1>1 DEF LogNext
  <2> QED
    BY <2>1, LockStepsInv, WriteSteps, PrintSteps DEF LogStep
<1>2. CASE UNCHANGED logVars
  BY <1>2 DEF logVars, lockVars, LogInv, LogTypeOK, LockTypeOK, LazyInv, BufferInv,
              LinesWhole, Line
<1> QED BY <1>1, <1>2

-----------------------------------------------------------------------------
(* The composition *)

StoreAct(t) == Store!SetCall(t) \/ Store!StoreStep(t)

\* A step of the composition is one of the log or one of the store.
LEMMA Steps ==
    ASSUME [Next]_allVars
    PROVE  \/ [LogNext]_logVars /\ UNCHANGED storeVars
           \/ (\E t \in Threads : StoreAct(t)) /\ UNCHANGED logVars
  BY DEF Next, Call, Step, LogNext, StoreAct, allVars

-----------------------------------------------------------------------------
(* Types *)

LEMMA FreeIndex ==
    ASSUME slots \subseteq Indexes, slots # Indexes
    PROVE  Store!NextIndex \in Indexes /\ Store!NextIndex \notin slots
<1>1. \E i \in Indexes : i \notin slots
  OBVIOUS
<1> QED
  BY <1>1 DEF Store!NextIndex

LEMMA StoreTypes ==
    ASSUME Store!StoreTypeOK, NEW t \in Threads, StoreAct(t)
    PROVE  Store!StoreTypeOK'
<1> USE DEF Store!StoreTypeOK, Store!SL!LockTypeOK, Store!SL!LockPcs, Store!SL!GoOn,
            Store!Stage
<1>1. CASE Store!SetCall(t)
  BY <1>1 DEF Store!SetCall, Store!SL!Check
<1>2. CASE Store!SetLock(t)
  BY <1>2 DEF Store!SetLock, Store!bodyVars, Store!SL!Locking, Store!SL!Mark,
              Store!SL!InitializeSection, Store!SL!Publish, Store!SL!Published,
              Store!SL!Wait, Store!SL!Enter
<1>3. CASE Store!Inside(t) \/ Store!TlsAllocFails(t) \/ Store!Flag(t)
  BY <1>3 DEF Store!Inside, Store!TlsAllocFails, Store!Flag
<1>4. CASE Store!TlsAlloc(t)
  <2>1. Store!NextIndex \in Indexes
    BY <1>4, FreeIndex DEF Store!TlsAlloc
  <2> QED
    BY <1>4, <2>1 DEF Store!TlsAlloc
<1>5. CASE Store!SetUnlock(t) \/ Store!ReturnUnset(t)
  BY <1>5 DEF Store!SetUnlock, Store!ReturnUnset, Store!GivesUp, Store!SL!Leave
<1>6. CASE Store!SetValue(t)
  BY <1>6 DEF Store!SetValue
<1> QED
  BY <1>1, <1>2, <1>3, <1>4, <1>5, <1>6 DEF StoreAct, Store!StoreStep


LEMMA LogTypes ==
    ASSUME LogTypeOK, [LogNext]_logVars
    PROVE  LogTypeOK'
<1> USE DEF LogTypeOK
<1>1. CASE UNCHANGED logVars
  BY <1>1 DEF logVars, lockVars, LockTypeOK
<1>2. ASSUME NEW t \in Threads, LogCall(t) \/ Lock(t) \/ Unlock(t)
      PROVE  LogTypeOK'
  <2>1. LockTypeOK'
    BY <1>2 DEF LogCall, Lock, Unlock, Check, Locking, Mark, InitializeSection, Publish,
                Published, Wait, Enter, Leave, GoOn, LockTypeOK, LockPcs
  <2>2. stage' \in [Threads -> Stages] /\ UNCHANGED <<buffer, output>>
    BY <1>2 DEF LogCall, Lock, Unlock, Stages
  <2> QED
    BY <2>1, <2>2
<1>3. ASSUME NEW t \in Threads, AssertPiece(t) \/ OutputDebugString(t)
      PROVE  LogTypeOK'
  <2>1. UNCHANGED <<lockVars, buffer>> /\ stage' \in [Threads -> Stages]
    BY <1>3 DEF AssertPiece, OutputDebugString, Stages
  <2>2. output' \in Seq(Pieces)
    BY <1>3, LineTypes DEF AssertPiece, OutputDebugString
  <2> QED
    BY <2>1, <2>2 DEF lockVars, LockTypeOK
<1>4. ASSUME NEW t \in Threads, Header(t) \/ Text(t) \/ Newline(t)
      PROVE  LogTypeOK'
  <2>1. UNCHANGED <<lockVars, output>> /\ stage' \in [Threads -> Stages]
    BY <1>4 DEF Header, Text, Newline, Writes, Stages
  <2>2. <<t, "text">> \in Pieces /\ <<t, "newline">> \in Pieces
    BY DEF Pieces
  <2>3. /\ <<<<t, "header">>>> \in Seq(Pieces) /\ Append(buffer, <<t, "text">>) \in Seq(Pieces)
        /\ Append(buffer, <<t, "newline">>) \in Seq(Pieces)
    BY <2>2, LineTypes, AppendProperties
  <2>4. \/ buffer' = <<<<t, "header">>>> \/ buffer' = Append(buffer, <<t, "text">>)
        \/ buffer' = Append(buffer, <<t, "newline">>)
    BY <1>4 DEF Header, Text, Newline, Writes
  <2> QED
    BY <2>1, <2>3, <2>4 DEF lockVars, LockTypeOK
<1> QED
  BY <1>1, <1>2, <1>3, <1>4 DEF LogNext, LogStep

LEMMA StoreInitTypes ==
    ASSUME Store!StoreInit
    PROVE  Store!StoreTypeOK
<1> USE DEF Store!StoreInit
<1>1. Store!SL!LockTypeOK
  BY DEF Store!SL!LockInit, Store!SL!LockTypeOK, Store!SL!LockPcs
<1>2. tlsData \in [Indexes \cup {0} -> [Threads -> Values \cup {Foreign, Null}]]
  OBVIOUS
<1>3. /\ storeStage \in [Threads -> {"idle"}] /\ arg \in [Threads -> {Null}]
      /\ stored \in [Threads -> {Null}] /\ has_tls = FALSE /\ tls = 0 /\ slots = {}
  OBVIOUS
<1> QED
  BY <1>1, <1>2, <1>3 DEF Store!StoreTypeOK

\* Every variable of the log and of the store keeps its type, also when two
\* threads are the first at a lock at once.
THEOREM ThreadsTyped == Spec => []TypeOK
<1>1. Init => TypeOK
  <2> SUFFICES ASSUME Init PROVE TypeOK
    OBVIOUS
  <2>1. LogTypeOK
    BY InitInv DEF Init, LogInv
  <2>2. Store!StoreTypeOK
    BY StoreInitTypes DEF Init
  <2> QED
    BY <2>1, <2>2 DEF TypeOK
<1>2. TypeOK /\ [Next]_allVars => TypeOK'
  <2> SUFFICES ASSUME TypeOK, [Next]_allVars PROVE TypeOK'
    OBVIOUS
  <2>1. CASE [LogNext]_logVars /\ UNCHANGED storeVars
    <3>1. Store!StoreTypeOK'
      BY <2>1 DEF TypeOK, Store!StoreTypeOK, Store!SL!LockTypeOK, storeVars
    <3> QED
      BY <2>1, <3>1, LogTypes DEF TypeOK
  <2>2. CASE (\E t \in Threads : StoreAct(t)) /\ UNCHANGED logVars
    <3>1. Store!StoreTypeOK'
      BY <2>2, StoreTypes DEF TypeOK
    <3>2. LogTypeOK'
      BY <2>2, LogTypes DEF TypeOK
    <3> QED
      BY <3>1, <3>2 DEF TypeOK
  <2> QED
    BY <2>1, <2>2, Steps
<1> QED
  BY <1>1, <1>2, PTL DEF Spec

-----------------------------------------------------------------------------
(* The store *)

\* The store's lock takes the steps of LazyLock: it excludes.
LEMMA StoreLockSteps ==
    ASSUME RaceFree, Store!StoreTypeOK, Store!SL!LazyInv, NEW t \in Threads,
           Store!SL!Check(t) \/ Store!SL!Locking(t) \/ Store!SL!Leave(t)
    PROVE  Store!SL!LazyInv'
<1> USE LockAssumption DEF Store!SL!LazyInv, Store!SL!GoOn, Store!StoreTypeOK,
                           Store!SL!LockTypeOK, Store!SL!LockPcs
<1>1. CASE Store!SL!Check(t)
  <2>1. \A u \in Threads : storeAt[u] # "mark"
    BY <1>1 DEF Store!SL!Check, Store!SL!MayLook
  <2> QED
    BY <1>1, <2>1 DEF Store!SL!Check
<1>2. CASE Store!SL!Mark(t)
  BY <1>2 DEF Store!SL!Mark
<1>3. CASE Store!SL!InitializeSection(t)
  BY <1>3 DEF Store!SL!InitializeSection
<1>4. CASE Store!SL!Publish(t)
  BY <1>4 DEF Store!SL!Publish, Store!SL!Published
<1>5. CASE Store!SL!Wait(t)
  BY <1>5 DEF Store!SL!Wait, Store!SL!Ready
<1>6. CASE Store!SL!Enter(t)
  BY <1>6 DEF Store!SL!Enter
<1>7. CASE Store!SL!Leave(t)
  BY <1>7 DEF Store!SL!Leave
<1> QED
  BY <1>1, <1>2, <1>3, <1>4, <1>5, <1>6, <1>7 DEF Store!SL!Locking

LEMMA StoreInit == Store!StoreInit => Store!StoreInv
<1> SUFFICES ASSUME Store!StoreInit PROVE Store!StoreInv
  OBVIOUS
<1> USE DEF Store!StoreInit, Store!SL!LockInit
<1>1. Store!StoreTypeOK
  BY StoreInitTypes
<1>2. Store!SL!LazyInv
  BY LockAssumption DEF Store!SL!LazyInv
<1>3. Store!StageInv /\ Store!IndexInv
  BY IndexAssumption DEF Store!StageInv, Store!IndexInv
<1> QED
  BY <1>1, <1>2, <1>3 DEF Store!StoreInv

\* Of the threads in thread_store_set one has the lock.
LEMMA OneSets ==
    ASSUME Store!StoreInv, NEW t \in Threads, storeAt[t] = "in"
    PROVE  \A u \in Threads :
               u # t => storeStage[u] \notin {"alloc", "flag", "unlock", "fail"}
  BY LockAssumption DEF Store!StoreInv, Store!SL!LazyInv, Store!StageInv

\* Steps to and from the lock.
LEMMA StoreLockKeeps ==
    ASSUME RaceFree, Store!StoreInv, NEW t \in Threads,
           \/ Store!SetCall(t) \/ Store!SetLock(t) \/ Store!SetUnlock(t)
           \/ Store!ReturnUnset(t)
    PROVE  Store!StoreInv'
<1> USE DEF Store!StoreInv
<1>1. Store!StoreTypeOK'
  BY StoreTypes DEF StoreAct, Store!StoreStep
<1>2. Store!SL!LazyInv'
  BY StoreLockSteps DEF Store!SetCall, Store!SetLock, Store!SetUnlock, Store!ReturnUnset,
                        Store!GivesUp
<1>3. UNCHANGED <<has_tls, tls, slots, tlsData, stored>>
  BY DEF Store!SetCall, Store!SetLock, Store!SetUnlock, Store!ReturnUnset, Store!bodyVars
<1>4. CASE Store!SetLock(t)
  <2>1. /\ storeStage' = storeStage /\ storeAt[t] \notin {"in", "out"} /\ storeAt'[t] # "out"
        /\ \A u \in Threads : u # t => storeAt'[u] = storeAt[u]
    BY <1>4 DEF Store!SetLock, Store!bodyVars, Store!SL!Locking, Store!SL!Mark,
                Store!SL!InitializeSection, Store!SL!Publish, Store!SL!Wait,
                Store!SL!Enter, Store!SL!GoOn, Store!StoreTypeOK, Store!SL!LockTypeOK
  <2>2. Store!StageInv'
    BY <1>3, <2>1 DEF Store!StageInv
  <2>3. Store!IndexInv'
    BY <1>3, <2>1 DEF Store!IndexInv
  <2> QED
    BY <1>1, <1>2, <2>2, <2>3
<1>5. CASE ~Store!SetLock(t)
  <2>1. /\ \/ storeStage[t] = "idle" /\ storeStage'[t] = "lock"
           \/ storeStage[t] = "unlock" /\ storeStage'[t] = "set" /\ storeAt'[t] = "out"
           \/ storeStage[t] = "fail" /\ storeStage'[t] = "idle" /\ storeAt'[t] = "out"
        /\ \A u \in Threads :
               u # t => storeStage'[u] = storeStage[u] /\ storeAt'[u] = storeAt[u]
    BY <1>5 DEF Store!SetCall, Store!SetUnlock, Store!ReturnUnset, Store!GivesUp,
                Store!SL!Check, Store!SL!Leave, Store!SL!GoOn, Store!Stage,
                Store!StoreTypeOK, Store!SL!LockTypeOK
  <2>2. Store!StageInv'
    BY <1>3, <2>1 DEF Store!StageInv
  <2>3. Store!IndexInv'
    BY <1>3, <2>1 DEF Store!IndexInv
  <2> QED
    BY <1>1, <1>2, <2>2, <2>3
<1> QED
  BY <1>4, <1>5

\* Steps with the lock held, and the one after it.
LEMMA StoreBodyKeeps ==
    ASSUME Store!StoreInv, NEW t \in Threads,
           \/ Store!Inside(t) \/ Store!TlsAlloc(t) \/ Store!TlsAllocFails(t)
           \/ Store!Flag(t) \/ Store!SetValue(t)
    PROVE  Store!StoreInv'
<1> USE DEF Store!StoreInv
<1>1. Store!StoreTypeOK'
  BY StoreTypes DEF StoreAct, Store!StoreStep
<1>2. UNCHANGED <<lock_init, lock_owner, storeAt>>
  BY DEF Store!Inside, Store!TlsAlloc, Store!TlsAllocFails, Store!Flag, Store!SetValue
<1>3. Store!SL!LazyInv'
  BY <1>2 DEF Store!SL!LazyInv
<1>4. CASE Store!Inside(t)
  <2>1. /\ storeAt[t] = "in" /\ UNCHANGED <<has_tls, tls, slots, tlsData, stored>>
        /\ storeStage[t] = "lock" /\ storeStage'[t] = IF has_tls THEN "unlock" ELSE "alloc"
        /\ \A u \in Threads : u # t => storeStage'[u] = storeStage[u]
    BY <1>4 DEF Store!Inside, Store!Allocated, Store!Stage, Store!StoreTypeOK
  <2>2. Store!StageInv'
    BY <1>2, <2>1 DEF Store!StageInv
  <2>3. Store!IndexInv'
    BY <2>1 DEF Store!IndexInv
  <2> QED
    BY <1>1, <1>3, <2>2, <2>3
<1>5. CASE Store!TlsAlloc(t)
  <2>1. /\ storeStage[t] = "alloc" /\ storeStage'[t] = "flag" /\ slots # Indexes
        /\ tls' = Store!NextIndex /\ slots' = slots \cup {Store!NextIndex}
        /\ UNCHANGED <<has_tls, tlsData, stored>>
        /\ \A u \in Threads : u # t => storeStage'[u] = storeStage[u]
    BY <1>5 DEF Store!TlsAlloc, Store!Stage, Store!StoreTypeOK
  <2>2. storeAt[t] = "in" /\ ~has_tls
    BY <2>1 DEF Store!StageInv
  <2>3. \A u \in Threads :
            u # t => storeStage[u] \notin {"alloc", "flag", "unlock", "fail"}
    BY <2>2, OneSets
  <2>4. slots = {}
    BY <2>1, <2>2, <2>3 DEF Store!IndexInv
  <2>5. Store!StageInv'
    BY <1>2, <2>1, <2>2, <2>3 DEF Store!StageInv
  <2>6. Store!IndexInv'
    BY <2>1, <2>2, <2>4 DEF Store!IndexInv
  <2> QED
    BY <1>1, <1>3, <2>5, <2>6
<1>6. CASE Store!TlsAllocFails(t)
  <2>1. /\ storeStage[t] = "alloc" /\ storeStage'[t] = "fail" /\ tls' = OutOfIndexes
        /\ UNCHANGED <<has_tls, slots, tlsData, stored>>
        /\ \A u \in Threads : u # t => storeStage'[u] = storeStage[u]
    BY <1>6 DEF Store!TlsAllocFails, Store!Stage, Store!StoreTypeOK
  <2>2. storeAt[t] = "in" /\ ~has_tls
    BY <2>1 DEF Store!StageInv
  <2>3. \A u \in Threads :
            u # t => storeStage[u] \notin {"alloc", "flag", "unlock", "fail"}
    BY <2>2, OneSets
  <2>4. slots = {}
    BY <2>1, <2>2, <2>3 DEF Store!IndexInv
  <2>5. Store!StageInv'
    BY <1>2, <2>1, <2>2, <2>3 DEF Store!StageInv
  <2>6. Store!IndexInv'
    BY <2>1, <2>2, <2>4 DEF Store!IndexInv
  <2> QED
    BY <1>1, <1>3, <2>5, <2>6
<1>7. CASE Store!Flag(t)
  <2>1. /\ storeStage[t] = "flag" /\ storeStage'[t] = "unlock" /\ has_tls' = TRUE
        /\ UNCHANGED <<tls, slots, tlsData, stored>>
        /\ \A u \in Threads : u # t => storeStage'[u] = storeStage[u]
    BY <1>7 DEF Store!Flag, Store!Stage, Store!StoreTypeOK
  <2>2. storeAt[t] = "in" /\ ~has_tls /\ tls \in slots /\ tls \in Indexes
    BY <2>1 DEF Store!StageInv, Store!StoreTypeOK
  <2>3. \A u \in Threads :
            u # t => storeStage[u] \notin {"alloc", "flag", "unlock", "fail"}
    BY <2>2, OneSets
  <2>4. Store!StageInv'
    BY <1>2, <2>1, <2>2, <2>3 DEF Store!StageInv
  <2>5. Store!IndexInv'
    BY <2>1, <2>2 DEF Store!IndexInv
  <2> QED
    BY <1>1, <1>3, <2>4, <2>5
<1>8. CASE Store!SetValue(t)
  <2>1. /\ storeStage[t] = "set" /\ storeStage'[t] = "idle"
        /\ tlsData' = [tlsData EXCEPT ![tls] = [@ EXCEPT ![t] = arg[t]]]
        /\ stored' = [stored EXCEPT ![t] = arg[t]]
        /\ UNCHANGED <<has_tls, tls, slots>>
        /\ \A u \in Threads : u # t => storeStage'[u] = storeStage[u]
    BY <1>8 DEF Store!SetValue, Store!Stage, Store!StoreTypeOK
  <2>2. has_tls /\ tls \in Indexes /\ storeAt[t] = "out"
    BY <2>1 DEF Store!StageInv, Store!IndexInv, Store!StoreTypeOK
  <2>3. Store!StageInv'
    BY <1>2, <2>1, <2>2 DEF Store!StageInv
  <2>4. Store!IndexInv'
    BY <2>1, <2>2 DEF Store!IndexInv, Store!StoreTypeOK
  <2> QED
    BY <1>1, <1>3, <2>3, <2>4
<1> QED
  BY <1>4, <1>5, <1>6, <1>7, <1>8

LEMMA InitThreads == Init => LogInv /\ Store!StoreInv
  BY InitInv, StoreInit DEF Init

LEMMA ThreadsStep ==
    ASSUME RaceFree, LogInv, Store!StoreInv, [Next]_allVars
    PROVE  LogInv' /\ Store!StoreInv'
<1>1. LogInv'
  <2>1. [LogNext]_logVars
    BY Steps
  <2> QED
    BY <2>1, NextInv
<1>2. CASE UNCHANGED storeVars
  BY <1>1, <1>2 DEF Store!StoreInv, Store!StoreTypeOK, Store!SL!LockTypeOK, Store!SL!LazyInv,
              Store!StageInv, Store!IndexInv, storeVars
<1>3. CASE \E t \in Threads : StoreAct(t)
  BY <1>1, <1>3, StoreLockKeeps, StoreBodyKeeps DEF StoreAct, Store!StoreStep
<1> QED
  BY <1>1, <1>2, <1>3, Steps

\* thread_store_get returns what the thread stored last, at any moment of any
\* other thread's call, and one TLS index was allocated.
THEOREM StoreReadsBack == ASSUME RaceFree PROVE Spec => []ReadsBack
<1>1. LogInv /\ Store!StoreInv /\ [Next]_allVars => LogInv' /\ Store!StoreInv'
  BY ThreadsStep
<1>2. Store!StoreInv => ReadsBack
  BY DEF Store!StoreInv, Store!IndexInv, ReadsBack, Store!ReadsBack, Store!Got
<1> QED
  BY InitThreads, <1>1, <1>2, PTL DEF Spec

\* The lazily initialised mutex of threads.h is held by one thread at a time,
\* also by those that came while the first one was initialising it.
THEOREM LockExcludes == ASSUME RaceFree PROVE Spec => []Excludes
<1>1. LogInv => Excludes
  BY LockAssumption DEF LogInv, LazyInv, Excludes, LogTypeOK, LockTypeOK
<1>2. LogInv /\ Store!StoreInv /\ [Next]_allVars => LogInv' /\ Store!StoreInv'
  BY ThreadsStep
<1> QED
  BY InitThreads, <1>1, <1>2, PTL DEF Spec

\* __android_log_write and __android_log_vprint hand the debugger whole lines of
\* one call each, though all of them share log_buffer.
THEOREM LinesStayWhole == ASSUME RaceFree PROVE Spec => []LinesWhole
<1>1. LogInv => LinesWhole
  BY DEF LogInv
<1>2. LogInv /\ Store!StoreInv /\ [Next]_allVars => LogInv' /\ Store!StoreInv'
  BY ThreadsStep
<1> QED
  BY InitThreads, <1>1, <1>2, PTL DEF Spec
=============================================================================
