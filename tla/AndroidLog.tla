----------------------------- MODULE AndroidLog -----------------------------
(***************************************************************************)
(* The log of liblog on Windows (logd_write_win32.cpp): a line is put      *)
(* together in one static buffer, under a lazily initialised mutex, and    *)
(* goes to the debugger as one string.  __android_log_assert also writes   *)
(* strings of its own, outside of the mutex.                               *)
(***************************************************************************)
EXTENDS LazyLock, Sequences

VARIABLES
    stage,   \* what each thread does next once it has the mutex
    buffer,  \* log_buffer: the pieces in it, each with the thread it is from
    output   \* the last string that the debugger got

logVars == <<lockVars, stage, buffer, output>>

Stages == {"header", "text", "newline", "print", "unlock"}
Pieces == Threads \X {"header", "text", "newline", "assert"}

LogTypeOK ==
    /\ LockTypeOK
    /\ stage \in [Threads -> Stages]
    /\ buffer \in Seq(Pieces)
    /\ output \in Seq(Pieces)

LogInit ==
    /\ LockInit
    /\ stage = [t \in Threads |-> "header"]
    /\ buffer = <<>> /\ output = <<>>

-----------------------------------------------------------------------------
(* __android_log_write, __android_log_vprint *)

\* AutoMutexLocker
Lock(t) == Locking(t) /\ UNCHANGED <<stage, buffer, output>>

Writes(t, now, next, pieces) ==
    /\ at[t] = "in" /\ stage[t] = now
    /\ buffer' = pieces
    /\ stage' = [stage EXCEPT ![t] = next]
    /\ UNCHANGED <<lockVars, output>>

\* Mutant of Header: the header is appended.
Header_Appended(t) == Writes(t, "header", "text", Append(buffer, <<t, "header">>))

\* sprintf to the start of the buffer, strcat of the text, strcat of the end
Header(t) == Writes(t, "header", "text", <<<<t, "header">>>>)
Text(t) == Writes(t, "text", "newline", Append(buffer, <<t, "text">>))
Newline(t) == Writes(t, "newline", "print", Append(buffer, <<t, "newline">>))

\* OutputDebugStringA
OutputDebugString(t) ==
    /\ at[t] = "in" /\ stage[t] = "print"
    /\ output' = buffer
    /\ stage' = [stage EXCEPT ![t] = "unlock"]
    /\ UNCHANGED <<lockVars, buffer>>

\* ~AutoMutexLocker
Unlock(t) ==
    /\ stage[t] = "unlock"
    /\ Leave(t)
    /\ stage' = [stage EXCEPT ![t] = "header"]
    /\ UNCHANGED <<buffer, output>>

\* A call begins with the look at the mutex.
LogCall(t) == Check(t) /\ UNCHANGED <<stage, buffer, output>>

\* __android_log_assert: "ASSERT: ", the condition and the end of the line are
\* strings of their own; then it logs.
AssertPiece(t) ==
    /\ at[t] = "out"
    /\ output' = <<<<t, "assert">>>>
    /\ UNCHANGED <<lockVars, stage, buffer>>

LogStep(t) ==
    Lock(t) \/ Header(t) \/ Text(t) \/ Newline(t) \/ OutputDebugString(t) \/ Unlock(t)

LogNext == \E t \in Threads : LogCall(t) \/ AssertPiece(t) \/ LogStep(t)

-----------------------------------------------------------------------------
(* Properties *)

Line(t) == <<<<t, "header">>, <<t, "text">>, <<t, "newline">>>>

\* What the debugger gets is a whole line of one thread, or one of the strings
\* of an assertion: no line is made of the pieces of two calls that shared the
\* buffer.
LinesWhole ==
    output # <<>> => \E t \in Threads : output \in {Line(t), <<<<t, "assert">>>>}

-----------------------------------------------------------------------------
(* The inductive invariant behind LinesWhole *)

\* The thread that has the mutex has put into the buffer what its stage says.
BufferInv ==
    \A t \in Threads :
        /\ stage[t] # "header" => at[t] = "in"
        /\ stage[t] = "text" => buffer = <<<<t, "header">>>>
        /\ stage[t] = "newline" => buffer = <<<<t, "header">>, <<t, "text">>>>
        /\ stage[t] = "print" => buffer = Line(t)

LogInv == LogTypeOK /\ LazyInv /\ BufferInv /\ LinesWhole
=============================================================================
