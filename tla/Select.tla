------------------------------- MODULE Select -------------------------------
(***************************************************************************)
(* select(), poll() and the FD_ macros of the "ndk" library (sys/select.h  *)
(* and poll.h), around the timer resolution of TimerResolution.  A         *)
(* caller's fd_set holds descriptors until select() overwrites them with   *)
(* socket handles, and FD_ISSET looks a descriptor's handle up in it;      *)
(* poll() converts a copy.  Descriptors and handles are both integers and  *)
(* may be the same ones.  The three sets of a select() are treated alike:  *)
(* a caller has one, or none (a sleep).                                    *)
(***************************************************************************)
EXTENDS TimerResolution, SequencesExt

CONSTANTS
    Selectors,  \* threads that pass a set to select()
    Pollers,    \* threads that call poll(); the others only sleep in select()
    Sockets,    \* open sockets' descriptors
    HandleOf,   \* the handle of each
    FD_SETSIZE

ASSUME SelectAssumption ==
    /\ Selectors \cup Pollers \subseteq Threads /\ Selectors \cap Pollers = {}
    /\ \A a, b \in Sockets : HandleOf[a] = HandleOf[b] => a = b
    /\ FD_SETSIZE \in Nat

VARIABLES
    phase,   \* in select() or poll(): "out", "convert", "kernel" or "leave"; "failed":
             \* out of a poll() that returned an error
    set,     \* fd_array of each caller's fd_set
    form,    \* what the set holds: "fds", "handles" or, after an error, "failed"
    wanted,  \* the descriptors that the caller put in and did not take out
    over,    \* whether they were ever more than FD_SETSIZE, since FD_ZERO
    ready,   \* the sockets the caller's last call found ready
    fds,     \* poll(): the fd of each entry of the caller's array
    copy,    \* poll(): the fd of each entry of _fds
    revents  \* poll(): whether each entry of the caller's array reports an event

setVars == <<set, form, wanted, over>>
pollVars == <<fds, copy, revents>>
selectVars == <<timerVars, phase, setVars, ready, pollVars>>

Handles == {HandleOf[fd] : fd \in Sockets}

SelectTypeOK ==
    /\ TypeOK
    /\ phase \in [Threads -> {"out", "convert", "kernel", "leave", "failed"}]
    /\ set \in [Selectors -> Seq(Sockets \cup Handles)]
    /\ \A t \in Selectors : Len(set[t]) <= FD_SETSIZE
    /\ form \in [Selectors -> {"fds", "handles", "failed"}]
    /\ wanted \in [Selectors -> SUBSET Sockets] /\ over \in [Selectors -> BOOLEAN]
    /\ ready \in [Selectors \cup Pollers -> SUBSET Sockets]
    /\ fds \in [Pollers -> Seq(Sockets)] /\ copy \in [Pollers -> Seq(Handles)]
    /\ revents \in [Pollers -> Seq(BOOLEAN)]
    /\ \A t \in Pollers : Len(fds[t]) = Len(revents[t])

SelectInit ==
    /\ Init
    /\ phase = [t \in Threads |-> "out"]
    /\ set = [t \in Selectors |-> <<>>]
    /\ form = [t \in Selectors |-> "fds"]
    /\ wanted = [t \in Selectors |-> {}] /\ over = [t \in Selectors |-> FALSE]
    /\ ready = [t \in Selectors \cup Pollers |-> {}]
    /\ fds = [t \in Pollers |-> <<>>]
    /\ copy = [t \in Pollers |-> <<>>]
    /\ revents = [t \in Pollers |-> <<>>]

Enters(t, now, next) == phase[t] = now /\ phase' = [phase EXCEPT ![t] = next]

-----------------------------------------------------------------------------
(* FD_ZERO, FD_SET, FD_CLR, FD_ISSET *)

\* The callers' part: a set that select() has rewritten is only asked until
\* FD_ZERO.
Building(t) == phase[t] = "out" /\ form[t] = "fds"

FdZero(t) ==
    /\ phase[t] = "out"
    /\ set' = [set EXCEPT ![t] = <<>>]
    /\ form' = [form EXCEPT ![t] = "fds"]
    /\ wanted' = [wanted EXCEPT ![t] = {}] /\ over' = [over EXCEPT ![t] = FALSE]
    /\ ready' = [ready EXCEPT ![t] = {}]
    /\ UNCHANGED <<timerVars, phase, pollVars>>

\* Mutant of Added: the descriptor may be there already.
Added_Twice(s, fd) == IF Len(s) < FD_SETSIZE THEN Append(s, fd) ELSE s

\* fd_array after FD_SET: a full set stays as it is, and nobody is told.
Added(s, fd) ==
    IF fd \notin ToSet(s) /\ Len(s) < FD_SETSIZE THEN Append(s, fd) ELSE s

FdSet(t, fd) ==
    /\ Building(t)
    /\ set' = [set EXCEPT ![t] = Added(@, fd)]
    /\ wanted' = [wanted EXCEPT ![t] = @ \cup {fd}]
    /\ over' = [over EXCEPT ![t] = @ \/ Cardinality(wanted[t] \cup {fd}) > FD_SETSIZE]
    /\ UNCHANGED <<timerVars, phase, form, ready, pollVars>>

\* FD_CLR closes the gap and stops.
FdClr(t, fd) ==
    /\ Building(t)
    /\ set' = [set EXCEPT ![t] = RemoveFirst(@, fd)]
    /\ wanted' = [wanted EXCEPT ![t] = @ \ {fd}]
    /\ UNCHANGED <<timerVars, phase, form, over, ready, pollVars>>

FD_ISSET(t, fd) == HandleOf[fd] \in ToSet(set[t])

-----------------------------------------------------------------------------
(* select() *)

\* TimerResolutionController controller(timeout)
SelectCall(t) ==
    /\ t \notin Pollers /\ (t \in Selectors => form[t] = "fds")
    /\ Enters(t, "out", "convert")
    /\ EnterShort(t) \/ EnterLong(t)
    /\ UNCHANGED <<setVars, ready, pollVars>>

SelectRaises(t) == TimeBeginPeriod(t) /\ UNCHANGED <<phase, setVars, ready, pollVars>>

Converted(s) == [i \in DOMAIN s |-> HandleOf[s[i]]]

\* convert_fd_set, in place
Convert(t) ==
    /\ pc[t] \in {"wait", "long_wait"}
    /\ Enters(t, "convert", "kernel")
    /\ IF t \in Selectors
       THEN /\ set' = [set EXCEPT ![t] = Converted(@)]
            /\ form' = [form EXCEPT ![t] = "handles"]
       ELSE UNCHANGED <<set, form>>
    /\ UNCHANGED <<timerVars, wanted, over, ready, pollVars>>

\* The handles of r that are in fd_array; which comes first makes no difference.
Kept(s, r) == SetToSeq(ToSet(s) \cap {HandleOf[fd] : fd \in r})

\* Winsock's select leaves the sockets that are ready in the set ...
Selects(t) ==
    /\ Enters(t, "kernel", "leave")
    /\ IF t \in Selectors
       THEN \E r \in SUBSET Sockets :
                /\ ready' = [ready EXCEPT ![t] = r]
                /\ set' = [set EXCEPT ![t] = Kept(@, r)]
       ELSE UNCHANGED <<ready, set>>
    /\ UNCHANGED <<timerVars, form, wanted, over, pollVars>>

\* ... or fails and leaves it as it is.
SelectFails(t) ==
    /\ Enters(t, "kernel", "leave")
    /\ IF t \in Selectors THEN form' = [form EXCEPT ![t] = "failed"] ELSE UNCHANGED form
    /\ UNCHANGED <<timerVars, set, wanted, over, ready, pollVars>>

\* ~TimerResolutionController
SelectReturns(t) ==
    /\ Enters(t, "leave", "out")
    /\ LeaveShort(t) \/ LeaveLong(t)
    /\ UNCHANGED <<setVars, ready, pollVars>>

SelectLowers(t) == TimeEndPeriod(t) /\ UNCHANGED <<phase, setVars, ready, pollVars>>

-----------------------------------------------------------------------------
(* poll() *)

\* The array is copied, and the copy's descriptors become handles; an entry may
\* name a socket that another one names.  The caller may have left anything in
\* revents, an earlier call's answers for one.
PollCall(t) ==
    /\ phase[t] # "kernel" /\ phase' = [phase EXCEPT ![t] = "kernel"]
    /\ \E a, b \in Sockets :
        /\ fds' = [fds EXCEPT ![t] = <<a, b>>]
        /\ copy' = [copy EXCEPT ![t] = Converted(<<a, b>>)]
    /\ \E left \in BOOLEAN : revents' = [revents EXCEPT ![t] = <<left, left>>]
    /\ ready' = [ready EXCEPT ![t] = {}]
    /\ UNCHANGED <<timerVars, setVars>>

\* WSAPoll, whose revents are copied back ...
PollReturns(t) ==
    /\ Enters(t, "kernel", "out")
    /\ \E r \in SUBSET ToSet(fds[t]) :
        /\ ready' = [ready EXCEPT ![t] = r]
        /\ revents' = [revents EXCEPT ![t] =
                          [i \in DOMAIN copy[t] |-> \E fd \in r : HandleOf[fd] = copy[t][i]]]
    /\ copy' = [copy EXCEPT ![t] = <<>>]
    /\ UNCHANGED <<timerVars, setVars, fds>>

\* ... or fails, and what is copied back is what the caller had left there.
PollFails(t) ==
    /\ Enters(t, "kernel", "failed")
    /\ copy' = [copy EXCEPT ![t] = <<>>]
    /\ UNCHANGED <<timerVars, setVars, ready, fds, revents>>

-----------------------------------------------------------------------------
SetStep(t) ==
    FdZero(t) \/ \E fd \in Sockets : FdSet(t, fd) \/ FdClr(t, fd)

SelectStep(t) ==
    \/ SelectCall(t) \/ SelectRaises(t) \/ Convert(t) \/ Selects(t) \/ SelectFails(t)
    \/ SelectReturns(t) \/ SelectLowers(t)

SelectNext ==
    \/ \E t \in Selectors : SetStep(t)
    \/ \E t \in Threads \ Pollers : SelectStep(t)
    \/ \E t \in Pollers : PollCall(t) \/ PollReturns(t) \/ PollFails(t)

SelectSpec == SelectInit /\ [][SelectNext]_selectVars

-----------------------------------------------------------------------------
(* Properties *)

\* After select() FD_ISSET holds of the descriptors that the caller put into the
\* set and did not take out and whose socket was ready, and of no other one,
\* though the set holds descriptors at first and handles then.  A caller that
\* put in too many may miss some, but is told of none that it did not put in or
\* that is not ready.  A poll() without an error reports to each entry what is
\* true of that entry's socket.
AnswersMatch ==
    /\ \A t \in Selectors :
        phase[t] = "out" /\ form[t] = "handles" =>
            LET answers == {fd \in Sockets : FD_ISSET(t, fd)} IN
            /\ answers \subseteq wanted[t] \cap ready[t]
            /\ ~over[t] => answers = wanted[t] \cap ready[t]
    /\ \A t \in Pollers :
        phase[t] = "out" =>
            \A i \in DOMAIN fds[t] : revents[t][i] <=> fds[t][i] \in ready[t]

-----------------------------------------------------------------------------
(* The inductive invariant behind AnswersMatch *)

\* The sockets whose descriptors, or then whose handles, a caller's set holds,
\* when FD_SET found room for those in held.
Holding(t, held) ==
    IF form[t] = "handles" /\ phase[t] # "kernel" THEN held \cap ready[t] ELSE held

\* Until select() a set holds each descriptor that the caller wants, and that it
\* had room for, once, so that FD_CLR takes it out; from the conversion on it
\* holds their handles.
SetHolds(t, held) ==
    /\ IsFiniteSet(held) /\ Cardinality(held) <= FD_SETSIZE
    /\ ~over[t] => held = wanted[t]
    /\ form[t] = "fds" =>
           /\ ToSet(set[t]) = Holding(t, held)
           /\ IsInjective(set[t]) /\ Len(set[t]) = Cardinality(held)
    /\ form[t] = "handles" => ToSet(set[t]) = {HandleOf[fd] : fd \in Holding(t, held)}

SetKept(t) ==
    /\ phase[t] = "convert" => form[t] = "fds"
    /\ phase[t] = "kernel" => form[t] = "handles"
    /\ phase[t] = "leave" => form[t] # "fds"
    /\ phase[t] # "failed"
    /\ IsFiniteSet(wanted[t])
    /\ \E held \in SUBSET wanted[t] : SetHolds(t, held)

\* A poll() asks for the handles of its entries, and keeps what it answered.
PollKept(t) ==
    /\ phase[t] \in {"out", "kernel", "failed"}
    /\ phase[t] = "kernel" => copy[t] = Converted(fds[t])
    /\ phase[t] = "out" =>
           \A i \in DOMAIN fds[t] : revents[t][i] <=> fds[t][i] \in ready[t]

SetInv == \A t \in Selectors : SetKept(t)

PollInv == \A t \in Pollers : PollKept(t)

SelectInv == SelectTypeOK /\ SetInv /\ PollInv
=============================================================================
