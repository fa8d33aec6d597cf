------------------------------ MODULE MsgSocket ------------------------------
(***************************************************************************)
(* sendmsg and recvmsg (usr/src/sys/socket.cpp): messages that carry       *)
(* descriptors, between two processes, over a non-blocking stream socket.  *)
(* A message is framed as a header and a body; sendmsg duplicates each     *)
(* descriptor, takes the duplicate's handle out of its own table and puts  *)
(* the handle value into the frame, and recvmsg moves the handle into its  *)
(* own process (UnixFD::adopt).                                            *)
(*                                                                         *)
(* The stream is reliable and ordered, holds Capacity units, and carries   *)
(* any part of a frame per call.  A timeout may fire whenever the socket   *)
(* is not ready.  A caller that gets an error closes the connection and    *)
(* does not use it again ("consider the connection broken").               *)
(***************************************************************************)
EXTENDS Integers, Sequences, FiniteSets

CONSTANTS
    NMsgs,              \* bound: messages to send
    Carried,            \* descriptors that each message carries
    Bad,                \* numbers in each message's list that are no descriptor
    HeadLen,            \* units of struct packed_msg, a frame's header
    Offset,             \* units in the frames of the messages before each one
    Capacity,           \* units that the socket's buffers hold
    SHandles, RHandles, \* handle values of the sender and of the receiver
    Closed,             \* a handle value that refers to nothing
    Own                 \* a file of the sender that it does not send

Messages == 1..NMsgs

\* get_sendmsg_size: the header and the aligned name, control and data.
FrameLen(m) == Offset[m + 1] - Offset[m]

\* A list of descriptors makes a body, and so do a name and data; each of them
\* may be missing.
ASSUME MsgAssumption ==
    /\ NMsgs \in Nat /\ HeadLen \in Nat \ {0} /\ Capacity \in Nat \ {0}
    /\ Carried \in [Messages -> Nat] /\ Bad \in [Messages -> Nat]
    /\ Offset \in [1..(NMsgs + 1) -> Nat]
    /\ \A m, n \in 1..(NMsgs + 1) : m < n => Offset[m] + HeadLen <= Offset[n]
    /\ \A m \in Messages : FrameLen(m) = HeadLen => Carried[m] + Bad[m] = 0
    /\ Closed # Own

VARIABLES
    spc,       \* the sender: "idle", in sendmsg, "failed", "closed" or "gone"
    sent,      \* messages that sendmsg has accepted
    frame,     \* per message: the handle values in its frame so far
    written,   \* units of the current frame written so far
    sOs,       \* kernel: what each handle of the sender refers to
    sTable,    \* handles in the sender's descriptor table
    stream,    \* units in the socket
    rpc,       \* the receiver: "idle", "head", "body", "adopt", "failed", "closed"
    rbuf,      \* units read by the current recvmsg
    slot,      \* slots of the message that have been adopted so far
    rfds,      \* the descriptors that adopting them gave
    rOs,       \* kernel: what each handle of the receiver refers to
    delivered  \* results of recvmsg: the units, the descriptors' handles, and whether
               \* the caller had room for descriptors

sendVars == <<spc, sent, frame, written, sTable>>
recvVars == <<rpc, rbuf, slot, rfds, rOs, delivered>>
msgVars == <<sendVars, sOs, stream, recvVars>>

IntSize == 4

\* Mutant of FdCount: cmsg_len is not corrected.
FdCount_Listed(m) == Carried[m] + Bad[m]

\* The number of handles that recvmsg takes a message to hold: sendmsg skips a
\* number that is no descriptor, takes one byte off cmsg_len for it, and the
\* receiver divides.
FdCount(m) == (IntSize * (Carried[m] + Bad[m]) - Bad[m]) \div IntSize

\* What a handle refers to: the j-th descriptor of message m, or a file of the
\* sender that is not sent.
Sent == UNION {{<<m, j>> : j \in 1..Carried[m]} : m \in Messages}

ASSUME ObjectsAssumption == Closed \notin Sent /\ Own \notin Sent

Frame(m) == [i \in 1..FrameLen(m) |-> <<m, i>>]
Units == {u \in Messages \X Nat : u[2] \in 1..FrameLen(u[1])}
Current == sent + 1

TypeOK ==
    /\ spc \in {"idle", "send", "failed", "closed", "gone"}
    /\ sent \in 0..NMsgs /\ written \in Nat
    /\ frame \in [Messages -> Seq(SHandles)]
    /\ \A m \in Messages : Len(frame[m]) <= Carried[m]
    /\ sOs \in [SHandles -> Sent \cup {Closed, Own}]
    /\ sTable \subseteq SHandles
    /\ stream \in Seq(Units) /\ Len(stream) <= Capacity
    /\ rpc \in {"idle", "head", "body", "adopt", "failed", "closed"}
    /\ rbuf \in Seq(Units)
    /\ slot \in Nat /\ rfds \in Seq(RHandles)
    /\ rOs \in [RHandles -> Sent \cup {Closed, Own}]
    /\ delivered \in Seq([units : Seq(Units), fds : Seq(RHandles), room : BOOLEAN])

Init ==
    /\ spc = "idle" /\ sent = 0 /\ written = 0
    /\ frame = [m \in Messages |-> <<>>]
    /\ sOs = [h \in SHandles |-> Closed] /\ sTable = {}
    /\ stream = <<>>
    /\ rpc = "idle" /\ rbuf = <<>> /\ slot = 0 /\ rfds = <<>>
    /\ rOs = [r \in RHandles |-> Closed]
    /\ delivered = <<>>

SenderClosed == spc \in {"closed", "gone"}

-----------------------------------------------------------------------------
(* The sender *)

\* Another descriptor of the sender comes and goes: handle values come back.
OwnOpen ==
    /\ spc # "gone" /\ sTable = {}
    /\ \E h \in SHandles :
        /\ sOs[h] = Closed
        /\ sOs' = [sOs EXCEPT ![h] = Own]
        /\ sTable' = {h}
    /\ UNCHANGED <<spc, sent, frame, written, stream, recvVars>>

OwnClose ==
    /\ sTable # {}
    /\ sOs' = [h \in SHandles |-> IF h \in sTable THEN Closed ELSE sOs[h]]
    /\ sTable' = {}
    /\ UNCHANGED <<spc, sent, frame, written, stream, recvVars>>

\* sendmsg
Send ==
    /\ spc = "idle" /\ sent < NMsgs
    /\ spc' = "send" /\ written' = 0
    /\ UNCHANGED <<sent, frame, sOs, sTable, stream, recvVars>>

\* Mutant of Duplicated: the duplicate is closed instead of released.
Duplicated_Closed(h, object) == sOs

\* dup() opens a duplicate, release() takes it out of the table, open.
Duplicated(h, object) == [sOs EXCEPT ![h] = object]

Packed == Len(frame[Current]) = Carried[Current]

\* The loop over the descriptors: dup, osHandle, release.
Pack ==
    /\ spc = "send" /\ ~Packed
    /\ \E h \in SHandles :
        /\ sOs[h] = Closed
        /\ sOs' = Duplicated(h, <<Current, Len(frame[Current]) + 1>>)
        /\ frame' = [frame EXCEPT ![Current] = Append(@, h)]
    /\ UNCHANGED <<spc, sent, written, sTable, stream, recvVars>>

\* Mutants of Piece: a write that succeeded is repeated; ptr does not advance
\* past what has been written.
Piece_Repeated(k) == LET p == SubSeq(Frame(Current), written + 1, written + k)
                     IN  p \o p
Piece_FromStart(k) == SubSeq(Frame(Current), 1, k)

\* The next k units of the frame.
Piece(k) == SubSeq(Frame(Current), written + 1, written + k)

Room == Capacity - Len(stream)

\* blocking_writeall: one write of k units; after the last one sendmsg is done.
Write ==
    /\ spc = "send" /\ Packed /\ rpc # "closed"
    /\ \E k \in 1..Room :
        /\ written + k <= FrameLen(Current)
        /\ stream' = stream \o Piece(k)
        /\ IF written + k = FrameLen(Current)
           THEN spc' = "idle" /\ sent' = Current /\ written' = 0
           ELSE written' = written + k /\ UNCHANGED <<spc, sent>>
    /\ UNCHANGED <<frame, sOs, sTable, recvVars>>

SendFails ==
    /\ spc' = "failed"
    /\ UNCHANGED <<sent, frame, written, sOs, sTable, stream, recvVars>>

\* Mutant of SendTimesOut: select is given no timeout.
SendTimesOut_Never == FALSE /\ UNCHANGED msgVars

\* EWOULDBLOCK, then MSG_TIMEOUT seconds without room: ETIMEDOUT.
SendTimesOut == spc = "send" /\ Packed /\ Room = 0 /\ SendFails

\* The receiver has closed the connection.
SendBreaks == spc = "send" /\ Packed /\ rpc = "closed" /\ SendFails

\* The caller closes the socket.
SenderCloses ==
    /\ spc \in {"idle", "failed"}
    /\ spc' = "closed"
    /\ UNCHANGED <<sent, frame, written, sOs, sTable, stream, recvVars>>

\* The process ends, at any point, and with it all its handles.
SenderExits ==
    /\ spc # "gone"
    /\ spc' = "gone"
    /\ sOs' = [h \in SHandles |-> Closed] /\ sTable' = {}
    /\ UNCHANGED <<sent, frame, written, stream, recvVars>>

-----------------------------------------------------------------------------
(* The receiver: recvmsg *)

Take(k) == SubSeq(stream, 1, k)
Rest(k) == SubSeq(stream, k + 1, Len(stream))

RMsg == rbuf[1][1]

\* readsize, from the lengths of name, control and data at the beginning of the
\* header, and tot_len at its end, as the sender of each of them set it.
ReadSize(buf) == FrameLen(buf[1][1]) - HeadLen
TotLen(buf) == FrameLen(buf[HeadLen][1])

\* The magic number and tot_len are where a header has them, and the lengths
\* agree.
GoodHeader(buf) ==
    /\ buf[1][2] = 1 /\ buf[HeadLen][2] = HeadLen
    /\ ReadSize(buf) = TotLen(buf) - HeadLen

\* What follows a complete header: the body, if there is any.
AfterHeader(buf) ==
    IF ~GoodHeader(buf) THEN "failed" ELSE IF ReadSize(buf) > 0 THEN "body" ELSE "adopt"

\* The header's own loop: with nothing read yet, EWOULDBLOCK returns to the
\* caller (no change here); with a part read, the loop spins on read, and only
\* data, the peer's close or an error gets it out.
HeadRead ==
    /\ rpc \in {"idle", "head"}
    /\ \E k \in 1..Len(stream) :
        /\ Len(rbuf) + k <= HeadLen
        /\ rbuf' = rbuf \o Take(k)
        /\ stream' = Rest(k)
        /\ rpc' = IF Len(rbuf) + k < HeadLen THEN "head"
                  ELSE AfterHeader(rbuf \o Take(k))
    /\ UNCHANGED <<sendVars, sOs, slot, rfds, rOs, delivered>>

\* blocking_readall: one read of k units of the body
BodyRead ==
    /\ rpc = "body"
    /\ \E k \in 1..Len(stream) :
        /\ Len(rbuf) + k <= HeadLen + ReadSize(rbuf)
        /\ rbuf' = rbuf \o Take(k)
        /\ stream' = Rest(k)
        /\ rpc' = IF Len(rbuf) + k < HeadLen + ReadSize(rbuf) THEN "body" ELSE "adopt"
    /\ UNCHANGED <<sendVars, sOs, slot, rfds, rOs, delivered>>

RecvEnds(next) ==
    /\ rpc' = next
    /\ UNCHANGED <<sendVars, sOs, stream, rbuf, slot, rfds, rOs, delivered>>

\* Mutant of BodyTimesOut: select is given no timeout.
BodyTimesOut_Never == FALSE /\ UNCHANGED msgVars

\* MSG_TIMEOUT seconds without data: ETIMEDOUT.
BodyTimesOut == rpc = "body" /\ stream = <<>> /\ ~SenderClosed /\ RecvEnds("failed")

\* read returns 0: the peer has closed the connection.
RecvEof == rpc \in {"idle", "head", "body"} /\ stream = <<>> /\ SenderClosed
               /\ RecvEnds("closed")

\* read fails: the connection was reset, whatever was in it.
RecvBreaks == rpc \in {"idle", "head", "body"} /\ SenderClosed /\ RecvEnds("failed")

\* The caller closes the socket.
ReceiverCloses == rpc = "failed" /\ RecvEnds("closed")

Adopting == rpc = "adopt" /\ slot < FdCount(RMsg)

\* The handle to adopt next: beyond the handles that were packed, the slot holds
\* whatever malloc gave the sender.
Offered(h) ==
    slot < Len(frame[RMsg]) => h = frame[RMsg][slot + 1]

DuplicateHandleOk(h) == spc # "gone" /\ sOs[h] # Closed

\* Mutant of SourceClosed: DuplicateHandle without DUPLICATE_CLOSE_SOURCE.
SourceClosed_Not(h) == sOs

SourceClosed(h) == [sOs EXCEPT ![h] = Closed]

\* UnixFD::adopt(pid, handle, type): the handle moves to the receiver.
Adopt ==
    /\ Adopting
    /\ \E h \in SHandles, r \in RHandles :
        /\ Offered(h) /\ DuplicateHandleOk(h)
        /\ rOs[r] = Closed
        /\ rOs' = [rOs EXCEPT ![r] = sOs[h]]
        /\ rfds' = Append(rfds, r)
        /\ sOs' = SourceClosed(h)
    /\ slot' = slot + 1
    /\ UNCHANGED <<sendVars, stream, rpc, rbuf, delivered>>

\* DuplicateHandle fails, and the local it should have set is used as it is:
\* null or INVALID_HANDLE_VALUE is refused, the slot is skipped; any other
\* value is registered.
AdoptUnset ==
    /\ Adopting
    /\ \E h \in SHandles : Offered(h) /\ ~DuplicateHandleOk(h)
    /\ UNCHANGED rfds \/ \E v \in RHandles : rfds' = Append(rfds, v)
    /\ slot' = slot + 1
    /\ UNCHANGED <<sendVars, sOs, stream, rpc, rbuf, rOs, delivered>>

Returns(result) ==
    /\ delivered' = Append(delivered, result)
    /\ rpc' = "idle" /\ rbuf' = <<>> /\ slot' = 0 /\ rfds' = <<>>
    /\ UNCHANGED <<sendVars, sOs, stream, rOs>>

\* recvmsg returns the data and the descriptors that were adopted.
Deliver ==
    /\ rpc = "adopt" /\ slot = FdCount(RMsg)
    /\ Returns([units |-> rbuf, fds |-> rfds, room |-> TRUE])

\* A caller that left no room for control (msg_controllen is zero) gets the data
\* alone; nobody closes the handles in the frame.
DeliverDataOnly ==
    /\ Adopting /\ slot = 0
    /\ Returns([units |-> rbuf, fds |-> <<>>, room |-> FALSE])

-----------------------------------------------------------------------------
SendStep == Pack \/ Write \/ SendTimesOut \/ SendBreaks
RecvStep ==
    \/ HeadRead \/ BodyRead \/ BodyTimesOut \/ RecvEof
    \/ Adopt \/ AdoptUnset \/ Deliver \/ DeliverDataOnly

Next ==
    \/ OwnOpen \/ OwnClose \/ Send \/ SendStep \/ SenderCloses \/ SenderExits
    \/ RecvStep \/ RecvBreaks \/ ReceiverCloses

\* A call goes on as long as it can, on the process that makes it.  Nothing
\* makes a caller send, receive, close or exit.
RecvFair == WF_msgVars(rpc # "idle" /\ RecvStep)
SendFair == WF_msgVars(SendStep)

MsgSpec == Init /\ [][Next]_msgVars /\ SendFair /\ RecvFair

\* The peer of the receiver may stop for ever, in the middle of a call.
RecvSpec == Init /\ [][Next]_msgVars /\ RecvFair

-----------------------------------------------------------------------------
(* Properties *)

\* The messages that recvmsg returns are the first ones sent, in order, each
\* whole, however the stream cut them and wherever a peer stopped.
MessagesWhole ==
    \A i \in 1..Len(delivered) : delivered[i].units = Frame(i)

Adopted(m, j) ==
    \/ m <= Len(delivered) /\ delivered[m].room
    \/ m = Len(delivered) + 1 /\ j <= slot

\* As long as the sender runs, a handle value in a frame that has not been
\* adopted is the duplicate that was made for it: still open, out of the
\* sender's own table, and not handed out again for something else.
InFlightOpen ==
    spc # "gone" =>
        \A m \in Messages : \A j \in 1..Len(frame[m]) :
            ~Adopted(m, j) => sOs[frame[m][j]] = <<m, j>> /\ frame[m][j] \notin sTable

\* What a recvmsg of a running sender's message returns to a caller with room
\* for them are descriptors of the objects that were sent, all of them, in the
\* order of the list, though sender and receiver count them by themselves.
DescriptorsArrive ==
    spc # "gone" =>
        \A m \in 1..Len(delivered) : delivered[m].room =>
            [j \in DOMAIN delivered[m].fds |-> rOs[delivered[m].fds[j]]]
                = [j \in 1..Carried[m] |-> <<m, j>>]

Holders(object) ==
    Cardinality({h \in SHandles : sOs[h] = object})
        + Cardinality({r \in RHandles : rOs[r] = object})

\* A descriptor under way is open in one of the two processes and never in
\* both: adopting it moves it.
OneHolder ==
    \A m \in Messages : \A j \in 1..Len(frame[m]) :
        /\ Holders(<<m, j>>) <= 1
        /\ spc # "gone" => Holders(<<m, j>>) = 1

\* sendmsg returns, also when the receiver never reads.
SendReturns == spc = "send" ~> spc # "send"

\* A recvmsg that has its header returns, also when the rest never comes.
BodyReturns == rpc \in {"body", "adopt"} ~> rpc \notin {"body", "adopt"}

\* "If we do not read/send anything for 10 seconds, consider the connection
\* broken ... No point busy waiting or blocking beyond that": a recvmsg that
\* has begun to read returns.
RecvReturns == rpc \in {"head", "body", "adopt"} ~> rpc \notin {"head", "body", "adopt"}

\* ASSERT(success) in adopt: DuplicateHandle succeeds whenever it is called.
AdoptSucceeds == Adopting => \A h \in SHandles : Offered(h) => DuplicateHandleOk(h)
-----------------------------------------------------------------------------
(* The inductive invariant behind MessagesWhole *)

\* Units written and units read since the connection was made, and the place of
\* a unit among them.
Emitted == Offset[Current] + written
Received == Offset[Len(delivered) + 1] + Len(rbuf)
PlaceOf(unit) == Offset[unit[1]] + unit[2]

\* The units between the two ends are those written and not yet read, in order:
\* each is where its message and its place in the frame put it.
StreamInv ==
    /\ Len(stream) = Emitted - Received
    /\ \A i \in 1..Len(stream) : PlaceOf(stream[i]) = Received + i

\* What has been read of a message is the beginning of its frame.
BufferInv == \A i \in 1..Len(rbuf) : rbuf[i] = <<Len(delivered) + 1, i>>

PhaseInv ==
    /\ spc = "idle" => written = 0
    /\ spc = "send" => sent < NMsgs
    /\ written > 0 => sent < NMsgs /\ written < FrameLen(Current)
    /\ Len(delivered) <= NMsgs
    /\ rpc \in {"head", "body", "adopt"} => Len(delivered) < NMsgs
    /\ rpc = "idle" => rbuf = <<>>
    /\ rpc = "head" => Len(rbuf) \in 1..(HeadLen - 1)
    /\ rpc = "body" => Len(rbuf) \in HeadLen..(FrameLen(Len(delivered) + 1) - 1)
    /\ rpc = "adopt" => Len(rbuf) = FrameLen(Len(delivered) + 1)

\* -- of the handles

\* A frame is packed before its first unit is written.
FramesInv ==
    /\ \A m \in Messages : /\ m <= sent => Len(frame[m]) = Carried[m]
                           /\ m > Current => frame[m] = <<>>
    /\ spc = "idle" /\ sent < NMsgs => frame[Current] = <<>>
    /\ written > 0 => Packed
    /\ \A h \in sTable : sOs[h] = Own
    /\ spc = "gone" => sTable = {} /\ \A h \in SHandles : sOs[h] = Closed

SlotInv ==
    /\ rpc # "adopt" => slot = 0 /\ rfds = <<>>
    /\ rpc = "adopt" => slot <= Carried[Len(delivered) + 1]

\* A handle of the sender that refers to a sent object is the one in its frame,
\* and its slot is yet to be adopted.
SenderHolds ==
    /\ \A h \in SHandles, m \in Messages : \A j \in 1..Carried[m] :
           sOs[h] = <<m, j>> =>
               j <= Len(frame[m]) /\ h = frame[m][j] /\ ~Adopted(m, j)
    /\ spc # "gone" =>
           \A m \in Messages : \A j \in 1..Len(frame[m]) :
               ~Adopted(m, j) => sOs[frame[m][j]] = <<m, j>>

\* An object that has been adopted has one handle in the receiver.
ReceiverHolds ==
    /\ \A r \in RHandles, m \in Messages : \A j \in 1..Carried[m] :
           rOs[r] = <<m, j>> => j <= Len(frame[m]) /\ Adopted(m, j)
    /\ \A q, r \in RHandles : rOs[q] = rOs[r] /\ rOs[q] # Closed => q = r
    /\ spc # "gone" =>
           /\ Len(rfds) = slot
           /\ \A j \in 1..slot : rOs[rfds[j]] = <<Len(delivered) + 1, j>>
           /\ \A m \in 1..Len(delivered) : delivered[m].room =>
                  /\ Len(delivered[m].fds) = Carried[m]
                  /\ \A j \in 1..Carried[m] : rOs[delivered[m].fds[j]] = <<m, j>>

WholeInv == TypeOK /\ StreamInv /\ BufferInv /\ PhaseInv /\ MessagesWhole
HandleInv == FramesInv /\ SlotInv /\ SenderHolds /\ ReceiverHolds
=============================================================================
