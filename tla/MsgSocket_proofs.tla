-------------------------- MODULE MsgSocket_proofs --------------------------
(***************************************************************************)
(* Messages and descriptors between two processes, for any number of       *)
(* messages, any lengths of their frames, any socket buffer and any        *)
(* handles.                                                                *)
(***************************************************************************)
EXTENDS MsgSocket, SequenceTheorems, FiniteSetTheorems, TLAPS

-----------------------------------------------------------------------------
(* Places in the stream *)

LEMMA FrameFacts ==
    /\ NMsgs \in Nat /\ HeadLen \in Nat \ {0} /\ Capacity \in Nat \ {0}
    /\ Messages = 1..NMsgs
    /\ \A m \in 1..(NMsgs + 1) : Offset[m] \in Nat
    /\ \A m \in Messages :
           /\ m \in 1..(NMsgs + 1) /\ m + 1 \in 1..(NMsgs + 1)
           /\ FrameLen(m) \in Nat /\ FrameLen(m) >= HeadLen
           /\ Offset[m + 1] = Offset[m] + FrameLen(m)
<1>1. /\ NMsgs \in Nat /\ HeadLen \in Nat \ {0} /\ Capacity \in Nat \ {0}
      /\ Messages = 1..NMsgs
  BY MsgAssumption DEF Messages
<1>2. \A m \in 1..(NMsgs + 1) : Offset[m] \in Nat
  BY MsgAssumption
<1>3. ASSUME NEW m \in Messages
      PROVE  /\ m \in 1..(NMsgs + 1) /\ m + 1 \in 1..(NMsgs + 1)
             /\ FrameLen(m) \in Nat /\ FrameLen(m) >= HeadLen
             /\ Offset[m + 1] = Offset[m] + FrameLen(m)
  <2>1. m \in 1..(NMsgs + 1) /\ m + 1 \in 1..(NMsgs + 1) /\ m < m + 1
    BY <1>1
  <2>2. Offset[m] + HeadLen <= Offset[m + 1]
    BY <2>1, MsgAssumption
  <2> QED
    BY <1>1, <1>2, <2>1, <2>2 DEF FrameLen
<1> QED
  BY <1>1, <1>2, <1>3

\* The frames of earlier messages end before a later one begins.
LEMMA Later ==
    ASSUME NEW x \in 1..(NMsgs + 1), NEW y \in 1..(NMsgs + 1), x < y
    PROVE  x \in Messages /\ Offset[x + 1] <= Offset[y]
<1>1. x \in Messages /\ x + 1 \in 1..(NMsgs + 1)
  BY FrameFacts
<1>2. CASE x + 1 = y
  BY <1>1, <1>2, FrameFacts
<1>3. CASE x + 1 < y
  <2>1. Offset[x + 1] + HeadLen <= Offset[y]
    BY <1>1, <1>3, MsgAssumption
  <2> QED
    BY <1>1, <2>1, FrameFacts
<1> QED
  BY <1>1, <1>2, <1>3

\* A place in the stream belongs to one message and one place in its frame.
LEMMA OnePlace ==
    ASSUME NEW x \in Messages, NEW y \in Messages,
           NEW i \in 1..FrameLen(x), NEW k \in 1..FrameLen(y),
           Offset[x] + i = Offset[y] + k
    PROVE  x = y /\ i = k
<1>1. /\ Offset[x] \in Nat /\ Offset[y] \in Nat
      /\ FrameLen(x) \in Nat /\ FrameLen(y) \in Nat
      /\ Offset[x + 1] = Offset[x] + FrameLen(x) /\ Offset[y + 1] = Offset[y] + FrameLen(y)
      /\ x \in 1..(NMsgs + 1) /\ y \in 1..(NMsgs + 1) /\ x \in Int /\ y \in Int
  BY FrameFacts
<1>2. ~(x < y)
  <2> SUFFICES ASSUME x < y PROVE FALSE
    OBVIOUS
  <2>1. Offset[x + 1] <= Offset[y]
    BY <1>1, Later
  <2> QED
    BY <1>1, <2>1
<1>3. ~(y < x)
  <2> SUFFICES ASSUME y < x PROVE FALSE
    OBVIOUS
  <2>1. Offset[y + 1] <= Offset[x]
    BY <1>1, Later
  <2> QED
    BY <1>1, <2>1
<1>4. x = y
  BY <1>1, <1>2, <1>3
<1> QED
  BY <1>1, <1>4

LEMMA PieceUnits ==
    ASSUME TypeOK, sent < NMsgs, NEW k \in Nat \ {0}, written + k <= FrameLen(Current)
    PROVE  /\ Piece(k) \in Seq(Units) /\ Len(Piece(k)) = k
           /\ \A i \in 1..k : Piece(k)[i] = <<sent + 1, written + i>>
<1>1. /\ sent \in Nat /\ written \in Nat /\ Current = sent + 1 /\ Current \in Messages
      /\ FrameLen(Current) \in Nat
  BY FrameFacts DEF TypeOK, Current
<1>2. \A i \in (written + 1)..(written + k) : i \in 1..FrameLen(Current)
  BY <1>1
<1>3. \A i \in (written + 1)..(written + k) :
          Frame(Current)[i] = <<sent + 1, i>> /\ Frame(Current)[i] \in Units
  <2> SUFFICES ASSUME NEW i \in (written + 1)..(written + k)
               PROVE  Frame(Current)[i] = <<sent + 1, i>> /\ Frame(Current)[i] \in Units
    OBVIOUS
  <2>1. i \in 1..FrameLen(Current) /\ i \in Nat
    BY <1>1, <1>2
  <2>2. Frame(Current)[i] = <<Current, i>>
    BY <2>1 DEF Frame
  <2>3. <<Current, i>> \in Units
    BY <1>1, <2>1 DEF Units
  <2> QED
    BY <1>1, <2>2, <2>3
<1>4. /\ Piece(k) \in Seq(Units) /\ Len(Piece(k)) = k
      /\ \A i \in 1..k : Piece(k)[i] = Frame(Current)[written + 1 + i - 1]
  BY <1>1, <1>3, SubSeqProperties DEF Piece
<1>5. \A i \in 1..k : written + 1 + i - 1 = written + i
                      /\ written + i \in (written + 1)..(written + k)
  BY <1>1
<1> QED
  BY <1>3, <1>4, <1>5

LEMMA TakeRest ==
    ASSUME NEW U, stream \in Seq(U), NEW k \in 1..Len(stream)
    PROVE  /\ Take(k) \in Seq(U) /\ Len(Take(k)) = k
           /\ \A i \in 1..k : Take(k)[i] = stream[i]
           /\ Rest(k) \in Seq(U) /\ Len(Rest(k)) = Len(stream) - k
           /\ \A i \in 1..(Len(stream) - k) : Rest(k)[i] = stream[k + i]
<1>1. Len(stream) \in Nat /\ \A i \in 1..Len(stream) : stream[i] \in U
  BY ElementOfSeq, LenProperties
<1>2. /\ Take(k) \in Seq(U) /\ Len(Take(k)) = k
      /\ \A i \in 1..k : Take(k)[i] = stream[i]
  BY <1>1, SubSeqProperties DEF Take
<1>3. /\ Rest(k) \in Seq(U) /\ Len(Rest(k)) = Len(stream) - k
      /\ \A i \in 1..(Len(stream) - k) : Rest(k)[i] = stream[k + i]
  BY <1>1, SubSeqProperties DEF Rest
<1> QED
  BY <1>2, <1>3

-----------------------------------------------------------------------------
(* The stream: MessagesWhole *)

Results == [units : Seq(Units), fds : Seq(RHandles), room : BOOLEAN]

\* The numbers that the stream is counted with.
LEMMA Counts ==
    ASSUME WholeInv
    PROVE  /\ sent \in 0..NMsgs /\ sent \in Int /\ Current = sent + 1
           /\ Current \in 1..(NMsgs + 1) /\ written \in Nat
           /\ Len(delivered) \in 0..NMsgs /\ Len(delivered) \in Int
           /\ Len(rbuf) \in Nat /\ Len(stream) \in Nat
           /\ Offset[Current] \in Nat /\ Offset[Len(delivered) + 1] \in Nat
           /\ Emitted \in Nat /\ Received \in Nat /\ Len(stream) = Emitted - Received
<1>1. /\ sent \in 0..NMsgs /\ sent \in Int /\ Current = sent + 1
      /\ Current \in 1..(NMsgs + 1) /\ written \in Nat
  BY FrameFacts DEF WholeInv, TypeOK, Current
<1>2. /\ Len(delivered) \in 0..NMsgs /\ Len(delivered) \in Int
      /\ Len(rbuf) \in Nat /\ Len(stream) \in Nat
  BY LenProperties, FrameFacts DEF WholeInv, TypeOK, PhaseInv
<1>3. Offset[Current] \in Nat /\ Offset[Len(delivered) + 1] \in Nat
  BY <1>1, <1>2, FrameFacts
<1> QED
  BY <1>1, <1>2, <1>3 DEF Emitted, Received, WholeInv, StreamInv

\* The message that is read next, if there is one.
LEMMA NextFrame ==
    ASSUME WholeInv, Len(delivered) < NMsgs
    PROVE  /\ Len(delivered) \in Nat /\ Len(rbuf) \in Nat /\ Len(stream) \in Nat
           /\ Len(delivered) + 1 \in Messages
           /\ HeadLen \in Nat \ {0} /\ FrameLen(Len(delivered) + 1) \in Nat
           /\ FrameLen(Len(delivered) + 1) >= HeadLen
           /\ Offset[Len(delivered) + 1] \in Nat
<1>1. /\ Len(delivered) \in 0..NMsgs /\ Len(rbuf) \in Nat /\ Len(stream) \in Nat
      /\ Offset[Len(delivered) + 1] \in Nat
  BY Counts
<1>2. Messages = 1..NMsgs /\ NMsgs \in Nat /\ HeadLen \in Nat \ {0}
  BY FrameFacts
<1>3. Len(delivered) \in Nat /\ Len(delivered) + 1 \in Messages
  BY <1>1, <1>2
<1> QED
  BY <1>1, <1>2, <1>3, FrameFacts

\* Nothing is read that has not been written.
LEMMA Behind ==
    ASSUME WholeInv
    PROVE  /\ Len(delivered) <= sent
           /\ Len(stream) > 0 => Len(delivered) < NMsgs
           /\ Len(delivered) < NMsgs /\ Len(rbuf) = FrameLen(Len(delivered) + 1)
                  => Len(delivered) + 1 <= sent
<1> DEFINE D == Len(delivered)
<1>1. /\ sent \in 0..NMsgs /\ sent \in Int /\ Current = sent + 1 /\ written \in Nat
      /\ D \in 0..NMsgs /\ D \in Int /\ Len(rbuf) \in Nat /\ Len(stream) \in Nat
      /\ Offset[D + 1] \in Nat /\ Offset[Current] \in Nat /\ NMsgs \in Nat
      /\ Emitted = Offset[Current] + written /\ Received = Offset[D + 1] + Len(rbuf)
      /\ Emitted \in Nat /\ Received \in Nat /\ Len(stream) = Emitted - Received
  BY Counts, FrameFacts DEF Emitted, Received
<1>0. Offset[D + 1] <= Received /\ Received <= Emitted
  <2>1. /\ Offset[D + 1] \in Nat /\ Len(rbuf) \in Nat
        /\ Received = Offset[D + 1] + Len(rbuf)
    BY <1>1
  <2>2. /\ Emitted \in Nat /\ Received \in Nat /\ Len(stream) \in Nat
        /\ Len(stream) = Emitted - Received
    BY <1>1
  <2>3. Offset[D + 1] <= Received
    BY <2>1
  <2>4. Received <= Emitted
    BY <2>2
  <2> QED
    BY <2>3, <2>4
<1>2. sent < NMsgs => Emitted < Offset[sent + 2] /\ Offset[sent + 2] \in Nat
  <2> SUFFICES ASSUME sent < NMsgs
               PROVE  Emitted < Offset[sent + 2] /\ Offset[sent + 2] \in Nat
    OBVIOUS
  <2>1. /\ Current \in Messages /\ Current + 1 = sent + 2 /\ sent + 2 \in 1..(NMsgs + 1)
    BY <1>1, FrameFacts
  <2>2. /\ FrameLen(Current) \in Nat /\ FrameLen(Current) >= HeadLen /\ HeadLen \in Nat \ {0}
        /\ Offset[sent + 2] = Offset[Current] + FrameLen(Current)
        /\ Offset[sent + 2] \in Nat
    BY <2>1, FrameFacts
  <2>3. written < FrameLen(Current)
    BY <1>1, <2>2 DEF WholeInv, PhaseInv
  <2> QED
    BY <1>1, <2>2, <2>3
<1>3. sent = NMsgs => Emitted = Offset[Current]
  BY <1>1 DEF WholeInv, PhaseInv
<1>4. D <= sent
  <2> SUFFICES ASSUME D > sent PROVE FALSE
    BY <1>1
  <2>1. sent < NMsgs /\ sent + 2 \in 1..(NMsgs + 1) /\ D + 1 \in 1..(NMsgs + 1)
    BY <1>1
  <2>2. Offset[sent + 2] <= Offset[D + 1]
    <3>1. CASE D = sent + 1
      BY <1>1, <1>2, <2>1, <3>1
    <3>2. CASE D > sent + 1
      <4>1. sent + 1 \in 1..(NMsgs + 1) /\ sent + 1 < D + 1 /\ (sent + 1) + 1 = sent + 2
        BY <1>1, <2>1
      <4>2. Offset[(sent + 1) + 1] <= Offset[D + 1]
        BY <2>1, <4>1, Later
      <4> QED
        BY <4>1, <4>2
    <3> QED
      BY <1>1, <3>1, <3>2
  <2>3. Emitted < Offset[sent + 2] /\ Offset[sent + 2] \in Nat
    BY <1>2, <2>1
  <2>4. Emitted \in Nat /\ Received \in Nat /\ Offset[D + 1] \in Nat
        /\ Received <= Emitted /\ Offset[D + 1] <= Received
    BY <1>0, <1>1
  <2> QED
    BY <2>2, <2>3, <2>4
<1>5. Len(stream) > 0 => D < NMsgs
  <2> SUFFICES ASSUME Len(stream) > 0, D = NMsgs PROVE FALSE
    BY <1>1
  <2>1. sent = NMsgs /\ D + 1 = Current
    BY <1>1, <1>4
  <2>2. Emitted = Offset[D + 1]
    BY <1>3, <2>1
  <2>3. Offset[D + 1] <= Received /\ Received \in Nat /\ Offset[D + 1] \in Nat
    BY <1>0, <1>1
  <2>4. Len(stream) = Emitted - Received
    BY <1>1
  <2> QED
    BY <2>2, <2>3, <2>4
<1>6. D < NMsgs /\ Len(rbuf) = FrameLen(D + 1) => D + 1 <= sent
  <2> SUFFICES ASSUME D < NMsgs, Len(rbuf) = FrameLen(D + 1), D = sent PROVE FALSE
    BY <1>1, <1>4
  <2>1. D + 1 \in Messages /\ (D + 1) + 1 = sent + 2
    BY <1>1, FrameFacts
  <2>2. Offset[sent + 2] = Offset[D + 1] + FrameLen(D + 1)
    BY <2>1, FrameFacts
  <2> QED
    BY <1>1, <1>2, <2>2
<1> QED
  BY <1>4, <1>5, <1>6

LEMMA InitWhole == Init => WholeInv
<1> SUFFICES ASSUME Init PROVE WholeInv
  OBVIOUS
<1>1. TypeOK
  <2>1. /\ frame \in [Messages -> Seq(SHandles)]
        /\ \A m \in Messages : Len(frame[m]) <= Carried[m]
    BY EmptySeq, MsgAssumption DEF Init, Messages
  <2>2. stream \in Seq(Units) /\ rbuf \in Seq(Units) /\ rfds \in Seq(RHandles)
        /\ delivered \in Seq([units : Seq(Units), fds : Seq(RHandles), room : BOOLEAN])
        /\ Len(stream) = 0 /\ Len(rbuf) = 0
    BY EmptySeq DEF Init
  <2> QED
    BY <2>1, <2>2, FrameFacts, MsgAssumption DEF Init, TypeOK
<1>2. Len(stream) = 0 /\ Len(rbuf) = 0 /\ Len(delivered) = 0
  BY EmptySeq DEF Init
<1>3. StreamInv
  <2>1. Offset[1] \in Nat
    BY FrameFacts
  <2>2. Received = Offset[1] /\ Emitted = Offset[1]
    BY <1>2, <2>1 DEF Init, Received, Emitted, Current
  <2> QED
    BY <1>2, <2>1, <2>2 DEF StreamInv
<1>4. BufferInv /\ MessagesWhole
  BY <1>2 DEF BufferInv, MessagesWhole
<1>5. PhaseInv
  BY <1>2, FrameFacts DEF Init, PhaseInv
<1> QED
  BY <1>1, <1>3, <1>4, <1>5 DEF WholeInv

\* Steps that leave the stream and both ends of it where they are.
LEMMA QuietWhole ==
    ASSUME WholeInv, TypeOK', UNCHANGED <<sent, written, stream, rbuf, delivered>>,
           spc' = spc \/ (spc' # "idle" /\ spc' # "send"),
           rpc' = rpc \/ rpc' \in {"failed", "closed"}
    PROVE  WholeInv'
<1> USE DEF WholeInv
<1>1. StreamInv' /\ BufferInv' /\ MessagesWhole'
  BY DEF StreamInv, BufferInv, MessagesWhole, Received, Emitted, Current
<1>2. PhaseInv'
  BY DEF PhaseInv, Current
<1> QED
  BY <1>1, <1>2

LEMMA WriteWhole ==
    ASSUME WholeInv, Write
    PROVE  WholeInv'
<1> USE DEF WholeInv
<1>1. PICK k \in 1..Room :
          /\ written + k <= FrameLen(Current) /\ stream' = stream \o Piece(k)
          /\ IF written + k = FrameLen(Current)
             THEN spc' = "idle" /\ sent' = Current /\ written' = 0
             ELSE written' = written + k /\ UNCHANGED <<spc, sent>>
  BY DEF Write
<1>2. spc = "send" /\ sent < NMsgs /\ UNCHANGED <<rpc, rbuf, delivered>>
  BY DEF Write, PhaseInv, recvVars
<1>3. /\ sent \in 0..NMsgs /\ sent \in Int /\ written \in Nat /\ k \in Nat \ {0}
      /\ Len(stream) \in Nat /\ k <= Capacity - Len(stream) /\ NMsgs \in Nat
      /\ Current = sent + 1 /\ Current \in Messages /\ FrameLen(Current) \in Nat
      /\ Offset[Current] \in Nat /\ Offset[Current + 1] = Offset[Current] + FrameLen(Current)
  <2>1. /\ sent \in 0..NMsgs /\ sent \in Int /\ written \in Nat /\ Len(stream) \in Nat
        /\ Current = sent + 1 /\ Offset[Current] \in Nat
    BY Counts
  <2>2. NMsgs \in Nat /\ Messages = 1..NMsgs /\ Capacity \in Nat
    BY FrameFacts
  <2>3. Current \in Messages
    BY <1>2, <2>1, <2>2
  <2>4. FrameLen(Current) \in Nat /\ Offset[Current + 1] = Offset[Current] + FrameLen(Current)
    BY <2>3, FrameFacts
  <2>5. k \in Nat \ {0} /\ k <= Capacity - Len(stream)
    BY <1>1, <2>1, <2>2 DEF Room
  <2> QED
    BY <2>1, <2>2, <2>3, <2>4, <2>5
<1>4. /\ Piece(k) \in Seq(Units) /\ Len(Piece(k)) = k
      /\ \A i \in 1..k : Piece(k)[i] = <<sent + 1, written + i>>
  BY <1>1, <1>2, <1>3, PieceUnits
<1>5. /\ stream' \in Seq(Units) /\ Len(stream') = Len(stream) + k
      /\ \A i \in 1..(Len(stream) + k) :
             stream'[i] = IF i <= Len(stream) THEN stream[i] ELSE Piece(k)[i - Len(stream)]
  BY <1>1, <1>4, ConcatProperties DEF TypeOK
<1>6. TypeOK'
  <2>1. spc' \in {"idle", "send"} /\ sent' \in 0..NMsgs /\ written' \in Nat
    BY <1>1, <1>2, <1>3
  <2>2. Len(stream') <= Capacity
    BY <1>3, <1>5, FrameFacts
  <2>3. UNCHANGED <<frame, sOs, sTable, recvVars>>
    BY DEF Write
  <2> QED
    BY <1>5, <2>1, <2>2, <2>3 DEF TypeOK, recvVars
<1>7. Emitted' = Emitted + k /\ Received' = Received
  <2>1. CASE written + k = FrameLen(Current)
    <3>1. Current' = Current + 1 /\ written' = 0
      BY <1>1, <2>1, <1>3 DEF Current
    <3> QED
      BY <1>2, <1>3, <2>1, <3>1 DEF Received, Emitted
  <2>2. CASE written + k # FrameLen(Current)
    <3>1. Current' = Current /\ written' = written + k
      BY <1>1, <2>2 DEF Current
    <3> QED
      BY <1>2, <1>3, <3>1 DEF Received, Emitted
  <2> QED
    BY <2>1, <2>2
<1>8. Received \in Nat /\ Emitted \in Nat
  BY Counts
<1>9. StreamInv'
  <2>1. Len(stream) = Emitted - Received
    BY DEF StreamInv
  <2>2. Len(stream') = Emitted' - Received'
    BY <1>3, <1>5, <1>7, <1>8, <2>1
  <2>3. ASSUME NEW i \in 1..Len(stream')
        PROVE  PlaceOf(stream'[i]) = Received' + i
    <3>1. CASE i <= Len(stream)
      BY <1>3, <1>5, <1>7, <2>3, <3>1 DEF StreamInv
    <3>2. CASE i > Len(stream)
      <4> DEFINE j == i - Len(stream)
      <4>1. j \in 1..k /\ i \in 1..(Len(stream) + k) /\ ~(i <= Len(stream))
        BY <1>3, <1>5, <2>3, <3>2
      <4>2. stream'[i] = <<Current, written + j>>
        BY <1>3, <1>4, <1>5, <4>1
      <4>3. PlaceOf(<<Current, written + j>>) = Emitted + j
        BY <1>3, <4>1 DEF PlaceOf, Emitted
      <4>4. Emitted + j = Received + i
        BY <1>3, <1>8, <2>1, <2>3, <1>5
      <4> QED
        BY <1>7, <4>2, <4>3, <4>4
    <3> QED
      BY <1>3, <1>5, <2>3, <3>1, <3>2
  <2> QED
    BY <2>2, <2>3 DEF StreamInv
<1>10. BufferInv' /\ MessagesWhole'
  BY <1>2 DEF BufferInv, MessagesWhole
<1>11. PhaseInv'
  <2>1. CASE written + k = FrameLen(Current)
    BY <1>1, <1>2, <1>3, <2>1 DEF PhaseInv
  <2>2. CASE written + k # FrameLen(Current)
    <3>1. /\ Current' = Current /\ written' = written + k /\ written' < FrameLen(Current)
          /\ sent' = sent /\ spc' = spc
      BY <1>1, <1>3, <2>2 DEF Current
    <3> QED
      BY <1>2, <3>1 DEF PhaseInv
  <2> QED
    BY <2>1, <2>2
<1> QED
  BY <1>6, <1>9, <1>10, <1>11

\* What is read next is the next part of the message being read.
LEMMA NextUnits ==
    ASSUME WholeInv, NEW k \in 1..Len(stream), Len(delivered) < NMsgs,
           Len(rbuf) + k <= FrameLen(Len(delivered) + 1)
    PROVE  \A i \in 1..k : stream[i] = <<Len(delivered) + 1, Len(rbuf) + i>>
<1>1. /\ Len(delivered) \in Nat /\ Len(delivered) + 1 \in Messages
      /\ Len(rbuf) \in Nat /\ Len(stream) \in Nat
      /\ Offset[Len(delivered) + 1] \in Nat /\ FrameLen(Len(delivered) + 1) \in Nat
  BY NextFrame
<1>2. ASSUME NEW i \in 1..k
      PROVE  stream[i] = <<Len(delivered) + 1, Len(rbuf) + i>>
  <2>1. i \in 1..Len(stream) /\ Len(rbuf) + i \in 1..FrameLen(Len(delivered) + 1)
    BY <1>1
  <2>2. stream[i] \in Units
    BY <2>1, ElementOfSeq DEF WholeInv, TypeOK
  <2>3. PICK m \in Messages, j \in Nat : stream[i] = <<m, j>> /\ j \in 1..FrameLen(m)
    BY <2>2 DEF Units
  <2>4. Offset[m] + j = Offset[Len(delivered) + 1] + (Len(rbuf) + i)
    <3>1. PlaceOf(stream[i]) = Received + i
      BY <2>1 DEF WholeInv, StreamInv
    <3>2. PlaceOf(stream[i]) = Offset[m] + j
      BY <2>3 DEF PlaceOf
    <3>3. Received + i = Offset[Len(delivered) + 1] + (Len(rbuf) + i)
      BY <1>1 DEF Received
    <3> QED
      BY <3>1, <3>2, <3>3
  <2>5. PICK n \in Messages, l \in Nat :
              n = Len(delivered) + 1 /\ l = Len(rbuf) + i /\ l \in 1..FrameLen(n)
    BY <1>1, <2>1
  <2>6. Offset[m] + j = Offset[n] + l
    BY <2>4, <2>5
  <2>7. m = n /\ j = l
    BY <2>3, <2>5, <2>6, OnePlace
  <2> QED
    BY <2>3, <2>5, <2>7
<1> QED
  BY <1>2

\* What a read adds to the beginning of a frame makes more of its beginning.
LEMMA ReadUnits ==
    ASSUME WholeInv, NEW k \in 1..Len(stream), Len(delivered) < NMsgs,
           Len(rbuf) + k <= FrameLen(Len(delivered) + 1)
    PROVE  /\ rbuf \o Take(k) \in Seq(Units) /\ Len(rbuf \o Take(k)) = Len(rbuf) + k
           /\ \A i \in 1..(Len(rbuf) + k) :
                  (rbuf \o Take(k))[i] = <<Len(delivered) + 1, i>>
<1>1. rbuf \in Seq(Units) /\ Len(rbuf) \in Nat
  BY LenProperties DEF WholeInv, TypeOK
<1>2. /\ Take(k) \in Seq(Units) /\ Len(Take(k)) = k
      /\ \A i \in 1..k : Take(k)[i] = stream[i]
  BY TakeRest DEF WholeInv, TypeOK
<1>3. /\ rbuf \o Take(k) \in Seq(Units) /\ Len(rbuf \o Take(k)) = Len(rbuf) + k
      /\ \A i \in 1..(Len(rbuf) + k) : (rbuf \o Take(k))[i] =
             IF i <= Len(rbuf) THEN rbuf[i] ELSE Take(k)[i - Len(rbuf)]
  <2>1. Take(k) \in Seq(Units) /\ Len(Take(k)) = k
    BY <1>2
  <2>2. /\ rbuf \o Take(k) \in Seq(Units)
        /\ Len(rbuf \o Take(k)) = Len(rbuf) + Len(Take(k))
        /\ \A i \in 1..(Len(rbuf) + Len(Take(k))) : (rbuf \o Take(k))[i] =
               IF i <= Len(rbuf) THEN rbuf[i] ELSE Take(k)[i - Len(rbuf)]
    BY <1>1, <2>1, ConcatProperties, Zenon
  <2> QED
    BY <2>1, <2>2, Zenon
<1>4. ASSUME NEW i \in 1..(Len(rbuf) + k)
      PROVE  (rbuf \o Take(k))[i] = <<Len(delivered) + 1, i>>
  <2>1. CASE i <= Len(rbuf)
    <3>1. i \in 1..Len(rbuf)
      BY <1>1, <2>1
    <3> QED
      BY <1>3, <2>1, <3>1 DEF WholeInv, BufferInv
  <2>2. CASE ~(i <= Len(rbuf))
    <3>1. i - Len(rbuf) \in 1..k /\ Len(rbuf) + (i - Len(rbuf)) = i
      BY <1>1, <2>2
    <3>2. stream[i - Len(rbuf)] = <<Len(delivered) + 1, i>>
      BY <3>1, NextUnits
    <3> QED
      BY <1>2, <1>3, <2>2, <3>1, <3>2
  <2> QED
    BY <2>1, <2>2
<1> QED
  BY <1>3, <1>4

\* A read of k units that stay within the frame.
LEMMA ReadWhole ==
    ASSUME WholeInv, NEW k \in 1..Len(stream), Len(delivered) < NMsgs,
           Len(rbuf) + k <= FrameLen(Len(delivered) + 1),
           rbuf' = rbuf \o Take(k), stream' = Rest(k),
           rpc' \in {"head", "body", "adopt", "failed"},
           rpc' = "head" => Len(rbuf) + k < HeadLen,
           rpc' = "body" => Len(rbuf) + k \in HeadLen..(FrameLen(Len(delivered) + 1) - 1),
           rpc' = "adopt" => Len(rbuf) + k = FrameLen(Len(delivered) + 1),
           UNCHANGED <<sendVars, sOs, slot, rfds, rOs, delivered>>
    PROVE  WholeInv' /\ RMsg' = Len(delivered) + 1 /\ Len(delivered) + 1 \in Messages
<1> USE DEF WholeInv
<1>1. /\ Len(rbuf) \in Nat /\ Len(stream) \in Nat /\ Len(delivered) \in Nat
      /\ Len(delivered) + 1 \in Messages /\ FrameLen(Len(delivered) + 1) \in Nat
  BY NextFrame
<1>2. /\ stream' \in Seq(Units) /\ Len(stream') = Len(stream) - k
      /\ \A i \in 1..(Len(stream) - k) : stream'[i] = stream[k + i]
  BY TakeRest DEF TypeOK
<1>3. /\ rbuf' \in Seq(Units) /\ Len(rbuf') = Len(rbuf) + k
      /\ \A i \in 1..(Len(rbuf) + k) : rbuf'[i] = <<Len(delivered) + 1, i>>
  BY ReadUnits
<1>4. TypeOK'
  <2>1. Len(stream') <= Capacity
    BY <1>1, <1>2, FrameFacts DEF TypeOK
  <2> QED
    BY <1>2, <1>3, <2>1 DEF TypeOK, sendVars
<1>5. BufferInv'
  BY <1>3 DEF BufferInv
<1>6. /\ Received' = Received + k /\ Emitted' = Emitted
      /\ Received \in Nat /\ Emitted \in Nat
  <2>1. Received \in Nat /\ Emitted \in Nat /\ Offset[Len(delivered) + 1] \in Nat
    BY Counts
  <2>2. Emitted' = Emitted
    BY DEF Emitted, Current, sendVars
  <2>3. Received' = Received + k
    BY <1>1, <1>3, <2>1 DEF Received
  <2> QED
    BY <2>1, <2>2, <2>3
<1>7. StreamInv'
  <2>1. Len(stream') = Emitted' - Received'
    BY <1>1, <1>2, <1>6 DEF StreamInv
  <2>2. ASSUME NEW i \in 1..Len(stream')
        PROVE  PlaceOf(stream'[i]) = Received' + i
    <3>1. i \in 1..(Len(stream) - k) /\ k + i \in 1..Len(stream)
      BY <1>1, <1>2
    <3>2. PlaceOf(stream[k + i]) = Received + (k + i) /\ k + i = i + k
      BY <3>1 DEF StreamInv
    <3>3. PlaceOf(stream'[i]) = PlaceOf(stream[k + i])
      BY <1>2, <3>1
    <3>4. Received + (k + i) = Received' + i
      BY <1>6, <3>1
    <3> QED
      BY <3>2, <3>3, <3>4
  <2> QED
    BY <2>1, <2>2 DEF StreamInv
<1>8. MessagesWhole'
  BY DEF MessagesWhole
<1>9. PhaseInv'
  <2>1. rpc' = "head" => Len(rbuf') \in 1..(HeadLen - 1)
    BY <1>1, <1>3, FrameFacts
  <2> QED
    BY <1>3, <2>1 DEF PhaseInv, sendVars, Current
<1>10. RMsg' = Len(delivered) + 1
  <2>1. 1 \in 1..(Len(rbuf) + k)
    BY <1>1
  <2>2. rbuf'[1] = <<Len(delivered) + 1, 1>>
    BY <1>3, <2>1
  <2> QED
    BY <2>2 DEF RMsg
<1> QED
  BY <1>1, <1>4, <1>5, <1>7, <1>8, <1>9, <1>10

\* Every header that is read is the one that the next message was sent with.
LEMMA HeadReadWhole ==
    ASSUME WholeInv, HeadRead
    PROVE  /\ WholeInv' /\ rpc' \in {"head", "body", "adopt"}
           /\ RMsg' = Len(delivered) + 1 /\ RMsg' \in Messages
<1> DEFINE m == Len(delivered) + 1
<1>1. PICK k \in 1..Len(stream) :
          /\ Len(rbuf) + k <= HeadLen /\ rbuf' = rbuf \o Take(k) /\ stream' = Rest(k)
          /\ rpc' = IF Len(rbuf) + k < HeadLen THEN "head" ELSE AfterHeader(rbuf \o Take(k))
  BY DEF HeadRead
<1>2. UNCHANGED <<sendVars, sOs, slot, rfds, rOs, delivered>>
  BY DEF HeadRead
<1>3. /\ Len(rbuf) \in Nat /\ Len(stream) \in Nat /\ Len(delivered) < NMsgs
      /\ m \in Messages /\ HeadLen \in Nat \ {0} /\ FrameLen(m) \in Nat /\ FrameLen(m) >= HeadLen
  <2>1. Len(stream) \in Nat
    BY Counts
  <2>2. Len(delivered) < NMsgs
    BY <2>1, Behind
  <2> QED
    BY <2>1, <2>2, NextFrame
<1>4. Len(rbuf) + k \in Nat /\ Len(rbuf) + k <= FrameLen(m)
  BY <1>1, <1>3
<1>5. Len(rbuf) + k = HeadLen =>
          /\ GoodHeader(rbuf \o Take(k)) /\ ReadSize(rbuf \o Take(k)) = FrameLen(m) - HeadLen
  <2> SUFFICES ASSUME Len(rbuf) + k = HeadLen
               PROVE  /\ GoodHeader(rbuf \o Take(k))
                      /\ ReadSize(rbuf \o Take(k)) = FrameLen(m) - HeadLen
    OBVIOUS
  <2>1. \A i \in 1..(Len(rbuf) + k) : (rbuf \o Take(k))[i] = <<m, i>>
    BY <1>3, <1>4, ReadUnits
  <2>2. 1 \in 1..(Len(rbuf) + k) /\ HeadLen \in 1..(Len(rbuf) + k)
    BY <1>3
  <2>3. (rbuf \o Take(k))[1] = <<m, 1>> /\ (rbuf \o Take(k))[HeadLen] = <<m, HeadLen>>
    BY <2>1, <2>2
  <2> QED
    BY <2>3 DEF GoodHeader, ReadSize, TotLen
<1>6. /\ rpc' \in {"head", "body", "adopt"}
      /\ rpc' = "head" => Len(rbuf) + k < HeadLen
      /\ rpc' = "body" => Len(rbuf) + k \in HeadLen..(FrameLen(m) - 1)
      /\ rpc' = "adopt" => Len(rbuf) + k = FrameLen(m)
  <2>1. CASE Len(rbuf) + k < HeadLen
    BY <1>1, <2>1
  <2>2. CASE ~(Len(rbuf) + k < HeadLen)
    <3>1. Len(rbuf) + k = HeadLen
      BY <1>1, <1>3, <1>4, <2>2
    <3>2. rpc' = IF FrameLen(m) - HeadLen > 0 THEN "body" ELSE "adopt"
      BY <1>1, <1>5, <2>2, <3>1 DEF AfterHeader
    <3> QED
      BY <1>3, <3>1, <3>2
  <2> QED
    BY <2>1, <2>2
<1>7. WholeInv' /\ RMsg' = m
  BY <1>1, <1>2, <1>3, <1>4, <1>6, ReadWhole
<1> QED
  BY <1>3, <1>6, <1>7

LEMMA BodyReadWhole ==
    ASSUME WholeInv, BodyRead
    PROVE  /\ WholeInv' /\ rpc' \in {"body", "adopt"}
           /\ RMsg' = Len(delivered) + 1 /\ RMsg' \in Messages
<1> DEFINE m == Len(delivered) + 1
<1>1. PICK k \in 1..Len(stream) :
          /\ Len(rbuf) + k <= HeadLen + ReadSize(rbuf)
          /\ rbuf' = rbuf \o Take(k) /\ stream' = Rest(k)
          /\ rpc' = IF Len(rbuf) + k < HeadLen + ReadSize(rbuf) THEN "body" ELSE "adopt"
  BY DEF BodyRead
<1>2. UNCHANGED <<sendVars, sOs, slot, rfds, rOs, delivered>> /\ rpc = "body"
  BY DEF BodyRead
<1>3. /\ Len(stream) \in Nat /\ Len(delivered) < NMsgs /\ m \in Messages
      /\ Len(rbuf) \in HeadLen..(FrameLen(m) - 1)
      /\ HeadLen \in Nat \ {0} /\ FrameLen(m) \in Nat
  <2>1. Len(delivered) < NMsgs /\ Len(rbuf) \in HeadLen..(FrameLen(m) - 1)
    BY <1>2 DEF WholeInv, PhaseInv
  <2> QED
    BY <2>1, NextFrame
<1>4. HeadLen + ReadSize(rbuf) = FrameLen(m)
  <2>1. 1 \in 1..Len(rbuf)
    BY <1>3
  <2>2. rbuf[1] = <<m, 1>>
    BY <2>1 DEF WholeInv, BufferInv
  <2>3. ReadSize(rbuf) = FrameLen(m) - HeadLen
    BY <2>2 DEF ReadSize
  <2> QED
    BY <1>3, <2>3
<1>5. /\ Len(rbuf) + k <= FrameLen(m)
      /\ rpc' \in {"body", "adopt"}
      /\ rpc' = "adopt" => Len(rbuf) + k = FrameLen(m)
      /\ rpc' = "body" => Len(rbuf) + k \in HeadLen..(FrameLen(m) - 1)
  <2>1. /\ Len(rbuf) + k <= FrameLen(m)
        /\ rpc' = IF Len(rbuf) + k < FrameLen(m) THEN "body" ELSE "adopt"
    BY <1>1, <1>4
  <2>2. Len(rbuf) + k \in Nat /\ Len(rbuf) + k >= HeadLen
    BY <1>3
  <2>3. CASE Len(rbuf) + k < FrameLen(m)
    BY <1>3, <2>1, <2>2, <2>3
  <2>4. CASE ~(Len(rbuf) + k < FrameLen(m))
    BY <1>3, <2>1, <2>2, <2>4
  <2> QED
    BY <2>3, <2>4
<1>6. WholeInv' /\ RMsg' = m
  BY <1>1, <1>2, <1>3, <1>5, ReadWhole
<1> QED
  BY <1>3, <1>5, <1>6

\* recvmsg returns what it has read.
LEMMA DeliverWhole ==
    ASSUME WholeInv, Deliver \/ DeliverDataOnly
    PROVE  WholeInv'
<1> USE DEF WholeInv
<1> DEFINE m == Len(delivered) + 1
<1>1. PICK fds \in Seq(RHandles), room \in BOOLEAN :
          Returns([units |-> rbuf, fds |-> fds, room |-> room])
  <2>1. rfds \in Seq(RHandles) /\ <<>> \in Seq(RHandles)
    BY EmptySeq DEF TypeOK
  <2> QED
    BY <2>1 DEF Deliver, DeliverDataOnly
<1> DEFINE result == [units |-> rbuf, fds |-> fds, room |-> room]
<1>2. /\ rpc = "adopt" /\ delivered' = Append(delivered, result)
      /\ rpc' = "idle" /\ rbuf' = <<>> /\ slot' = 0 /\ rfds' = <<>>
      /\ UNCHANGED <<sendVars, sOs, stream, rOs>>
  BY <1>1 DEF Returns, Deliver, DeliverDataOnly, Adopting
<1>3. /\ Len(delivered) \in 0..NMsgs /\ Len(delivered) < NMsgs /\ m \in Messages
      /\ Len(rbuf) = FrameLen(m) /\ FrameLen(m) \in Nat /\ NMsgs \in Nat
  <2>1. Len(delivered) < NMsgs /\ Len(rbuf) = FrameLen(m)
    BY <1>2 DEF PhaseInv
  <2>2. m \in Messages /\ FrameLen(m) \in Nat
    BY <2>1, NextFrame
  <2>3. Len(delivered) \in 0..NMsgs
    BY Counts
  <2>4. NMsgs \in Nat
    BY FrameFacts
  <2> QED
    BY <2>1, <2>2, <2>3, <2>4
<1>4. rbuf = Frame(m)
  <2>1. rbuf \in [1..FrameLen(m) -> Units]
    BY <1>3, LenProperties DEF TypeOK
  <2>2. \A i \in 1..FrameLen(m) : rbuf[i] = <<m, i>>
    BY <1>3 DEF BufferInv
  <2> QED
    BY <2>1, <2>2 DEF Frame
<1>5. /\ delivered' \in Seq(Results) /\ Len(delivered') = m
      /\ \A i \in 1..Len(delivered) : delivered'[i] = delivered[i]
      /\ delivered'[m] = result
  <2>1. result \in Results /\ delivered \in Seq(Results)
    BY DEF TypeOK, Results
  <2> QED
    BY <1>2, <2>1, AppendProperties
<1>6. Len(rbuf') = 0 /\ rbuf' \in Seq(Units) /\ rfds' \in Seq(RHandles)
  BY <1>2, EmptySeq
<1>7. TypeOK'
  BY <1>2, <1>5, <1>6 DEF TypeOK, sendVars, Results
<1>8. MessagesWhole'
  <2> SUFFICES ASSUME NEW i \in 1..m
               PROVE  delivered'[i].units = Frame(i)
    BY <1>5 DEF MessagesWhole
  <2>1. CASE i = m
    <3>1. delivered'[i].units = rbuf
      BY <1>5, <2>1
    <3> QED
      BY <1>4, <2>1, <3>1
  <2>2. CASE i # m
    <3>1. i \in 1..Len(delivered)
      BY <1>3, <2>2
    <3> QED
      BY <1>5, <3>1 DEF MessagesWhole
  <2> QED
    BY <2>1, <2>2
<1>9. Received' = Received /\ Emitted' = Emitted
  <2>1. Offset[m + 1] = Offset[m] + FrameLen(m) /\ Offset[m + 1] \in Nat
    BY <1>3, FrameFacts
  <2>2. Received' = Offset[m + 1] + 0
    BY <1>5, <1>6 DEF Received
  <2>3. Received = Offset[m] + FrameLen(m)
    BY <1>3 DEF Received
  <2>4. Emitted' = Emitted
    BY <1>2 DEF Emitted, Current, sendVars
  <2> QED
    BY <2>1, <2>2, <2>3, <2>4
<1>10. StreamInv' /\ BufferInv'
  BY <1>2, <1>6, <1>9 DEF StreamInv, BufferInv
<1>11. PhaseInv'
  BY <1>2, <1>3, <1>5 DEF PhaseInv, sendVars, Current
<1> QED
  BY <1>7, <1>8, <1>10, <1>11

\* The kernel's handles and the frames keep their types.
LEMMA OtherWhole ==
    ASSUME WholeInv,
           \/ OwnOpen \/ OwnClose \/ Send \/ Pack \/ SendTimesOut \/ SendBreaks
           \/ SenderCloses \/ SenderExits \/ BodyTimesOut \/ RecvEof \/ RecvBreaks
           \/ ReceiverCloses \/ Adopt \/ AdoptUnset
    PROVE  WholeInv'
<1> USE FrameFacts DEF WholeInv
<1>1. CASE Send
  <2>1. /\ spc = "idle" /\ sent < NMsgs /\ spc' = "send" /\ written' = 0
        /\ UNCHANGED <<sent, frame, sOs, sTable, stream, recvVars>>
    BY <1>1 DEF Send
  <2>2. TypeOK'
    BY <2>1 DEF TypeOK, recvVars
  <2>3. written' = written
    BY <2>1 DEF PhaseInv
  <2>4. PhaseInv'
    BY <2>1, <2>3 DEF PhaseInv, Current, recvVars
  <2> QED
    BY <2>1, <2>2, <2>3, <2>4
       DEF StreamInv, BufferInv, MessagesWhole, Received, Emitted, Current, recvVars
<1>2. CASE OwnOpen \/ OwnClose \/ SenderExits
  <2>1. TypeOK' /\ (spc' = spc \/ spc' = "gone")
    BY <1>2 DEF OwnOpen, OwnClose, SenderExits, TypeOK, recvVars
  <2> QED
    BY <1>2, <2>1, QuietWhole DEF OwnOpen, OwnClose, SenderExits, recvVars
<1>3. CASE Pack
  <2>1. PICK h \in SHandles :
            /\ sOs' = [sOs EXCEPT ![h] = <<Current, Len(frame[Current]) + 1>>]
            /\ frame' = [frame EXCEPT ![Current] = Append(frame[Current], h)]
    BY <1>3 DEF Pack, Duplicated
  <2>2. /\ spc = "send" /\ ~Packed
        /\ UNCHANGED <<spc, sent, written, sTable, stream, recvVars>>
    BY <1>3 DEF Pack
  <2>3. Current \in Messages
    BY <2>2, Counts DEF PhaseInv
  <2>4. /\ Len(frame[Current]) \in Nat /\ Carried[Current] \in Nat
        /\ Len(frame[Current]) + 1 <= Carried[Current]
    <3>1. /\ Len(frame[Current]) \in Nat /\ Carried[Current] \in Nat
          /\ Len(frame[Current]) <= Carried[Current]
      BY <2>3, LenProperties, MsgAssumption DEF TypeOK
    <3> QED
      BY <2>2, <3>1 DEF Packed
  <2>5. <<Current, Len(frame[Current]) + 1>> \in Sent
    BY <2>3, <2>4 DEF Sent
  <2>6. /\ frame' \in [Messages -> Seq(SHandles)]
        /\ \A m \in Messages : Len(frame'[m]) <= Carried[m]
    <3>1. /\ Append(frame[Current], h) \in Seq(SHandles)
          /\ Len(Append(frame[Current], h)) = Len(frame[Current]) + 1
      BY <2>3, AppendProperties DEF TypeOK
    <3> QED
      BY <2>1, <2>3, <2>4, <3>1 DEF TypeOK
  <2>7. TypeOK'
    BY <2>1, <2>2, <2>5, <2>6 DEF TypeOK, recvVars
  <2> QED
    BY <2>2, <2>7, QuietWhole DEF recvVars
<1>4. CASE SendTimesOut \/ SendBreaks \/ SenderCloses
  <2>1. /\ spc' \in {"failed", "closed"}
        /\ UNCHANGED <<sent, frame, written, sOs, sTable, stream, recvVars>>
    BY <1>4 DEF SendTimesOut, SendBreaks, SenderCloses, SendFails
  <2>2. TypeOK'
    BY <2>1 DEF TypeOK, recvVars
  <2> QED
    BY <2>1, <2>2, QuietWhole DEF recvVars
<1>5. CASE BodyTimesOut \/ RecvEof \/ RecvBreaks \/ ReceiverCloses
  <2>1. /\ rpc' \in {"failed", "closed"}
        /\ UNCHANGED <<sendVars, sOs, stream, rbuf, slot, rfds, rOs, delivered>>
    BY <1>5 DEF BodyTimesOut, RecvEof, RecvBreaks, ReceiverCloses, RecvEnds
  <2>2. TypeOK'
    BY <2>1 DEF TypeOK, sendVars
  <2> QED
    BY <2>1, <2>2, QuietWhole DEF sendVars
<1>6. CASE Adopt
  <2>1. PICK h \in SHandles, r \in RHandles :
            /\ DuplicateHandleOk(h) /\ rOs' = [rOs EXCEPT ![r] = sOs[h]]
            /\ rfds' = Append(rfds, r) /\ sOs' = [sOs EXCEPT ![h] = Closed]
    BY <1>6 DEF Adopt, SourceClosed
  <2>2. slot' = slot + 1 /\ UNCHANGED <<sendVars, stream, rpc, rbuf, delivered>>
    BY <1>6 DEF Adopt
  <2>3. rfds' \in Seq(RHandles)
    BY <2>1, AppendProperties DEF TypeOK
  <2>4. TypeOK'
    BY <2>1, <2>2, <2>3 DEF TypeOK, sendVars
  <2> QED
    BY <2>2, <2>4, QuietWhole DEF sendVars
<1>7. CASE AdoptUnset
  <2>1. /\ slot' = slot + 1 /\ UNCHANGED <<sendVars, sOs, stream, rpc, rbuf, rOs, delivered>>
        /\ rfds' = rfds \/ (\E v \in RHandles : rfds' = Append(rfds, v))
    BY <1>7 DEF AdoptUnset
  <2>2. rfds' \in Seq(RHandles)
    <3>1. \A v \in RHandles : Append(rfds, v) \in Seq(RHandles)
      BY AppendProperties DEF TypeOK
    <3> QED
      BY <2>1, <3>1 DEF TypeOK
  <2>3. TypeOK'
    BY <2>1, <2>2 DEF TypeOK, sendVars
  <2> QED
    BY <2>1, <2>3, QuietWhole DEF sendVars
<1> QED
  BY <1>1, <1>2, <1>3, <1>4, <1>5, <1>6, <1>7

LEMMA StepWhole == WholeInv /\ [Next]_msgVars => WholeInv'
<1> SUFFICES ASSUME WholeInv, [Next]_msgVars PROVE WholeInv'
  OBVIOUS
<1>1. CASE UNCHANGED msgVars
  <2>1. TypeOK'
    BY <1>1 DEF WholeInv, TypeOK, msgVars, sendVars, recvVars
  <2> QED
    BY <1>1, <2>1, QuietWhole DEF msgVars, sendVars, recvVars
<1>2. CASE Next
  BY <1>2, WriteWhole, HeadReadWhole, BodyReadWhole, DeliverWhole, OtherWhole
     DEF Next, SendStep, RecvStep
<1> QED
  BY <1>1, <1>2

\* Every variable keeps its type, and the stream never holds more than it has
\* room for.
THEOREM MessagesTyped == MsgSpec => []TypeOK
<1>1. WholeInv => TypeOK
  BY DEF WholeInv
<1> QED
  BY <1>1, InitWhole, StepWhole, PTL DEF MsgSpec

\* recvmsg returns the messages of sendmsg whole, in order and without a gap,
\* for every way the stream cuts them.
THEOREM WholeMessages == MsgSpec => []MessagesWhole
<1>1. WholeInv => MessagesWhole
  BY DEF WholeInv
<1> QED
  BY <1>1, InitWhole, StepWhole, PTL DEF MsgSpec


-----------------------------------------------------------------------------
(* The handles: InFlightOpen, DescriptorsArrive, OneHolder *)

\* sendmsg takes one byte off the control length for each number that is no
\* descriptor, and a division by IntSize absorbs one such byte and no more: only
\* then do sender and receiver count the same.
FewBad == \A m \in Messages : Bad[m] <= 1

LEMMA CountsAgree ==
    ASSUME FewBad, NEW m \in Messages
    PROVE  FdCount(m) = Carried[m]
<1>1. Carried[m] \in Nat /\ Bad[m] \in 0..1
  BY MsgAssumption DEF FewBad
<1>2. PICK c \in Nat, b \in 0..1 : c = Carried[m] /\ b = Bad[m]
  BY <1>1
<1>3. (4 * (c + b) - b) \div 4 = c
  BY <1>2
<1> QED
  BY <1>2, <1>3 DEF FdCount, IntSize

LEMMA SentFacts ==
    \A m \in Messages : \A j \in 1..Carried[m] :
        <<m, j>> \in Sent /\ <<m, j>> # Closed /\ <<m, j>> # Own
  BY ObjectsAssumption DEF Sent

LEMMA HandleTypes ==
    ASSUME WholeInv
    PROVE  /\ Len(delivered) \in Nat /\ slot \in Nat /\ sent \in 0..NMsgs
           /\ Current = sent + 1
           /\ \A m \in Messages :
                  /\ Carried[m] \in Nat /\ Len(frame[m]) \in 0..Carried[m]
                  /\ \A j \in 1..Len(frame[m]) :
                         frame[m][j] \in SHandles /\ j \in 1..Carried[m]
<1>1. Len(delivered) \in Nat /\ slot \in Nat /\ sent \in 0..NMsgs
  BY LenProperties DEF WholeInv, TypeOK
<1>2. ASSUME NEW m \in Messages
      PROVE  /\ Carried[m] \in Nat /\ Len(frame[m]) \in 0..Carried[m]
             /\ \A j \in 1..Len(frame[m]) :
                    frame[m][j] \in SHandles /\ j \in 1..Carried[m]
  <2>1. frame[m] \in Seq(SHandles) /\ Len(frame[m]) <= Carried[m] /\ Carried[m] \in Nat
    BY MsgAssumption DEF WholeInv, TypeOK
  <2>2. Len(frame[m]) \in Nat /\ \A j \in 1..Len(frame[m]) : frame[m][j] \in SHandles
    BY <2>1, LenProperties, ElementOfSeq
  <2> QED
    BY <2>1, <2>2
<1> QED
  BY <1>1, <1>2 DEF Current

\* Nothing is received before it is sent: a message whose descriptors are being
\* adopted, and one that has been delivered, have been written to the last unit.
LEMMA ReceivedSent ==
    ASSUME WholeInv
    PROVE  /\ Len(delivered) <= sent
           /\ rpc = "adopt" => /\ Len(delivered) + 1 <= sent
                               /\ RMsg = Len(delivered) + 1 /\ RMsg \in Messages
<1>1. ASSUME rpc = "adopt"
      PROVE  /\ Len(delivered) + 1 <= sent
             /\ RMsg = Len(delivered) + 1 /\ RMsg \in Messages
  <2>1. Len(delivered) < NMsgs /\ Len(rbuf) = FrameLen(Len(delivered) + 1)
    BY <1>1 DEF WholeInv, PhaseInv
  <2>2. Len(delivered) + 1 \in Messages
    BY <2>1, NextFrame
  <2>3. 1 \in 1..Len(rbuf)
    BY <2>1, NextFrame
  <2>4. rbuf[1] = <<Len(delivered) + 1, 1>>
    BY <2>3 DEF WholeInv, BufferInv
  <2> QED
    BY <2>1, <2>2, <2>4, Behind DEF RMsg
<1> QED
  BY <1>1, Behind

\* Steps that move no handle: sender and receiver at the stream, or done with it.
LEMMA QuietHandles ==
    ASSUME WholeInv, WholeInv', HandleInv, FramesInv',
           UNCHANGED <<frame, sOs, slot, rfds, rOs, delivered>>,
           spc = "gone" => spc' = "gone",
           rpc = "adopt" => rpc' = "adopt",
           rpc' = "adopt" => Len(delivered) + 1 \in Messages
    PROVE  HandleInv'
<1> USE DEF HandleInv
<1>1. SlotInv'
  <2>1. CASE rpc = "adopt"
    BY <2>1 DEF SlotInv
  <2>2. CASE rpc # "adopt"
    <3>1. slot' = 0 /\ rfds' = <<>>
      BY <2>2 DEF SlotInv
    <3>2. rpc' = "adopt" => Carried[Len(delivered') + 1] >= 0
      BY MsgAssumption
    <3> QED
      BY <3>1, <3>2 DEF SlotInv
  <2> QED
    BY <2>1, <2>2
<1>2. \A m, j : Adopted(m, j)' <=> Adopted(m, j)
  BY DEF Adopted
<1>3. SenderHolds'
  BY ZenonT(40), <1>2 DEF SenderHolds
<1>4. ReceiverHolds'
  BY ZenonT(40), <1>2 DEF ReceiverHolds
<1> QED
  BY <1>1, <1>3, <1>4

\* Of all those steps, the frames' own part: each frame is packed before it is
\* written, and packed once.
LEMMA StreamHandles ==
    ASSUME WholeInv, WholeInv', HandleInv,
           \/ Send \/ Write \/ SendTimesOut \/ SendBreaks \/ SenderCloses
           \/ HeadRead \/ BodyRead \/ BodyTimesOut \/ RecvEof \/ RecvBreaks
           \/ ReceiverCloses \/ UNCHANGED msgVars
    PROVE  HandleInv'
<1>1. FramesInv
  BY DEF HandleInv
<1>2. CASE Send
  <2>1. FramesInv'
    BY <1>1, <1>2 DEF Send, FramesInv, Packed, Current
  <2> QED
    BY <1>2, <2>1, QuietHandles, ReceivedSent, HandleTypes, FrameFacts
       DEF Send, recvVars
<1>3. CASE Write
  <2>1. PICK k \in 1..Room :
            IF written + k = FrameLen(Current)
            THEN spc' = "idle" /\ sent' = Current /\ written' = 0
            ELSE written' = written + k /\ UNCHANGED <<spc, sent>>
    BY <1>3 DEF Write
  <2>2. /\ spc = "send" /\ Packed /\ UNCHANGED <<frame, sOs, sTable, recvVars>>
    BY <1>3 DEF Write
  <2>3. FramesInv'
    <3>1. CASE written + k = FrameLen(Current)
      <4>1. /\ sent' = Current /\ Current' = Current + 1 /\ Current = sent + 1 /\ sent \in Nat
            /\ NMsgs \in Nat /\ Messages = 1..NMsgs /\ written' = 0 /\ spc' = "idle"
        BY <2>1, <3>1, HandleTypes, FrameFacts DEF Current
      <4>2. \A m \in Messages : /\ (m <= Current => Len(frame'[m]) = Carried[m])
                                 /\ (m > Current + 1 => frame'[m] = <<>>)
        BY <1>1, <2>2, <4>1 DEF FramesInv, Packed
      <4>3. sent' < NMsgs => frame'[Current'] = <<>>
        BY <1>1, <2>2, <4>1 DEF FramesInv
      <4> QED
        BY <1>1, <2>2, <4>1, <4>2, <4>3 DEF FramesInv
    <3>2. CASE written + k # FrameLen(Current)
      BY <1>1, <2>1, <2>2, <3>2 DEF FramesInv, Packed, Current
    <3> QED
      BY <3>1, <3>2
  <2>4. spc' # "gone" /\ spc # "gone"
    BY <2>1, <2>2
  <2> QED
    BY <2>2, <2>3, <2>4, QuietHandles, ReceivedSent, HandleTypes, FrameFacts DEF recvVars
<1>4. CASE SendTimesOut \/ SendBreaks \/ SenderCloses
  <2>1. /\ spc' \in {"failed", "closed"} /\ spc # "gone"
        /\ UNCHANGED <<sent, frame, written, sOs, sTable, recvVars>>
    BY <1>4 DEF SendTimesOut, SendBreaks, SenderCloses, SendFails
  <2>2. FramesInv'
    BY <1>1, <2>1 DEF FramesInv, Packed, Current
  <2> QED
    BY <2>1, <2>2, QuietHandles, ReceivedSent, HandleTypes, FrameFacts DEF recvVars
<1>5. CASE HeadRead \/ BodyRead \/ BodyTimesOut \/ RecvEof \/ RecvBreaks \/ ReceiverCloses
  <2>1. UNCHANGED <<sendVars, sOs, slot, rfds, rOs, delivered>> /\ rpc # "adopt"
    BY <1>5 DEF HeadRead, BodyRead, BodyTimesOut, RecvEof, RecvBreaks, ReceiverCloses, RecvEnds
  <2>2. FramesInv'
    BY <1>1, <2>1 DEF FramesInv, Packed, Current, sendVars
  <2>3. rpc' = "adopt" => Len(delivered) + 1 \in Messages
    <3>1. CASE BodyRead
      BY <3>1, BodyReadWhole
    <3>2. CASE HeadRead
      BY <3>2, HeadReadWhole
    <3>3. CASE BodyTimesOut \/ RecvEof \/ RecvBreaks \/ ReceiverCloses
      BY <3>3 DEF BodyTimesOut, RecvEof, RecvBreaks, ReceiverCloses, RecvEnds
    <3> QED
      BY <1>5, <3>1, <3>2, <3>3
  <2> QED
    BY <2>1, <2>2, <2>3, QuietHandles DEF sendVars
<1>6. CASE UNCHANGED msgVars
  <2>1. FramesInv'
    BY <1>1, <1>6 DEF FramesInv, Packed, Current, msgVars, sendVars
  <2> QED
    BY <1>6, <2>1, QuietHandles, ReceivedSent, HandleTypes, FrameFacts
       DEF msgVars, sendVars, recvVars
<1> QED
  BY <1>2, <1>3, <1>4, <1>5, <1>6

\* The sender's other descriptors come and go beside those under way.
LEMMA OwnHandles ==
    ASSUME WholeInv, HandleInv, OwnOpen \/ OwnClose \/ SenderExits
    PROVE  HandleInv'
<1> USE DEF HandleInv
<1>1. UNCHANGED <<sent, frame, written, stream, recvVars>>
  BY DEF OwnOpen, OwnClose, SenderExits
<1>2. \A m, j : Adopted(m, j)' <=> Adopted(m, j)
  BY <1>1 DEF Adopted, recvVars
<1>3. SlotInv'
  BY <1>1 DEF SlotInv, recvVars
<1>4. CASE OwnOpen
  <2>1. PICK h \in SHandles : /\ sOs[h] = Closed
                              /\ sOs' = [sOs EXCEPT ![h] = Own] /\ sTable' = {h}
    BY <1>4 DEF OwnOpen
  <2>2. spc # "gone" /\ spc' = spc
    BY <1>4 DEF OwnOpen
  <2>3. /\ sOs'[h] = Own
        /\ \A g \in SHandles : g # h => sOs'[g] = sOs[g]
    BY <2>1 DEF WholeInv, TypeOK
  <2>4. FramesInv'
    BY <1>1, <2>1, <2>2, <2>3 DEF FramesInv, Packed, Current
  <2>5. SenderHolds'
    <3>1. ASSUME NEW g \in SHandles, NEW m \in Messages, NEW j \in 1..Carried[m],
                 sOs'[g] = <<m, j>>
          PROVE  j <= Len(frame[m]) /\ g = frame[m][j] /\ ~Adopted(m, j)
      BY <2>3, <3>1, SentFacts DEF SenderHolds
    <3>2. ASSUME NEW m \in Messages, NEW j \in 1..Len(frame[m]), ~Adopted(m, j)
          PROVE  sOs'[frame[m][j]] = <<m, j>>
      <4>1. sOs[frame[m][j]] = <<m, j>>
        BY <2>2, <3>2 DEF SenderHolds
      <4>2. frame[m][j] \in SHandles /\ <<m, j>> # Closed
        BY SentFacts, HandleTypes
      <4> QED
        BY <2>1, <2>3, <4>1, <4>2
    <3>3. frame' = frame /\ spc' = spc
      BY <1>1, <2>2
    <3>4. (\A g \in SHandles, m \in Messages : \A j \in 1..Carried[m] :
            sOs[g] = <<m, j>> => /\ j <= Len(frame[m])
                                  /\ g = frame[m][j]
                                  /\ ~Adopted(m, j))'
      BY <1>2, <3>1, <3>3
    <3>5. (spc # "gone" => \A m \in Messages : \A j \in 1..Len(frame[m]) :
            ~Adopted(m, j) => sOs[frame[m][j]] = <<m, j>>)'
      BY <1>2, <3>2, <3>3
    <3> QED
      BY <3>4, <3>5 DEF SenderHolds
  <2>6. ReceiverHolds'
    BY <1>1, <1>2, <2>2 DEF ReceiverHolds, recvVars
  <2> QED
    BY <1>3, <2>4, <2>5, <2>6
<1>5. CASE OwnClose
  <2>1. /\ \A g \in SHandles : sOs'[g] = IF g \in sTable THEN Closed ELSE sOs[g]
        /\ sTable' = {} /\ spc' = spc
    BY <1>5 DEF OwnClose
  <2>2. \A g \in sTable : sOs[g] = Own
    BY DEF FramesInv
  <2>3. FramesInv'
    BY <1>1, <2>1 DEF FramesInv, Packed, Current
  <2>4. SenderHolds'
    <3>1. ASSUME NEW g \in SHandles, NEW m \in Messages, NEW j \in 1..Carried[m],
                 sOs'[g] = <<m, j>>
          PROVE  j <= Len(frame[m]) /\ g = frame[m][j] /\ ~Adopted(m, j)
      <4>1. sOs[g] = <<m, j>>
        BY <2>1, <3>1, SentFacts
      <4> QED
        BY <4>1 DEF SenderHolds
    <3>2. ASSUME NEW m \in Messages, NEW j \in 1..Len(frame[m]), ~Adopted(m, j),
                 spc # "gone"
          PROVE  sOs'[frame[m][j]] = <<m, j>>
      <4>1. sOs[frame[m][j]] = <<m, j>>
        BY <3>2 DEF SenderHolds
      <4>2. frame[m][j] \in SHandles /\ <<m, j>> # Own
        BY SentFacts, HandleTypes
      <4> QED
        BY <2>1, <2>2, <4>1, <4>2
    <3>3. frame' = frame /\ spc' = spc
      BY <1>1, <2>1
    <3>4. (\A h \in SHandles, m \in Messages : \A j \in 1..Carried[m] :
            sOs[h] = <<m, j>> => /\ j <= Len(frame[m])
                                  /\ h = frame[m][j]
                                  /\ ~Adopted(m, j))'
      BY <1>2, <3>1, <3>3
    <3>5. (spc # "gone" => \A m \in Messages : \A j \in 1..Len(frame[m]) :
            ~Adopted(m, j) => sOs[frame[m][j]] = <<m, j>>)'
      BY <1>2, <3>2, <3>3
    <3> QED
      BY <3>4, <3>5 DEF SenderHolds
  <2>5. ReceiverHolds'
    BY <1>1, <1>2, <2>1 DEF ReceiverHolds, recvVars
  <2> QED
    BY <1>3, <2>3, <2>4, <2>5
<1>6. CASE SenderExits
  <2>1. spc' = "gone" /\ sTable' = {} /\ \A g \in SHandles : sOs'[g] = Closed
    BY <1>6 DEF SenderExits
  <2>2. FramesInv'
    BY <1>1, <2>1 DEF FramesInv, Packed, Current
  <2>3. SenderHolds'
    BY <2>1, SentFacts DEF SenderHolds
  <2>4. ReceiverHolds'
    BY <1>1, <1>2, <2>1 DEF ReceiverHolds, recvVars
  <2> QED
    BY <1>3, <2>2, <2>3, <2>4
<1> QED
  BY <1>4, <1>5, <1>6


\* sendmsg puts the handle of a new duplicate into the frame.
LEMMA PackHandles ==
    ASSUME WholeInv, HandleInv, Pack
    PROVE  HandleInv'
<1> DEFINE n == Len(frame[Current]) + 1
<1>1. PICK h \in SHandles :
          /\ sOs[h] = Closed /\ sOs' = [sOs EXCEPT ![h] = <<Current, n>>]
          /\ frame' = [frame EXCEPT ![Current] = Append(frame[Current], h)]
  BY DEF Pack, Duplicated
<1>2. /\ spc = "send" /\ ~Packed
      /\ UNCHANGED <<spc, sent, written, sTable, stream, recvVars>>
  BY DEF Pack
<1>3. /\ Current \in Messages /\ Current = sent + 1 /\ sent \in Nat
      /\ Len(delivered) \in Nat /\ Len(delivered) <= sent
  BY <1>2, HandleTypes, FrameFacts, ReceivedSent DEF WholeInv, PhaseInv
<1>4. /\ frame[Current] \in Seq(SHandles) /\ n \in Nat \ {0} /\ Len(frame[Current]) = n - 1
      /\ n <= Carried[Current]
  <2>1. /\ Len(frame[Current]) \in 0..Carried[Current] /\ Carried[Current] \in Nat
        /\ frame[Current] \in Seq(SHandles) /\ Len(frame[Current]) # Carried[Current]
    BY <1>2, <1>3, HandleTypes DEF Packed, WholeInv, TypeOK
  <2> QED
    BY <2>1
<1>5. /\ Len(frame'[Current]) = n /\ frame'[Current][n] = h
      /\ \A j \in 1..(n - 1) : frame'[Current][j] = frame[Current][j]
      /\ \A m \in Messages : m # Current => frame'[m] = frame[m]
  <2>1. /\ Len(Append(frame[Current], h)) = n /\ Append(frame[Current], h)[n] = h
        /\ \A j \in 1..(n - 1) : Append(frame[Current], h)[j] = frame[Current][j]
    BY <1>4, AppendProperties
  <2> QED
    BY <1>1, <1>3, <2>1 DEF WholeInv, TypeOK
<1>6. \A m, j : Adopted(m, j)' <=> Adopted(m, j)
  BY <1>2 DEF Adopted, recvVars
<1>7. \A j \in Nat \ {0} : ~Adopted(Current, j)
  <2>1. slot = 0 \/ Len(delivered) + 1 <= sent
    BY ReceivedSent DEF HandleInv, SlotInv
  <2> QED
    BY <1>3, <2>1 DEF Adopted
<1>8. /\ sOs'[h] = <<Current, n>>
      /\ \A g \in SHandles : g # h => sOs'[g] = sOs[g]
  BY <1>1 DEF WholeInv, TypeOK
<1>9. \A m \in Messages : \A j \in 1..Len(frame[m]) :
          /\ j \in 1..Len(frame'[m]) /\ frame'[m][j] = frame[m][j]
          /\ frame[m][j] \in SHandles /\ j \in 1..Carried[m]
  <2> SUFFICES ASSUME NEW m \in Messages, NEW j \in 1..Len(frame[m])
               PROVE  /\ j \in 1..Len(frame'[m]) /\ frame'[m][j] = frame[m][j]
                      /\ frame[m][j] \in SHandles /\ j \in 1..Carried[m]
    OBVIOUS
  <2>1. frame[m][j] \in SHandles /\ j \in 1..Carried[m]
    BY HandleTypes
  <2>2. CASE m = Current
    <3>1. j \in 1..(n - 1) /\ j \in 1..n
      BY <1>4, <2>2
    <3>2. frame'[Current][j] = frame[Current][j] /\ Len(frame'[Current]) = n
      BY <1>5, <3>1
    <3> QED
      BY <2>1, <2>2, <3>1, <3>2
  <2>3. CASE m # Current
    <3>1. frame'[m] = frame[m]
      BY <1>5, <2>3
    <3> QED
      BY <2>1, <3>1
  <2> QED
    BY <2>2, <2>3
<1>10. \A m \in Messages : \A j \in 1..Len(frame'[m]) :
           j \in 1..Len(frame[m]) \/ (m = Current /\ j = n)
  BY <1>4, <1>5
<1>11. FramesInv'
  <2>1. FramesInv /\ written = 0
    <3>1. written \in Nat
      BY FrameFacts DEF WholeInv, TypeOK
    <3> QED
      BY <1>2, <3>1 DEF HandleInv, FramesInv
  <2>2. Current' = Current /\ sTable' = sTable /\ spc' = "send" /\ written' = 0 /\ sent' = sent
    BY <1>2, <2>1 DEF Current
  <2>3. \A m \in Messages : m <= sent \/ m > Current => m # Current
    BY <1>3, FrameFacts
  <2>4. \A g \in sTable : sOs'[g] = Own
    <3>1. \A g \in sTable : g \in SHandles /\ sOs[g] = Own
      BY <2>1 DEF FramesInv, WholeInv, TypeOK
    <3> QED
      BY <1>1, <1>8, <3>1, MsgAssumption
  <2> QED
    BY <1>5, <2>1, <2>2, <2>3, <2>4 DEF FramesInv
<1>12. SlotInv'
  BY <1>2 DEF HandleInv, SlotInv, recvVars
<1>13. SenderHolds'
  <2>1. ASSUME NEW g \in SHandles, NEW m \in Messages, NEW j \in 1..Carried[m],
               sOs'[g] = <<m, j>>
        PROVE  j <= Len(frame'[m]) /\ g = frame'[m][j] /\ ~Adopted(m, j)
    <3>1. CASE g = h
      <4>1. m = Current /\ j = n
        BY <1>8, <2>1, <3>1
      <4> QED
        BY <1>4, <1>5, <1>7, <3>1, <4>1
    <3>2. CASE g # h
      <4>1. j <= Len(frame[m]) /\ g = frame[m][j] /\ ~Adopted(m, j)
        BY <1>8, <2>1, <3>2 DEF HandleInv, SenderHolds
      <4>2. j \in 1..Len(frame[m])
        BY <4>1, HandleTypes
      <4>3. j \in 1..Len(frame'[m]) /\ frame'[m][j] = frame[m][j]
        BY <1>9, <4>2
      <4> QED
        BY <4>1, <4>3
    <3> QED
      BY <3>1, <3>2
  <2>2. ASSUME NEW m \in Messages, NEW j \in 1..Len(frame'[m]), ~Adopted(m, j)
        PROVE  sOs'[frame'[m][j]] = <<m, j>>
    <3>1. CASE j \in 1..Len(frame[m])
      <4>1. sOs[frame[m][j]] = <<m, j>>
        BY <1>2, <2>2, <3>1 DEF HandleInv, SenderHolds
      <4>2. frame[m][j] \in SHandles /\ <<m, j>> # Closed /\ frame'[m][j] = frame[m][j]
        BY <1>9, <3>1, SentFacts
      <4> QED
        BY <1>1, <1>8, <4>1, <4>2
    <3>2. CASE m = Current /\ j = n
      BY <1>5, <1>8, <3>2
    <3> QED
      BY <1>10, <3>1, <3>2
  <2>3. spc' # "gone"
    BY <1>2
  <2> QED
    BY <1>6, <2>1, <2>2, <2>3 DEF SenderHolds
<1>14. ReceiverHolds'
  <2>1. ReceiverHolds /\ spc' = spc /\ UNCHANGED recvVars
    BY <1>2 DEF HandleInv
  <2>2. \A m \in Messages : \A j \in 1..Carried[m] : j <= Len(frame[m]) => j <= Len(frame'[m])
    <3> SUFFICES ASSUME NEW m \in Messages, NEW j \in 1..Carried[m], j <= Len(frame[m])
                 PROVE  j <= Len(frame'[m])
      OBVIOUS
    <3>1. j \in 1..Len(frame[m])
      BY HandleTypes
    <3> QED
      BY <1>9, <3>1
  <2> QED
    BY <1>6, <2>1, <2>2 DEF ReceiverHolds, recvVars
<1> QED
  BY <1>11, <1>12, <1>13, <1>14 DEF HandleInv

\* What the receiver is about to adopt is in the frame, and there is no more of
\* it than was sent.
LEMMA SlotFacts ==
    ASSUME FewBad, WholeInv, HandleInv, rpc = "adopt"
    PROVE  /\ RMsg \in Messages /\ RMsg = Len(delivered) + 1 /\ RMsg <= sent
           /\ FdCount(RMsg) = Carried[RMsg] /\ Len(frame[RMsg]) = Carried[RMsg]
           /\ slot \in 0..Carried[RMsg] /\ Carried[RMsg] \in Nat
<1>1. RMsg \in Messages /\ RMsg = Len(delivered) + 1 /\ RMsg <= sent
  BY ReceivedSent
<1>2. Len(frame[RMsg]) = Carried[RMsg] /\ slot <= Carried[RMsg]
  BY <1>1 DEF HandleInv, FramesInv, SlotInv
<1> QED
  BY <1>1, <1>2, CountsAgree, HandleTypes

\* The handle that is adopted is the one of the next descriptor, and open as
\* long as the sender runs.
LEMMA NextHandle ==
    ASSUME FewBad, WholeInv, HandleInv, Adopting, NEW h \in SHandles, Offered(h)
    PROVE  /\ slot + 1 \in 1..Carried[RMsg] /\ slot + 1 \in 1..Len(frame[RMsg])
           /\ h = frame[RMsg][slot + 1] /\ ~Adopted(RMsg, slot + 1)
           /\ spc # "gone" => sOs[h] = <<RMsg, slot + 1>>
<1>1. /\ slot \in Nat /\ slot < Carried[RMsg] /\ RMsg \in Messages
      /\ Len(frame[RMsg]) = Carried[RMsg] /\ Carried[RMsg] \in Nat
      /\ RMsg = Len(delivered) + 1 /\ Len(delivered) \in Nat
  BY SlotFacts, HandleTypes DEF Adopting
<1>2. slot + 1 \in 1..Carried[RMsg] /\ h = frame[RMsg][slot + 1]
  BY <1>1 DEF Offered
<1>3. ~Adopted(RMsg, slot + 1)
  BY <1>1 DEF Adopted
<1> QED
  BY <1>1, <1>2, <1>3 DEF HandleInv, SenderHolds

LEMMA AdoptedNext ==
    ASSUME WholeInv, slot' = slot + 1, delivered' = delivered,
           NEW m \in Messages, NEW j \in Nat \ {0}
    PROVE  Adopted(m, j)' <=> Adopted(m, j) \/ (m = Len(delivered) + 1 /\ j = slot + 1)
<1>1. slot \in Nat /\ Len(delivered) \in Nat /\ m \in Int
  BY HandleTypes, FrameFacts
<1> QED
  BY <1>1 DEF Adopted


\* UnixFD::adopt moves one handle from one process to the other.
LEMMA AdoptHandles ==
    ASSUME FewBad, WholeInv, HandleInv, Adopt
    PROVE  HandleInv'
<1> DEFINE D == Len(delivered)
<1> DEFINE object == <<D + 1, slot + 1>>
<1>1. PICK h \in SHandles, r \in RHandles :
          /\ Offered(h) /\ DuplicateHandleOk(h) /\ rOs[r] = Closed
          /\ rOs' = [rOs EXCEPT ![r] = sOs[h]] /\ rfds' = Append(rfds, r)
          /\ sOs' = [sOs EXCEPT ![h] = Closed]
  BY DEF Adopt, SourceClosed
<1>2. /\ Adopting /\ rpc = "adopt" /\ slot' = slot + 1
      /\ UNCHANGED <<sendVars, stream, rpc, rbuf, delivered>>
  BY DEF Adopt, Adopting
<1>3. spc # "gone" /\ spc' # "gone"
  BY <1>1, <1>2 DEF DuplicateHandleOk, sendVars
<1>4. /\ D + 1 \in Messages /\ D \in Nat /\ D + 1 <= sent /\ RMsg = D + 1 /\ slot \in Nat
  BY <1>2, SlotFacts, HandleTypes
<1>5. /\ slot + 1 \in 1..Carried[D + 1] /\ slot + 1 \in 1..Len(frame[D + 1])
      /\ h = frame[D + 1][slot + 1] /\ ~Adopted(D + 1, slot + 1) /\ sOs[h] = object
  BY <1>1, <1>2, <1>3, <1>4, NextHandle
<1>6. object # Closed /\ object # Own
  BY <1>4, <1>5, SentFacts
<1>7. /\ sOs'[h] = Closed /\ \A g \in SHandles : g # h => sOs'[g] = sOs[g]
      /\ rOs'[r] = object /\ \A q \in RHandles : q # r => rOs'[q] = rOs[q]
  BY <1>1, <1>5 DEF WholeInv, TypeOK
<1>8. \A m \in Messages : \A j \in Nat \ {0} :
          Adopted(m, j)' <=> Adopted(m, j) \/ (m = D + 1 /\ j = slot + 1)
  BY <1>2, AdoptedNext
<1>9. FramesInv'
  <2>1. FramesInv
    BY DEF HandleInv
  <2>2. \A g \in sTable : sOs'[g] = Own
    <3>1. \A g \in sTable : g \in SHandles /\ sOs[g] = Own
      BY <2>1 DEF FramesInv, WholeInv, TypeOK
    <3> QED
      BY <1>5, <1>6, <1>7, <3>1
  <2> QED
    BY <1>2, <1>3, <2>1, <2>2 DEF FramesInv, Packed, Current, sendVars
<1>10. SlotInv'
  BY <1>2, <1>4, <1>5 DEF SlotInv
<1>11. SenderHolds'
  <2>1. ASSUME NEW g \in SHandles, NEW m \in Messages, NEW j \in 1..Carried[m],
               sOs'[g] = <<m, j>>
        PROVE  j <= Len(frame[m]) /\ g = frame[m][j] /\ ~Adopted(m, j)'
    <3>1. g # h /\ sOs[g] = <<m, j>>
      BY <1>7, <2>1, SentFacts
    <3>2. j <= Len(frame[m]) /\ g = frame[m][j] /\ ~Adopted(m, j)
      BY <3>1 DEF HandleInv, SenderHolds
    <3>3. ~(m = D + 1 /\ j = slot + 1)
      BY <1>5, <3>1, <3>2
    <3>4. j \in Nat \ {0}
      BY HandleTypes
    <3> QED
      BY <1>8, <3>2, <3>3, <3>4
  <2>2. ASSUME NEW m \in Messages, NEW j \in 1..Len(frame[m]), ~Adopted(m, j)'
        PROVE  sOs'[frame[m][j]] = <<m, j>>
    <3>1. j \in Nat \ {0} /\ frame[m][j] \in SHandles
      BY HandleTypes
    <3>2. ~Adopted(m, j) /\ <<m, j>> # object
      BY <1>8, <2>2, <3>1
    <3>3. sOs[frame[m][j]] = <<m, j>>
      BY <1>3, <3>2 DEF HandleInv, SenderHolds
    <3> QED
      BY <1>5, <1>7, <3>1, <3>2, <3>3
  <2>3. frame' = frame
    BY <1>2 DEF sendVars
  <2> QED
    BY <1>3, <2>1, <2>2, <2>3 DEF SenderHolds
<1>12. ReceiverHolds'
  <2>1. \A q \in RHandles : rOs[q] # object
    BY <1>4, <1>5 DEF HandleInv, ReceiverHolds
  <2>2. ASSUME NEW q \in RHandles, NEW m \in Messages, NEW j \in 1..Carried[m],
               rOs'[q] = <<m, j>>
        PROVE  j <= Len(frame[m]) /\ Adopted(m, j)'
    <3>1. j \in Nat \ {0}
      BY HandleTypes
    <3>2. CASE q = r
      <4>1. m = D + 1 /\ j = slot + 1
        BY <1>7, <2>2, <3>2
      <4> QED
        BY <1>5, <1>8, <3>1, <4>1
    <3>3. CASE q # r
      <4>1. rOs[q] = <<m, j>>
        BY <1>7, <2>2, <3>3
      <4> QED
        BY <1>8, <3>1, <4>1 DEF HandleInv, ReceiverHolds
    <3> QED
      BY <3>2, <3>3
  <2>3. \A p, q \in RHandles : rOs'[p] = rOs'[q] /\ rOs'[p] # Closed => p = q
    <3>1. \A p, q \in RHandles : rOs[p] = rOs[q] /\ rOs[p] # Closed => p = q
      BY DEF HandleInv, ReceiverHolds
    <3> QED
      BY <1>7, <2>1, <3>1
  <2>4. /\ rfds \in Seq(RHandles) /\ Len(rfds) = slot
        /\ \A j \in 1..slot : rOs[rfds[j]] = <<D + 1, j>>
    BY <1>3 DEF HandleInv, ReceiverHolds, WholeInv, TypeOK
  <2>5. /\ Len(rfds') = slot' /\ rfds'[slot + 1] = r
        /\ \A j \in 1..slot : rfds'[j] = rfds[j] /\ rfds[j] \in RHandles
    BY <1>1, <1>2, <2>4, AppendProperties, ElementOfSeq
  <2>6. ASSUME NEW j \in 1..slot'
        PROVE  rOs'[rfds'[j]] = <<D + 1, j>>
    <3>1. CASE j = slot + 1
      BY <1>7, <2>5, <3>1
    <3>2. CASE j # slot + 1
      <4>1. j \in 1..slot
        BY <1>2, <1>4, <3>2
      <4>2. j \in 1..Carried[D + 1]
        BY <1>4, <1>5, <4>1, HandleTypes
      <4>3. <<D + 1, j>> # Closed
        BY <1>4, <4>2, SentFacts
      <4>4. rfds'[j] = rfds[j] /\ rfds[j] \in RHandles /\ rOs[rfds[j]] = <<D + 1, j>>
        BY <2>4, <2>5, <4>1
      <4>5. rfds[j] # r
        BY <1>1, <4>3, <4>4
      <4> QED
        BY <1>7, <4>4, <4>5
    <3> QED
      BY <3>1, <3>2
  <2>7. ASSUME NEW m \in 1..Len(delivered), delivered[m].room
        PROVE  /\ Len(delivered[m].fds) = Carried[m]
               /\ \A j \in 1..Carried[m] : rOs'[delivered[m].fds[j]] = <<m, j>>
    <3>1. /\ Len(delivered[m].fds) = Carried[m]
          /\ \A j \in 1..Carried[m] : rOs[delivered[m].fds[j]] = <<m, j>>
      BY <1>3, <2>7 DEF HandleInv, ReceiverHolds
    <3>2. delivered[m].fds \in Seq(RHandles)
      <4>1. delivered[m] \in [units : Seq(Units), fds : Seq(RHandles), room : BOOLEAN]
        BY ElementOfSeq DEF WholeInv, TypeOK
      <4> QED
        BY <4>1
    <3>3. m \in Messages
      BY <1>4, FrameFacts, HandleTypes
    <3>4. ASSUME NEW j \in 1..Carried[m]
          PROVE  rOs'[delivered[m].fds[j]] = <<m, j>>
      <4>1. delivered[m].fds[j] \in RHandles
        BY <3>1, <3>2, ElementOfSeq
      <4>2. rOs[delivered[m].fds[j]] = <<m, j>> /\ <<m, j>> # Closed
        BY <3>1, <3>3, SentFacts
      <4> QED
        BY <1>1, <1>7, <4>1, <4>2
    <3> QED
      BY <3>1, <3>4
  <2>8. frame' = frame /\ delivered' = delivered
    BY <1>2 DEF sendVars
  <2> QED
    BY <2>2, <2>3, <2>5, <2>6, <2>7, <2>8 DEF ReceiverHolds
<1> QED
  BY <1>9, <1>10, <1>11, <1>12 DEF HandleInv


\* When the sender is gone, its handles are, and adopting one changes nothing
\* but the slot.
LEMMA UnsetHandles ==
    ASSUME FewBad, WholeInv, HandleInv, AdoptUnset
    PROVE  HandleInv'
<1>1. PICK h \in SHandles : Offered(h) /\ ~DuplicateHandleOk(h)
  BY DEF AdoptUnset
<1>2. /\ Adopting /\ rpc = "adopt" /\ slot' = slot + 1
      /\ UNCHANGED <<sendVars, sOs, stream, rpc, rbuf, rOs, delivered>>
  BY DEF AdoptUnset, Adopting
<1>3. /\ Len(delivered) + 1 \in Messages /\ RMsg = Len(delivered) + 1 /\ slot \in Nat
      /\ slot + 1 \in 1..Carried[RMsg] /\ slot + 1 \in 1..Len(frame[RMsg])
      /\ spc # "gone" => sOs[h] = <<RMsg, slot + 1>>
  BY <1>1, <1>2, SlotFacts, NextHandle, HandleTypes
<1>4. spc = "gone" /\ spc' = "gone"
  BY <1>1, <1>2, <1>3, SentFacts DEF DuplicateHandleOk, sendVars
<1>5. \A m \in Messages : \A j \in Nat \ {0} :
          Adopted(m, j)' <=> Adopted(m, j) \/ (m = Len(delivered) + 1 /\ j = slot + 1)
  BY <1>2, AdoptedNext
<1>6. FramesInv'
  BY <1>2 DEF HandleInv, FramesInv, Packed, Current, sendVars
<1>7. SlotInv'
  BY <1>2, <1>3 DEF SlotInv
<1>8. SenderHolds'
  <2>1. \A g \in SHandles : sOs'[g] = Closed
    BY <1>2, <1>4 DEF HandleInv, FramesInv
  <2> QED
    BY <1>4, <2>1, SentFacts DEF SenderHolds
<1>9. ReceiverHolds'
  <2>1. ASSUME NEW q \in RHandles, NEW m \in Messages, NEW j \in 1..Carried[m],
               rOs[q] = <<m, j>>
        PROVE  j <= Len(frame[m]) /\ Adopted(m, j)'
    <3>1. j \in Nat \ {0}
      BY HandleTypes
    <3> QED
      BY <1>5, <2>1, <3>1 DEF HandleInv, ReceiverHolds
  <2>2. \A p, q \in RHandles : rOs[p] = rOs[q] /\ rOs[p] # Closed => p = q
    BY DEF HandleInv, ReceiverHolds
  <2>3. rOs' = rOs /\ frame' = frame
    BY <1>2 DEF sendVars
  <2> QED
    BY <1>4, <2>1, <2>2, <2>3 DEF ReceiverHolds
<1> QED
  BY <1>6, <1>7, <1>8, <1>9 DEF HandleInv

\* recvmsg returns when every slot has been adopted.
LEMMA DeliverHandles ==
    ASSUME FewBad, WholeInv, HandleInv, Deliver
    PROVE  HandleInv'
<1> DEFINE D == Len(delivered)
<1> DEFINE result == [units |-> rbuf, fds |-> rfds, room |-> TRUE]
<1>1. /\ rpc = "adopt" /\ delivered' = Append(delivered, result)
      /\ rpc' = "idle" /\ slot' = 0 /\ rfds' = <<>>
      /\ UNCHANGED <<sendVars, sOs, stream, rOs>>
  BY DEF Deliver, Returns
<1>2. /\ D \in Nat /\ D + 1 \in Messages /\ slot = Carried[D + 1] /\ slot \in Nat
      /\ RMsg = D + 1
  BY <1>1, SlotFacts, HandleTypes DEF Deliver
<1>3. /\ Len(delivered') = D + 1 /\ delivered'[D + 1] = result
      /\ \A i \in 1..D : delivered'[i] = delivered[i]
  <2>1. result \in [units : Seq(Units), fds : Seq(RHandles), room : BOOLEAN]
    BY DEF WholeInv, TypeOK
  <2> QED
    BY <1>1, <2>1, AppendProperties DEF WholeInv, TypeOK
<1>4. \A m \in Messages : \A j \in 1..Carried[m] : Adopted(m, j)' <=> Adopted(m, j)
  <2> SUFFICES ASSUME NEW m \in Messages, NEW j \in 1..Carried[m]
               PROVE  Adopted(m, j)' <=> Adopted(m, j)
    OBVIOUS
  <2>1. m \in Nat /\ m >= 1 /\ j \in Nat \ {0} /\ j <= Carried[m]
    BY FrameFacts, HandleTypes
  <2>2. CASE m = D + 1
    BY <1>1, <1>2, <1>3, <2>1, <2>2 DEF Adopted
  <2>3. CASE m <= D
    <3>1. m \in 1..D /\ m <= D + 1
      BY <1>2, <2>1, <2>3
    <3> QED
      BY <1>1, <1>2, <1>3, <2>1, <2>3, <3>1 DEF Adopted
  <2>4. CASE m > D + 1
    BY <1>1, <1>2, <1>3, <2>1, <2>4 DEF Adopted
  <2> QED
    BY <1>2, <2>1, <2>2, <2>3, <2>4
<1>5. frame' = frame /\ spc' = spc /\ sOs' = sOs /\ rOs' = rOs
  BY <1>1 DEF sendVars
<1>6. FramesInv'
  BY <1>1 DEF HandleInv, FramesInv, Packed, Current, sendVars
<1>7. SlotInv'
  BY <1>1 DEF SlotInv
<1>8. SenderHolds'
  <2>1. ASSUME NEW h \in SHandles, NEW m \in Messages, NEW j \in 1..Carried[m],
               sOs[h] = <<m, j>>
        PROVE  j <= Len(frame[m]) /\ h = frame[m][j] /\ ~Adopted(m, j)'
    BY <1>4, <2>1 DEF HandleInv, SenderHolds
  <2>2. ASSUME NEW m \in Messages, NEW j \in 1..Len(frame[m]), ~Adopted(m, j)',
               spc # "gone"
        PROVE  sOs[frame[m][j]] = <<m, j>>
    <3>1. j \in 1..Carried[m]
      BY HandleTypes
    <3> QED
      BY <1>4, <2>2, <3>1 DEF HandleInv, SenderHolds
  <2> QED
    BY <1>5, <2>1, <2>2 DEF SenderHolds
<1>9. ReceiverHolds'
  <2>1. /\ \A r \in RHandles, m \in Messages : \A j \in 1..Carried[m] :
               rOs[r] = <<m, j>> => j <= Len(frame[m]) /\ Adopted(m, j)'
        /\ \A q, r \in RHandles : rOs[q] = rOs[r] /\ rOs[q] # Closed => q = r
    BY <1>4 DEF HandleInv, ReceiverHolds
  <2>2. Len(rfds') = 0
    BY <1>1, EmptySeq
  <2>3. ASSUME spc # "gone", NEW m \in 1..(D + 1), delivered'[m].room
        PROVE  /\ Len(delivered'[m].fds) = Carried[m]
               /\ \A j \in 1..Carried[m] : rOs[delivered'[m].fds[j]] = <<m, j>>
    <3>1. CASE m = D + 1
      <4>1. delivered'[m].fds = rfds
        BY <1>3, <3>1
      <4>2. Len(rfds) = slot /\ \A j \in 1..slot : rOs[rfds[j]] = <<D + 1, j>>
        BY <2>3 DEF HandleInv, ReceiverHolds
      <4>3. Carried[m] = slot /\ D + 1 = m
        BY <1>2, <3>1
      <4>4. \A j \in 1..slot : rOs[rfds[j]] = <<m, j>>
        BY <4>2, <4>3
      <4> QED
        BY <4>1, <4>2, <4>3, <4>4
    <3>2. CASE m # D + 1
      <4>1. m \in 1..D
        BY <1>2, <3>2
      <4>2. delivered'[m] = delivered[m]
        BY <1>3, <4>1
      <4>3. /\ Len(delivered[m].fds) = Carried[m]
            /\ \A j \in 1..Carried[m] : rOs[delivered[m].fds[j]] = <<m, j>>
        BY <2>3, <4>1, <4>2 DEF HandleInv, ReceiverHolds
      <4> QED
        BY <4>2, <4>3
    <3> QED
      BY <3>1, <3>2
  <2>4. 1..slot' = {} /\ 1..Len(delivered') = 1..(D + 1) /\ Len(rfds') = slot'
    BY <1>1, <1>3, <2>2
  <2> QED
    BY ZenonT(40), <1>5, <2>1, <2>3, <2>4 DEF ReceiverHolds
<1> QED
  BY <1>6, <1>7, <1>8, <1>9 DEF HandleInv

\* A caller without room for descriptors gets none; the handles in the frame stay
\* as they are.
LEMMA DataOnlyHandles ==
    ASSUME WholeInv, HandleInv, DeliverDataOnly
    PROVE  HandleInv'
<1> DEFINE D == Len(delivered)
<1> DEFINE result == [units |-> rbuf, fds |-> <<>>, room |-> FALSE]
<1>1. /\ rpc = "adopt" /\ slot = 0 /\ delivered' = Append(delivered, result)
      /\ rpc' = "idle" /\ slot' = 0 /\ rfds' = <<>>
      /\ UNCHANGED <<sendVars, sOs, stream, rOs>>
  BY DEF DeliverDataOnly, Adopting, Returns
<1>2. /\ Len(delivered') = D + 1 /\ D \in Nat /\ ~delivered'[D + 1].room
      /\ \A i \in 1..D : delivered'[i] = delivered[i]
  <2>1. result \in Results /\ delivered \in Seq(Results) /\ ~result.room
    BY EmptySeq DEF WholeInv, TypeOK, Results
  <2> QED
    BY <1>1, <2>1, AppendProperties, HandleTypes
<1>3. \A m \in Messages : \A j \in Nat \ {0} : Adopted(m, j)' <=> Adopted(m, j)
  <2> SUFFICES ASSUME NEW m \in Messages, NEW j \in Nat \ {0}
               PROVE  Adopted(m, j)' <=> Adopted(m, j)
    OBVIOUS
  <2>1. m \in Nat /\ m >= 1
    BY FrameFacts
  <2>2. CASE m <= D
    <3>1. delivered'[m] = delivered[m] /\ m <= D + 1
      BY <1>2, <2>1, <2>2
    <3> QED
      BY <1>1, <1>2, <2>1, <2>2, <3>1 DEF Adopted
  <2>3. CASE m = D + 1
    BY <1>1, <1>2, <2>1, <2>3 DEF Adopted
  <2>4. CASE m > D + 1
    BY <1>1, <1>2, <2>1, <2>4 DEF Adopted
  <2> QED
    BY <1>2, <2>1, <2>2, <2>3, <2>4
<1>4. frame' = frame /\ spc' = spc /\ sOs' = sOs /\ rOs' = rOs
  BY <1>1 DEF sendVars
<1>5. FramesInv'
  BY <1>1 DEF HandleInv, FramesInv, Packed, Current, sendVars
<1>6. SlotInv'
  BY <1>1 DEF SlotInv
<1>7. SenderHolds'
  <2>1. ASSUME NEW h \in SHandles, NEW m \in Messages, NEW j \in 1..Carried[m],
               sOs[h] = <<m, j>>
        PROVE  j <= Len(frame[m]) /\ h = frame[m][j] /\ ~Adopted(m, j)'
    <3>1. j \in Nat \ {0}
      BY HandleTypes
    <3> QED
      BY <1>3, <2>1, <3>1 DEF HandleInv, SenderHolds
  <2>2. ASSUME NEW m \in Messages, NEW j \in 1..Len(frame[m]), ~Adopted(m, j)',
               spc # "gone"
        PROVE  sOs[frame[m][j]] = <<m, j>>
    <3>1. j \in Nat \ {0}
      BY HandleTypes
    <3> QED
      BY <1>3, <2>2, <3>1 DEF HandleInv, SenderHolds
  <2> QED
    BY <1>4, <2>1, <2>2 DEF SenderHolds
<1>8. ReceiverHolds'
  <2>1. ASSUME NEW r \in RHandles, NEW m \in Messages, NEW j \in 1..Carried[m],
               rOs[r] = <<m, j>>
        PROVE  j <= Len(frame[m]) /\ Adopted(m, j)'
    <3>1. j \in Nat \ {0}
      BY HandleTypes
    <3> QED
      BY <1>3, <2>1, <3>1 DEF HandleInv, ReceiverHolds
  <2>2. \A q, r \in RHandles : rOs[q] = rOs[r] /\ rOs[q] # Closed => q = r
    BY DEF HandleInv, ReceiverHolds
  <2>3. Len(rfds') = 0
    BY <1>1, EmptySeq
  <2>4. ASSUME spc # "gone", NEW m \in 1..(D + 1), delivered'[m].room
        PROVE  /\ Len(delivered'[m].fds) = Carried[m]
               /\ \A j \in 1..Carried[m] : rOs[delivered'[m].fds[j]] = <<m, j>>
    <3>1. m \in 1..D
      BY <1>2, <2>4
    <3>2. delivered'[m] = delivered[m]
      BY <1>2, <3>1
    <3> QED
      BY <2>4, <3>1, <3>2 DEF HandleInv, ReceiverHolds
  <2>5. 1..slot' = {} /\ 1..Len(delivered') = 1..(D + 1) /\ Len(rfds') = slot'
    BY <1>1, <1>2, <2>3
  <2> QED
    BY ZenonT(40), <1>4, <2>1, <2>2, <2>4, <2>5 DEF ReceiverHolds
<1> QED
  BY <1>5, <1>6, <1>7, <1>8 DEF HandleInv

LEMMA InitHandles == Init => HandleInv
<1> SUFFICES ASSUME Init PROVE HandleInv
  OBVIOUS
<1>1. Len(delivered) = 0 /\ slot = 0 /\ Len(rfds) = 0 /\ rfds = <<>>
  BY EmptySeq DEF Init
<1>2. \A h \in SHandles : sOs[h] = Closed
  BY DEF Init
<1>3. \A r \in RHandles : rOs[r] = Closed
  BY DEF Init
<1>4. \A m \in Messages : frame[m] = <<>> /\ Len(frame[m]) = 0
  BY EmptySeq DEF Init
<1>5. FramesInv
  BY <1>4, FrameFacts DEF Init, FramesInv, Current
<1>6. SlotInv
  BY <1>1 DEF Init, SlotInv
<1>7. SenderHolds
  <2>1. \A h \in SHandles, m \in Messages : \A j \in 1..Carried[m] : sOs[h] # <<m, j>>
    BY <1>2, SentFacts
  <2>2. \A m \in Messages : 1..Len(frame[m]) = {}
    BY <1>4
  <2> QED
    BY <2>1, <2>2 DEF SenderHolds
<1>8. ReceiverHolds
  <2>1. \A r \in RHandles, m \in Messages : \A j \in 1..Carried[m] : rOs[r] # <<m, j>>
    BY <1>3, SentFacts
  <2>2. 1..slot = {} /\ 1..Len(delivered) = {}
    BY <1>1
  <2> QED
    BY <1>1, <1>3, <2>1, <2>2 DEF ReceiverHolds
<1> QED
  BY <1>5, <1>6, <1>7, <1>8 DEF HandleInv

LEMMA StepHandles ==
    FewBad => (WholeInv /\ HandleInv /\ [Next]_msgVars => WholeInv' /\ HandleInv')
<1> SUFFICES ASSUME FewBad, WholeInv, HandleInv, [Next]_msgVars
             PROVE  WholeInv' /\ HandleInv'
  OBVIOUS
<1>1. WholeInv'
  BY StepWhole
<1>2. CASE UNCHANGED msgVars
  BY <1>1, <1>2, StreamHandles
<1>3. CASE Next
  BY <1>1, <1>3, StreamHandles, OwnHandles, PackHandles, AdoptHandles, UnsetHandles,
     DeliverHandles, DataOnlyHandles DEF Next, SendStep, RecvStep
<1> QED
  BY <1>1, <1>2, <1>3

\* Handle values in frames are the duplicates they were made for.
THEOREM FramesStayOpen ==
    ASSUME FewBad
    PROVE  MsgSpec => []InFlightOpen
<1>1. WholeInv /\ HandleInv => InFlightOpen
  <2> SUFFICES ASSUME WholeInv, HandleInv, spc # "gone",
                      NEW m \in Messages, NEW j \in 1..Len(frame[m]), ~Adopted(m, j)
               PROVE  sOs[frame[m][j]] = <<m, j>> /\ frame[m][j] \notin sTable
    BY DEF InFlightOpen
  <2>1. sOs[frame[m][j]] = <<m, j>>
    BY DEF HandleInv, SenderHolds
  <2>2. <<m, j>> # Own
    BY HandleTypes, SentFacts
  <2> QED
    BY <2>1, <2>2 DEF HandleInv, FramesInv
<1>2. WholeInv /\ HandleInv /\ [Next]_msgVars => WholeInv' /\ HandleInv'
  BY StepHandles
<1> QED
  BY <1>1, <1>2, InitWhole, InitHandles, PTL DEF MsgSpec

\* The descriptors that a receiver with room for them gets are those that were
\* sent, in the sender's order.
THEOREM DescriptorsKept ==
    ASSUME FewBad
    PROVE  MsgSpec => []DescriptorsArrive
<1>1. WholeInv /\ HandleInv => DescriptorsArrive
  <2> SUFFICES ASSUME WholeInv, HandleInv, spc # "gone", NEW m \in 1..Len(delivered),
                      delivered[m].room
               PROVE  [j \in DOMAIN delivered[m].fds |-> rOs[delivered[m].fds[j]]]
                          = [j \in 1..Carried[m] |-> <<m, j>>]
    BY DEF DescriptorsArrive
  <2>1. /\ Len(delivered[m].fds) = Carried[m]
        /\ \A j \in 1..Carried[m] : rOs[delivered[m].fds[j]] = <<m, j>>
    BY DEF HandleInv, ReceiverHolds
  <2>2. delivered[m] \in [units : Seq(Units), fds : Seq(RHandles), room : BOOLEAN]
    BY ElementOfSeq DEF WholeInv, TypeOK
  <2>3. DOMAIN delivered[m].fds = 1..Carried[m]
    <3>1. delivered[m].fds \in Seq(RHandles)
      BY <2>2
    <3> QED
      BY <2>1, <3>1, LenProperties
  <2> QED
    BY <2>1, <2>3
<1>2. WholeInv /\ HandleInv /\ [Next]_msgVars => WholeInv' /\ HandleInv'
  BY StepHandles
<1> QED
  BY <1>1, <1>2, InitWhole, InitHandles, PTL DEF MsgSpec

LEMMA AtMostOne ==
    ASSUME NEW S, \A x, y \in S : x = y
    PROVE  /\ Cardinality(S) \in 0..1
           /\ S # {} => Cardinality(S) = 1
           /\ S = {} => Cardinality(S) = 0
<1>1. CASE S = {}
  BY <1>1, FS_EmptySet
<1>2. CASE S # {}
  <2>1. PICK x : x \in S
    BY <1>2
  <2>2. S = {x}
    BY <2>1
  <2>3. Cardinality({x}) = 1
    BY FS_Singleton
  <2> QED
    BY <1>2, <2>2, <2>3
<1> QED
  BY <1>1, <1>2

\* Adopting a descriptor moves it: it is never open in both processes.
THEOREM AdoptionMoves ==
    ASSUME FewBad
    PROVE  MsgSpec => []OneHolder
<1>1. WholeInv /\ HandleInv => OneHolder
  <2> SUFFICES ASSUME WholeInv, HandleInv, NEW m \in Messages, NEW j \in 1..Len(frame[m])
               PROVE  /\ Holders(<<m, j>>) <= 1
                      /\ spc # "gone" => Holders(<<m, j>>) = 1
    BY DEF OneHolder
  <2> DEFINE S == {h \in SHandles : sOs[h] = <<m, j>>}
  <2> DEFINE R == {r \in RHandles : rOs[r] = <<m, j>>}
  <2>1. /\ j \in 1..Carried[m] /\ frame[m][j] \in SHandles /\ <<m, j>> # Closed
        /\ m \in Nat /\ j \in Nat
    BY HandleTypes, SentFacts, FrameFacts
  <2>2. \A h \in S : h = frame[m][j] /\ ~Adopted(m, j)
    BY <2>1 DEF HandleInv, SenderHolds
  <2>3. \A r \in R : Adopted(m, j)
    BY <2>1 DEF HandleInv, ReceiverHolds
  <2>4. \A x, y \in S : x = y
    BY <2>2
  <2>5. \A x, y \in R : x = y
    BY <2>1 DEF HandleInv, ReceiverHolds
  <2>6. S = {} \/ R = {}
    BY <2>2, <2>3
  <2>7. spc # "gone" => S # {} \/ R # {}
    <3> SUFFICES ASSUME spc # "gone" PROVE S # {} \/ R # {}
      OBVIOUS
    <3>1. CASE ~Adopted(m, j)
      <4>1. frame[m][j] \in S
        BY <2>1, <3>1 DEF HandleInv, SenderHolds
      <4> QED
        BY <4>1
    <3>2. CASE m <= Len(delivered) /\ delivered[m].room
      <4>1. m \in 1..Len(delivered)
        BY <3>2, FrameFacts, HandleTypes
      <4>2. rOs[delivered[m].fds[j]] = <<m, j>> /\ Len(delivered[m].fds) = Carried[m]
        BY <2>1, <3>2, <4>1 DEF HandleInv, ReceiverHolds
      <4>3. delivered[m] \in [units : Seq(Units), fds : Seq(RHandles), room : BOOLEAN]
        BY <4>1, ElementOfSeq DEF WholeInv, TypeOK
      <4>4. delivered[m].fds \in Seq(RHandles)
        BY <4>3
      <4>5. delivered[m].fds[j] \in RHandles
        BY <2>1, <4>2, <4>4, ElementOfSeq
      <4>6. delivered[m].fds[j] \in R
        BY <4>2, <4>5
      <4> QED
        BY <4>6
    <3>3. CASE m = Len(delivered) + 1 /\ j <= slot
      <4>1. j \in 1..slot /\ Len(rfds) = slot /\ rOs[rfds[j]] = <<m, j>>
        BY <2>1, <3>3, HandleTypes DEF HandleInv, ReceiverHolds
      <4>2. rfds \in Seq(RHandles)
        BY DEF WholeInv, TypeOK
      <4>3. rfds[j] \in RHandles
        BY <4>1, <4>2, ElementOfSeq
      <4>4. rfds[j] \in R
        BY <4>1, <4>3
      <4> QED
        BY <4>4
    <3> QED
      BY <3>1, <3>2, <3>3 DEF Adopted
  <2>8. /\ Cardinality(S) \in 0..1 /\ (S # {} => Cardinality(S) = 1)
        /\ (S = {} => Cardinality(S) = 0)
    BY <2>4, AtMostOne
  <2>9. /\ Cardinality(R) \in 0..1 /\ (R # {} => Cardinality(R) = 1)
        /\ (R = {} => Cardinality(R) = 0)
    BY <2>5, AtMostOne
  <2>10. Holders(<<m, j>>) = Cardinality(S) + Cardinality(R)
    BY DEF Holders
  <2> HIDE DEF S, R
  <2> QED
    BY <2>6, <2>7, <2>8, <2>9, <2>10
<1>2. WholeInv /\ HandleInv /\ [Next]_msgVars => WholeInv' /\ HandleInv'
  BY StepHandles
<1> QED
  BY <1>1, <1>2, InitWhole, InitHandles, PTL DEF MsgSpec
=============================================================================
