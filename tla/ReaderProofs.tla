---------------------------- MODULE ReaderProofs ----------------------------
(***************************************************************************)
(* Safety of Reader for every capacity a Reader can have, every stream a   *)
(* server can send and every way the network can cut it.                   *)
(***************************************************************************)
EXTENDS Reader, FixedHeaderProofs

USE CapacityAssumption DEF None

----------------------------------------------------------------------------
(* Where the cursors can be.  SlicesInRange is not inductive: that a new   *)
(* header fits in MIN bytes depends on how little the previous frame left, *)
(* and so on how far fill_head can read past the end of a short frame.     *)

Cursors ==
    /\ pos <= filled /\ filled <= Capacity
    /\ frame = None => filled - pos <= MIN
    /\ frame # None => pos = 0 /\ frame >= 2 /\ (filled <= frame \/ filled <= MIN)
    /\ pc = "head" => pos = 0 /\ frame = None
    /\ pc = "body" => frame # None
    /\ got > 0 => pc = "body" /\ frame <= Capacity /\ Fence < frame

Sourced == \A i \in pos..(Fence - 1) : buf[i] \in 1..taken

IndInv == TypeOK /\ Cursors /\ Sourced

(* The unread part of the buffer is a slice of bytes the server sent.      *)
LEMMA BuffIsSlice ==
    ASSUME IndInv
    PROVE  Buff \in Seq(Byte) /\ Len(Buff) = filled - pos
<1>1. stream.bytes \in Seq(Byte)
  BY StreamsAssumption DEF IndInv, TypeOK, IsStream
<1>2. filled - pos \in Nat
  BY DEF IndInv, TypeOK, Cursors
<1>3. \A i \in 1..(filled - pos) : buf[pos + i - 1] \in 1..Len(stream.bytes)
  BY <1>1 DEF IndInv, TypeOK, Cursors, Sourced, Fence
<1>4. \A i \in 1..(filled - pos) : stream.bytes[buf[pos + i - 1]] \in Byte
  BY <1>1, <1>3
<1> QED BY <1>2, <1>4 DEF Buff

(* When next_frame asks for more there is room for it in the header.       *)
LEMMA RoomForHeader ==
    ASSUME IndInv, NeedsMore
    PROVE  pos = 0 /\ filled < MIN /\ frame = None /\ got = 0
<1>1. pos = 0 /\ frame = None /\ filled <= MIN /\ got = 0
  BY DEF IndInv, Cursors, NeedsMore, TypeOK, Fence
<1>2. ~(Len(Buff) >= MIN)
  BY BuffIsSlice, FiveBytesDecide DEF NeedsMore, MIN
<1>3. ~(filled - pos >= MIN)
  BY <1>2, BuffIsSlice
<1> QED BY <1>1, <1>3 DEF IndInv, TypeOK, MIN, MAX_BYTES

(* A new reader has nothing in its buffer.                                 *)
LEMMA InitIndInv == Init => IndInv
BY StreamsAssumption DEF Init, IndInv, TypeOK, Cursors, Sourced, Fence, Cells, MIN, MAX_BYTES, IsStream

(* Every step keeps the cursors and the bytes behind them in order.        *)
LEMMA NextIndInv == IndInv /\ [Next]_vars => IndInv'
<1> SUFFICES ASSUME IndInv, [Next]_vars PROVE IndInv'
  OBVIOUS
<1> USE DEF IndInv, TypeOK, Cursors, Sourced, Fence
<1>0. MIN = 5
  BY DEF MIN, MAX_BYTES
<1>1. CASE Arrive
  BY <1>1, StreamsAssumption DEF Arrive, IsStream, cursors, history
<1>2. CASE Close
  BY <1>2 DEF Close, cursors, history
<1>3. CASE CallRecv
  BY <1>3, <1>0 DEF CallRecv, Consume, LesserOf, network
<1>4. CASE CallConnect
  BY <1>4 DEF CallConnect, cursors, history, network
<1>5. CASE Read
  <2>1. CASE frame = None /\ Backshift /\ pc' = "head"
    <3> USE <2>1, <1>5, <1>0 DEF Read, Backshift, Cells, history, network
    <3>1. TypeOK'
      OBVIOUS
    <3>2. Cursors'
      OBVIOUS
    <3>3. Sourced'
      OBVIOUS
    <3> QED BY <3>1, <3>2, <3>3
  <2>2. CASE frame # None /\ pc' = "body" /\ UNCHANGED <<buf, cursors>>
    BY <2>2, <1>5 DEF Read, cursors, history, network
  <2> QED BY <1>5, <2>1, <2>2 DEF Read
<1>6. CASE PollFails
  BY <1>6 DEF PollFails, Return, cursors, history, network
<1>7. CASE HeaderInvalid
  BY <1>7 DEF HeaderInvalid, Return, cursors, history, network
<1>8. CASE HeaderFound
  BY <1>8, <1>0, BuffIsSlice, FrameLenBound DEF HeaderFound, cursors, history, network
<1>9. CASE FillHead
  BY <1>9, <1>0, RoomForHeader DEF FillHead, TakeInto, LesserOf, Readable, Cells, cursors, history, network
<1>10. CASE FillHeadFails
  BY <1>10 DEF FillHeadFails, Return, NeedsMore, cursors, history, network
<1>11. CASE FrameTooBig
  BY <1>11 DEF FrameTooBig, Return, cursors, history, network
<1>12. CASE ReadExact
  <2> DEFINE n == LesserOf(frame - Fence, Readable)
  <2>1. n \in Nat /\ n >= 1 /\ filled + got + n <= frame /\ taken + n <= arrived
    BY <1>12 DEF ReadExact, NeedsBody, LesserOf, Readable
  <2>2. /\ buf' = [i \in Cells |-> IF filled + got <= i /\ i < filled + got + n
                                   THEN taken + 1 + (i - (filled + got)) ELSE buf[i]]
        /\ taken' = taken + n
        /\ IF filled + got + n = frame THEN filled' = frame /\ got' = 0
                                      ELSE got' = got + n /\ filled' = filled
        /\ UNCHANGED <<stream, arrived, closed, pos, frame, pc, mode, res, lost, clamped, returned>>
        /\ pc = "body" /\ frame <= Capacity /\ filled < frame
    BY <1>12 DEF ReadExact, NeedsBody, TakeInto, history, network
  <2> HIDE DEF n
  <2>3. TypeOK'
    BY <2>1, <2>2 DEF Cells
  <2>4. Cursors'
    BY <2>1, <2>2, <1>0
  <2>5. Sourced'
    BY <2>1, <2>2 DEF Cells
  <2> QED BY <2>3, <2>4, <2>5
<1>13. CASE ReadExactFails
  BY <1>13 DEF ReadExactFails, Return, NeedsBody, cursors, history, network
<1>14. CASE FrameReady
  BY <1>14, <1>0 DEF FrameReady, Outcomes, Return, cursors, history, network
<1>15. CASE UNCHANGED vars
  BY <1>15 DEF vars, cursors, history, network
<1> QED
  BY <1>1, <1>2, <1>3, <1>4, <1>5, <1>6, <1>7, <1>8, <1>9, <1>10, <1>11, <1>12, <1>13, <1>14, <1>15 DEF Next
(* The type invariant of the reader: every cursor stays a usize and taken  *)
(* never passes what the kernel has delivered.                             *)
THEOREM TypeCorrect == Spec => []TypeOK
<1>1. IndInv => TypeOK
  BY DEF IndInv
<1> QED BY InitIndInv, NextIndInv, <1>1, PTL DEF Spec

(* No slice is out of range and no subtraction wraps, whatever arrives.    *)
THEOREM SlicesAlwaysInRange == Spec => []SlicesInRange
<1>1. IndInv => SlicesInRange
  BY RoomForHeader DEF IndInv, TypeOK, Cursors, SlicesInRange, NeedsBody, Fence, MIN, MAX_BYTES
<1> QED BY InitIndInv, NextIndInv, <1>1, PTL DEF Spec
----------------------------------------------------------------------------
(* The order of the bytes, with or without loss.                           *)

(* backshift keeps the unread bytes, in order, at the front.               *)
LEMMA BackshiftEffect ==
    ASSUME IndInv, Read, frame = None
    PROVE  /\ pos' = 0 /\ frame' = frame /\ taken' = taken
           /\ Fence \in Nat /\ Fence >= pos /\ Fence' = Fence - pos
           /\ Base' = Base
           /\ \A i \in 0..(Fence' - 1) : buf'[i] = buf[pos + i]
BY DEF IndInv, TypeOK, Cursors, Read, Backshift, Cells, Fence, Base

(* A read of the socket appends the next bytes of the stream, as many as   *)
(* it takes from the kernel, behind those already read.                    *)
LEMMA TakeEffect ==
    ASSUME IndInv, FillHead \/ ReadExact
    PROVE  \E n \in Nat :
           /\ pos = 0 /\ pos' = 0 /\ frame' = frame
           /\ Fence \in Nat /\ Fence' = Fence + n
           /\ taken' = taken + n
           /\ \A i \in 0..(Fence - 1) : buf'[i] = buf[i]
           /\ \A i \in Fence..(Fence + n - 1) : buf'[i] = taken + 1 + (i - Fence)
<1>0. MIN = 5
  BY DEF MIN, MAX_BYTES
<1>1. CASE FillHead
  <2> DEFINE n == LesserOf(MIN - (filled - pos), Readable)
  <2>1. pos = 0 /\ got = 0 /\ filled < MIN /\ Fence = filled /\ filled \in Nat
    BY <1>1, RoomForHeader DEF FillHead, Fence, IndInv, TypeOK
  <2>2. n \in Nat /\ filled + n <= MIN
    BY <1>0, <1>1, <2>1 DEF FillHead, LesserOf, Readable, IndInv, TypeOK
  <2>3. /\ buf' = [i \in Cells |-> IF filled <= i /\ i < filled + n
                                   THEN taken + 1 + (i - filled) ELSE buf[i]]
        /\ taken' = taken + n /\ filled' = filled + n
        /\ pos' = pos /\ frame' = frame /\ got' = got
    BY <1>1 DEF FillHead, TakeInto
  <2> HIDE DEF n
  <2>4. Fence' = Fence + n
    BY <2>1, <2>2, <2>3 DEF Fence
  <2>5. \A i \in 0..(filled - 1) : buf'[i] = buf[i]
    BY <1>0, <2>1, <2>2, <2>3 DEF Cells
  <2>6. \A i \in filled..(filled + n - 1) : buf'[i] = taken + 1 + (i - filled)
    BY <1>0, <2>1, <2>2, <2>3 DEF Cells
  <2> QED BY <2>1, <2>2, <2>3, <2>4, <2>5, <2>6
<1>2. CASE ReadExact
  <2> DEFINE n == LesserOf(frame - Fence, Readable)
  <2>1. /\ n \in Nat /\ Fence \in Nat /\ Fence + n <= frame
        /\ frame \in Nat /\ frame <= Capacity /\ pos = 0
    BY <1>2 DEF ReadExact, NeedsBody, LesserOf, Readable, Fence, IndInv, TypeOK, Cursors
  <2>2. /\ buf' = [i \in Cells |-> IF Fence <= i /\ i < Fence + n
                                   THEN taken + 1 + (i - Fence) ELSE buf[i]]
        /\ taken' = taken + n
        /\ IF Fence + n = frame THEN filled' = frame /\ got' = 0
                               ELSE got' = got + n /\ filled' = filled
        /\ pos' = pos /\ frame' = frame
    BY <1>2 DEF ReadExact, TakeInto
  <2> HIDE DEF n
  <2>3. Fence' = Fence + n
    BY <2>1, <2>2 DEF Fence, IndInv, TypeOK
  <2>4. \A i \in 0..(Fence - 1) : buf'[i] = buf[i]
    BY <2>1, <2>2 DEF Cells
  <2>5. \A i \in Fence..(Fence + n - 1) : buf'[i] = taken + 1 + (i - Fence)
    BY <2>1, <2>2 DEF Cells
  <2> QED BY <2>1, <2>2, <2>3, <2>4, <2>5
<1> QED BY <1>1, <1>2

Ordered == \A i, j \in pos..(Fence - 1) : i < j => buf[i] < buf[j]

(* Every step keeps the unread bytes in the server's order.                *)
LEMMA NextOrdered == IndInv /\ IndInv' /\ Ordered /\ [Next]_vars => Ordered'
<1> SUFFICES ASSUME IndInv, IndInv', Ordered, [Next]_vars PROVE Ordered'
  OBVIOUS
<1>1. CASE CallRecv
  BY <1>1 DEF CallRecv, Consume, LesserOf, network, IndInv, TypeOK, Cursors, Ordered, Fence
<1>2. CASE Read /\ frame = None
  <2>1. /\ pos \in Nat /\ pos' = 0
        /\ Fence \in Nat /\ Fence >= pos /\ Fence' = Fence - pos
        /\ \A i \in 0..(Fence' - 1) : buf'[i] = buf[pos + i]
    BY <1>2, BackshiftEffect DEF IndInv, TypeOK
  <2>2. SUFFICES ASSUME NEW i \in 0..(Fence - pos - 1), NEW j \in 0..(Fence - pos - 1), i < j
                 PROVE  buf'[i] < buf'[j]
    BY <2>1 DEF Ordered
  <2>3. buf'[i] = buf[pos + i] /\ buf'[j] = buf[pos + j]
    BY <2>1
  <2>4. pos + i \in pos..(Fence - 1) /\ pos + j \in pos..(Fence - 1) /\ pos + i < pos + j
    BY <2>1, <2>2
  <2> QED BY <2>3, <2>4 DEF Ordered
<1>3. CASE FillHead \/ ReadExact
  <2>1. PICK n \in Nat :
           /\ pos = 0 /\ pos' = 0
           /\ Fence \in Nat /\ Fence' = Fence + n
           /\ \A i \in 0..(Fence - 1) : buf'[i] = buf[i]
           /\ \A i \in Fence..(Fence + n - 1) : buf'[i] = taken + 1 + (i - Fence)
    BY <1>3, TakeEffect
  <2>2. taken \in Nat /\ \A k \in 0..(Fence - 1) : buf[k] \in Nat /\ buf[k] <= taken
    BY <2>1 DEF IndInv, TypeOK, Sourced
  <2>3. \A i, j \in 0..(Fence - 1) : i < j => buf[i] < buf[j]
    BY <2>1 DEF Ordered
  <2>4. ASSUME NEW i \in 0..(Fence + n - 1), NEW j \in 0..(Fence + n - 1), i < j
        PROVE  buf'[i] < buf'[j]
    <3>1. CASE j < Fence
      BY <2>1, <2>3, <2>4, <3>1
    <3>2. CASE i < Fence /\ j >= Fence
      BY <2>1, <2>2, <3>2
    <3>3. CASE i >= Fence
      BY <2>1, <2>2, <2>4, <3>3
    <3> QED BY <2>1, <3>1, <3>2, <3>3
  <2> QED BY <2>1, <2>4 DEF Ordered
<1>4. CASE Read /\ frame # None
  BY <1>4 DEF Read, cursors, Ordered, Fence
<1>5. CASE ReadExactFails
  BY <1>5 DEF ReadExactFails, cursors, Ordered, Fence, IndInv, TypeOK
<1>6. CASE UNCHANGED <<buf, cursors, got>>
  BY <1>6 DEF cursors, Ordered, Fence
<1>7. CASE HeaderFound
  BY <1>7 DEF HeaderFound, Ordered, Fence
<1> QED
  BY <1>1, <1>2, <1>3, <1>4, <1>5, <1>6, <1>7
     DEF Next, Arrive, Close, CallConnect, PollFails, HeaderInvalid, FillHeadFails,
         FrameTooBig, FrameReady, vars

(* The buffer never shows a byte twice or out of order, even after a loss. *)
THEOREM BytesAlwaysInOrder == Spec => []BytesInOrder
<1>1. Init => Ordered
  BY DEF Init, Ordered, Fence
<1>2. IndInv /\ Ordered => BytesInOrder
  BY DEF IndInv, Sourced, Ordered, BytesInOrder
<1> QED BY InitIndInv, NextIndInv, NextOrdered, <1>1, <1>2, PTL DEF Spec

----------------------------------------------------------------------------
(* Packet boundaries.                                                      *)

(* In step, the header next_frame looks at is the one the server wrote at  *)
(* the boundary before it.                                                 *)
LEMMA HeaderInStep ==
    ASSUME IndInv, FrameAligned, InStep, pc = "head"
    PROVE  /\ ~NextFrameErr(Buff)
           /\ NextFrameSome(Buff) =>
                /\ Base + FrameLen(Buff) \in stream.ends
                /\ \A e \in stream.ends : ~(Base < e /\ e < Base + FrameLen(Buff))
<1> DEFINE n == filled - pos
<1>1. CASE n = 0
  BY <1>1, BuffIsSlice DEF NextFrameErr, NextFrameSome
<1>2. CASE n # 0
  <2>1. got = 0 /\ n \in 1..MIN /\ Base \in Boundaries
    BY <1>2 DEF IndInv, TypeOK, Cursors, FrameAligned, MIN, MAX_BYTES
  <2>2. Base + n = taken /\ taken <= Len(stream.bytes)
    BY <2>1, StreamsAssumption DEF IndInv, TypeOK, Base, Fence, IsStream
  <2>3. \A i \in 1..n : buf[pos + i - 1] = Base + i
    BY <2>1 DEF FrameAligned, IndInv, TypeOK, Cursors, Base, Fence
  <2>4. Buff = [i \in 1..n |-> stream.bytes[Base + i]]
    BY <2>3 DEF Buff
  <2> QED BY <2>1, <2>2, <2>4 DEF InStep, WellFormed, Boundaries
<1> QED BY <1>1, <1>2

(* Every step keeps an in-step reader on a packet boundary.                *)
LEMMA NextAligned == IndInv /\ IndInv' /\ FrameAligned /\ [Next]_vars => FrameAligned'
<1> SUFFICES ASSUME IndInv, IndInv', FrameAligned, [Next]_vars, InStep'
             PROVE  /\ Base' \in Boundaries'
                    /\ \A i \in pos'..(Fence' - 1) : buf'[i] = Base' + 1 + (i - pos')
                    /\ frame' # None =>
                        /\ Base' + frame' \in stream'.ends
                        /\ \A e \in stream'.ends : ~(Base' < e /\ e < Base' + frame')
  BY DEF FrameAligned
<1>1. stream' = stream /\ InStep
  BY DEF Next, vars, Arrive, Close, CallRecv, Consume, CallConnect, Read, PollFails, HeaderInvalid,
         HeaderFound, FillHead, FillHeadFails, FrameTooBig, ReadExact, ReadExactFails,
         FrameReady, network, history, InStep, IndInv, TypeOK
<1>2. /\ Base \in Boundaries
      /\ \A i \in pos..(Fence - 1) : buf[i] = Base + 1 + (i - pos)
      /\ frame # None =>
          /\ Base + frame \in stream.ends
          /\ \A e \in stream.ends : ~(Base < e /\ e < Base + frame)
  BY <1>1 DEF FrameAligned
<1>3. Boundaries' = Boundaries
  BY <1>1 DEF Boundaries
<1>4. CASE CallRecv
  <2>1. CASE frame = None
    BY <1>1, <1>2, <1>3, <1>4, <2>1 DEF CallRecv, Consume, network, Base, Fence
  <2>2. CASE frame # None
    <3>0. ~(pos + frame > filled)
      BY <1>4, <2>2, Zenon DEF CallRecv, Consume, InStep
    <3>1. pos' = pos + frame /\ pos + frame <= filled /\ frame' = None /\ filled' = filled
      BY <1>4, <2>2, <3>0 DEF CallRecv, Consume, LesserOf, IndInv, TypeOK, Cursors
    <3>2. Base' = Base + frame /\ buf' = buf /\ Fence' = Fence
      BY <1>4, <3>1 DEF CallRecv, network, Base, Fence, IndInv, TypeOK
    <3>3. Base' \in Boundaries'
      BY <1>2, <1>3, <2>2, <3>2 DEF Boundaries
    <3>4. pos \in Nat /\ Fence \in Nat /\ frame \in Nat /\ Base \in Int
      BY DEF IndInv, TypeOK, Base, Fence
    <3>5. \A i \in (pos + frame)..(Fence - 1) :
            /\ i \in pos..(Fence - 1)
            /\ Base + 1 + (i - pos) = Base + frame + 1 + (i - (pos + frame))
      BY <3>4
    <3>6. \A i \in pos'..(Fence' - 1) : buf'[i] = Base' + 1 + (i - pos')
      BY <1>2, <3>1, <3>2, <3>5
    <3> QED BY <3>1, <3>3, <3>6
  <2> QED BY <2>1, <2>2
<1>5. CASE Read /\ frame = None
  <2>1. /\ pos' = 0 /\ frame' = frame /\ pos \in Nat
        /\ Fence \in Nat /\ Fence >= pos /\ Fence' = Fence - pos
        /\ Base' = Base
        /\ \A i \in 0..(Fence' - 1) : buf'[i] = buf[pos + i]
    BY <1>5, BackshiftEffect DEF IndInv, TypeOK
  <2>2. \A i \in 0..(Fence' - 1) :
          /\ pos + i \in pos..(Fence - 1)
          /\ (pos + i) - pos = i /\ i - pos' = i
    BY <2>1
  <2> QED BY <1>2, <1>3, <1>5, <2>1, <2>2
<1>6. CASE HeaderFound
  <2>1. /\ UNCHANGED <<taken, buf, pos, filled, got>>
        /\ frame' = FrameLen(Buff) /\ NextFrameSome(Buff)
    BY <1>6 DEF HeaderFound, network
  <2>2. Base' = Base
    BY <2>1 DEF Base, Fence
  <2>3. /\ Base + FrameLen(Buff) \in stream.ends
        /\ \A e \in stream.ends : ~(Base < e /\ e < Base + FrameLen(Buff))
    BY <1>1, <1>6, HeaderInStep DEF HeaderFound
  <2> QED BY <1>1, <1>2, <1>3, <2>1, <2>2, <2>3 DEF Fence
<1>7. CASE FillHead \/ ReadExact
  <2>1. PICK n \in Nat :
           /\ pos = 0 /\ pos' = 0 /\ frame' = frame
           /\ Fence \in Nat /\ Fence' = Fence + n
           /\ taken' = taken + n
           /\ \A i \in 0..(Fence - 1) : buf'[i] = buf[i]
           /\ \A i \in Fence..(Fence + n - 1) : buf'[i] = taken + 1 + (i - Fence)
    BY <1>7, TakeEffect
  <2>2. taken \in Nat /\ Base = taken - Fence /\ Base' = Base
    BY <2>1 DEF Base, IndInv, TypeOK
  <2>3. \A i \in 0..(Fence + n - 1) : buf'[i] = Base + 1 + i
    BY <1>2, <2>1, <2>2
  <2>4. \A i \in 0..(Fence + n - 1) : i - pos' = i
    BY <2>1
  <2> QED BY <1>1, <1>2, <1>3, <2>1, <2>2, <2>3, <2>4
<1>8. CASE Read /\ frame # None
  BY <1>1, <1>2, <1>3, <1>8 DEF Read, cursors, Base, Fence
<1>9. CASE ReadExactFails
  <2>0. ~(got > 0)
    BY <1>9, Zenon DEF ReadExactFails, InStep
  <2>1. got = 0 /\ got' = 0 /\ UNCHANGED <<taken, buf, cursors>>
    BY <1>9, <2>0 DEF ReadExactFails, IndInv, TypeOK
  <2> QED BY <1>1, <1>2, <1>3, <2>1 DEF cursors, Base, Fence
<1>10. CASE UNCHANGED <<taken, buf, cursors, got>>
  BY <1>1, <1>2, <1>3, <1>10 DEF cursors, Base, Fence
<1> QED
  BY <1>4, <1>5, <1>6, <1>7, <1>8, <1>9, <1>10
     DEF Next, Arrive, Close, CallConnect, PollFails, HeaderInvalid, FillHeadFails,
         FrameTooBig, FrameReady, vars

(* While no byte was lost and no frame skipped in part, the reader stays   *)
(* on the packet boundaries of every well-formed stream.                   *)
THEOREM AlwaysAligned == Spec => []FrameAligned
<1>1. Init => FrameAligned
  BY DEF Init, FrameAligned, Base, Fence, Boundaries
<1> QED BY InitIndInv, NextIndInv, NextAligned, <1>1, PTL DEF Spec
----------------------------------------------------------------------------
(* What the calls return.                                                  *)

(* A whole frame of an in-step reader is one packet of the server.         *)
LEMMA FrameIsPacket ==
    ASSUME IndInv, FrameAligned, InStep, frame # None, filled >= frame, got = 0
    PROVE  Intact
<1>1. /\ pos = 0 /\ Base \in Boundaries
      /\ Base + frame \in stream.ends
      /\ \A e \in stream.ends : ~(Base < e /\ e < Base + frame)
  BY DEF IndInv, Cursors, FrameAligned
<1>2. frame \in Nat /\ filled \in Nat /\ Fence = filled /\ Base \in Int
  BY DEF IndInv, TypeOK, Fence, Base
<1>3. \A i \in 0..(frame - 1) : buf[pos + i] = Base + 1 + i
  BY <1>1, <1>2 DEF FrameAligned
<1> QED BY <1>1, <1>2, <1>3 DEF Intact

(* Only FrameReady returns Ok, and then buff() is the packet.              *)
LEMMA NextDelivered ==
    IndInv /\ FrameAligned /\ DeliveredWhole /\ [Next]_vars => DeliveredWhole'
<1> SUFFICES ASSUME IndInv, FrameAligned, DeliveredWhole, [Next]_vars,
                    ReturnedOk', InStep', Expected(Buff[1])'
             PROVE  OnePacket'
  BY DEF DeliveredWhole
<1>1. CASE FrameReady
  <2>1. /\ UNCHANGED <<stream, taken, buf, pos, filled, frame, got, mode, lost, clamped>>
        /\ pc = "body" /\ filled >= frame
        /\ \E r \in Outcomes : res' = r
    BY <1>1 DEF FrameReady, Return, network, cursors
  <2>2. "ok" \in Outcomes
    BY <2>1 DEF ReturnedOk
  <2>3. InStep /\ Expected(Buff[1])
    BY <2>1 DEF InStep, Expected, Understood, ParsedLen, Buff
  <2>4. frame # None /\ got = 0
    BY <2>1 DEF IndInv, TypeOK, Cursors, Fence
  <2>5. Intact
    BY <2>1, <2>3, <2>4, FrameIsPacket
  <2>6. filled - pos = frame
    BY <2>2, <2>3 DEF Outcomes, Expected
  <2> QED BY <2>1, <2>5, <2>6 DEF OnePacket, Intact, Boundaries
<1>2. CASE /\ pc = "idle" /\ res = "ok"
           /\ UNCHANGED <<stream, buf, pos, filled, frame, mode, lost, clamped>>
  <2>1. InStep /\ Expected(Buff[1])
    BY <1>2 DEF InStep, Expected, Understood, ParsedLen, Buff
  <2> QED BY <1>2, <2>1 DEF DeliveredWhole, ReturnedOk, OnePacket, Intact, Boundaries
<1> QED
  BY <1>1, <1>2
     DEF ReturnedOk, Next, vars, Arrive, Close, CallRecv, CallConnect, Read, PollFails,
         HeaderInvalid, HeaderFound, FillHead, NeedsMore, FillHeadFails, FrameTooBig,
         ReadExact, NeedsBody, ReadExactFails, Return, network, cursors, history

(* In step, recv hands out exactly one packet the server sent, and so does *)
(* connect when the packet is a CONNACK.                                   *)
THEOREM AlwaysDeliveredWhole == Spec => []DeliveredWhole
<1>1. Init => DeliveredWhole
  BY DEF Init, DeliveredWhole, ReturnedOk
<1>2. Init => FrameAligned
  BY DEF Init, FrameAligned, Base, Fence, Boundaries
<1> QED BY InitIndInv, NextIndInv, NextAligned, NextDelivered, <1>1, <1>2, PTL DEF Spec

----------------------------------------------------------------------------
(* The debug_assert of next_frame.  It holds when the poll is left, so it  *)
(* has to be shown of the returns that leave frame at None as well.        *)

Room == InStep /\ pc \in {"idle", "poll"} /\ frame = None => filled - pos < MIN

(* Every step keeps less than a header unread between frames.              *)
LEMMA NextRoom == IndInv /\ FrameAligned /\ Room /\ [Next]_vars => Room'
<1> SUFFICES ASSUME IndInv, FrameAligned, Room, [Next]_vars,
                    InStep', pc' \in {"idle", "poll"}, frame' = None
             PROVE  filled' - pos' < MIN
  BY DEF Room
<1>0. MIN = 5
  BY DEF MIN, MAX_BYTES
<1>1. InStep
  BY DEF Next, vars, Arrive, Close, CallRecv, Consume, CallConnect, Read, PollFails, HeaderInvalid,
         HeaderFound, FillHead, FillHeadFails, FrameTooBig, ReadExact, ReadExactFails,
         FrameReady, network, history, InStep, IndInv, TypeOK
<1>2. CASE CallRecv
  BY <1>0, <1>1, <1>2 DEF CallRecv, Consume, LesserOf, Room, IndInv, TypeOK, Cursors
<1>3. CASE HeaderInvalid
  BY <1>1, <1>3, HeaderInStep DEF HeaderInvalid
<1>4. CASE FillHeadFails
  BY <1>4, RoomForHeader, <1>0 DEF FillHeadFails, cursors, IndInv, TypeOK
<1>5. CASE pc \in {"idle", "poll"} /\ UNCHANGED cursors
  BY <1>1, <1>5 DEF cursors, Room
<1>6. CASE pc = "body" /\ UNCHANGED frame
  BY <1>6 DEF IndInv, Cursors
<1> QED
  BY <1>2, <1>3, <1>4, <1>5, <1>6
     DEF Next, vars, Arrive, Close, CallConnect, Read, PollFails, HeaderFound, FillHead,
         NeedsMore, FrameTooBig, ReadExact, NeedsBody, ReadExactFails, FrameReady, cursors,
         IndInv, TypeOK

(* The debug_assert of next_frame holds of every well-formed stream.       *)
THEOREM AlwaysHeaderRoom == Spec => []HeaderRoom
<1>1. Init => Room /\ FrameAligned
  BY DEF Init, Room, FrameAligned, Base, Fence, Boundaries, MIN, MAX_BYTES
<1>2. Room => HeaderRoom
  BY DEF Room, HeaderRoom
<1> QED BY InitIndInv, NextIndInv, NextAligned, NextRoom, <1>1, <1>2, PTL DEF Spec
----------------------------------------------------------------------------
(* No frame is returned twice.  What lies behind the frame in force, and   *)
(* all that a recv in progress looks at, is newer than what was returned.  *)

Newer ==
    /\ returned <= taken
    /\ frame = None => \A i \in pos..(Fence - 1) : buf[i] > returned
    /\ frame # None => \A i \in (pos + frame)..(Fence - 1) : buf[i] > returned
    /\ pc # "idle" /\ mode = "recv" => \A i \in pos..(Fence - 1) : buf[i] > returned

(* What is unread lies behind what was returned.                           *)
LEMMA NextNewer == IndInv /\ Ordered /\ Newer /\ [Next]_vars => Newer'
<1> SUFFICES ASSUME IndInv, Ordered, Newer, [Next]_vars PROVE Newer'
  OBVIOUS
<1>0. /\ returned \in Nat /\ taken \in Nat /\ pos \in Nat /\ frame \in Nat /\ Fence \in Nat
  BY DEF IndInv, TypeOK, Fence
<1>1. CASE Arrive \/ Close \/ CallConnect \/ PollFails \/ HeaderInvalid \/ FillHeadFails
           \/ FrameTooBig \/ UNCHANGED vars
  <2>1. /\ UNCHANGED <<taken, buf, pos, frame, Fence, returned>>
        /\ pc' # "idle" /\ mode' = "recv" => pc # "idle" /\ mode = "recv"
    BY <1>1 DEF Arrive, Close, CallConnect, PollFails, HeaderInvalid, NeedsMore, FillHeadFails,
                FrameTooBig, Return, vars, cursors, history, Fence
  <2> QED BY <2>1 DEF Newer
<1>2. CASE CallRecv
  <2>1. /\ UNCHANGED <<taken, buf, Fence, returned>> /\ frame' = None /\ got = 0
        /\ pos' = IF frame = None THEN pos ELSE LesserOf(pos + frame, filled)
    BY <1>2 DEF CallRecv, Consume, Fence, IndInv, TypeOK, Cursors
  <2>2. \A i \in pos'..(Fence - 1) : buf[i] > returned
    BY <1>0, <2>1 DEF Newer, LesserOf, Fence, IndInv, TypeOK
  <2> QED BY <2>1, <2>2 DEF Newer
<1>3. CASE Read /\ frame = None
  <2>1. /\ pos' = 0 /\ frame' = frame /\ taken' = taken
        /\ Fence >= pos /\ Fence' = Fence - pos
        /\ \A i \in 0..(Fence' - 1) : buf'[i] = buf[pos + i]
    BY <1>3, BackshiftEffect
  <2>2. returned' = returned
    BY <1>3 DEF Read, history
  <2>3. \A i \in 0..(Fence' - 1) : pos + i \in pos..(Fence - 1)
    BY <1>0, <2>1
  <2>4. \A i \in pos'..(Fence' - 1) : buf'[i] > returned'
    BY <1>3, <2>1, <2>2, <2>3 DEF Newer
  <2> QED BY <1>3, <2>1, <2>2, <2>4 DEF Newer
<1>4. CASE Read /\ frame # None
  BY <1>4 DEF Read, cursors, history, Newer, Fence
<1>5. CASE HeaderFound
  <2>1. /\ UNCHANGED <<taken, buf, pos, Fence, mode, returned>> /\ frame = None
        /\ frame' = FrameLen(Buff) /\ frame' \in Nat
    BY <1>5, BuffIsSlice, FrameLenBound DEF HeaderFound, history, Fence, IndInv, Cursors
  <2>2. \A i \in (pos + frame')..(Fence - 1) : i \in pos..(Fence - 1)
    BY <1>0, <2>1
  <2> QED BY <2>1, <2>2 DEF Newer
<1>6. CASE FillHead \/ ReadExact
  <2>1. PICK n \in Nat :
           /\ pos = 0 /\ pos' = 0 /\ frame' = frame
           /\ Fence' = Fence + n
           /\ taken' = taken + n
           /\ \A i \in 0..(Fence - 1) : buf'[i] = buf[i]
           /\ \A i \in Fence..(Fence + n - 1) : buf'[i] = taken + 1 + (i - Fence)
    BY <1>6, TakeEffect
  <2>2. UNCHANGED <<returned, mode, pc>>
    BY <1>6 DEF FillHead, ReadExact, history
  <2>3. returned <= taken
    BY DEF Newer
  <2>4. \A i \in Fence..(Fence + n - 1) : buf'[i] > returned
    BY <1>0, <2>1, <2>3
  <2>5. ASSUME NEW k \in Nat, \A i \in k..(Fence - 1) : buf[i] > returned
        PROVE  \A i \in k..(Fence' - 1) : buf'[i] > returned'
    BY <1>0, <2>1, <2>2, <2>4, <2>5
  <2>6. frame = None => \A i \in pos'..(Fence' - 1) : buf'[i] > returned'
    BY <1>0, <2>1, <2>5 DEF Newer
  <2>7. frame # None => \A i \in (pos' + frame')..(Fence' - 1) : buf'[i] > returned'
    BY <1>0, <2>1, <2>5 DEF Newer
  <2>8. pc # "idle" /\ mode = "recv" => \A i \in pos'..(Fence' - 1) : buf'[i] > returned'
    BY <1>0, <2>1, <2>5 DEF Newer
  <2>9. returned' <= taken'
    BY <1>0, <2>1, <2>2, <2>3
  <2> QED BY <2>1, <2>2, <2>6, <2>7, <2>8, <2>9 DEF Newer
<1>7. CASE ReadExactFails
  <2>1. /\ UNCHANGED <<taken, buf, pos, filled, frame, mode, returned>>
        /\ got' = 0 /\ pc = "body"
    BY <1>7 DEF ReadExactFails, NeedsBody, cursors
  <2>2. filled \in Nat /\ got \in Nat /\ Fence = filled + got /\ Fence' = filled
    BY <2>1 DEF Fence, IndInv, TypeOK
  <2>3. \A k \in Nat : \A i \in k..(filled - 1) : i \in k..(Fence - 1)
    BY <2>2
  <2>4. pos + frame \in Nat
    BY <1>0
  <2> QED BY <1>0, <2>1, <2>2, <2>3, <2>4 DEF Newer
<1>8. CASE FrameReady
  <2>1. /\ UNCHANGED <<taken, buf, pos, frame, Fence>> /\ pc' = "idle"
        /\ returned' = returned \/ returned' = buf[pos + frame - 1]
    BY <1>8 DEF FrameReady, Return, cursors, Fence
  <2>2. pos = 0 /\ frame >= 2 /\ frame <= Fence
    BY <1>8 DEF FrameReady, IndInv, TypeOK, Cursors, Fence
  <2>3. pos + frame - 1 \in pos..(Fence - 1)
    BY <1>0, <2>2
  <2>4. buf[pos + frame - 1] \in 1..taken
    BY <2>3 DEF IndInv, Sourced
  <2>5. \A i \in (pos + frame)..(Fence - 1) :
          buf[i] \in 1..taken /\ buf[pos + frame - 1] < buf[i]
    BY <1>0, <2>2, <2>3 DEF Ordered, IndInv, Sourced
  <2> QED BY <1>0, <2>1, <2>2, <2>4, <2>5 DEF Newer
<1> QED
  BY <1>1, <1>2, <1>3, <1>4, <1>5, <1>6, <1>7, <1>8 DEF Next

(* recv never returns a frame that was returned before, even after bytes   *)
(* were lost: an action property of every behaviour.                       *)
THEOREM NeverReplayed == Spec => NoReplay
<1>1. Init => Ordered /\ Newer
  BY DEF Init, Ordered, Newer, Fence
<1>2. IndInv /\ Newer /\ [Next]_vars
        => [mode' = "recv" /\ ~ReturnedOk /\ ReturnedOk' => buf[pos] > returned]_vars
  <2> SUFFICES ASSUME IndInv, Newer, Next, mode' = "recv", ~ReturnedOk, ReturnedOk'
               PROVE  buf[pos] > returned
    OBVIOUS
  <2>1. FrameReady
    BY DEF ReturnedOk, Next, Arrive, Close, CallRecv, CallConnect, Read, PollFails,
           HeaderInvalid, HeaderFound, FillHead, NeedsMore, FillHeadFails, FrameTooBig,
           ReadExact, NeedsBody, ReadExactFails, Return
  <2>2. pc # "idle" /\ mode = "recv"
    BY <2>1 DEF FrameReady
  <2>3. pos \in pos..(Fence - 1)
    BY <2>1 DEF FrameReady, IndInv, TypeOK, Cursors, Fence
  <2> QED BY <2>2, <2>3 DEF Newer
<1> QED BY InitIndInv, NextIndInv, NextOrdered, NextNewer, <1>1, <1>2, PTL DEF Spec, NoReplay
=============================================================================
