------------------------------- MODULE Reader -------------------------------
(***************************************************************************)
(* Reader: the framing buffer of a connection (struct Reader of sync.rs),  *)
(* between a non-blocking socket and the two calls that use it,            *)
(* Receiver::recv and Connection::connect.                                 *)
(*                                                                         *)
(* The byte at offset k of what the server sends is named by k, from 1, so *)
(* that the buffer shows which bytes it holds and a byte that is lost,     *)
(* repeated or out of place can be told apart; the byte's value is looked  *)
(* up in stream when the code looks at it.  A step is one system call or   *)
(* the code between two of them: the server may send at any point between. *)
(***************************************************************************)
EXTENDS FixedHeader

CONSTANTS
    Capacity,       \* the capacity given to Reader::with_capacity
    Streams         \* what the server may send: see Stream

\* A stream is the bytes the server sends, the offsets at which its packets
\* end, and the offsets at which the kernel's receive queue may end when the
\* reader looks at it (where the network cuts the stream).
IsStream(s) ==
    /\ s.bytes \in Seq(Byte)
    /\ s.ends \subseteq 1..Len(s.bytes)
    /\ s.cuts \subseteq 1..Len(s.bytes)

MIN == 1 + MAX_BYTES

\* with_capacity refuses a buffer that cannot hold a fixed header.
ASSUME CapacityAssumption == Capacity \in Nat /\ Capacity >= MIN
ASSUME StreamsAssumption == \A s \in Streams : IsStream(s)

None == 0           \* frame: Option<usize>; a frame is at least 2 bytes long

VARIABLES
    stream,         \* what the server sends, chosen at the start
    arrived,        \* how many bytes of it have reached the kernel
    closed,         \* the server has closed its side
    taken,          \* how many bytes the reader has taken from the kernel
    buf,            \* buf: the offset each cell was filled from, 0 at first
    pos,            \* pos
    filled,         \* filled
    frame,          \* frame
    got,            \* bytes read by the read_exact in progress
    pc,             \* where the call in progress is
    mode,           \* which call is, or was last, in progress
    res,            \* what the last call returned
    lost,           \* history: a read_exact gave up bytes it had taken
    clamped,        \* history: consume dropped less than a whole frame
    returned        \* history: end of the last frame returned with Ok

network == <<stream, arrived, closed>>
cursors == <<pos, filled, frame>>
history == <<lost, clamped, returned>>
vars == <<network, taken, buf, cursors, got, pc, mode, res, history>>

LesserOf(a, b) == IF a <= b THEN a ELSE b

Cells == 0..(Capacity - 1)

Readable == arrived - taken

\* buff(): the bytes in buf[pos..filled].
Buff == [i \in 1..(filled - pos) |-> stream.bytes[buf[pos + i - 1]]]

\* Where the next byte taken from the kernel goes.
Fence == filled + got

\* The offset of the last byte before the one at pos.
Base == taken - (Fence - pos)

Boundaries == {0} \cup stream.ends

Init ==
    /\ stream \in Streams
    /\ arrived = 0
    /\ closed = FALSE
    /\ taken = 0
    /\ buf = [i \in Cells |-> 0]
    /\ pos = 0
    /\ filled = 0
    /\ frame = None
    /\ got = 0
    /\ pc = "idle"
    /\ mode = "none"
    /\ res = "none"
    /\ lost = FALSE
    /\ clamped = FALSE
    /\ returned = 0

----------------------------------------------------------------------------
(* The server and the network.                                             *)

Arrive ==
    /\ ~closed
    /\ \E n \in stream.cuts : n > arrived /\ arrived' = n
    /\ UNCHANGED <<stream, closed, taken, buf, cursors, got, pc, mode, res, history>>

Close ==
    /\ ~closed
    /\ closed' = TRUE
    /\ UNCHANGED <<stream, arrived, taken, buf, cursors, got, pc, mode, res, history>>

----------------------------------------------------------------------------
(* The calls.                                                              *)

\* Mutant of Consume: without the min with filled.
ConsumeUnclamped ==
    /\ pos' = IF frame = None THEN pos ELSE pos + frame
    /\ frame' = None
    /\ UNCHANGED <<filled, clamped>>

\* Mutant of Consume: the frame is forgotten but its bytes stay.
ConsumeKeepsBytes ==
    /\ frame' = None
    /\ UNCHANGED <<pos, filled, clamped>>

\* Reader::consume: move past the last frame.
Consume ==
    /\ pos' = IF frame = None THEN pos ELSE LesserOf(pos + frame, filled)
    /\ clamped' = (clamped \/ (frame # None /\ pos + frame > filled))
    /\ frame' = None
    /\ UNCHANGED filled

\* Mutant of CallRecv: no consume, as in connect.
CallRecvNoConsume ==
    /\ pc = "idle"
    /\ pc' = "poll"
    /\ mode' = "recv"
    /\ res' = "none"
    /\ UNCHANGED <<network, taken, buf, cursors, got, history>>

\* recv: consume, then poll_event.
CallRecv ==
    /\ pc = "idle"
    /\ pc' = "poll"
    /\ mode' = "recv"
    /\ res' = "none"
    /\ Consume
    /\ UNCHANGED <<network, taken, buf, got, lost, returned>>

\* connect: write CONNECT, then poll_event, with no consume before it.
CallConnect ==
    /\ pc = "idle"
    /\ pc' = "poll"
    /\ mode' = "connect"
    /\ res' = "none"
    /\ UNCHANGED <<network, taken, buf, cursors, got, history>>

----------------------------------------------------------------------------
(* Reader::read, called by poll_event on every READER event.               *)

\* Mutant of Backshift: the cursors move, the bytes do not.
BackshiftNoCopy ==
    /\ filled' = filled - pos
    /\ pos' = 0
    /\ UNCHANGED buf

\* Reader::backshift: move the unread bytes to the front of the buffer.
Backshift ==
    /\ buf' = [i \in Cells |-> IF i < filled - pos THEN buf[pos + i] ELSE buf[i]]
    /\ filled' = filled - pos
    /\ pos' = 0

\* read, up to the loop of next_frame or the test of read_frame.
Read ==
    /\ pc = "poll"
    /\ \/ /\ frame = None
          /\ Backshift
          /\ pc' = "head"
          /\ UNCHANGED frame
       \/ /\ frame # None
          /\ pc' = "body"
          /\ UNCHANGED <<buf, cursors>>
    /\ UNCHANGED <<network, taken, got, mode, res, history>>

\* poll_event returns, with the packet or with an error.
Return(r) ==
    /\ pc' = "idle"
    /\ res' = r

\* poll_event: the poll, the read of the timer or the write of a PINGREQ
\* fails between two reads of the socket.
PollFails ==
    /\ pc = "poll"
    /\ Return("failed")
    /\ UNCHANGED <<network, taken, buf, cursors, got, mode, history>>

\* next_frame: the remaining length is more than 4 bytes long.
HeaderInvalid ==
    /\ pc = "head"
    /\ NextFrameErr(Buff)
    /\ Return("invalid")
    /\ UNCHANGED <<network, taken, buf, cursors, got, mode, history>>

\* next_frame: the header is complete.
HeaderFound ==
    /\ pc = "head"
    /\ NextFrameSome(Buff)
    /\ frame' = FrameLen(Buff)
    /\ pc' = "body"
    /\ UNCHANGED <<network, taken, buf, pos, filled, got, mode, res, history>>

NeedsMore == pc = "head" /\ ~NextFrameErr(Buff) /\ ~NextFrameSome(Buff)

\* The kernel copies n bytes to the cells from at on.
TakeInto(at, n) ==
    /\ buf' = [i \in Cells |-> IF at <= i /\ i < at + n THEN taken + 1 + (i - at) ELSE buf[i]]
    /\ taken' = taken + n

\* Mutant of FillHead: the read is taken to fill the slice it was given.
FillHeadBlind ==
    /\ NeedsMore
    /\ Readable > 0
    /\ TakeInto(filled, MIN - (filled - pos))
    /\ filled' = pos + MIN
    /\ UNCHANGED <<network, pos, frame, got, pc, mode, res, history>>

\* fill_head: read what is there, up to the MIN bytes a header may take.
FillHead ==
    /\ NeedsMore
    /\ Readable > 0
    /\ LET n == LesserOf(MIN - (filled - pos), Readable) IN
        /\ TakeInto(filled, n)
        /\ filled' = filled + n
    /\ UNCHANGED <<network, pos, frame, got, pc, mode, res, history>>

\* fill_head, nothing to read: UnexpectedEof, or back to the poll.
FillHeadFails ==
    /\ NeedsMore
    /\ Readable = 0
    /\ \/ closed /\ Return("eof")
       \/ ~closed /\ pc' = "poll" /\ UNCHANGED res
    /\ UNCHANGED <<network, taken, buf, cursors, got, mode, history>>

\* read_frame: the frame does not fit in the buffer.
FrameTooBig ==
    /\ pc = "body"
    /\ frame > Capacity
    /\ Return("toobig")
    /\ UNCHANGED <<network, taken, buf, cursors, got, mode, history>>

NeedsBody == pc = "body" /\ frame <= Capacity /\ filled < frame

\* Mutant of ReadExact: every read of the loop writes to the start of the slice.
ReadExactRestarts ==
    /\ NeedsBody
    /\ Readable > 0
    /\ LET n == LesserOf(frame - Fence, Readable) IN
        /\ TakeInto(filled, n)
        /\ IF Fence + n = frame
           THEN filled' = frame /\ got' = 0
           ELSE got' = got + n /\ UNCHANGED filled
    /\ UNCHANGED <<network, pos, frame, pc, mode, res, history>>

\* One read of the read_exact; filled is only set when it has them all.
ReadExact ==
    /\ NeedsBody
    /\ Readable > 0
    /\ LET n == LesserOf(frame - Fence, Readable) IN
        /\ TakeInto(Fence, n)
        /\ IF Fence + n = frame
           THEN filled' = frame /\ got' = 0
           ELSE got' = got + n /\ UNCHANGED filled
    /\ UNCHANGED <<network, pos, frame, pc, mode, res, history>>

\* read_exact, nothing to read: what it has read so far is forgotten.
ReadExactFails ==
    /\ NeedsBody
    /\ Readable = 0
    /\ \/ closed /\ Return("eof")
       \/ ~closed /\ pc' = "poll" /\ UNCHANGED res
    /\ got' = 0
    /\ lost' = (lost \/ got > 0)
    /\ UNCHANGED <<network, taken, buf, cursors, mode, clamped, returned>>

----------------------------------------------------------------------------
(* Packet::consume (recv) and ConnAck::consume (connect) of buff().        *)

\* buff() starts with the bytes of one packet of the server, all of them.
Intact ==
    /\ frame <= filled - pos
    /\ \E b \in Boundaries :
        /\ b + frame \in stream.ends
        /\ \A e \in stream.ends : ~(b < e /\ e < b + frame)
        /\ \A i \in 0..(frame - 1) : buf[pos + i] = b + 1 + i

\* The packet type is one Packet::parse has a parser for; ConnAck::parse only
\* has a debug_assert on it.
Understood(b) == ParseType(b) /\ (mode = "recv" => PacketTypeOf(b) \in ServerTypes)

\* Packets of a fixed size: their parsers never look at the remaining length.
SizedTypes == {CONNACK, PUBACK, PUBREC, PUBREL, PUBCOMP, UNSUBACK, PINGRESP}

SizeOf(t) == IF t = PINGRESP THEN 2 ELSE 4

\* How many bytes the parser takes off a slice that starts with byte b.
ParsedLen(b) ==
    IF mode = "connect" THEN SizeOf(CONNACK)
    ELSE IF PacketTypeOf(b) \in SizedTypes THEN SizeOf(PacketTypeOf(b))
    ELSE frame

\* The packet the caller waits for, of the size its parser takes.
Expected(b) ==
    /\ Understood(b)
    /\ mode = "connect" => PacketTypeOf(b) = CONNACK
    /\ ParsedLen(b) = frame

\* Mutant of Outcomes: bytes behind what was parsed are not refused.
OutcomesIgnoreRest ==
    {r \in {"ok", "rejected"} : ~Understood(Buff[1]) => r = "rejected"}

\* What consume may answer.  It refuses bytes behind what was parsed; of the
\* fields of a packet nothing is assumed, so the parser may reject any.
Outcomes ==
    {r \in {"ok", "trailing", "rejected"} :
        /\ ~Understood(Buff[1]) => r = "rejected"
        /\ r = "ok" => filled - pos = ParsedLen(Buff[1])
        /\ r = "trailing" => filled - pos > ParsedLen(Buff[1])}

\* read_frame has the whole frame: poll_event breaks and the bytes are parsed.
FrameReady ==
    /\ pc = "body"
    /\ frame <= Capacity
    /\ filled >= frame
    /\ \E r \in Outcomes :
        /\ Return(r)
        /\ returned' = IF r = "ok" THEN buf[pos + frame - 1] ELSE returned
    /\ UNCHANGED <<network, taken, buf, cursors, got, mode, lost, clamped>>

----------------------------------------------------------------------------
Next ==
    \/ Arrive
    \/ Close
    \/ CallRecv
    \/ CallConnect
    \/ Read
    \/ PollFails
    \/ HeaderInvalid
    \/ HeaderFound
    \/ FillHead
    \/ FillHeadFails
    \/ FrameTooBig
    \/ ReadExact
    \/ ReadExactFails
    \/ FrameReady

Spec == Init /\ [][Next]_vars

----------------------------------------------------------------------------
(* Properties.                                                             *)

TypeOK ==
    /\ stream \in Streams
    /\ arrived \in 0..Len(stream.bytes)
    /\ closed \in BOOLEAN
    /\ taken \in 0..arrived
    /\ buf \in [Cells -> Nat]
    /\ pos \in Nat
    /\ filled \in Nat
    /\ frame \in Nat
    /\ got \in Nat
    /\ pc \in {"idle", "poll", "head", "body"}
    /\ mode \in {"none", "recv", "connect"}
    /\ res \in {"none", "ok", "trailing", "rejected", "invalid", "eof", "toobig", "failed"}
    /\ lost \in BOOLEAN
    /\ clamped \in BOOLEAN
    /\ returned \in Nat

(* No slice of the buffer is out of range and no usize subtraction wraps,  *)
(* whatever the server sends and wherever the network cuts it: buff,       *)
(* backshift, the range of fill_head and the range of read_exact.          *)
SlicesInRange ==
    /\ pos <= filled /\ filled <= Capacity
    /\ pc = "head" => pos = 0 /\ filled <= MIN
    /\ NeedsMore => filled < MIN
    /\ got > 0 => NeedsBody /\ Fence < frame
    /\ frame # None => pos = 0

(* The buffer never shows a byte twice, out of order or before the kernel  *)
(* delivered it, even when a read_exact has lost bytes.                    *)
BytesInOrder ==
    /\ \A i \in pos..(Fence - 1) : buf[i] \in 1..taken
    /\ \A i, j \in pos..(Fence - 1) : i < j => buf[i] < buf[j]

\* Every header of the stream is one next_frame reads, and the lengths in
\* the headers lead from each packet to the next.
WellFormed(s) ==
    \A b \in {0} \cup s.ends, n \in 1..MIN :
        b + n <= Len(s.bytes) =>
            LET head == [i \in 1..n |-> s.bytes[b + i]] IN
            /\ ~NextFrameErr(head)
            /\ NextFrameSome(head) =>
                /\ b + FrameLen(head) \in s.ends
                /\ \A e \in s.ends : ~(b < e /\ e < b + FrameLen(head))

\* Nothing has happened that takes the reader out of step with the server.
InStep == WellFormed(stream) /\ ~lost /\ ~clamped

(* While no byte was lost and no frame was skipped in part, the reader     *)
(* stays on the server's packet boundaries: the unread bytes are the ones  *)
(* that follow a boundary, none missing, and a frame length in force leads *)
(* to the end of the packet that starts there.                             *)
FrameAligned ==
    InStep =>
        /\ Base \in Boundaries
        /\ \A i \in pos..(Fence - 1) : buf[i] = Base + 1 + (i - pos)
        /\ frame # None =>
            /\ Base + frame \in stream.ends
            /\ \A e \in stream.ends : ~(Base < e /\ e < Base + frame)

\* The last call returned Ok: buff() is the packet it hands out.
ReturnedOk == pc = "idle" /\ res = "ok"

OnePacket == Intact /\ filled - pos = frame

(* recv, while in step, hands out exactly the bytes of one packet the      *)
(* server sent, when that packet has the size its type demands; so does    *)
(* connect when it is a CONNACK, which is only asserted in debug builds.   *)
DeliveredWhole == ReturnedOk /\ InStep /\ Expected(Buff[1]) => OnePacket

(* The debug_assert of next_frame: less than a header is left unread when  *)
(* a new frame is looked for.                                              *)
HeaderRoom == InStep /\ pc = "poll" /\ frame = None => filled - pos < MIN

(* recv never hands out a packet twice, even out of step: the packet it    *)
(* returns lies behind every packet that was returned before.              *)
NoReplay ==
    [][mode' = "recv" /\ ~ReturnedOk /\ ReturnedOk' => buf[pos] > returned]_vars

----------------------------------------------------------------------------
(* What the code's comments and assertions say, and what does not hold.    *)

(* "Receives and parses a packet" (Receiver::recv): what recv returns is   *)
(* one packet the server sent.                                             *)
RecvReturnsAPacket == ReturnedOk /\ mode = "recv" => OnePacket

(* "Receives and parses a packet": recv does not refuse a packet that has  *)
(* been received whole because of the bytes behind it.                     *)
RecvParsesThePacket ==
    pc = "idle" /\ mode = "recv" /\ res = "trailing" => ~Intact
=============================================================================
