---------------------------- MODULE FixedHeader ----------------------------
(***************************************************************************)
(* The fixed header of an MQTT control packet: one byte that packs the     *)
(* packet type and its flags, then 1 to 4 bytes of remaining length, seven *)
(* bits per byte, least significant first, with a continuation bit on      *)
(* every byte but the last.                                                *)
(*                                                                         *)
(* A byte slice is a sequence over Byte.  A Rust Result<Option<usize>> is  *)
(* split in two predicates and a value: NextFrameErr says that the call    *)
(* returns Err, NextFrameSome that it returns Ok(Some(_)) and FrameLen is  *)
(* the length it then returns; Ok(None) is what is left.                   *)
(***************************************************************************)
EXTENDS Integers, Sequences

Byte == 0..255

CONTINUE_FLAG == 128

MAX_BYTES == 4

\* The weight of the i-th byte of a remaining length.
Place == <<1, 128, 16384, 2097152, 268435456>>

MAX_REMAINING_LENGTH == 268435455

----------------------------------------------------------------------------
(* Reading a remaining length.                                             *)

HasContinueFlag(b) == b >= CONTINUE_FLAG

Continues(s, i) == i <= Len(s) /\ HasContinueFlag(s[i])

\* take_while(has_continue_flag).take(MAX_BYTES).count()
CountContinueFlags(s) ==
    CHOOSE n \in 0..MAX_BYTES :
        /\ \A i \in 1..n : Continues(s, i)
        /\ n < MAX_BYTES => ~Continues(s, n + 1)

\* The part of byte i, if there is one, in the sum read_from_buf computes.
Digit(s, i) == IF i <= Len(s) THEN (s[i] % CONTINUE_FLAG) * Place[i] ELSE 0

ReadFromBuf(s) == Digit(s, 1) + Digit(s, 2) + Digit(s, 3) + Digit(s, 4)

----------------------------------------------------------------------------
(* FixedHeader::next_frame: how long is the packet that starts this slice? *)

\* buff.get(1..)
AfterType(s) == [i \in 1..(Len(s) - 1) |-> s[i + 1]]

\* Mutant of RemBytes: the last length byte, without the flag, is not counted.
RemBytesNoLast(s) == CountContinueFlags(AfterType(s))

RemBytes(s) == 1 + CountContinueFlags(AfterType(s))

NextFrameErr(s) ==
    /\ Len(s) > 0
    /\ CountContinueFlags(AfterType(s)) >= MAX_BYTES

NextFrameSome(s) ==
    /\ Len(s) > 0
    /\ ~NextFrameErr(s)
    /\ RemBytes(s) <= Len(s) - 1

\* buff.get(..rem_bytes)
LengthBytes(s) == [i \in 1..RemBytes(s) |-> s[i + 1]]

FrameLen(s) == 1 + RemBytes(s) + ReadFromBuf(LengthBytes(s))

----------------------------------------------------------------------------
(* Packet types and flags.                                                 *)

ControlPacketTypes == 1..14

CONNECT     == 1
CONNACK     == 2
PUBLISH     == 3
PUBACK      == 4
PUBREC      == 5
PUBREL      == 6
PUBCOMP     == 7
SUBSCRIBE   == 8
SUBACK      == 9
UNSUBSCRIBE == 10
UNSUBACK    == 11
PINGREQ     == 12
PINGRESP    == 13
DISCONNECT  == 14

PacketTypeOf(b) == b \div 16

FlagsOf(b) == b % 16

\* The flags FixedHeaderBuilder::new gives a packet type.
DefaultFlags(t) == IF t \in {PUBREL, SUBSCRIBE, UNSUBSCRIBE} THEN 2 ELSE 0

ValidTypeFlags(t, f) == t = PUBLISH \/ f = DefaultFlags(t)

\* ControlPacketType::parse succeeds on the first byte of a packet.
ParseType(b) ==
    /\ PacketTypeOf(b) \in ControlPacketTypes
    /\ ValidTypeFlags(PacketTypeOf(b), FlagsOf(b))

EncodeTypeAndFlags(t, f) == t * 16 + f

\* The packet types Packet::parse accepts from the server.
ServerTypes ==
    {CONNACK, PUBLISH, PUBACK, PUBREC, PUBREL, PUBCOMP, SUBACK, UNSUBACK, PINGRESP}

----------------------------------------------------------------------------
(* Writing a fixed header.                                                 *)

\* len_from_u32 is Ok for the lengths up to MAX_REMAINING_LENGTH.
LenFromU32(v) == CHOOSE n \in 1..MAX_BYTES : v < Place[n + 1] /\ (n = 1 \/ v >= Place[n])

EncodeToArray(v) ==
    [i \in 1..LenFromU32(v) |->
        ((v \div Place[i]) % CONTINUE_FLAG)
            + (IF v \div Place[i + 1] > 0 THEN CONTINUE_FLAG ELSE 0)]

\* FixedHeaderSlice::validate_value, the first thing its write_sync does.
ValidHeader(t, f, v) == ValidTypeFlags(t, f) /\ v <= MAX_REMAINING_LENGTH

\* The bytes FixedHeaderSlice::write_sync writes for a valid header.
WriteHeader(t, f, v) == <<EncodeTypeAndFlags(t, f)>> \o EncodeToArray(v)

EncodeLen(v) == 1 + LenFromU32(v)
=============================================================================
