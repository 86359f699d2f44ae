------------------------------ MODULE Packets ------------------------------
(***************************************************************************)
(* How packets are encoded: for each packet type, the checks made before   *)
(* anything is written, the length encode_len declares, and the steps      *)
(* write_sync takes, each a write_all of some bytes that a check may come  *)
(* before.                                                                 *)
(*                                                                         *)
(* A string is a record: its first characters and how many letters 'a'     *)
(* follow them (pad), which lets it be longer than any buffer.  Binary     *)
(* data is a number of bytes FILL.  An Option is a sequence of no or one   *)
(* element.                                                                *)
(***************************************************************************)
EXTENDS FixedHeader, Strings, SequencesExt

MaxU16 == 65535

\* The letter 'a'.
FILL == 97

\* A write_all of n bytes: the bytes b, then FILL.
Write(b, n) == [bytes |-> b, size |-> n, valid |-> TRUE]

WriteAll(b) == Write(b, Len(b))

CheckedWrite(b, check) == [bytes |-> b, size |-> Len(b), valid |-> check]

Check(check) == CheckedWrite(<< >>, check)

\* Applies steps to the elements of a sequence, one after the other.
ForEach(s, steps(_)) == FlattenSeq([i \in 1..Len(s) |-> steps(s[i])])

SumOf(s) ==
    LET sum[i \in 0..Len(s)] == IF i = 0 THEN 0 ELSE sum[i - 1] + s[i]
    IN  sum[Len(s)]

\* The bytes of a big-endian U16.
U16(n) == <<n \div 256, n % 256>>

\* The bits of a byte, the lowest first.
Bits == <<1, 2, 4, 8, 16, 32, 64, 128>>

\* The byte with the bits that are named, the lowest first, in flags.
FlagByte(names, flags) ==
    SumOf([i \in 1..Len(names) |-> IF names[i] \in flags THEN Bits[i] ELSE 0])

\* The continuation byte with the six bits from place w on.
Trail(c, w) == 128 + ((c \div w) % 64)

Utf8(c) ==
    CASE c < 128                -> <<c>>
      [] 128 <= c /\ c < 2048   -> <<192 + c \div 64, Trail(c, 1)>>
      [] 2048 <= c /\ c < 65536 -> <<224 + c \div 4096, Trail(c, 64), Trail(c, 1)>>
      [] 65536 <= c             -> <<240 + c \div 262144, Trail(c, 4096), Trail(c, 64), Trail(c, 1)>>

----------------------------------------------------------------------------
(* What the fields of a packet may hold.                                   *)

Texts ==
    {t \in [chars : Seq(Nat), pad : Nat] : \A i \in 1..Len(t.chars) : IsChar(t.chars[i])}

Option(S) == {s \in Seq(S) : Len(s) <= 1}

\* A NonZeroU16.
PacketId == 1..MaxU16

RequestedQos == 0..2

WillMsg == [topic : Texts, message : Nat]

TopicFilter == [topic : Texts, qos : RequestedQos]

ReturnCodes == 0..5

SubAckCodes == {0, 1, 2, 128}

----------------------------------------------------------------------------
(* Fields.                                                                 *)

BuffValid(n) == n <= MaxU16

BuffSteps(n) == <<CheckedWrite(U16(n), BuffValid(n)), Write(<< >>, n)>>

BuffLen(n) == 2 + n

TextBytes(t) == ForEach(t.chars, Utf8)

TextLen(t) == Len(TextBytes(t)) + t.pad

\* The characters, with no more than one of the letters at the end.
TextStart(t) == t.chars \o (IF t.pad > 0 THEN <<FILL>> ELSE << >>)

StrValid(t) == \A i \in 1..Len(t.chars) : IsValidChar(t.chars[i])

StrSteps(t) ==
    <<CheckedWrite(U16(TextLen(t)), StrValid(t) /\ BuffValid(TextLen(t))),
      Write(TextBytes(t), TextLen(t))>>

StrLen(t) == 2 + TextLen(t)

PacketIdSteps(id) == <<WriteAll(U16(id))>>

PacketIdLen(id) == 2

\* TopicFilter: the topic, then its RequestedQos.
WildcardsValid(t) == HasValidWildcard(TextStart(t))

FilterValid(f) == WildcardsValid(f.topic)

FilterSteps(f) == <<Check(FilterValid(f))>> \o StrSteps(f.topic) \o <<WriteAll(<<f.qos>>)>>

FilterLen(f) == StrLen(f.topic) + 1

\* WillMsg: the topic, then the message.
WillSteps(w) == StrSteps(w.topic) \o BuffSteps(w.message)

WillLen(w) == StrLen(w.topic) + BuffLen(w.message)

----------------------------------------------------------------------------
(* Connect.                                                                *)

ProtocolName == <<0, 4, 77, 81, 84, 84>>

ProtocolLevel == 4

ConnectBits ==
    <<"RESERVED", "CLEAN_SESSION", "WILL_FLAG", "WILL_QOS_1", "WILL_QOS_2", "WILL_RETAIN",
      "PASSWORD", "USERNAME">>

ConnectFlags == {ConnectBits[i] : i \in 1..8}

ConnectHeader(c) ==
    ProtocolName \o <<ProtocolLevel, FlagByte(ConnectBits, c.flags)>> \o U16(c.keepalive)

ConnectHeaderLen == 10

ConnectHeaderValid(c) == "RESERVED" \notin c.flags

\* ClientId::write_sync: any string will do.
ClientIdSteps(id) == StrSteps(id)

ConnectSteps(c) ==
    <<CheckedWrite(ConnectHeader(c), ConnectHeaderValid(c))>>
        \o ClientIdSteps(c.client_id)
        \o ForEach(c.will, WillSteps)
        \o ForEach(c.username, StrSteps)
        \o ForEach(c.password, BuffSteps)

ConnectLen(c) ==
    ConnectHeaderLen + StrLen(c.client_id)
        + SumOf([i \in 1..Len(c.will) |-> WillLen(c.will[i])])
        + SumOf([i \in 1..Len(c.username) |-> StrLen(c.username[i])])
        + SumOf([i \in 1..Len(c.password) |-> BuffLen(c.password[i])])

----------------------------------------------------------------------------
(* Publish.                                                                *)

PublishBits == <<"RETAIN", "QOS_1", "QOS_2", "DUP">>

PublishFlags == {PublishBits[i] : i \in 1..4}

PublishNibble(flags) == FlagByte(PublishBits, flags)

PublishValid(p) == ~ContainsWildcardChar(p.topic.chars)

PublishSteps(p) ==
    StrSteps(p.topic) \o ForEach(p.pkid, PacketIdSteps) \o <<Write(<< >>, p.payload)>>

\* Mutant of PublishLen: the packet identifier is left out.
PublishLenNoId(p) == StrLen(p.topic) + p.payload

PublishLen(p) ==
    StrLen(p.topic) + SumOf([i \in 1..Len(p.pkid) |-> PacketIdLen(p.pkid[i])]) + p.payload

----------------------------------------------------------------------------
(* Subscribe and Unsubscribe.                                              *)

SubscribeValid(s) == \A i \in 1..Len(s.filters) : FilterValid(s.filters[i])

SubscribeSteps(s) == PacketIdSteps(s.pkid) \o ForEach(s.filters, FilterSteps)

SubscribeLen(s) ==
    PacketIdLen(s.pkid) + SumOf([i \in 1..Len(s.filters) |-> FilterLen(s.filters[i])])

UnsubscribeValid(u) == \A i \in 1..Len(u.filters) : WildcardsValid(u.filters[i])

UnsubscribeSteps(u) == PacketIdSteps(u.pkid) \o ForEach(u.filters, StrSteps)

UnsubscribeLen(u) ==
    PacketIdLen(u.pkid) + SumOf([i \in 1..Len(u.filters) |-> StrLen(u.filters[i])])

----------------------------------------------------------------------------
(* The packets of a server.                                                *)

Acks == {PUBACK, PUBREC, PUBREL, PUBCOMP, UNSUBACK}

SubAckSteps(a) == PacketIdSteps(a.pkid) \o <<WriteAll(a.codes)>>

SubAckLen(a) == PacketIdLen(a.pkid) + Len(a.codes)

\* ConnAck::write_sync: the flags and the return code, without a fixed header.
ConnAckSteps(a) == <<WriteAll(<<a.session, a.code>>)>>

ConnAckLen(a) == 2

----------------------------------------------------------------------------
(* Whole packets.                                                          *)

PingReqPacket == [type |-> PINGREQ]

PingRespPacket == [type |-> PINGRESP]

DisconnectPacket == [type |-> DISCONNECT]

Connect ==
    [type : {CONNECT}, flags : SUBSET ConnectFlags, keepalive : 0..MaxU16, client_id : Texts,
     will : Option(WillMsg), username : Option(Texts), password : Option(Nat)]

Publish ==
    [type : {PUBLISH}, flags : SUBSET PublishFlags, pkid : Option(PacketId), topic : Texts,
     payload : Nat]

Subscribe == [type : {SUBSCRIBE}, pkid : PacketId, filters : Seq(TopicFilter)]

Unsubscribe == [type : {UNSUBSCRIBE}, pkid : PacketId, filters : Seq(Texts)]

ConnAck == [type : {CONNACK}, session : 0..1, code : ReturnCodes]

PacketIdOnly == [type : Acks, pkid : PacketId]

SubAck == [type : {SUBACK}, pkid : PacketId, codes : Seq(SubAckCodes)]

\* The packets with a body behind a fixed header; ConnAck is written without one.
HeaderPackets ==
    Connect \cup Publish \cup Subscribe \cup Unsubscribe \cup PacketIdOnly \cup SubAck
        \cup {PingReqPacket, PingRespPacket, DisconnectPacket}

\* The validate_value that write_sync calls first, for the types where it does.
ChecksFirst(p) ==
    CASE p.type = PUBLISH -> PublishValid(p)
      [] p.type = SUBSCRIBE -> SubscribeValid(p)
      [] p.type = UNSUBSCRIBE -> UnsubscribeValid(p)
      [] OTHER -> TRUE

BodyLen(p) ==
    CASE p.type = CONNECT -> ConnectLen(p)
      [] p.type = CONNACK -> ConnAckLen(p)
      [] p.type = PUBLISH -> PublishLen(p)
      [] p.type \in Acks -> PacketIdLen(p.pkid)
      [] p.type = SUBSCRIBE -> SubscribeLen(p)
      [] p.type = SUBACK -> SubAckLen(p)
      [] p.type = UNSUBSCRIBE -> UnsubscribeLen(p)
      [] OTHER -> 0

BodySteps(p) ==
    CASE p.type = CONNECT -> ConnectSteps(p)
      [] p.type = CONNACK -> ConnAckSteps(p)
      [] p.type = PUBLISH -> PublishSteps(p)
      [] p.type \in Acks -> PacketIdSteps(p.pkid)
      [] p.type = SUBSCRIBE -> SubscribeSteps(p)
      [] p.type = SUBACK -> SubAckSteps(p)
      [] p.type = UNSUBSCRIBE -> UnsubscribeSteps(p)
      [] OTHER -> << >>

HeaderFlags(p) == IF p.type = PUBLISH THEN PublishNibble(p.flags) ELSE DefaultFlags(p.type)

\* FixedHeaderSlice::write_sync: the checks, the type byte, the length bytes.
HeaderSteps(p) ==
    IF p.type = CONNACK THEN << >>
    ELSE IF ValidHeader(p.type, HeaderFlags(p), BodyLen(p))
    THEN <<WriteAll(<<EncodeTypeAndFlags(p.type, HeaderFlags(p))>>),
           WriteAll(EncodeToArray(BodyLen(p)))>>
    ELSE <<Check(FALSE)>>

\* Mutant of StepsOf: write_sync does not call validate_value.
StepsOfUnchecked(p) == HeaderSteps(p) \o BodySteps(p)

\* What write_sync does, up to the first check that fails.
StepsOf(p) == <<Check(ChecksFirst(p))>> \o HeaderSteps(p) \o BodySteps(p)

Sizes(steps) == [i \in 1..Len(steps) |-> steps[i].size]

\* No check of write_sync fails.
Encodes(p) == LET steps == StepsOf(p) IN \A i \in 1..Len(steps) : steps[i].valid

StepBytes(s) == s.bytes \o [i \in 1..(s.size - Len(s.bytes)) |-> FILL]

\* What write_sync writes, when it writes it all.
BytesOf(p) == ForEach(StepsOf(p), StepBytes)

\* The number of bytes the fixed header declares, itself included.
PacketLen(p) == EncodeLen(BodyLen(p)) + BodyLen(p)
=============================================================================
