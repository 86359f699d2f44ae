------------------------------- MODULE Codec -------------------------------
(***************************************************************************)
(* A packet from its builder to its parser: an application makes the calls *)
(* of a builder, write_sync puts the packet on the wire, and the parser of *)
(* its type reads it.  The bytes the parser sees may also come from a peer *)
(* that is not this library, and differ from what write_sync makes.        *)
(***************************************************************************)
EXTENDS Builders, Decoders

CONSTANTS
    Codes,          \* return codes of SUBACK packets
    Foreign,        \* frames of peers that write_sync never makes
    Stray,          \* bytes a peer may put where write_sync puts others
    MaxWire,        \* bound: the longest packet written out byte by byte
    MaxAltered      \* bound: the longest packet a peer alters

ASSUME CodecAssumption ==
    /\ Codes \subseteq SubAckCodes
    /\ Foreign \subseteq Seq(Byte)
    /\ Stray \subseteq Byte
    /\ {MaxWire, MaxAltered} \subseteq Nat

VARIABLES
    wire            \* the bytes the parser is given

vars == <<built, asked, wire>>

Init == BuilderInit /\ wire = << >>

----------------------------------------------------------------------------
(* The packets of a server, which have no builder with calls.              *)

NewServerPacket(p) ==
    /\ built = Nothing
    /\ built' = p
    /\ UNCHANGED asked

ServerCall ==
    \/ \E s \in 0..1, c \in ReturnCodes : NewServerPacket([type |-> CONNACK, session |-> s, code |-> c])
    \/ \E t \in Acks, id \in PacketIds : NewServerPacket([type |-> t, pkid |-> id])
    \/ \E id \in PacketIds, cs \in UpToTwo(Codes) :
        NewServerPacket([type |-> SUBACK, pkid |-> id, codes |-> cs])
    \/ \E p \in {PingReqPacket, PingRespPacket, DisconnectPacket} : NewServerPacket(p)

Call ==
    /\ wire = << >>
    /\ BuilderCall \/ ServerCall
    /\ UNCHANGED wire

\* A call of write_sync that succeeds; one that fails may leave a torn packet,
\* which is the matter of Writer.
WriteSync ==
    /\ wire = << >>
    /\ built # Nothing
    /\ Encodes(built)
    /\ PacketLen(built) <= MaxWire
    /\ wire' = BytesOf(built)
    /\ UNCHANGED builderVars

\* The wire holds what another peer wrote.
FromPeer(w) ==
    /\ wire' = w
    /\ built' = Nothing
    /\ asked' = 0

\* Another peer writes a packet that differs in one byte, or in its end.
Alter ==
    /\ built # Nothing
    /\ Len(wire) \in 1..MaxAltered
    /\ \/ \E i \in 1..Len(wire), b \in Stray : FromPeer([wire EXCEPT ![i] = b])
       \/ \E b \in Stray : FromPeer(Append(wire, b))
       \/ FromPeer(Take(wire, Len(wire) - 1))

Receive ==
    /\ wire = << >>
    /\ built = Nothing
    /\ \E w \in Foreign : FromPeer(w)

Next == Call \/ WriteSync \/ Alter \/ Receive

Spec == Init /\ [][Next]_vars

----------------------------------------------------------------------------
(* What a parser should make of a packet that was built.                   *)

Letters(n) == [i \in 1..n |-> FILL]

TextChars(t) == t.chars \o Letters(t.pad)

Each(s, of(_)) == [i \in 1..Len(s) |-> of(s[i])]

AsRead(p) ==
    CASE p.type = CONNECT ->
            [p EXCEPT !.client_id = TextChars(@),
                      !.will = Each(@, LAMBDA w : [topic |-> TextChars(w.topic),
                                                   message |-> Letters(w.message)]),
                      !.username = Each(@, TextChars),
                      !.password = Each(@, Letters)]
      [] p.type = PUBLISH -> [p EXCEPT !.topic = TextChars(@), !.payload = Letters(@)]
      [] p.type = SUBSCRIBE ->
            [p EXCEPT !.filters = Each(@, LAMBDA f : [f EXCEPT !.topic = TextChars(@)])]
      [] p.type = UNSUBSCRIBE -> [p EXCEPT !.filters = Each(@, TextChars)]
      [] OTHER -> p

\* The packets that are written in a form their own parser does not take: a
\* client id it does not know, a packet identifier that qos(AtMostOnce) left
\* behind, a CONNACK without its fixed header.
Unreadable(p) ==
    \/ p.type = CONNECT /\ ~ClientIdReadable(TextChars(p.client_id))
    \/ p.type = PUBLISH /\ p.pkid # << >> /\ asked = 0
    \/ p.type = CONNACK

\* The strings of a packet that was read.
StringsOf(p) ==
    CASE p.type = CONNECT ->
            {p.client_id} \cup {p.will[i].topic : i \in 1..Len(p.will)}
                \cup {p.username[i] : i \in 1..Len(p.username)}
      [] p.type = PUBLISH -> {p.topic}
      [] p.type = SUBSCRIBE -> {p.filters[i].topic : i \in 1..Len(p.filters)}
      [] p.type = UNSUBSCRIBE -> {p.filters[i] : i \in 1..Len(p.filters)}
      [] OTHER -> {}

HasPacketId == Acks \cup {SUBSCRIBE, SUBACK, UNSUBSCRIBE}

\* The packet types whose parser splits its input at the remaining length.
LengthDelimited == {PUBLISH, SUBSCRIBE, SUBACK, UNSUBSCRIBE}

----------------------------------------------------------------------------
(* Properties.                                                             *)

TypeOK ==
    /\ built \in HeaderPackets \cup ConnAck \cup {Nothing}
    /\ asked \in RequestedQos
    /\ wire \in Seq(Byte)

(* Whatever calls made the builder, a packet that encodes is as long as    *)
(* its fixed header says, up to the largest one: encode_len and write_sync *)
(* agree on every field.                                                   *)
LengthHonest ==
    built.type \notin {0, CONNACK} /\ Encodes(built) =>
        SumOf(Sizes(StepsOf(built))) = PacketLen(built)

(* However many bytes of a header that write_sync wrote have arrived,      *)
(* next_frame asks for more while it is incomplete and answers with the    *)
(* length of the whole packet from its last byte on, whatever byte of the  *)
(* body follows; and the type and the flags are the ones encoded.          *)
FrameFoundAtLastHeaderByte ==
    built.type \notin {0, CONNACK} /\ Encodes(built) =>
        LET h == WriteHeader(built.type, HeaderFlags(built), BodyLen(built)) IN
        /\ \A n \in 0..Len(h) :
            /\ ~NextFrameErr(Take(h, n))
            /\ NextFrameSome(Take(h, n)) <=> n = Len(h)
        /\ \A s \in {h} \cup {Append(h, b) : b \in Stray} :
            NextFrameSome(s) /\ FrameLen(s) = PacketLen(built)
        /\ ParseType(h[1])
        /\ PacketTypeOf(h[1]) = built.type /\ FlagsOf(h[1]) = HeaderFlags(built)

(* The QoS bits of the will and of a PUBLISH are those of the last call    *)
(* that set them: never the reserved value 3, which setting both bits of   *)
(* two calls would make.                                                   *)
QosAsAsked ==
    /\ built.type = CONNECT =>
        built.flags \cap {"WILL_QOS_1", "WILL_QOS_2"} = WillQos(asked)
    /\ built.type = PUBLISH =>
        ("QOS_1" \in built.flags <=> asked = 1) /\ ("QOS_2" \in built.flags <=> asked = 2)

(* A packet that write_sync writes reads back, through consume, as what    *)
(* the calls of its builder made: every flag announces the field that      *)
(* follows, and every field is found where it was put.  The exceptions are *)
(* the packets in Unreadable, and each of them is one.                     *)
RoundTrip ==
    built # Nothing /\ wire # << >> =>
        (Consume(wire) = Ok(AsRead(built), << >>) <=> ~Unreadable(built))

(* A packet whose parser splits at the remaining length is read from its   *)
(* frame and nothing else: with bytes of the next packet behind it, as the *)
(* reader has them after its 5 byte read, the parser returns the same      *)
(* packet and leaves these bytes; and what next_frame says of its length   *)
(* is what the parser takes.                                               *)
ReadsItsFrame ==
    wire # << >> =>
        LET r == ParseOf(wire) IN
        r.ok =>
            /\ \A b \in Stray : ParseOf(Append(wire, b)) = Ok(r.out, Append(r.rest, b))
            /\ r.out.type \in LengthDelimited =>
                NextFrameSome(wire) /\ FrameLen(wire) = Len(wire) - Len(r.rest)

(* Nothing illegal gets in: the strings of an accepted packet hold no      *)
(* control character below U+0020 and no noncharacter, whatever its bytes  *)
(* and their UTF-8; topics of a PUBLISH hold no wildcard; and no packet    *)
(* identifier is zero, which PacketId::read would panic on.                *)
AcceptedIsLegal ==
    wire # << >> =>
        LET r == ParseOf(wire) IN
        r.ok =>
            /\ \A s \in StringsOf(r.out) : LegalText(s)
            /\ r.out.type = PUBLISH =>
                \A i \in 1..Len(r.out.topic) : r.out.topic[i] \notin Wildcards
            /\ r.out.type \in HasPacketId => r.out.pkid # 0
            /\ r.out.type = PUBLISH => \A i \in 1..Len(r.out.pkid) : r.out.pkid[i] # 0

(* The check of the neighbours of each wildcard decides the rule about     *)
(* topic levels: a SUBSCRIBE or an UNSUBSCRIBE is refused for its          *)
(* wildcards exactly when some filter breaks the rule, and a filter of an  *)
(* UNSUBSCRIBE that was read never does.                                   *)
WildcardsByLevel ==
    /\ built.type = SUBSCRIBE =>
        (ChecksFirst(built) <=>
            \A i \in 1..Len(built.filters) : LegalFilter(TextStart(built.filters[i].topic)))
    /\ built.type = UNSUBSCRIBE =>
        (ChecksFirst(built) <=>
            \A i \in 1..Len(built.filters) : LegalFilter(TextStart(built.filters[i])))
    /\ wire # << >> /\ ParseOf(wire).ok /\ ParseOf(wire).out.type = UNSUBSCRIBE =>
        \A s \in StringsOf(ParseOf(wire).out) : LegalFilter(s)
=============================================================================
