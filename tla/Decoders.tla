------------------------------ MODULE Decoders ------------------------------
(***************************************************************************)
(* The parsers of the packets.  A parser takes a byte sequence and returns *)
(* what it read and the bytes after it, or Err.  A decoded string is its   *)
(* code points, decoded data its bytes.                                    *)
(*                                                                         *)
(* The parsers of a release build: that a parser is given a packet of its  *)
(* own type is a debug_assert.                                             *)
(***************************************************************************)
EXTENDS Packets

Ok(out, rest) == [ok |-> TRUE, out |-> out, rest |-> rest]

Err == [ok |-> FALSE]

\* The operator ? : the parser that goes on where another ended.
Then(r, parse(_, _)) == IF r.ok THEN parse(r.out, r.rest) ELSE Err

When(cond, r) == IF cond THEN r ELSE Err

Take(s, n) == SubSeq(s, 1, n)

Drop(s, n) == SubSeq(s, n + 1, Len(s))

\* The last n elements.
Ending(s, n) == Drop(s, Len(s) - n)

FromU16(s) == s[1] * 256 + s[2]

FlagsIn(names, b) == {names[i] : i \in {j \in 1..Len(names) : (b \div Bits[j]) % 2 = 1}}

----------------------------------------------------------------------------
(* Strings.                                                                *)

Utf8Size(b) ==
    CASE b < 192 -> 1 [] b \in 192..223 -> 2 [] b \in 224..239 -> 3 [] b \in 240..255 -> 4

\* The code point the first n bytes of s stand for.
CodePoint(s, n) ==
    CASE n = 1 -> s[1]
      [] n = 2 -> (s[1] % 32) * 64 + (s[2] % 64)
      [] n = 3 -> (s[1] % 16) * 4096 + (s[2] % 64) * 64 + (s[3] % 64)
      [] n = 4 -> (s[1] % 8) * 262144 + (s[2] % 64) * 4096 + (s[3] % 64) * 64 + (s[4] % 64)

\* The characters of a slice that is UTF-8: no surrogates, no longer form.
Utf8Chars(b) ==
    LET chars[k \in 0..Len(b)] ==
            LET s == Ending(b, k)
                n == Utf8Size(s[1])
                c == CodePoint(s, n)
            IN  IF k = 0 THEN Ok(<< >>, << >>)
                ELSE When(n <= k /\ IsChar(c) /\ Utf8(c) = Take(s, n),
                          Then(chars[k - n], LAMBDA cs, rest : Ok(<<c>> \o cs, rest)))
    IN  chars[Len(b)]

\* Buff::parse
BuffParse(s) ==
    When(Len(s) >= 2 /\ Len(s) >= 2 + FromU16(s),
         Ok(SubSeq(s, 3, 2 + FromU16(s)), Drop(s, 2 + FromU16(s))))

CharsValid(cs) == \A i \in 1..Len(cs) : IsValidChar(cs[i])

\* MqttStr::parse
StrParse(s) ==
    Then(BuffParse(s), LAMBDA b, rest :
        Then(Utf8Chars(b), LAMBDA cs, none : When(CharsValid(cs), Ok(cs, rest))))

----------------------------------------------------------------------------
(* Headers and packet identifiers.                                         *)

\* RemainingLength::<[u8]>::parse
LengthParse(s) ==
    LET flags == CountContinueFlags(s) IN
    When(flags < MAX_BYTES /\ flags < Len(s),
         Ok(ReadFromBuf(Take(s, flags + 1)), Drop(s, flags + 1)))

\* FixedHeaderSlice::parse
HeaderParse(s) ==
    When(Len(s) > 0 /\ ParseType(s[1]),
         Then(LengthParse(Drop(s, 1)), LAMBDA length, rest :
            Ok([flags |-> FlagsOf(s[1]), length |-> length], rest)))

\* RemainingLength::<[u8; 1]>::parse
LengthArrayParse(s) == When(Len(s) >= 1 /\ ~HasContinueFlag(s[1]), Ok(s[1], Drop(s, 1)))

\* FixedHeaderArray::<1>::parse; nobody looks at the length it reads.
HeaderArrayParse(s) ==
    When(Len(s) > 0 /\ ParseType(s[1]), LengthArrayParse(Drop(s, 1)))

\* Mutant of SplitBody: the body goes on to the end of the buffer.
SplitBodyAll(h, s) == When(h.length <= Len(s), Ok(s, << >>))

\* rest.split_at_checked(rem_len)
SplitBody(h, s) == When(h.length <= Len(s), Ok(Take(s, h.length), Drop(s, h.length)))

PacketIdParse(s) == When(Len(s) >= 2 /\ FromU16(s) # 0, Ok(FromU16(s), Drop(s, 2)))

----------------------------------------------------------------------------
(* The packets a client receives.                                          *)

\* The mask of ConnAck::validate is !SESSION_PRESENT, which bitflags truncates
\* to the known flags: it is empty and every flag byte passes.
ConnAckParse(s) ==
    Then(HeaderArrayParse(s), LAMBDA length, b :
        When(Len(b) >= 2 /\ b[2] \in ReturnCodes,
             Ok([type |-> CONNACK, session |-> b[1] % 2, code |-> b[2]], Drop(b, 2))))

\* A packet that is an identifier, or nothing, behind its header.
AckParse(type, s) ==
    Then(HeaderArrayParse(s), LAMBDA length, b :
        Then(PacketIdParse(b), LAMBDA id, rest : Ok([type |-> type, pkid |-> id], rest)))

EmptyParse(type, s) ==
    Then(HeaderArrayParse(s), LAMBDA length, rest : Ok([type |-> type], rest))

PubAckParse(s) == AckParse(PUBACK, s)

PubRecParse(s) == AckParse(PUBREC, s)

PubRelParse(s) == AckParse(PUBREL, s)

PubCompParse(s) == AckParse(PUBCOMP, s)

UnsubAckParse(s) == AckParse(UNSUBACK, s)

PingRespParse(s) == EmptyParse(PINGRESP, s)

SubAckParse(s) ==
    Then(HeaderParse(s), LAMBDA h, b :
        When(h.length >= 2 /\ h.length <= Len(b),
            LET codes == SubSeq(b, 3, h.length) IN
            When((\A i \in 1..Len(codes) : codes[i] \in SubAckCodes) /\ FromU16(b) # 0,
                 Ok([type |-> SUBACK, pkid |-> FromU16(b), codes |-> codes], Drop(b, h.length)))))

\* A packet identifier, where the QoS asks for one.
OptionParse(present, parsed, s) ==
    IF present
    THEN Then(parsed, LAMBDA out, rest : Ok(<<out>>, rest))
    ELSE Ok(<< >>, s)

PublishParse(s) ==
    Then(HeaderParse(s), LAMBDA h, b :
    Then(SplitBody(h, b), LAMBDA body, rest :
    Then(StrParse(body), LAMBDA topic, r1 :
    LET flags == FlagsIn(PublishBits, h.flags) IN
    Then(OptionParse(flags \cap {"QOS_1", "QOS_2"} # {}, PacketIdParse(r1), r1), LAMBDA pkid, payload :
        When(~ContainsWildcardChar(topic),
             Ok([type |-> PUBLISH, flags |-> flags, pkid |-> pkid, topic |-> topic,
                 payload |-> payload], rest))))))

\* Packet::parse
PacketParse(s) ==
    IF Len(s) = 0 \/ ~ParseType(s[1]) THEN Err
    ELSE LET type == PacketTypeOf(s[1]) IN
        CASE type = CONNACK  -> ConnAckParse(s)
          [] type = PUBLISH  -> PublishParse(s)
          [] type = PUBACK   -> PubAckParse(s)
          [] type = PUBREC   -> PubRecParse(s)
          [] type = PUBREL   -> PubRelParse(s)
          [] type = PUBCOMP  -> PubCompParse(s)
          [] type = SUBACK   -> SubAckParse(s)
          [] type = UNSUBACK -> UnsubAckParse(s)
          [] type = PINGRESP -> PingRespParse(s)
          [] OTHER           -> Err

----------------------------------------------------------------------------
(* The packets a server receives.                                          *)

\* TopicFilter::parse does not look at the wildcards.
FilterParse(s) ==
    Then(StrParse(s), LAMBDA topic, b :
        When(Len(b) > 0 /\ b[1] \in 0..2, Ok([topic |-> topic, qos |-> b[1]], Drop(b, 1))))

\* RawSubscribeCursor and RawUnsubscribeCursor: filters up to the end of the slice.
SubscribeCursor(b) ==
    LET filters[k \in 0..Len(b)] ==
            IF k = 0 THEN Ok(<< >>, << >>)
            ELSE Then(FilterParse(Ending(b, k)), LAMBDA f, r :
                 Then(filters[Len(r)], LAMBDA fs, rest : Ok(<<f>> \o fs, rest)))
    IN  filters[Len(b)]

UnsubscribeCursor(b) ==
    LET filters[k \in 0..Len(b)] ==
            IF k = 0 THEN Ok(<< >>, << >>)
            ELSE Then(StrParse(Ending(b, k)), LAMBDA t, r :
                 Then(filters[Len(r)], LAMBDA ts, rest :
                    When(HasValidWildcard(t), Ok(<<t>> \o ts, rest))))
    IN  filters[Len(b)]

SubscribeParse(s) ==
    Then(HeaderParse(s), LAMBDA h, b :
    Then(SplitBody(h, b), LAMBDA body, rest :
    Then(PacketIdParse(body), LAMBDA id, r1 :
    Then(SubscribeCursor(r1), LAMBDA fs, none :
        Ok([type |-> SUBSCRIBE, pkid |-> id, filters |-> fs], rest)))))

UnsubscribeParse(s) ==
    Then(HeaderParse(s), LAMBDA h, b :
    Then(SplitBody(h, b), LAMBDA body, rest :
    Then(PacketIdParse(body), LAMBDA id, r1 :
    Then(UnsubscribeCursor(r1), LAMBDA ts, none :
        Ok([type |-> UNSUBSCRIBE, pkid |-> id, filters |-> ts], rest)))))

WillParse(s) ==
    Then(StrParse(s), LAMBDA topic, r :
    Then(BuffParse(r), LAMBDA message, rest :
        Ok([topic |-> topic, message |-> message], rest)))

\* ClientId: 1 to 23 bytes, letters and digits; one byte is one character then.
ClientIdReadable(cs) == Len(cs) \in 1..23 /\ \A i \in 1..Len(cs) : IsAsciiAlphanumeric(cs[i])

ClientIdParse(s) == Then(StrParse(s), LAMBDA id, rest : When(ClientIdReadable(id), Ok(id, rest)))

ConnectHeaderParse(s) ==
    When(/\ Len(s) >= ConnectHeaderLen
         /\ Take(s, 7) = ProtocolName \o <<ProtocolLevel>>
         /\ "RESERVED" \notin FlagsIn(ConnectBits, s[8]),
         Ok([flags |-> FlagsIn(ConnectBits, s[8]), keepalive |-> FromU16(SubSeq(s, 9, 10))],
            Drop(s, ConnectHeaderLen)))

\* Connect::parse follows the flags, not the remaining length.
ConnectParse(s) ==
    Then(HeaderParse(s), LAMBDA h, b :
    Then(ConnectHeaderParse(b), LAMBDA header, r1 :
    Then(ClientIdParse(r1), LAMBDA id, r2 :
    Then(OptionParse("WILL_FLAG" \in header.flags, WillParse(r2), r2), LAMBDA will, r3 :
    Then(OptionParse("USERNAME" \in header.flags, StrParse(r3), r3), LAMBDA username, r4 :
    Then(OptionParse("PASSWORD" \in header.flags, BuffParse(r4), r4), LAMBDA password, rest :
        When(PacketTypeOf(s[1]) = CONNECT,
             Ok([type |-> CONNECT, flags |-> header.flags, keepalive |-> header.keepalive,
                 client_id |-> id, will |-> will, username |-> username,
                 password |-> password], rest))))))))

PingReqParse(s) == EmptyParse(PINGREQ, s)

DisconnectParse(s) == EmptyParse(DISCONNECT, s)

----------------------------------------------------------------------------
\* The parser of the packet type in the first byte.
ParseOf(s) ==
    IF Len(s) = 0 \/ ~ParseType(s[1]) THEN Err
    ELSE LET type == PacketTypeOf(s[1]) IN
        CASE type = CONNECT     -> ConnectParse(s)
          [] type = SUBSCRIBE   -> SubscribeParse(s)
          [] type = UNSUBSCRIBE -> UnsubscribeParse(s)
          [] type = PINGREQ     -> PingReqParse(s)
          [] type = DISCONNECT  -> DisconnectParse(s)
          [] OTHER              -> PacketParse(s)

\* Decode::consume: nothing may follow.
Consume(s) == Then(ParseOf(s), LAMBDA out, rest : When(rest = << >>, Ok(out, rest)))
=============================================================================
