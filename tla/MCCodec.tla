------------------------------ MODULE MCCodec ------------------------------
(* Codec with strings of characters of every UTF-8 size, too long, refused *)
(* for a character or for a wildcard; with payloads on both sides of every *)
(* size at which the remaining length takes one more byte; and with frames *)
(* of other peers that are malformed in the ways one byte of difference    *)
(* does not reach.                                                         *)
EXTENDS Codec

Text(chars) == [chars |-> chars, pad |-> 0]

LettersOnly(n) == [chars |-> << >>, pad |-> n]

\* 'a', 'a' 23 times, 'a' 24 times, an accent
MCClientIds == {Text(<<97>>), LettersOnly(23), LettersOnly(24), Text(<<233>>)}

MCNames == {Text(<<8364>>), Text(<<31>>)}

\* a   /+   #/a   a+   U+1F600   U+1F5FF   U+10FFFF   64 KiB
MCTopics ==
    {Text(<<97>>), Text(<<SLASH, PLUS>>), Text(<<HASH, SLASH, 97>>), Text(<<97, PLUS>>),
     Text(<<128512>>), Text(<<128511>>), Text(<<1114111>>), LettersOnly(65536)}

MCData == {0, 124, 65536}

\* With a topic of a letter, to the last length of a size class, and past it.
MCPayloads == {0, 124, 16380, 2097148, 268435450}

MCPacketIds == {1, 65535}

MCSeconds == {0, 258, 65536}

MCCodes == {0, 128}

MCStray == {0, 2, 35, 128, 255}

MCForeign ==
    {<<32, 2, 1, 5>>, <<32, 2, 2, 0>>, <<32, 2, 0, 6>>,       \* CONNACK
     <<144, 131, 0, 0, 1, 0>>,                  \* SUBACK, its length in two bytes
     <<48, 128, 128, 128, 128, 1>>,             \* a length in five bytes
     <<48, 4, 0, 2, 192, 175>>,                 \* '/' in the two-byte form
     <<48, 5, 0, 3, 237, 160, 128>>,            \* a surrogate
     <<48, 5, 0, 3, 239, 191, 190>>,            \* U+FFFE
     <<48, 6, 0, 4, 244, 144, 128, 128>>,       \* above U+10FFFF
     <<48, 3, 0, 1, PLUS>>,                     \* PUBLISH to '+'
     <<130, 7, 0, 1, 0, 2, 97, HASH, 0>>,       \* SUBSCRIBE to a#
     <<162, 6, 0, 1, 0, 2, 97, HASH>>}          \* UNSUBSCRIBE from a#

MCMaxWire == 300

MCMaxAltered == 20
=============================================================================
