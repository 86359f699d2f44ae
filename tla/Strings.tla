------------------------------ MODULE Strings ------------------------------
(***************************************************************************)
(* The character checks on MQTT strings and topics.  A character is its    *)
(* code point and a string a sequence of them.  The code looks for '+',    *)
(* '#' and '/' among the bytes of a string: UTF-8 has these bytes for      *)
(* these characters and for no part of another.                            *)
(***************************************************************************)
EXTENDS Integers, Sequences

PLUS == 43
HASH == 35
SLASH == 47

Wildcards == {PLUS, HASH}

\* The values of a Rust char: no surrogates.
IsChar(c) == c \in Nat /\ (c < 55296 \/ (c > 57343 /\ c < 1114112))

\* Mutant of IsLastTwoSupplementary: a half-open range of planes.
IsLastTwoSupplementaryHalfOpen(c) == c % 256 \in {254, 255} /\ c \div 65536 \in 1..15

\* The mask 0xFF keeps 8 bits of the 16 that give the place in a plane.
IsLastTwoSupplementary(c) == c % 256 \in {254, 255} /\ c \div 65536 \in 1..16

IsValidChar(c) ==
    /\ c \notin (0..31) \cup (64976..65007) \cup (65534..65535)
    /\ ~IsLastTwoSupplementary(c)

IsAsciiAlphanumeric(c) == c \in (48..57) \cup (65..90) \cup (97..122)

ContainsWildcardChar(s) == \E i \in 1..Len(s) : s[i] \in Wildcards

\* Mutant of HasValidWildcard: what follows a '#' is not looked at.
HasValidWildcardAnyNext(s) ==
    \A i \in 1..Len(s) : s[i] \in Wildcards =>
        /\ i > 1 => s[i - 1] = SLASH
        /\ i < Len(s) => s[i + 1] = SLASH

HasValidWildcard(s) ==
    \A i \in 1..Len(s) : s[i] \in Wildcards =>
        /\ i > 1 => s[i - 1] = SLASH
        /\ i < Len(s) => s[i + 1] = SLASH /\ s[i] = PLUS

----------------------------------------------------------------------------
(* What these checks are for, said without following their code.           *)

\* U+FDD0..U+FDEF and the last two code points of each of the 17 planes.
NonCharacter(c) == c \in 64976..65007 \/ c % 65536 \in {65534, 65535}

LegalText(s) == \A i \in 1..Len(s) : s[i] > 31 /\ ~NonCharacter(s[i])

\* The characters i..j lie between two slashes, or a slash and an end.
IsLevel(s, i, j) ==
    /\ i = 1 \/ s[i - 1] = SLASH
    /\ j = Len(s) \/ s[j + 1] = SLASH
    /\ \A k \in i..j : s[k] # SLASH

\* A wildcard has a level of its own, and '#' only the last one.
LegalFilter(s) ==
    \A i, j \in 1..Len(s) : i <= j /\ IsLevel(s, i, j) =>
        \A k \in i..j : s[k] \in Wildcards =>
            /\ i = j
            /\ s[k] = HASH => j = Len(s)
=============================================================================
