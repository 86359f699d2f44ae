------------------------- MODULE FixedHeaderProofs -------------------------
(***************************************************************************)
(* What next_frame answers, for every byte slice.                          *)
(***************************************************************************)
EXTENDS FixedHeader, TLAPS

(* The count of leading continuation flags is well defined: 0 to 4.        *)
LEMMA CountContinueFlagsDefined ==
    ASSUME NEW s \in Seq(Byte)
    PROVE  LET n == CountContinueFlags(s) IN
           /\ n \in 0..MAX_BYTES
           /\ \A i \in 1..n : Continues(s, i)
           /\ n < MAX_BYTES => ~Continues(s, n + 1)
<1> DEFINE P(n) == /\ \A i \in 1..n : Continues(s, i)
                   /\ n < MAX_BYTES => ~Continues(s, n + 1)
<1>1. \E n \in 0..MAX_BYTES : P(n)
  <2>1. CASE ~Continues(s, 1)
    <3>1. P(0)
      BY <2>1
    <3> QED BY <3>1 DEF MAX_BYTES
  <2>2. CASE Continues(s, 1) /\ ~Continues(s, 2)
    <3>1. P(1)
      BY <2>2
    <3> QED BY <3>1 DEF MAX_BYTES
  <2>3. CASE Continues(s, 1) /\ Continues(s, 2) /\ ~Continues(s, 3)
    <3>1. P(2)
      BY <2>3
    <3> QED BY <3>1 DEF MAX_BYTES
  <2>4. CASE Continues(s, 1) /\ Continues(s, 2) /\ Continues(s, 3) /\ ~Continues(s, 4)
    <3>1. P(3)
      BY <2>4
    <3> QED BY <3>1 DEF MAX_BYTES
  <2>5. CASE Continues(s, 1) /\ Continues(s, 2) /\ Continues(s, 3) /\ Continues(s, 4)
    <3>1. P(4)
      BY <2>5 DEF MAX_BYTES
    <3> QED BY <3>1 DEF MAX_BYTES
  <2> QED BY <2>1, <2>2, <2>3, <2>4, <2>5
<1>2. CountContinueFlags(s) = CHOOSE n \in 0..MAX_BYTES : P(n)
  BY DEF CountContinueFlags
<1> QED BY <1>1, <1>2

(* The bytes after the first are again a byte slice, one shorter.          *)
LEMMA AfterTypeIsSlice ==
    ASSUME NEW s \in Seq(Byte), Len(s) > 0
    PROVE  AfterType(s) \in Seq(Byte) /\ Len(AfterType(s)) = Len(s) - 1
BY DEF AfterType

(* The seven low bits of a byte.                                           *)
LEMMA LowBits == \A b \in 0..255 : b % 128 \in 0..127
OBVIOUS

\* The value of four digits in base 128.
FromDigits(a, b, c, d) ==
    a * Place[1] + b * Place[2] + c * Place[3] + d * Place[4]

(* Four digits in base 128 stay below 128^4.                               *)
LEMMA FourDigits ==
    \A a, b, c, d \in 0..127 :
        /\ FromDigits(a, b, c, d) \in Nat
        /\ FromDigits(a, b, c, d) <= MAX_REMAINING_LENGTH
BY SMT DEF FromDigits, Place, MAX_REMAINING_LENGTH

(* A header of n length bytes and a body of m bytes.                       *)
LEMMA HeaderAndBody ==
    \A n \in 1..4, m \in Nat : m <= MAX_REMAINING_LENGTH =>
        1 + n + m \in Nat /\ 1 + n + m >= 2 /\ 1 + n + m <= 1 + MAX_BYTES + MAX_REMAINING_LENGTH
BY SMT DEF MAX_BYTES, MAX_REMAINING_LENGTH

(* One byte of a remaining length adds at most 127 times its weight.       *)
LEMMA DigitBound ==
    ASSUME NEW s \in Seq(Byte), NEW i \in 1..4
    PROVE  \E d \in 0..127 : Digit(s, i) = d * Place[i]
<1>1. CASE i <= Len(s)
  <2>1. s[i] \in Byte
    BY <1>1
  <2>2. s[i] \in 0..255
    BY <2>1 DEF Byte
  <2>3. s[i] % CONTINUE_FLAG \in 0..127
    BY <2>2, LowBits DEF CONTINUE_FLAG
  <2> QED BY <1>1, <2>3 DEF Digit
<1>2. CASE ~(i <= Len(s))
  <2>1. Digit(s, i) = 0
    BY <1>2 DEF Digit
  <2>2. Place[i] \in Nat
    BY SMT DEF Place
  <2>3. 0 \in 0..127 /\ 0 * Place[i] = 0
    BY <2>2
  <2> QED BY <2>1, <2>3
<1> QED BY <1>1, <1>2

(* A remaining length never overflows a u32: it is at most 268435455.      *)
LEMMA ReadFromBufBound ==
    ASSUME NEW s \in Seq(Byte)
    PROVE  ReadFromBuf(s) \in Nat /\ ReadFromBuf(s) <= MAX_REMAINING_LENGTH
<1>1. PICK a \in 0..127 : Digit(s, 1) = a * Place[1]
  BY DigitBound
<1>2. PICK b \in 0..127 : Digit(s, 2) = b * Place[2]
  BY DigitBound
<1>3. PICK c \in 0..127 : Digit(s, 3) = c * Place[3]
  BY DigitBound
<1>4. PICK d \in 0..127 : Digit(s, 4) = d * Place[4]
  BY DigitBound
<1>5. ReadFromBuf(s) = FromDigits(a, b, c, d)
  BY <1>1, <1>2, <1>3, <1>4 DEF ReadFromBuf, FromDigits
<1>6. /\ FromDigits(a, b, c, d) \in Nat
      /\ FromDigits(a, b, c, d) <= MAX_REMAINING_LENGTH
  BY FourDigits, ZenonT(30)
<1> QED BY <1>5, <1>6, ZenonT(30)

(* The length next_frame finds is that of a packet with at least its two   *)
(* header bytes, and fits in a 32-bit usize: the checked_add never fails.  *)
THEOREM FrameLenBound ==
    ASSUME NEW s \in Seq(Byte), NextFrameSome(s)
    PROVE  /\ FrameLen(s) \in Nat
           /\ FrameLen(s) >= 2
           /\ FrameLen(s) <= 1 + MAX_BYTES + MAX_REMAINING_LENGTH
<1>1. RemBytes(s) \in 1..4 /\ RemBytes(s) <= Len(s) - 1
  BY AfterTypeIsSlice, CountContinueFlagsDefined
     DEF NextFrameSome, NextFrameErr, RemBytes, MAX_BYTES
<1>2. LengthBytes(s) \in Seq(Byte)
  BY <1>1 DEF LengthBytes
<1>3. /\ ReadFromBuf(LengthBytes(s)) \in Nat
      /\ ReadFromBuf(LengthBytes(s)) <= MAX_REMAINING_LENGTH
  BY <1>2, ReadFromBufBound
<1> QED BY <1>1, <1>3, HeaderAndBody DEF FrameLen

(* Five bytes are enough to decide: next_frame then never asks for more.   *)
THEOREM FiveBytesDecide ==
    ASSUME NEW s \in Seq(Byte), Len(s) >= 1 + MAX_BYTES
    PROVE  NextFrameErr(s) \/ NextFrameSome(s)
BY AfterTypeIsSlice, CountContinueFlagsDefined
   DEF NextFrameSome, NextFrameErr, RemBytes, MAX_BYTES
=============================================================================
