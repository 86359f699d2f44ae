-------------------------- MODULE RoundTripProofs --------------------------
(***************************************************************************)
(* Every encoder is undone by the parser of its type: field by field, with *)
(* any bytes behind a field, then packet by packet, and last for whatever  *)
(* calls a builder got.                                                    *)
(***************************************************************************)
EXTENDS CodecProofs

----------------------------------------------------------------------------
(* Concatenations of bytes: what lies before and behind the seam.          *)

LEMMA JoinIs ==
  ASSUME NEW S, NEW s \in Seq(S), NEW t \in Seq(S)
  PROVE  /\ Join(s, t) \in Seq(S) /\ Len(Join(s, t)) = Len(s) + Len(t)
         /\ \A i \in 1..Len(s) : Join(s, t)[i] = s[i]
         /\ \A i \in 1..Len(t) : Join(s, t)[Len(s) + i] = t[i]
  BY DEF Join

\* JoinIs, as one fact about j.
IsJoin(j, s, t) ==
    /\ Len(j) = Len(s) + Len(t)
    /\ \A i \in 1..Len(s) : j[i] = s[i]
    /\ \A i \in 1..Len(t) : j[Len(s) + i] = t[i]

LEMMA JoinIsJoin ==
  ASSUME NEW S, NEW s \in Seq(S), NEW t \in Seq(S)
  PROVE  Join(s, t) \in Seq(S) /\ IsJoin(Join(s, t), s, t)
  BY DEF Join, IsJoin

LEMMA JoinAssoc ==
  ASSUME NEW S, NEW a \in Seq(S), NEW b \in Seq(S), NEW c \in Seq(S)
  PROVE  Join(Join(a, b), c) = Join(a, Join(b, c))
  BY DEF Join

LEMMA JoinNone ==
  ASSUME NEW S, NEW s \in Seq(S)
  PROVE  Join(s, << >>) = s /\ Join(<< >>, s) = s
  BY DEF Join

LEMMA SameSeq ==
  ASSUME NEW S, NEW s \in Seq(S), NEW t \in Seq(S), Len(s) = Len(t), \A i \in 1..Len(s) : s[i] = t[i]
  PROVE  s = t
  OBVIOUS

LEMMA TakeJoin ==
  ASSUME NEW S, NEW s \in Seq(S), NEW t \in Seq(S)
  PROVE  Take(Join(s, t), Len(s)) = s
  BY DEF Take, Join

LEMMA DropJoin ==
  ASSUME NEW S, NEW s \in Seq(S), NEW t \in Seq(S)
  PROVE  Drop(Join(s, t), Len(s)) = t
  BY DEF Drop, Join

\* The last bytes of a concatenation are the last bytes of its second part.
LEMMA EndingJoin ==
  ASSUME NEW S, NEW s \in Seq(S), NEW t \in Seq(S), NEW k \in 0..Len(t)
  PROVE  Ending(Join(s, t), k) = Ending(t, k)
  BY DEF Ending, Drop, Join

----------------------------------------------------------------------------
(* Flattening a concatenation.                                             *)

LEMMA FlattenIsSeq == ASSUME NEW S, NEW ss \in Seq(Seq(S)) PROVE FlattenSeq(ss) \in Seq(S)
  <1>1. << >> \in Seq(S)
    OBVIOUS
  <1> QED
    BY <1>1, FlattenAppend, Zenon

LEMMA FlattenOne == ASSUME NEW S, NEW x \in Seq(S) PROVE FlattenSeq(<<x>>) = x
  <1>1. << >> \in Seq(Seq(S)) /\ Append(<< >>, x) = <<x>> /\ << >> \o x = x
    OBVIOUS
  <1>2. FlattenSeq(Append(<< >>, x)) = FlattenSeq(<< >>) \o x
    BY <1>1, FlattenAppend, Zenon
  <1> QED
    BY <1>1, <1>2, FlattenNone

LEMMA FlattenJoin ==
  ASSUME NEW S, NEW ss \in Seq(Seq(S)), NEW tt \in Seq(Seq(S))
  PROVE  FlattenSeq(Join(ss, tt)) = Join(FlattenSeq(ss), FlattenSeq(tt))
  <1> DEFINE Q(p) == FlattenSeq(Join(ss, p)) = Join(FlattenSeq(ss), FlattenSeq(p))
             T == {n \in 0..Len(tt) : Q(SubSeq(tt, 1, n))}
  <1>0. FlattenSeq(ss) \in Seq(S)
    BY FlattenIsSeq
  <1>1. 0 \in T
    <2>1. Join(ss, << >>) = ss
      BY JoinNone
    <2>2. Join(FlattenSeq(ss), << >>) = FlattenSeq(ss)
      BY <1>0, JoinNone
    <2>3. Q(<< >>)
      BY <2>1, <2>2, FlattenNone, Zenon
    <2>4. SubSeq(tt, 1, 0) = << >>
      BY PrefixEnds
    <2>5. 0 \in 0..Len(tt)
      OBVIOUS
    <2> HIDE DEF Q
    <2> QED
      BY <2>3, <2>4, <2>5, Zenon
  <1>2. ASSUME NEW p \in Seq(Seq(S)), NEW x \in Seq(S), Q(p) PROVE Q(Append(p, x))
    <2>1. Join(ss, p) \in Seq(Seq(S)) /\ Join(ss, Append(p, x)) = Append(Join(ss, p), x)
      BY DEF Join
    <2>2. FlattenSeq(Append(Join(ss, p), x)) = Join(FlattenSeq(Join(ss, p)), x)
      BY <2>1, FlattenAppend, Zenon DEF Join
    <2>3. FlattenSeq(p) \in Seq(S)
      BY FlattenIsSeq, Zenon
    <2>4. FlattenSeq(Append(p, x)) = Join(FlattenSeq(p), x)
      BY FlattenAppend, Zenon DEF Join
    <2>5. Join(Join(FlattenSeq(ss), FlattenSeq(p)), x) = Join(FlattenSeq(ss), Join(FlattenSeq(p), x))
      <3> SUFFICES ASSUME NEW a \in Seq(S), NEW b \in Seq(S) PROVE Join(Join(a, b), x) = Join(a, Join(b, x))
        BY <1>0, <2>3, Zenon
      <3> QED
        BY JoinAssoc
    <2> QED
      BY <1>2, <2>1, <2>2, <2>4, <2>5, Zenon
  <1>3. ASSUME NEW n \in 0..(Len(tt) - 1), n \in T PROVE n + 1 \in T
    <2>1. /\ SubSeq(tt, 1, n) \in Seq(Seq(S)) /\ tt[n + 1] \in Seq(S)
          /\ SubSeq(tt, 1, n + 1) = Append(SubSeq(tt, 1, n), tt[n + 1])
      BY PrefixGrows
    <2>2. n + 1 \in 0..Len(tt)
      OBVIOUS
    <2> HIDE DEF Q
    <2> QED
      BY <1>2, <1>3, <2>1, <2>2, Zenon
  <1>4. \A n \in 0..Len(tt) : n \in T
    <2>1. Len(tt) \in Nat
      OBVIOUS
    <2> HIDE DEF T
    <2> QED
      BY <1>1, <1>3, <2>1, BoundedInduction, Zenon
  <1>5. SubSeq(tt, 1, Len(tt)) = tt /\ Len(tt) \in 0..Len(tt)
    BY PrefixEnds
  <1> HIDE DEF Q
  <1>6. Q(tt)
    BY <1>4, <1>5, Zenon
  <1> QED
    BY <1>6 DEF Q

----------------------------------------------------------------------------
(* Induction over sequences, from the back and from the front.             *)

LEMMA BackInduction ==
  ASSUME NEW X, NEW A, << >> \in A, \A p \in Seq(X), x \in X : p \in A => Append(p, x) \in A
  PROVE  \A s \in Seq(X) : s \in A
  <1> TAKE s \in Seq(X)
  <1> DEFINE T == {n \in 0..Len(s) : SubSeq(s, 1, n) \in A}
  <1>1. 0 \in T
    <2>1. SubSeq(s, 1, 0) = << >>
      BY PrefixEnds
    <2>2. 0 \in 0..Len(s)
      OBVIOUS
    <2> QED
      BY <2>1, <2>2, Zenon
  <1>2. ASSUME NEW n \in 0..(Len(s) - 1), n \in T PROVE n + 1 \in T
    <2>1. /\ SubSeq(s, 1, n) \in Seq(X) /\ s[n + 1] \in X
          /\ SubSeq(s, 1, n + 1) = Append(SubSeq(s, 1, n), s[n + 1])
      BY PrefixGrows
    <2>2. n + 1 \in 0..Len(s)
      OBVIOUS
    <2> QED
      BY <1>2, <2>1, <2>2, Zenon
  <1>3. \A n \in 0..Len(s) : n \in T
    <2>1. Len(s) \in Nat
      OBVIOUS
    <2> HIDE DEF T
    <2> QED
      BY <1>1, <1>2, <2>1, BoundedInduction, Zenon
  <1>4. SubSeq(s, 1, Len(s)) = s /\ Len(s) \in 0..Len(s)
    BY PrefixEnds
  <1> QED
    BY <1>3, <1>4, Zenon

LEMMA FrontAndTail ==
  ASSUME NEW X, NEW s \in Seq(X), Len(s) # 0
  PROVE  /\ s[1] \in X /\ Tail(s) \in Seq(X) /\ Len(Tail(s)) + 1 = Len(s)
         /\ Join(<<s[1]>>, Tail(s)) = s
  BY DEF Join

LEMMA FrontInduction ==
  ASSUME NEW X, NEW A, << >> \in A, \A p \in Seq(X), x \in X : p \in A => Join(<<x>>, p) \in A
  PROVE  \A s \in Seq(X) : s \in A
  <1> DEFINE T == {n \in Nat : \A s \in Seq(X) : Len(s) = n => s \in A}
  <1>1. 0 \in T
    <2>1. \A s \in Seq(X) : Len(s) = 0 => s = << >>
      OBVIOUS
    <2> QED
      BY <2>1, Zenon
  <1>2. ASSUME NEW n \in T PROVE n + 1 \in T
    <2>1. ASSUME NEW s \in Seq(X), Len(s) = n + 1 PROVE s \in A
      <3>1. Len(s) # 0
        BY <2>1
      <3>2. s[1] \in X /\ Tail(s) \in Seq(X) /\ Len(Tail(s)) + 1 = Len(s) /\ Join(<<s[1]>>, Tail(s)) = s
        BY <3>1, FrontAndTail
      <3>3. Len(Tail(s)) = n
        BY <2>1, <3>2
      <3> QED
        BY <1>2, <3>2, <3>3, Zenon
    <2>2. n + 1 \in Nat
      OBVIOUS
    <2> QED
      BY <2>1, <2>2, Zenon
  <1>3. T = Nat
    <2>1. T \in SUBSET Nat
      OBVIOUS
    <2> HIDE DEF T
    <2> QED
      BY <1>1, <1>2, <2>1, Induction, Zenon
  <1>4. \A s \in Seq(X) : Len(s) \in Nat
    OBVIOUS
  <1> QED
    BY <1>3, <1>4, Zenon

----------------------------------------------------------------------------
(* The bytes that steps without a failing check write.                     *)

Out(steps) == ForEach(steps, StepBytes)

Clean(steps) == steps \in Seq(Step) /\ \A i \in 1..Len(steps) : steps[i].valid

\* The bytes of each step.
ByStep(steps) == [i \in 1..Len(steps) |-> StepBytes(steps[i])]

LEMMA StepBytesSeqs == ASSUME NEW s, Clean(s) PROVE ByStep(s) \in Seq(Seq(Byte))
  <1>1. ASSUME NEW i \in 1..Len(s) PROVE StepBytes(s[i]) \in Seq(Byte)
    <2>1. s[i] \in Step /\ s[i].valid
      BY DEF Clean
    <2> QED
      BY <2>1, StepBytesIsBytes
  <1>2. Len(s) \in Nat
    BY DEF Clean
  <1> QED
    BY <1>1, <1>2 DEF ByStep

LEMMA OutIsBytes == ASSUME NEW s, Clean(s) PROVE Out(s) \in Seq(Byte)
  <1>1. Out(s) = FlattenSeq(ByStep(s))
    BY Zenon DEF Out, ForEach, ByStep
  <1> QED
    BY <1>1, StepBytesSeqs, FlattenIsSeq, Zenon

LEMMA CleanParts ==
  ASSUME NEW s \in Seq(Step), NEW t \in Seq(Step), Clean(Join(s, t))
  PROVE  Clean(s) /\ Clean(t)
  <1>0. Len(s) \in Nat /\ Len(t) \in Nat
    OBVIOUS
  <1>1. /\ Len(Join(s, t)) = Len(s) + Len(t)
        /\ \A i \in 1..Len(s) : Join(s, t)[i] = s[i]
        /\ \A i \in 1..Len(t) : Join(s, t)[Len(s) + i] = t[i]
    BY DEF Join
  <1>2. ASSUME NEW i \in 1..Len(s) PROVE s[i].valid
    <2>1. i \in 1..Len(Join(s, t))
      BY <1>0, <1>1
    <2> QED
      BY <1>1, <2>1, Zenon DEF Clean
  <1>3. ASSUME NEW i \in 1..Len(t) PROVE t[i].valid
    <2>1. Len(s) + i \in 1..Len(Join(s, t))
      BY <1>0, <1>1
    <2> QED
      BY <1>1, <2>1, Zenon DEF Clean
  <1> QED
    BY <1>2, <1>3, Zenon DEF Clean

LEMMA ByStepJoin ==
  ASSUME NEW s \in Seq(Step), NEW t \in Seq(Step)
  PROVE  ByStep(Join(s, t)) = Join(ByStep(s), ByStep(t))
  BY DEF ByStep, Join

LEMMA OutJoin ==
  ASSUME NEW s, NEW t, Clean(s), Clean(t)
  PROVE  Out(Join(s, t)) = Join(Out(s), Out(t))
  <1>1. s \in Seq(Step) /\ t \in Seq(Step)
    BY Zenon DEF Clean
  <1>2. ByStep(Join(s, t)) = Join(ByStep(s), ByStep(t))
    BY <1>1, ByStepJoin, Zenon
  <1>3. ByStep(s) \in Seq(Seq(Byte)) /\ ByStep(t) \in Seq(Seq(Byte))
    BY StepBytesSeqs, Zenon
  <1>4. FlattenSeq(Join(ByStep(s), ByStep(t))) = Join(FlattenSeq(ByStep(s)), FlattenSeq(ByStep(t)))
    BY <1>3, FlattenJoin, Zenon
  <1>5. ASSUME NEW u PROVE Out(u) = FlattenSeq(ByStep(u))
    BY Zenon DEF Out, ForEach, ByStep
  <1> QED
    BY <1>2, <1>4, <1>5, Zenon

LEMMA OutNone == Clean(<< >>) /\ Out(<< >>) = << >>
  <1>1. [i \in 1..Len(<< >>) |-> StepBytes(<< >>[i])] = << >>
    OBVIOUS
  <1>2. Out(<< >>) = << >>
    BY <1>1, FlattenNone, Zenon DEF Out, ForEach
  <1>3. Clean(<< >>)
    BY DEF Clean
  <1> QED
    BY <1>2, <1>3

LEMMA CleanOne == ASSUME NEW x \in Step PROVE Clean(<<x>>) <=> x.valid
  <1>1. <<x>> \in Seq(Step) /\ Len(<<x>>) = 1 /\ <<x>>[1] = x /\ \A i \in 1..1 : i = 1
    OBVIOUS
  <1>2. 1 \in 1..1
    OBVIOUS
  <1> QED
    BY <1>1, <1>2, Zenon DEF Clean

LEMMA OutOne == ASSUME NEW x \in Step, x.valid PROVE Out(<<x>>) = StepBytes(x)
  <1>1. StepBytes(x) \in Seq(Byte)
    BY StepBytesIsBytes
  <1>2. [i \in 1..Len(<<x>>) |-> StepBytes(<<x>>[i])] = <<StepBytes(x)>>
    OBVIOUS
  <1> QED
    BY <1>1, <1>2, FlattenOne, Zenon DEF Out, ForEach

LEMMA StepBytesLen == ASSUME NEW x \in Step, x.valid PROVE Len(StepBytes(x)) = x.size
  <1>1. x.bytes \in Seq(Byte) /\ x.size \in Nat /\ Len(x.bytes) <= x.size
    BY StepFields
  <1> SUFFICES ASSUME NEW b \in Seq(Byte), NEW n \in Nat, Len(b) <= n
               PROVE  Len(b \o [i \in 1..(n - Len(b)) |-> FILL]) = n
    BY <1>1 DEF StepBytes
  <1>2. [i \in 1..(n - Len(b)) |-> FILL] \in Seq({FILL}) /\ Len([i \in 1..(n - Len(b)) |-> FILL]) = n - Len(b)
    OBVIOUS
  <1> QED
    BY <1>2

\* write_sync writes as many bytes as its steps have sizes.
LEMMA OutLen == ASSUME NEW s, Clean(s) PROVE Len(Out(s)) = SumOf(Sizes(s))
  <1> DEFINE A == {p \in Seq(Step) : Clean(p) => Len(Out(p)) = SumOf(Sizes(p))}
  <1>1. << >> \in A
    <2>1. Len(Out(<< >>)) = 0
      BY OutNone
    <2>2. SumOf(Sizes(<< >>)) = 0
      BY SizedNone, Zenon DEF Sized
    <2>3. << >> \in Seq(Step)
      OBVIOUS
    <2> QED
      BY <2>1, <2>2, <2>3, Zenon
  <1>2. ASSUME NEW p \in Seq(Step), NEW x \in Step, p \in A PROVE Append(p, x) \in A
    <2>1. /\ Append(p, x) = Join(p, <<x>>) /\ <<x>> \in Seq(Step) /\ Append(p, x) \in Seq(Step)
      BY DEF Join
    <2>2. ASSUME Clean(Join(p, <<x>>)) PROVE Len(Out(Join(p, <<x>>))) = SumOf(Sizes(Join(p, <<x>>)))
      <3>1. Clean(p) /\ Clean(<<x>>) /\ x.valid
        BY <2>1, <2>2, CleanParts, CleanOne, Zenon
      <3>2. Out(Join(p, <<x>>)) = Join(Out(p), StepBytes(x))
        <4>1. Out(Join(p, <<x>>)) = Join(Out(p), Out(<<x>>))
          BY <3>1, OutJoin, Zenon
        <4>2. Out(<<x>>) = StepBytes(x)
          BY <3>1, OutOne, Zenon
        <4> QED
          BY <4>1, <4>2, Zenon
      <3>3. Out(p) \in Seq(Byte) /\ StepBytes(x) \in Seq(Byte)
        BY <3>1, OutIsBytes, StepBytesIsBytes, Zenon
      <3>4. Len(Join(Out(p), StepBytes(x))) = Len(Out(p)) + Len(StepBytes(x))
        BY <3>3, JoinIs
      <3>5. Sized(p, SumOf(Sizes(p))) /\ Sized(<<x>>, x.size)
        BY SizedOne, Zenon DEF Sized
      <3>6. SumOf(Sizes(Join(p, <<x>>))) = SumOf(Sizes(p)) + x.size
        <4>1. Sized(Join(p, <<x>>), SumOf(Sizes(p)) + x.size)
          BY <3>5, SizedConcat, Zenon DEF Join
        <4> QED
          BY <4>1, Zenon DEF Sized
      <3> QED
        BY <1>2, <3>1, <3>2, <3>4, <3>6, StepBytesLen, Zenon
    <2> QED
      BY <2>1, <2>2, Zenon
  <1>3. s \in Seq(Step)
    BY DEF Clean
  <1>4. s \in A
    <2> HIDE DEF A
    <2> QED
      BY <1>1, <1>2, <1>3, BackInduction, Zenon
  <1> QED
    BY <1>4

----------------------------------------------------------------------------
(* The bytes of the fields.                                                *)

LEMMA OutTwo ==
  ASSUME NEW x \in Step, NEW y \in Step, Clean(<<x, y>>)
  PROVE  x.valid /\ y.valid /\ Out(<<x, y>>) = Join(StepBytes(x), StepBytes(y))
  <1>1. <<x>> \in Seq(Step) /\ <<y>> \in Seq(Step)
    OBVIOUS
  <1>0. <<x, y>> = Join(<<x>>, <<y>>)
    <2>1. <<x>> \o <<y>> = Append(<<x>>, y)
      BY <1>1, ConcatOne, Zenon
    <2>2. <<x, y>> = Append(<<x>>, y)
      OBVIOUS
    <2> QED
      BY <2>1, <2>2, Zenon DEF Join
  <1>2. Clean(<<x>>) /\ Clean(<<y>>)
    BY <1>0, <1>1, CleanParts, Zenon
  <1>3. x.valid /\ y.valid
    BY <1>2, CleanOne, Zenon
  <1>4. Out(<<x>>) = StepBytes(x) /\ Out(<<y>>) = StepBytes(y)
    BY <1>3, OutOne, Zenon
  <1>5. Out(Join(<<x>>, <<y>>)) = Join(Out(<<x>>), Out(<<y>>))
    BY <1>2, OutJoin, Zenon
  <1> QED
    BY <1>0, <1>3, <1>4, <1>5, Zenon

LEMMA BytesOfChecked ==
  ASSUME NEW b \in Seq(Nat), NEW c
  PROVE  StepBytes(CheckedWrite(b, c)) = b /\ CheckedWrite(b, c).valid = c
  <1>1. /\ CheckedWrite(b, c).bytes = b /\ CheckedWrite(b, c).size = Len(b)
        /\ CheckedWrite(b, c).valid = c
    BY DEF CheckedWrite
  <1>2. b \o [i \in 1..(Len(b) - Len(b)) |-> FILL] = b
    OBVIOUS
  <1> QED
    BY <1>1, <1>2, Zenon DEF StepBytes

LEMMA BytesOfWrite ==
  ASSUME NEW b \in Seq(Byte), NEW n \in Nat
  PROVE  StepBytes(Write(b, n)) = Join(b, Letters(n - Len(b))) /\ Write(b, n).valid
  <1>1. Write(b, n).bytes = b /\ Write(b, n).size = n /\ Write(b, n).valid = TRUE
    BY DEF Write
  <1> QED
    BY <1>1, Zenon DEF StepBytes, Join, Letters

LEMMA LettersIs ==
  ASSUME NEW n \in Nat
  PROVE  Letters(n) \in Seq(Byte) /\ Len(Letters(n)) = n /\ \A i \in 1..n : Letters(n)[i] = FILL
  <1>1. FILL \in Byte
    BY DEF FILL, Byte
  <1> QED
    BY <1>1 DEF Letters

TextOut(t) == Join(TextBytes(t), Letters(t.pad))

BuffBytes(n) == Join(U16(n), Letters(n))

StrBytes(t) == Join(U16(TextLen(t)), TextOut(t))

LEMMA TextOutIs ==
  ASSUME NEW t \in Texts
  PROVE  TextOut(t) \in Seq(Byte) /\ Len(TextOut(t)) = TextLen(t)
  <1>1. TextBytes(t) \in Seq(Byte) /\ t.pad \in Nat
    BY TextBytesIsBytes DEF Texts
  <1>2. Letters(t.pad) \in Seq(Byte) /\ Len(Letters(t.pad)) = t.pad
    BY <1>1, LettersIs, Zenon
  <1> SUFFICES ASSUME NEW a \in Seq(Byte), NEW b \in Seq(Byte)
               PROVE  Join(a, b) \in Seq(Byte) /\ Len(Join(a, b)) = Len(a) + Len(b)
    BY <1>1, <1>2, Zenon DEF TextOut, TextLen
  <1> QED
    BY DEF Join

LEMMA BuffOut ==
  ASSUME NEW n \in Nat, Clean(BuffSteps(n))
  PROVE  n <= MaxU16 /\ Out(BuffSteps(n)) = BuffBytes(n)
  <1> DEFINE x == CheckedWrite(U16(n), BuffValid(n))
             y == Write(<< >>, n)
  <1>1. U16(n) \in Seq(Nat) /\ BuffValid(n) \in BOOLEAN /\ (BuffValid(n) => U16(n) \in Seq(Byte))
    BY U16Bytes DEF BuffValid
  <1>2. x \in Step
    BY <1>1, CheckedIsStep, Zenon
  <1>3. << >> \in Seq(Byte) /\ Len(<< >>) <= n
    OBVIOUS
  <1>4. y \in Step
    BY <1>3, WriteIsStep, Zenon
  <1>5. StepBytes(x) = U16(n) /\ x.valid = BuffValid(n)
    BY <1>1, BytesOfChecked, Zenon
  <1>6. StepBytes(y) = Join(<< >>, Letters(n - Len(<< >>)))
    BY <1>3, BytesOfWrite, Zenon
  <1>7. n - Len(<< >>) = n
    OBVIOUS
  <1>8. Join(<< >>, Letters(n)) = Letters(n)
    BY LettersIs, JoinNone, Zenon
  <1>9. BuffSteps(n) = <<x, y>>
    BY Zenon DEF BuffSteps
  <1> HIDE DEF x, y
  <1>10. x.valid /\ Out(<<x, y>>) = Join(StepBytes(x), StepBytes(y))
    BY <1>2, <1>4, <1>9, OutTwo, Zenon
  <1> QED
    BY <1>5, <1>6, <1>7, <1>8, <1>9, <1>10, Zenon DEF BuffBytes, BuffValid

LEMMA StrOut ==
  ASSUME NEW t \in Texts, Clean(StrSteps(t))
  PROVE  StrValid(t) /\ TextLen(t) <= MaxU16 /\ Out(StrSteps(t)) = StrBytes(t)
  <1> DEFINE n == TextLen(t)
             x == CheckedWrite(U16(n), StrValid(t) /\ BuffValid(n))
             y == Write(TextBytes(t), n)
  <1>1. TextBytes(t) \in Seq(Byte) /\ n \in Nat /\ Len(TextBytes(t)) <= n /\ t.pad \in Nat
    BY TextBytesIsBytes DEF Texts
  <1>2. /\ U16(n) \in Seq(Nat) /\ (StrValid(t) /\ BuffValid(n)) \in BOOLEAN
        /\ StrValid(t) /\ BuffValid(n) => U16(n) \in Seq(Byte)
    BY <1>1, U16Bytes DEF BuffValid, StrValid
  <1>3. x \in Step
    BY <1>2, CheckedIsStep, Zenon
  <1>4. y \in Step
    BY <1>1, WriteIsStep, Zenon
  <1>5. StepBytes(x) = U16(n) /\ x.valid = (StrValid(t) /\ BuffValid(n))
    BY <1>2, BytesOfChecked, Zenon
  <1>6. StepBytes(y) = Join(TextBytes(t), Letters(n - Len(TextBytes(t))))
    BY <1>1, BytesOfWrite, Zenon
  <1>7. n - Len(TextBytes(t)) = t.pad
    <2>1. Len(TextBytes(t)) \in Nat
      BY <1>1
    <2> QED
      BY <1>1, <2>1 DEF TextLen
  <1>9. StrSteps(t) = <<x, y>>
    BY Zenon DEF StrSteps
  <1> HIDE DEF x, y, n
  <1>10. x.valid /\ Out(<<x, y>>) = Join(StepBytes(x), StepBytes(y))
    BY <1>3, <1>4, <1>9, OutTwo, Zenon
  <1> QED
    BY <1>5, <1>6, <1>7, <1>9, <1>10, Zenon DEF StrBytes, TextOut, BuffValid, n

LEMMA WriteAllOut ==
  ASSUME NEW b \in Seq(Byte)
  PROVE  <<WriteAll(b)>> \in Seq(Step) /\ Clean(<<WriteAll(b)>>) /\ Out(<<WriteAll(b)>>) = b
  <1>1. Len(b) \in Nat /\ Len(b) <= Len(b)
    OBVIOUS
  <1>2. WriteAll(b) \in Step
    BY <1>1, WriteIsStep, Zenon DEF WriteAll
  <1>3. WriteAll(b).valid /\ StepBytes(WriteAll(b)) = Join(b, Letters(Len(b) - Len(b)))
    BY <1>1, BytesOfWrite, Zenon DEF WriteAll
  <1>4. Len(b) - Len(b) = 0 /\ Letters(0) = << >>
    BY DEF Letters
  <1>5. Join(b, << >>) = b
    BY JoinNone
  <1>6. <<WriteAll(b)>> \in Seq(Step)
    BY <1>2
  <1> QED
    BY <1>2, <1>3, <1>4, <1>5, <1>6, OutOne, CleanOne, Zenon

LEMMA LettersOut ==
  ASSUME NEW n \in Nat
  PROVE  <<Write(<< >>, n)>> \in Seq(Step) /\ Out(<<Write(<< >>, n)>>) = Letters(n)
  <1>1. << >> \in Seq(Byte) /\ Len(<< >>) <= n /\ n - Len(<< >>) = n
    OBVIOUS
  <1>2. Write(<< >>, n) \in Step
    BY <1>1, WriteIsStep, Zenon
  <1>3. Write(<< >>, n).valid /\ StepBytes(Write(<< >>, n)) = Join(<< >>, Letters(n - Len(<< >>)))
    BY <1>1, BytesOfWrite, Zenon
  <1>4. Join(<< >>, Letters(n)) = Letters(n)
    BY LettersIs, JoinNone, Zenon
  <1>5. <<Write(<< >>, n)>> \in Seq(Step)
    BY <1>2
  <1> QED
    BY <1>1, <1>2, <1>3, <1>4, <1>5, OutOne, Zenon

LEMMA CheckOut ==
  ASSUME NEW c \in BOOLEAN, Clean(<<Check(c)>>)
  PROVE  c /\ Out(<<Check(c)>>) = << >>
  <1>1. << >> \in Seq(Nat)
    OBVIOUS
  <1>2. StepBytes(Check(c)) = << >> /\ Check(c).valid = c
    BY <1>1, BytesOfChecked, Zenon DEF Check
  <1>3. Check(c) \in Step
    BY SizedCheck
  <1> QED
    BY <1>2, <1>3, CleanOne, OutOne, Zenon

LEMMA PacketIdBytes ==
  ASSUME NEW id \in PacketId
  PROVE  U16(id) \in Seq(Byte) /\ id \in Nat /\ id <= MaxU16 /\ id # 0
  <1>1. PICK m \in Nat : m = MaxU16
    BY DEF MaxU16
  <1>2. id \in Nat /\ id <= m /\ id # 0
    BY <1>1 DEF PacketId
  <1> QED
    BY <1>1, <1>2, U16Bytes

LEMMA PacketIdOut ==
  ASSUME NEW id \in PacketId
  PROVE  PacketIdSteps(id) \in Seq(Step) /\ Out(PacketIdSteps(id)) = U16(id) /\ Clean(PacketIdSteps(id))
  BY PacketIdBytes, WriteAllOut, Zenon DEF PacketIdSteps

LEMMA WillOut ==
  ASSUME NEW w \in WillMsg, Clean(WillSteps(w))
  PROVE  /\ StrValid(w.topic) /\ TextLen(w.topic) <= MaxU16 /\ w.message <= MaxU16
         /\ Out(WillSteps(w)) = Join(StrBytes(w.topic), BuffBytes(w.message))
  <1>1. w.topic \in Texts /\ w.message \in Nat
    BY DEF WillMsg
  <1>2. StrSteps(w.topic) \in Seq(Step) /\ BuffSteps(w.message) \in Seq(Step)
    BY <1>1, StrSized, BuffSized, Zenon DEF Sized
  <1>3. WillSteps(w) = Join(StrSteps(w.topic), BuffSteps(w.message))
    BY Zenon DEF WillSteps, Join
  <1>4. Clean(StrSteps(w.topic)) /\ Clean(BuffSteps(w.message))
    BY <1>2, <1>3, CleanParts, Zenon
  <1>5. /\ StrValid(w.topic) /\ TextLen(w.topic) <= MaxU16 /\ w.message <= MaxU16
        /\ Out(StrSteps(w.topic)) = StrBytes(w.topic) /\ Out(BuffSteps(w.message)) = BuffBytes(w.message)
    BY <1>1, <1>4, StrOut, BuffOut, Zenon
  <1>6. Out(Join(StrSteps(w.topic), BuffSteps(w.message)))
          = Join(Out(StrSteps(w.topic)), Out(BuffSteps(w.message)))
    BY <1>4, OutJoin, Zenon
  <1> QED
    BY <1>3, <1>5, <1>6, Zenon

LEMMA QosByte == ASSUME NEW q \in 0..2 PROVE <<q>> \in Seq(Byte) /\ Len(<<q>>) = 1
  BY DEF Byte

LEMMA FilterOut ==
  ASSUME NEW f \in TopicFilter, Clean(FilterSteps(f))
  PROVE  /\ StrValid(f.topic) /\ TextLen(f.topic) <= MaxU16
         /\ Out(FilterSteps(f)) = Join(StrBytes(f.topic), <<f.qos>>)
  <1> DEFINE a == <<Check(FilterValid(f))>>
             b == StrSteps(f.topic)
             c == <<WriteAll(<<f.qos>>)>>
  <1>1. f.topic \in Texts /\ f.qos \in 0..2
    BY DEF TopicFilter, RequestedQos
  <1>2. FilterValid(f) \in BOOLEAN
    BY DEF FilterValid, WildcardsValid, HasValidWildcard
  <1>3. a \in Seq(Step) /\ b \in Seq(Step)
    BY <1>1, <1>2, SizedCheck, StrSized, Zenon DEF Sized
  <1>4. c \in Seq(Step) /\ Out(c) = <<f.qos>>
    BY <1>1, QosByte, WriteAllOut, Zenon
  <1>5. FilterSteps(f) = Join(Join(a, b), c)
    BY Zenon DEF FilterSteps, Join
  <1> HIDE DEF a, b, c
  <1>6. Join(a, b) \in Seq(Step)
    BY <1>3, JoinIsSeq, Zenon
  <1>7. Clean(Join(a, b)) /\ Clean(c)
    BY <1>4, <1>5, <1>6, CleanParts, Zenon
  <1>8. Clean(a) /\ Clean(b)
    BY <1>3, <1>7, CleanParts, Zenon
  <1>9. Out(a) = << >>
    BY <1>2, <1>8, CheckOut, Zenon DEF a
  <1>10. StrValid(f.topic) /\ TextLen(f.topic) <= MaxU16 /\ Out(b) = StrBytes(f.topic)
    BY <1>1, <1>8, StrOut, Zenon DEF b
  <1>11. Out(Join(a, b)) = Join(<< >>, Out(b))
    BY <1>8, <1>9, OutJoin, Zenon
  <1>12. Join(<< >>, Out(b)) = Out(b)
    BY <1>8, OutIsBytes, JoinNone, Zenon
  <1>13. Out(Join(Join(a, b), c)) = Join(Out(Join(a, b)), Out(c))
    BY <1>7, OutJoin, Zenon
  <1> QED
    BY <1>4, <1>5, <1>10, <1>11, <1>12, <1>13, Zenon

----------------------------------------------------------------------------
(* Reading a character undoes writing it.                                  *)

\* A character in base 64: the bits of the bytes of its UTF-8.
InBase64(c, o, p, q, r) ==
    /\ o \in 0..4 /\ p \in 0..63 /\ q \in 0..63 /\ r \in 0..63
    /\ c = 262144 * o + 4096 * p + 64 * q + r
    /\ c \div 64 = 4096 * o + 64 * p + q /\ c \div 4096 = 64 * o + p /\ c \div 262144 = o
    /\ Trail(c, 1) = 128 + r /\ Trail(c, 64) = 128 + q /\ Trail(c, 4096) = 128 + p

LEMMA Base64Digits ==
  ASSUME NEW c, IsChar(c)
  PROVE  \E o, p, q, r : InBase64(c, o, p, q, r)
  <1>0. c \in Nat
    BY SMT DEF IsChar
  <1>1. c < 1114112
    BY SMT DEF IsChar
  <1>2. ASSUME NEW x \in Nat PROVE \E y \in Nat, z \in 0..63 : x = 64 * y + z
    <2>1. x = 64 * (x \div 64) + (x % 64) /\ x \div 64 \in Nat /\ x % 64 \in 0..63
      OBVIOUS
    <2> QED
      BY <2>1
  <1>3. PICK q1 \in Nat, r \in 0..63 : c = 64 * q1 + r
    BY <1>0, <1>2, Zenon
  <1>4. PICK q2 \in Nat, q \in 0..63 : q1 = 64 * q2 + q
    BY <1>2, Zenon
  <1>5. PICK o \in Nat, p \in 0..63 : q2 = 64 * o + p
    BY <1>2, Zenon
  <1>6. c = 262144 * o + 4096 * p + 64 * q + r
    BY <1>3, <1>4, <1>5, SMT
  <1>7. o \in 0..4
    BY <1>0, <1>1, <1>6, SMT
  <1>8. c \div 64 = q1 /\ c \div 1 = c
    BY <1>0, <1>3, SMT
  <1>9. c \div 4096 = q2
    BY <1>3, <1>4, SMT
  <1>10. c \div 262144 = o
    BY <1>3, <1>4, <1>5, SMT
  <1>11. c % 64 = r /\ q1 % 64 = q /\ q2 % 64 = p
    BY <1>3, <1>4, <1>5, SMT
  <1>12. Trail(c, 1) = 128 + r /\ Trail(c, 64) = 128 + q /\ Trail(c, 4096) = 128 + p
    BY <1>8, <1>9, <1>11, SMT DEF Trail
  <1>13. c \div 64 = 4096 * o + 64 * p + q /\ c \div 4096 = 64 * o + p
    BY <1>4, <1>5, <1>8, <1>9, SMT
  <1>14. InBase64(c, o, p, q, r)
    BY <1>6, <1>7, <1>10, <1>12, <1>13, SMT DEF InBase64
  <1> QED
    BY <1>14, Zenon

LEMMA Utf8SizeValues ==
  ASSUME NEW b \in Nat
  PROVE  /\ b < 192 => Utf8Size(b) = 1
         /\ b \in 192..223 => Utf8Size(b) = 2
         /\ b \in 224..239 => Utf8Size(b) = 3
         /\ b \in 240..255 => Utf8Size(b) = 4
  <1>1. ASSUME b < 192 PROVE Utf8Size(b) = 1
    BY <1>1, SMT DEF Utf8Size
  <1>2. ASSUME b \in 192..223 PROVE Utf8Size(b) = 2
    BY <1>2, SMT DEF Utf8Size
  <1>3. ASSUME b \in 224..239 PROVE Utf8Size(b) = 3
    BY <1>3, SMT DEF Utf8Size
  <1>4. ASSUME b \in 240..255 PROVE Utf8Size(b) = 4
    BY <1>4, SMT DEF Utf8Size
  <1> QED
    BY <1>1, <1>2, <1>3, <1>4, Zenon

\* The byte b starts a character of n bytes.
Leads(b, n) ==
    \/ n = 1 /\ b < 192
    \/ n = 2 /\ b \in 192..223
    \/ n = 3 /\ b \in 224..239
    \/ n = 4 /\ b \in 240..255

LEMMA LeadSize == ASSUME NEW b \in Nat, NEW n, Leads(b, n) PROVE Utf8Size(b) = n
  BY Utf8SizeValues, SMT DEF Leads

LEMMA LowBitsKept ==
  /\ \A m \in 0..31 : (192 + m) % 32 = m
  /\ \A m \in 0..15 : (224 + m) % 16 = m
  /\ \A m \in 0..7 : (240 + m) % 8 = m
  /\ \A m \in 0..63 : (128 + m) % 64 = m
  BY SMT

\* The n bytes b are those of the character c.
IsUtf8(c, n, b) == n \in 1..4 /\ Utf8Size(b[1]) = n /\ CodePoint(b, n) = c

LEMMA Ascii == ASSUME NEW c \in Nat, c < 128 PROVE Utf8(c) = <<c>>
  BY SMT DEF Utf8

LEMMA Utf8Undone ==
  ASSUME NEW c, IsChar(c), NEW n, n = Len(Utf8(c)), NEW b, \A i \in 1..n : b[i] = Utf8(c)[i]
  PROVE  n \in 1..4 /\ Utf8Size(b[1]) = n /\ CodePoint(b, n) = c
  <1> SUFFICES IsUtf8(c, n, b)
    BY DEF IsUtf8
  <1>1. PICK o, p, q, r : InBase64(c, o, p, q, r)
    BY Base64Digits
  <1>2. c \in Nat
    BY SMT DEF IsChar
  <1>3. CASE c < 128
    <2>1. Utf8(c) = <<c>>
      BY <1>2, <1>3, Ascii
    <2>2. n = 1 /\ b[1] = c
      BY <2>1
    <2>3. Utf8Size(c) = 1
      <3>1. Leads(c, 1)
        BY <1>2, <1>3, SMT DEF Leads
      <3> QED
        BY <1>2, <3>1, LeadSize, Zenon
    <2>4. CodePoint(b, 1) = b[1]
      BY SMT DEF CodePoint
    <2> QED
      BY <2>2, <2>3, <2>4 DEF IsUtf8
  <1>4. CASE c >= 128 /\ c < 2048
    <2>1. Utf8(c) = <<192 + c \div 64, Trail(c, 1)>>
      BY <1>2, <1>4, SMT DEF Utf8
    <2>2. o = 0 /\ p = 0 /\ q < 32
      BY <1>1, <1>4, SMT DEF InBase64
    <2>3. Utf8(c) = <<192 + q, 128 + r>>
      BY <1>1, <2>1, <2>2, SMT DEF InBase64
    <2>4. n = 2 /\ b[1] = 192 + q /\ b[2] = 128 + r
      BY <2>3
    <2>5. q \in 0..63 /\ r \in 0..63 /\ c = 64 * q + r
      BY <1>1, <2>2, SMT DEF InBase64
    <2>6. Utf8Size(192 + q) = 2
      <3>1. PICK m \in Nat : m = 192 + q /\ Leads(m, 2)
        BY <2>2, <2>5, SMT DEF Leads
      <3>2. Utf8Size(m) = 2
        BY <3>1, LeadSize, Zenon
      <3> QED
        BY <3>1, <3>2, SMT
    <2>7. (192 + q) % 32 = q /\ (128 + r) % 64 = r
      <3>1. q \in 0..31
        BY <2>2, <2>5, SMT
      <3> QED
        BY <2>5, <3>1, LowBitsKept, SMT
    <2>8. CodePoint(b, 2) = (b[1] % 32) * 64 + (b[2] % 64)
      BY SMT DEF CodePoint
    <2>9. CodePoint(b, 2) = c
      BY <2>4, <2>5, <2>7, <2>8, SMT
    <2> QED
      BY <2>4, <2>6, <2>9, SMT DEF IsUtf8
  <1>5. CASE c >= 2048 /\ c < 65536
    <2>1. Utf8(c) = <<224 + c \div 4096, Trail(c, 64), Trail(c, 1)>>
      BY <1>2, <1>5, SMT DEF Utf8
    <2>2. o = 0 /\ p < 16
      BY <1>1, <1>5, SMT DEF InBase64
    <2>3. Utf8(c) = <<224 + p, 128 + q, 128 + r>>
      BY <1>1, <2>1, <2>2, SMT DEF InBase64
    <2>4. n = 3 /\ b[1] = 224 + p /\ b[2] = 128 + q /\ b[3] = 128 + r
      BY <2>3
    <2>5. p \in 0..63 /\ q \in 0..63 /\ r \in 0..63 /\ c = 4096 * p + 64 * q + r
      BY <1>1, <2>2, SMT DEF InBase64
    <2>6. Utf8Size(224 + p) = 3
      <3>1. PICK m \in Nat : m = 224 + p /\ Leads(m, 3)
        BY <2>2, <2>5, SMT DEF Leads
      <3>2. Utf8Size(m) = 3
        BY <3>1, LeadSize, Zenon
      <3> QED
        BY <3>1, <3>2, SMT
    <2>7. (224 + p) % 16 = p /\ (128 + q) % 64 = q /\ (128 + r) % 64 = r
      <3>1. p \in 0..15
        BY <2>2, <2>5, SMT
      <3> QED
        BY <2>5, <3>1, LowBitsKept, SMT
    <2>8. CodePoint(b, 3) = (b[1] % 16) * 4096 + (b[2] % 64) * 64 + (b[3] % 64)
      BY SMT DEF CodePoint
    <2>9. CodePoint(b, 3) = c
      BY <2>4, <2>5, <2>7, <2>8, SMT
    <2> QED
      BY <2>4, <2>6, <2>9, SMT DEF IsUtf8
  <1>6. CASE c >= 65536
    <2>1. Utf8(c) = <<240 + c \div 262144, Trail(c, 4096), Trail(c, 64), Trail(c, 1)>>
      BY <1>2, <1>6, SMT DEF Utf8
    <2>3. Utf8(c) = <<240 + o, 128 + p, 128 + q, 128 + r>>
      BY <1>1, <2>1, SMT DEF InBase64
    <2>4. n = 4 /\ b[1] = 240 + o /\ b[2] = 128 + p /\ b[3] = 128 + q /\ b[4] = 128 + r
      BY <2>3
    <2>5. /\ o \in 0..4 /\ p \in 0..63 /\ q \in 0..63 /\ r \in 0..63
          /\ c = 262144 * o + 4096 * p + 64 * q + r
      BY <1>1, SMT DEF InBase64
    <2>6. Utf8Size(240 + o) = 4
      <3>1. PICK m \in Nat : m = 240 + o /\ Leads(m, 4)
        BY <2>5, SMT DEF Leads
      <3>2. Utf8Size(m) = 4
        BY <3>1, LeadSize, Zenon
      <3> QED
        BY <3>1, <3>2, SMT
    <2>7. (240 + o) % 8 = o /\ (128 + p) % 64 = p /\ (128 + q) % 64 = q /\ (128 + r) % 64 = r
      <3>1. o \in 0..7
        BY <2>5, SMT
      <3> QED
        BY <2>5, <3>1, LowBitsKept, SMT
    <2>8. CodePoint(b, 4) = (b[1] % 8) * 262144 + (b[2] % 64) * 4096 + (b[3] % 64) * 64 + (b[4] % 64)
      BY SMT DEF CodePoint
    <2>9. CodePoint(b, 4) = c
      BY <2>4, <2>5, <2>7, <2>8, SMT
    <2> QED
      BY <2>4, <2>6, <2>9, SMT DEF IsUtf8
  <1>7. c < 128 \/ (c >= 128 /\ c < 2048) \/ (c >= 2048 /\ c < 65536) \/ c >= 65536
    <2>1. \A m \in Nat : m < 128 \/ (m >= 128 /\ m < 2048) \/ (m >= 2048 /\ m < 65536) \/ m >= 65536
      BY SMT
    <2> QED
      BY <1>2, <2>1
  <1> QED
    BY <1>3, <1>4, <1>5, <1>6, <1>7

----------------------------------------------------------------------------
(* Reading a string undoes writing it.                                     *)

LEMMA CharsBelow ==
  ASSUME NEW x \in Seq(Byte), NEW r \in Seq(Byte), NEW h, CharsEq(h, Join(x, r)), NEW g, CharsEq(g, r)
  PROVE  \A k \in 0..Len(r) : h[k] = g[k]
  <1> DEFINE S == {k \in 0..Len(r) : h[k] = g[k]}
  <1>1. Len(r) \in Nat /\ \A k \in 0..Len(r) : k \in 0..Len(Join(x, r))
    BY DEF Join
  <1>2. ASSUME NEW k \in 0..Len(r), \A j \in 0..(k - 1) : j \in S PROVE k \in S
    <2>1. \A j \in 0..(k - 1) : h[j] = g[j]
      BY <1>2, Zenon
    <2>2. h[k] = CharsStep(h, Join(x, r), k) /\ g[k] = CharsStep(g, r, k)
      BY <1>1, Zenon DEF CharsEq
    <2>3. Ending(Join(x, r), k) = Ending(r, k)
      BY EndingJoin, Zenon
    <2>4. CharsStep(h, Join(x, r), k) = CharsStep(h, r, k)
      BY <2>3, Zenon DEF CharsStep, When, Then
    <2>5. CharsStep(h, r, k) = CharsStep(g, r, k)
      BY <2>1, CharsStepLocal, Zenon
    <2> QED
      BY <2>2, <2>4, <2>5, Zenon
  <1>3. \A k \in 0..Len(r) : k \in S
    <2> HIDE DEF S
    <2> QED
      BY <1>1, <1>2, StrongInduction, Zenon
  <1> QED
    BY <1>3, Zenon

LEMMA NoChars == Utf8Chars(<< >>) = Ok(<< >>, << >>)
  <1>1. << >> \in Seq(Byte) /\ Len(<< >>) = 0 /\ 0 \in 0..0
    OBVIOUS
  <1>2. PICK h : CharsEq(h, << >>) /\ Utf8Chars(<< >>) = h[Len(<< >>)]
    BY <1>1, Utf8CharsIs, Zenon
  <1>3. h[0] = CharsStep(h, << >>, 0)
    BY <1>1, <1>2, Zenon DEF CharsEq
  <1> QED
    BY <1>1, <1>2, <1>3, Zenon DEF CharsStep

LEMMA CharsFront ==
  ASSUME NEW c \in Chars, NEW r \in Seq(Byte), NEW cs, Utf8Chars(r) = Ok(cs, << >>)
  PROVE  Utf8Chars(Join(Utf8(c), r)) = Ok(Join(<<c>>, cs), << >>)
  <1>0. IsChar(c)
    BY Zenon DEF Chars
  <1>1. Utf8(c) \in Seq(Byte)
    BY <1>0, Utf8IsBytes, Zenon
  <1>2. PICK u \in Seq(Byte) : u = Utf8(c)
    BY <1>1, Zenon
  <1>3. PICK b \in Seq(Byte) : b = Join(u, r)
    BY JoinIsSeq, Zenon
  <1>4. PICK n : n = Len(u)
    BY Zenon
  <1>5. Len(b) = n + Len(r) /\ Take(b, n) = u
    BY <1>3, <1>4, TakeJoin DEF Join
  <1>6. \A i \in 1..n : b[i] = u[i]
    BY <1>3, <1>4 DEF Join
  <1>7. n \in 1..4 /\ Utf8Size(b[1]) = n /\ CodePoint(b, n) = c
    BY <1>0, <1>2, <1>4, <1>6, Utf8Undone, Zenon
  <1>8. PICK k \in Nat : k = Len(b)
    OBVIOUS
  <1>9. k # 0 /\ n <= k /\ k - n = Len(r) /\ k \in 0..k
    BY <1>5, <1>7, <1>8
  <1>10. PICK h : CharsEq(h, b) /\ Utf8Chars(b) = h[k]
    BY <1>8, Utf8CharsIs, Zenon
  <1>11. PICK g : CharsEq(g, r) /\ Utf8Chars(r) = g[Len(r)]
    BY Utf8CharsIs, Zenon
  <1>12. h[Len(r)] = g[Len(r)]
    <2>1. Len(r) \in 0..Len(r)
      OBVIOUS
    <2>2. CharsEq(h, Join(u, r))
      BY <1>3, <1>10, Zenon
    <2>3. CharsEq(g, r)
      BY <1>11, Zenon
    <2>4. \A j \in 0..Len(r) : h[j] = g[j]
      BY <2>2, <2>3, CharsBelow
    <2> QED
      BY <2>1, <2>4, Zenon
  <1>13. h[k - n] = Ok(cs, << >>)
    BY <1>9, <1>11, <1>12, Zenon
  <1>14. h[k] = CharsStep(h, b, k)
    BY <1>8, <1>9, <1>10, Zenon DEF CharsEq
  <1>15. Ending(b, k) = b
    BY <1>8, <1>9, EndingIs, Zenon
  <1>16. PICK v : v = h[k - n]
    OBVIOUS
  <1>17. v.ok /\ v.out = cs /\ v.rest = << >>
    <2>1. v = Ok(cs, << >>)
      BY <1>13, <1>16, Zenon
    <2> QED
      BY <2>1, OkIs
  <1>18. CharsStep(h, b, k) = Ok(<<c>> \o cs, << >>)
    BY <1>0, <1>2, <1>5, <1>7, <1>9, <1>15, <1>16, <1>17, Zenon DEF CharsStep, When, Then
  <1> QED
    BY <1>2, <1>3, <1>10, <1>14, <1>18, Zenon DEF Join

Utf8s(cs) == [i \in 1..Len(cs) |-> Utf8(cs[i])]

\* The bytes of characters.
Encoded(cs) == ForEach(cs, Utf8)

LEMMA EncodedIs == ASSUME NEW cs PROVE Encoded(cs) = FlattenSeq(Utf8s(cs))
  BY Zenon DEF Encoded, ForEach, Utf8s

LEMMA Utf8sIs == ASSUME NEW cs \in Seq(Chars) PROVE Utf8s(cs) \in Seq(Seq(Byte))
  <1>1. ASSUME NEW i \in 1..Len(cs) PROVE Utf8(cs[i]) \in Seq(Byte)
    <2>1. cs[i] \in Chars
      OBVIOUS
    <2> QED
      BY <2>1, Utf8IsBytes, Zenon DEF Chars
  <1> QED
    BY <1>1 DEF Utf8s

LEMMA EncodedIsBytes == ASSUME NEW cs \in Seq(Chars) PROVE Encoded(cs) \in Seq(Byte)
  BY EncodedIs, Utf8sIs, FlattenIsSeq, Zenon

LEMMA EncodedJoin ==
  ASSUME NEW a \in Seq(Chars), NEW b \in Seq(Chars)
  PROVE  Encoded(Join(a, b)) = Join(Encoded(a), Encoded(b))
  <1>1. Utf8s(Join(a, b)) = Join(Utf8s(a), Utf8s(b))
    BY DEF Utf8s, Join
  <1>2. FlattenSeq(Join(Utf8s(a), Utf8s(b))) = Join(FlattenSeq(Utf8s(a)), FlattenSeq(Utf8s(b)))
    BY Utf8sIs, FlattenJoin, Zenon
  <1> QED
    BY <1>1, <1>2, EncodedIs, Zenon

LEMMA EncodedNone == Encoded(<< >>) = << >>
  <1>1. Utf8s(<< >>) = << >>
    BY DEF Utf8s
  <1> QED
    BY <1>1, EncodedIs, FlattenNone, Zenon

LEMMA EncodedOne == ASSUME NEW c \in Chars PROVE Encoded(<<c>>) = Utf8(c)
  <1>1. Utf8s(<<c>>) = <<Utf8(c)>>
    BY DEF Utf8s
  <1>2. Utf8(c) \in Seq(Byte)
    BY Utf8IsBytes, Zenon DEF Chars
  <1> QED
    BY <1>1, <1>2, EncodedIs, FlattenOne, Zenon

LEMMA EncodedUndone ==
  ASSUME NEW cs \in Seq(Chars)
  PROVE  Utf8Chars(Encoded(cs)) = Ok(cs, << >>)
  <1> DEFINE A == {p \in Seq(Chars) : Utf8Chars(Encoded(p)) = Ok(p, << >>)}
  <1>1. << >> \in A
    <2>1. << >> \in Seq(Chars)
      OBVIOUS
    <2> QED
      BY <2>1, EncodedNone, NoChars, Zenon
  <1>2. ASSUME NEW p \in Seq(Chars), NEW c \in Chars, p \in A PROVE Join(<<c>>, p) \in A
    <2>1. <<c>> \in Seq(Chars)
      OBVIOUS
    <2>2. Join(<<c>>, p) \in Seq(Chars)
      BY <2>1, JoinIsSeq, Zenon
    <2>3. Encoded(Join(<<c>>, p)) = Join(Utf8(c), Encoded(p))
      BY <2>1, EncodedJoin, EncodedOne, Zenon
    <2>4. Encoded(p) \in Seq(Byte)
      BY EncodedIsBytes, Zenon
    <2>5. Utf8Chars(Join(Utf8(c), Encoded(p))) = Ok(Join(<<c>>, p), << >>)
      BY <1>2, <2>4, CharsFront, Zenon
    <2> QED
      BY <2>2, <2>3, <2>5, Zenon
  <1>3. cs \in A
    <2> HIDE DEF A
    <2> QED
      BY <1>1, <1>2, FrontInduction, Zenon
  <1> QED
    BY <1>3, Zenon

LEMMA FillIsChar == FILL \in Chars /\ Utf8(FILL) = <<FILL>> /\ IsValidChar(FILL) /\ FILL \notin Wildcards
  <1>1. FILL \in Chars
    BY SMT DEF FILL, Chars, IsChar
  <1>2. Utf8(FILL) = <<FILL>>
    BY SMT DEF FILL, Utf8
  <1>3. IsValidChar(FILL)
    BY SMT DEF FILL, IsValidChar, IsLastTwoSupplementary
  <1>4. FILL \notin Wildcards
    BY SMT DEF FILL, Wildcards, PLUS, HASH
  <1> QED
    BY <1>1, <1>2, <1>3, <1>4

LEMMA LettersAreChars == ASSUME NEW n \in Nat PROVE Letters(n) \in Seq(Chars)
  BY FillIsChar DEF Letters

LEMMA EncodedLetters == ASSUME NEW m \in Nat PROVE Encoded(Letters(m)) = Letters(m)
  <1> DEFINE T == {n \in Nat : Encoded(Letters(n)) = Letters(n)}
  <1>1. 0 \in T
    <2>1. Letters(0) = << >>
      BY DEF Letters
    <2> QED
      BY <2>1, EncodedNone
  <1>2. ASSUME NEW n \in T PROVE n + 1 \in T
    <2>1. Letters(n + 1) = Join(Letters(n), <<FILL>>)
      <3>1. FILL \in Nat
        BY DEF FILL
      <3> QED
        BY <3>1 DEF Letters, Join
    <2>2. Letters(n) \in Seq(Chars) /\ <<FILL>> \in Seq(Chars)
      BY LettersAreChars, FillIsChar
    <2>3. Encoded(Join(Letters(n), <<FILL>>)) = Join(Encoded(Letters(n)), Encoded(<<FILL>>))
      BY <2>2, EncodedJoin, Zenon
    <2>4. Encoded(<<FILL>>) = <<FILL>>
      BY FillIsChar, EncodedOne, Zenon
    <2>5. n + 1 \in Nat
      OBVIOUS
    <2> QED
      BY <1>2, <2>1, <2>3, <2>4, <2>5, Zenon
  <1>3. T = Nat
    <2>1. T \in SUBSET Nat
      OBVIOUS
    <2> HIDE DEF T
    <2> QED
      BY <1>1, <1>2, <2>1, Induction, Zenon
  <1> QED
    BY <1>3, Zenon

LEMMA TextIs ==
  ASSUME NEW t \in Texts
  PROVE  t.chars \in Seq(Chars) /\ t.pad \in Nat /\ TextChars(t) = Join(t.chars, Letters(t.pad))
  <1>1. t.chars \in Seq(Nat) /\ t.pad \in Nat /\ \A i \in 1..Len(t.chars) : IsChar(t.chars[i])
    BY DEF Texts
  <1>2. \A i \in 1..Len(t.chars) : t.chars[i] \in Chars
    BY <1>1 DEF Chars
  <1>3. t.chars \in Seq(Chars)
    BY <1>1, <1>2
  <1> QED
    BY <1>1, <1>3, Zenon DEF TextChars, Join

LEMMA TextEncoded ==
  ASSUME NEW t \in Texts
  PROVE  TextChars(t) \in Seq(Chars) /\ TextOut(t) = Encoded(TextChars(t))
  <1>1. Letters(t.pad) \in Seq(Chars) /\ Encoded(Letters(t.pad)) = Letters(t.pad)
    BY TextIs, LettersAreChars, EncodedLetters, Zenon
  <1>2. Join(t.chars, Letters(t.pad)) \in Seq(Chars)
    BY <1>1, TextIs, JoinIsSeq, Zenon
  <1>3. Encoded(Join(t.chars, Letters(t.pad))) = Join(Encoded(t.chars), Encoded(Letters(t.pad)))
    BY <1>1, TextIs, EncodedJoin, Zenon
  <1>4. TextBytes(t) = Encoded(t.chars)
    BY Zenon DEF TextBytes, Encoded
  <1> QED
    BY <1>1, <1>2, <1>3, <1>4, TextIs, Zenon DEF TextOut

LEMMA JoinedWith ==
  ASSUME NEW S, NEW a \in Seq(S), NEW T, NEW b \in Seq(T), NEW v, \A j \in 1..Len(b) : b[j] = v,
         NEW k \in 1..Len(Join(a, b))
  PROVE  \/ k \in 1..Len(a) /\ Join(a, b)[k] = a[k]
         \/ k > Len(a) /\ Join(a, b)[k] = v
  <1>1. CASE k <= Len(a)
    BY <1>1 DEF Join
  <1>2. CASE k > Len(a)
    <2>1. k - Len(a) \in 1..Len(b) /\ Join(a, b)[k] = b[k - Len(a)]
      BY <1>2 DEF Join
    <2> QED
      BY <1>2, <2>1
  <1> QED
    BY <1>1, <1>2 DEF Join

\* The character i of a text is one of its first, or a letter.
LEMMA TextCharIs ==
  ASSUME NEW t \in Texts, NEW i \in 1..Len(TextChars(t))
  PROVE  \/ i \in 1..Len(t.chars) /\ TextChars(t)[i] = t.chars[i]
         \/ i > Len(t.chars) /\ TextChars(t)[i] = FILL
  <1>1. t.chars \in Seq(Chars) /\ t.pad \in Nat /\ TextChars(t) = Join(t.chars, Letters(t.pad))
    BY TextIs, Zenon
  <1>2. Letters(t.pad) \in Seq(Byte) /\ \A j \in 1..Len(Letters(t.pad)) : Letters(t.pad)[j] = FILL
    BY <1>1, LettersIs, Zenon
  <1>3. i \in 1..Len(Join(t.chars, Letters(t.pad)))
    BY <1>1, Zenon
  <1>4. \/ i \in 1..Len(t.chars) /\ Join(t.chars, Letters(t.pad))[i] = t.chars[i]
        \/ i > Len(t.chars) /\ Join(t.chars, Letters(t.pad))[i] = FILL
    BY <1>1, <1>2, <1>3, JoinedWith, Zenon
  <1> QED
    BY <1>1, <1>4, Zenon

LEMMA TextCharsValid == ASSUME NEW t \in Texts, StrValid(t) PROVE CharsValid(TextChars(t))
  BY TextCharIs, FillIsChar, Zenon DEF CharsValid, StrValid

\* What lies behind two bytes.
LEMMA BehindTwo ==
  ASSUME NEW u \in Seq(Byte), Len(u) = 2, NEW r \in Seq(Byte)
  PROVE  /\ Join(u, r) \in Seq(Byte) /\ Len(Join(u, r)) = 2 + Len(r)
         /\ Join(u, r)[1] = u[1] /\ Join(u, r)[2] = u[2]
         /\ \A i \in 1..Len(r) : Join(u, r)[2 + i] = r[i]
  <1>1. /\ Join(u, r) \in Seq(Byte) /\ Len(Join(u, r)) = Len(u) + Len(r)
        /\ \A i \in 1..Len(u) : Join(u, r)[i] = u[i]
        /\ \A i \in 1..Len(r) : Join(u, r)[Len(u) + i] = r[i]
    <2>1. Join(u, r) \in Seq(Byte) /\ IsJoin(Join(u, r), u, r)
      BY JoinIsJoin, Zenon
    <2> QED
      BY <2>1, Zenon DEF IsJoin
  <1>2. 1 \in 1..2 /\ 2 \in 1..2
    OBVIOUS
  <1> QED
    BY <1>1, <1>2, Zenon

LEMMA FromTwo == ASSUME NEW n \in Nat PROVE (n \div 256) * 256 + (n % 256) = n
  <1>1. n = 256 * (n \div 256) + (n % 256) /\ n \div 256 \in Nat /\ n % 256 \in 0..255
    OBVIOUS
  <1>2. PICK a \in Nat : a = n \div 256
    BY <1>1
  <1>3. PICK b \in 0..255 : b = n % 256
    BY <1>1
  <1>4. n = 256 * a + b
    BY <1>1, <1>2, <1>3
  <1>5. a * 256 + b = n
    BY <1>4
  <1> QED
    BY <1>2, <1>3, <1>5

LEMMA U16Undone ==
  ASSUME NEW n \in Nat, n <= MaxU16, NEW r \in Seq(Byte)
  PROVE  /\ U16(n) \in Seq(Byte) /\ Len(U16(n)) = 2
         /\ Join(U16(n), r) \in Seq(Byte) /\ Len(Join(U16(n), r)) = 2 + Len(r)
         /\ FromU16(Join(U16(n), r)) = n
  <1>1. U16(n) \in Seq(Byte) /\ Len(U16(n)) = 2
    BY U16Bytes
  <1>2. U16(n)[1] = n \div 256 /\ U16(n)[2] = n % 256
    BY DEF U16
  <1>3. /\ Join(U16(n), r) \in Seq(Byte) /\ Len(Join(U16(n), r)) = 2 + Len(r)
        /\ Join(U16(n), r)[1] = U16(n)[1] /\ Join(U16(n), r)[2] = U16(n)[2]
    BY <1>1, BehindTwo, Zenon
  <1>4. FromU16(Join(U16(n), r)) = (n \div 256) * 256 + (n % 256)
    <2>1. Join(U16(n), r)[1] = n \div 256 /\ Join(U16(n), r)[2] = n % 256
      BY <1>2, <1>3, Zenon
    <2> QED
      BY <2>1, SMT DEF FromU16
  <1> QED
    BY <1>1, <1>3, <1>4, FromTwo, Zenon

Behind2(s, e) == Len(s) = 2 + Len(e) /\ \A i \in 1..Len(e) : s[2 + i] = e[i]

Starts(e, d, rest) == Len(e) = Len(d) + Len(rest) /\ \A i \in 1..Len(d) : e[i] = d[i]

LEMMA BuffCut ==
  ASSUME NEW d \in Seq(Byte), NEW n \in Nat, n = Len(d), NEW rest \in Seq(Byte),
         NEW e \in Seq(Byte), Starts(e, d, rest), NEW s \in Seq(Byte), Behind2(s, e)
  PROVE  Len(s) >= 2 /\ Len(s) >= 2 + n /\ SubSeq(s, 3, 2 + n) = d
  <1>1. Len(s) >= 2 /\ Len(s) >= 2 + n
    BY DEF Behind2, Starts
  <1>2. /\ SubSeq(s, 3, 2 + n) \in Seq(Byte) /\ Len(SubSeq(s, 3, 2 + n)) = n
        /\ \A i \in 1..n : SubSeq(s, 3, 2 + n)[i] = s[2 + i]
    BY <1>1
  <1>3. \A i \in 1..n : s[2 + i] = d[i]
    BY DEF Behind2, Starts
  <1> QED
    BY <1>1, <1>2, <1>3, SameSeq

LEMMA BuffUndone ==
  ASSUME NEW d \in Seq(Byte), NEW n \in Nat, n = Len(d), n <= MaxU16, NEW rest \in Seq(Byte)
  PROVE  BuffParse(Join(Join(U16(n), d), rest)) = Ok(d, rest)
  <1>1. U16(n) \in Seq(Byte) /\ Len(U16(n)) = 2
    BY U16Undone, Zenon
  <1>2. PICK u \in Seq(Byte) : u = U16(n) /\ Len(u) = 2
    BY <1>1, Zenon
  <1>3. /\ Join(d, rest) \in Seq(Byte) /\ Len(Join(d, rest)) = n + Len(rest)
        /\ \A i \in 1..n : Join(d, rest)[i] = d[i]
    BY DEF Join
  <1>4. PICK e \in Seq(Byte) : e = Join(d, rest)
    BY <1>3, Zenon
  <1>5. Join(Join(u, d), rest) = Join(u, e)
    <2>1. Join(Join(u, d), rest) = Join(u, Join(d, rest))
      BY JoinAssoc
    <2> QED
      BY <1>4, <2>1, Zenon
  <1>6. PICK s : s = Join(u, e)
    OBVIOUS
  <1>7. s \in Seq(Byte) /\ Len(s) = 2 + Len(e) /\ FromU16(s) = n
    BY <1>2, <1>6, U16Undone, Zenon
  <1>8. \A i \in 1..Len(e) : s[2 + i] = e[i]
    <2>1. \A i \in 1..Len(e) : Join(u, e)[2 + i] = e[i]
      BY <1>2, BehindTwo
    <2> QED
      BY <1>6, <2>1, Zenon
  <1>9. Len(s) >= 2 /\ Len(s) >= 2 + n /\ SubSeq(s, 3, 2 + n) = d
    <2>1. Starts(e, d, rest)
      BY <1>3, <1>4, Zenon DEF Starts
    <2>2. Behind2(s, e)
      BY <1>7, <1>8, Zenon DEF Behind2
    <2> QED
      BY <1>7, <2>1, <2>2, BuffCut, Zenon
  <1>10. Join(u, d) \in Seq(Byte) /\ Len(Join(u, d)) = 2 + n
    BY <1>2, BehindTwo, Zenon
  <1>11. Drop(s, 2 + n) = rest
    BY <1>5, <1>6, <1>10, DropJoin, Zenon
  <1> QED
    BY <1>2, <1>5, <1>6, <1>7, <1>9, <1>11, Zenon DEF BuffParse, When

LEMMA StrUndone ==
  ASSUME NEW t \in Texts, StrValid(t), TextLen(t) <= MaxU16, NEW rest \in Seq(Byte)
  PROVE  StrParse(Join(StrBytes(t), rest)) = Ok(TextChars(t), rest)
  <1>1. TextOut(t) \in Seq(Byte) /\ TextLen(t) = Len(TextOut(t)) /\ TextLen(t) \in Nat
    BY TextOutIs, TextBytesIsBytes, Zenon
  <1>2. PICK b : b = BuffParse(Join(StrBytes(t), rest))
    OBVIOUS
  <1>3. b = Ok(TextOut(t), rest)
    BY <1>1, <1>2, BuffUndone, Zenon DEF StrBytes
  <1>4. b.ok /\ b.out = TextOut(t) /\ b.rest = rest
    BY <1>3, OkIs
  <1>5. PICK c : c = Utf8Chars(TextOut(t))
    OBVIOUS
  <1>6. c = Ok(TextChars(t), << >>)
    BY <1>5, TextEncoded, EncodedUndone, Zenon
  <1>7. c.ok /\ c.out = TextChars(t)
    BY <1>6, OkIs
  <1>8. CharsValid(TextChars(t))
    BY TextCharsValid
  <1> QED
    BY <1>2, <1>4, <1>5, <1>7, <1>8, Zenon DEF StrParse, Then, When

----------------------------------------------------------------------------
(* Reading the other fields undoes writing them.                           *)

LEMMA BytesAssoc ==
  ASSUME NEW a \in Seq(Byte), NEW b \in Seq(Byte), NEW c \in Seq(Byte)
  PROVE  Join(Join(a, b), c) = Join(a, Join(b, c))
  BY JoinAssoc

LEMMA BuffBytesIs ==
  ASSUME NEW n \in Nat, n <= MaxU16
  PROVE  BuffBytes(n) \in Seq(Byte) /\ Len(BuffBytes(n)) > 0
  <1>1. Letters(n) \in Seq(Byte) /\ Len(Letters(n)) \in Nat
    BY LettersIs
  <1>2. Join(U16(n), Letters(n)) \in Seq(Byte) /\ Len(Join(U16(n), Letters(n))) = 2 + Len(Letters(n))
    BY <1>1, U16Undone, Zenon
  <1>3. Join(U16(n), Letters(n)) \in Seq(Byte) /\ Len(Join(U16(n), Letters(n))) > 0
    BY <1>1, <1>2
  <1> QED
    BY <1>3, Zenon DEF BuffBytes

LEMMA StrBytesIs ==
  ASSUME NEW t \in Texts, TextLen(t) <= MaxU16
  PROVE  StrBytes(t) \in Seq(Byte) /\ Len(StrBytes(t)) > 0
  <1>1. TextOut(t) \in Seq(Byte) /\ TextLen(t) \in Nat
    BY TextOutIs, TextBytesIsBytes, Zenon
  <1>2. /\ Join(U16(TextLen(t)), TextOut(t)) \in Seq(Byte)
        /\ Len(Join(U16(TextLen(t)), TextOut(t))) = 2 + Len(TextOut(t))
    BY <1>1, U16Undone, Zenon
  <1>3. Len(TextOut(t)) \in Nat
    BY <1>1
  <1>4. Len(Join(U16(TextLen(t)), TextOut(t))) > 0
    BY <1>2, <1>3
  <1> QED
    BY <1>2, <1>4, Zenon DEF StrBytes

LEMMA BuffDataUndone ==
  ASSUME NEW n \in Nat, n <= MaxU16, NEW rest \in Seq(Byte)
  PROVE  BuffParse(Join(BuffBytes(n), rest)) = Ok(Letters(n), rest)
  BY LettersIs, BuffUndone, Zenon DEF BuffBytes

LEMMA PacketIdUndone ==
  ASSUME NEW id \in PacketId, NEW rest \in Seq(Byte)
  PROVE  PacketIdParse(Join(U16(id), rest)) = Ok(id, rest)
  <1>1. id \in Nat /\ id <= MaxU16 /\ id # 0
    BY PacketIdBytes, Zenon
  <1>2. /\ U16(id) \in Seq(Byte) /\ Len(U16(id)) = 2 /\ FromU16(Join(U16(id), rest)) = id
        /\ Len(Join(U16(id), rest)) = 2 + Len(rest)
    BY <1>1, U16Undone, Zenon
  <1>3. Len(Join(U16(id), rest)) >= 2
    <2>1. Len(rest) \in Nat
      OBVIOUS
    <2> QED
      BY <1>2, <2>1
  <1>4. Drop(Join(U16(id), rest), 2) = rest
    BY <1>2, DropJoin, Zenon
  <1> QED
    BY <1>1, <1>2, <1>3, <1>4, Zenon DEF PacketIdParse, When

LEMMA WillUndone ==
  ASSUME NEW w \in WillMsg, StrValid(w.topic), TextLen(w.topic) <= MaxU16, w.message <= MaxU16,
         NEW rest \in Seq(Byte)
  PROVE  WillParse(Join(Join(StrBytes(w.topic), BuffBytes(w.message)), rest))
            = Ok([topic |-> TextChars(w.topic), message |-> Letters(w.message)], rest)
  <1>1. w.topic \in Texts /\ w.message \in Nat
    BY DEF WillMsg
  <1>2. StrBytes(w.topic) \in Seq(Byte) /\ BuffBytes(w.message) \in Seq(Byte)
    BY <1>1, StrBytesIs, BuffBytesIs, Zenon
  <1>3. PICK e : e = Join(BuffBytes(w.message), rest)
    OBVIOUS
  <1>4. e \in Seq(Byte)
    BY <1>2, <1>3, JoinIsSeq, Zenon
  <1>5. Join(Join(StrBytes(w.topic), BuffBytes(w.message)), rest) = Join(StrBytes(w.topic), e)
    <2>1. Join(Join(StrBytes(w.topic), BuffBytes(w.message)), rest)
            = Join(StrBytes(w.topic), Join(BuffBytes(w.message), rest))
      BY <1>2, BytesAssoc, Zenon
    <2> QED
      BY <1>3, <2>1, Zenon
  <1>6. PICK a : a = StrParse(Join(StrBytes(w.topic), e))
    OBVIOUS
  <1>7. a = Ok(TextChars(w.topic), e)
    BY <1>1, <1>4, <1>6, StrUndone, Zenon
  <1>8. a.ok /\ a.out = TextChars(w.topic) /\ a.rest = e
    BY <1>7, OkIs
  <1>9. PICK b : b = BuffParse(e)
    OBVIOUS
  <1>10. b = Ok(Letters(w.message), rest)
    BY <1>1, <1>3, <1>9, BuffDataUndone, Zenon
  <1>11. b.ok /\ b.out = Letters(w.message) /\ b.rest = rest
    BY <1>10, OkIs
  <1> QED
    BY <1>5, <1>6, <1>8, <1>9, <1>11, Zenon DEF WillParse, Then

LEMMA QosIsByte == ASSUME NEW q \in 0..2 PROVE q \in Byte
  BY DEF Byte

LEMMA FilterUndone ==
  ASSUME NEW f \in TopicFilter, StrValid(f.topic), TextLen(f.topic) <= MaxU16, NEW rest \in Seq(Byte)
  PROVE  FilterParse(Join(Join(StrBytes(f.topic), <<f.qos>>), rest))
            = Ok([topic |-> TextChars(f.topic), qos |-> f.qos], rest)
  <1>1. f.topic \in Texts /\ f.qos \in 0..2
    BY DEF TopicFilter, RequestedQos
  <1>2. StrBytes(f.topic) \in Seq(Byte) /\ <<f.qos>> \in Seq(Byte) /\ Len(<<f.qos>>) = 1
    BY <1>1, StrBytesIs, QosByte, Zenon
  <1>3. PICK e : e = Join(<<f.qos>>, rest)
    OBVIOUS
  <1>4. e \in Seq(Byte)
    BY <1>2, <1>3, JoinIsSeq, Zenon
  <1>5. Join(Join(StrBytes(f.topic), <<f.qos>>), rest) = Join(StrBytes(f.topic), e)
    <2>1. Join(Join(StrBytes(f.topic), <<f.qos>>), rest) = Join(StrBytes(f.topic), Join(<<f.qos>>, rest))
      BY <1>2, BytesAssoc, Zenon
    <2> QED
      BY <1>3, <2>1, Zenon
  <1>6. PICK a : a = StrParse(Join(StrBytes(f.topic), e))
    OBVIOUS
  <1>7. a = Ok(TextChars(f.topic), e)
    BY <1>1, <1>4, <1>6, StrUndone, Zenon
  <1>8. a.ok /\ a.out = TextChars(f.topic) /\ a.rest = e
    BY <1>7, OkIs
  <1>9. Len(e) > 0 /\ e[1] = f.qos
    <2> SUFFICES ASSUME NEW x \in Byte PROVE Len(Join(<<x>>, rest)) > 0 /\ Join(<<x>>, rest)[1] = x
      <3>1. f.qos \in Byte
        BY <1>1, QosIsByte, Zenon
      <3> QED
        BY <1>3, <3>1, Zenon
    <2> QED
      BY DEF Join
  <1>10. Drop(e, 1) = rest
    BY <1>2, <1>3, DropJoin, Zenon
  <1> QED
    BY <1>1, <1>5, <1>6, <1>8, <1>9, <1>10, Zenon DEF FilterParse, Then, When

LEMMA SubscribeCursorIs ==
  ASSUME NEW b \in Seq(Byte)
  PROVE  \E h : FiltersEq(h, b) /\ SubscribeCursor(b) = h[Len(b)]
  <1> DEFINE filters == CHOOSE g : FiltersEq(g, b)
  <1>1. FiltersEq(filters, b)
    BY FiltersExist, Zenon
  <1>2. SubscribeCursor(b) = filters[Len(b)]
    BY Zenon DEF SubscribeCursor, FiltersEq, FiltersStep
  <1> QED
    BY <1>1, <1>2, Zenon

LEMMA FiltersBelow ==
  ASSUME NEW x \in Seq(Byte), NEW r \in Seq(Byte), NEW h, FiltersEq(h, Join(x, r)), NEW g, FiltersEq(g, r)
  PROVE  \A k \in 0..Len(r) : h[k] = g[k]
  <1> DEFINE S == {k \in 0..Len(r) : h[k] = g[k]}
  <1>1. Len(r) \in Nat /\ \A k \in 0..Len(r) : k \in 0..Len(Join(x, r))
    BY DEF Join
  <1>2. ASSUME NEW k \in 0..Len(r), \A j \in 0..(k - 1) : j \in S PROVE k \in S
    <2>1. \A j \in 0..(k - 1) : h[j] = g[j]
      BY <1>2, Zenon
    <2>2. h[k] = FiltersStep(h, Join(x, r), k) /\ g[k] = FiltersStep(g, r, k)
      BY <1>1, Zenon DEF FiltersEq
    <2>3. Ending(Join(x, r), k) = Ending(r, k)
      BY EndingJoin, Zenon
    <2>4. FiltersStep(h, Join(x, r), k) = FiltersStep(h, r, k)
      BY <2>3, Zenon DEF FiltersStep, When, Then
    <2>5. FiltersStep(h, r, k) = FiltersStep(g, r, k)
      BY <2>1, FiltersStepLocal, Zenon
    <2> QED
      BY <2>2, <2>4, <2>5, Zenon
  <1>3. \A k \in 0..Len(r) : k \in S
    <2> HIDE DEF S
    <2> QED
      BY <1>1, <1>2, StrongInduction, Zenon
  <1> QED
    BY <1>3, Zenon

LEMMA NoFilters == SubscribeCursor(<< >>) = Ok(<< >>, << >>)
  <1>1. << >> \in Seq(Byte) /\ Len(<< >>) = 0 /\ 0 \in 0..0
    OBVIOUS
  <1>2. PICK h : FiltersEq(h, << >>) /\ SubscribeCursor(<< >>) = h[Len(<< >>)]
    BY <1>1, SubscribeCursorIs, Zenon
  <1>3. h[0] = FiltersStep(h, << >>, 0)
    BY <1>1, <1>2, Zenon DEF FiltersEq
  <1> QED
    BY <1>1, <1>2, <1>3, Zenon DEF FiltersStep

LEMMA FiltersFront ==
  ASSUME NEW x \in Seq(Byte), Len(x) > 0, NEW r \in Seq(Byte), NEW fs, SubscribeCursor(r) = Ok(fs, << >>),
         NEW f, FilterParse(Join(x, r)) = Ok(f, r)
  PROVE  SubscribeCursor(Join(x, r)) = Ok(Join(<<f>>, fs), << >>)
  <1>1. PICK b \in Seq(Byte) : b = Join(x, r)
    BY JoinIsSeq, Zenon
  <1>2. Len(b) = Len(x) + Len(r)
    BY <1>1 DEF Join
  <1>3. PICK k \in Nat : k = Len(b)
    OBVIOUS
  <1>4. k # 0 /\ k \in 0..k
    BY <1>2, <1>3
  <1>5. PICK h : FiltersEq(h, b) /\ SubscribeCursor(b) = h[k]
    BY <1>3, SubscribeCursorIs, Zenon
  <1>6. PICK g : FiltersEq(g, r) /\ SubscribeCursor(r) = g[Len(r)]
    BY SubscribeCursorIs, Zenon
  <1>7. h[Len(r)] = g[Len(r)]
    <2>1. Len(r) \in 0..Len(r)
      OBVIOUS
    <2>2. FiltersEq(h, Join(x, r))
      BY <1>1, <1>5, Zenon
    <2>3. FiltersEq(g, r)
      BY <1>6, Zenon
    <2>4. \A j \in 0..Len(r) : h[j] = g[j]
      BY <2>2, <2>3, FiltersBelow
    <2> QED
      BY <2>1, <2>4, Zenon
  <1>8. h[k] = FiltersStep(h, b, k)
    BY <1>3, <1>4, <1>5, Zenon DEF FiltersEq
  <1>9. Ending(b, k) = b
    BY <1>3, <1>4, EndingIs, Zenon
  <1>10. PICK u : u = FilterParse(b)
    OBVIOUS
  <1>11. u.ok /\ u.out = f /\ u.rest = r
    <2>1. u = Ok(f, r)
      BY <1>1, <1>10, Zenon
    <2> QED
      BY <2>1, OkIs
  <1>12. PICK v : v = h[Len(r)]
    OBVIOUS
  <1>13. v.ok /\ v.out = fs /\ v.rest = << >>
    <2>1. v = Ok(fs, << >>)
      BY <1>6, <1>7, <1>12, Zenon
    <2> QED
      BY <2>1, OkIs
  <1>14. FiltersStep(h, b, k) = Ok(<<f>> \o fs, << >>)
    BY <1>4, <1>9, <1>10, <1>11, <1>12, <1>13, Zenon DEF FiltersStep, When, Then
  <1> QED
    BY <1>1, <1>5, <1>8, <1>14, Zenon DEF Join

LEMMA UnsubscribeCursorIs ==
  ASSUME NEW b \in Seq(Byte)
  PROVE  \E h : TopicsEq(h, b) /\ UnsubscribeCursor(b) = h[Len(b)]
  <1> DEFINE filters == CHOOSE g : TopicsEq(g, b)
  <1>1. TopicsEq(filters, b)
    BY TopicsExist, Zenon
  <1>2. UnsubscribeCursor(b) = filters[Len(b)]
    BY Zenon DEF UnsubscribeCursor, TopicsEq, TopicsStep
  <1> QED
    BY <1>1, <1>2, Zenon

LEMMA TopicsBelow ==
  ASSUME NEW x \in Seq(Byte), NEW r \in Seq(Byte), NEW h, TopicsEq(h, Join(x, r)), NEW g, TopicsEq(g, r)
  PROVE  \A k \in 0..Len(r) : h[k] = g[k]
  <1> DEFINE S == {k \in 0..Len(r) : h[k] = g[k]}
  <1>1. Len(r) \in Nat /\ \A k \in 0..Len(r) : k \in 0..Len(Join(x, r))
    BY DEF Join
  <1>2. ASSUME NEW k \in 0..Len(r), \A j \in 0..(k - 1) : j \in S PROVE k \in S
    <2>1. \A j \in 0..(k - 1) : h[j] = g[j]
      BY <1>2, Zenon
    <2>2. h[k] = TopicsStep(h, Join(x, r), k) /\ g[k] = TopicsStep(g, r, k)
      BY <1>1, Zenon DEF TopicsEq
    <2>3. Ending(Join(x, r), k) = Ending(r, k)
      BY EndingJoin, Zenon
    <2>4. TopicsStep(h, Join(x, r), k) = TopicsStep(h, r, k)
      BY <2>3, Zenon DEF TopicsStep, When, Then
    <2>5. TopicsStep(h, r, k) = TopicsStep(g, r, k)
      BY <2>1, TopicsStepLocal, Zenon
    <2> QED
      BY <2>2, <2>4, <2>5, Zenon
  <1>3. \A k \in 0..Len(r) : k \in S
    <2> HIDE DEF S
    <2> QED
      BY <1>1, <1>2, StrongInduction, Zenon
  <1> QED
    BY <1>3, Zenon

LEMMA NoTopics == UnsubscribeCursor(<< >>) = Ok(<< >>, << >>)
  <1>1. << >> \in Seq(Byte) /\ Len(<< >>) = 0 /\ 0 \in 0..0
    OBVIOUS
  <1>2. PICK h : TopicsEq(h, << >>) /\ UnsubscribeCursor(<< >>) = h[Len(<< >>)]
    BY <1>1, UnsubscribeCursorIs, Zenon
  <1>3. h[0] = TopicsStep(h, << >>, 0)
    BY <1>1, <1>2, Zenon DEF TopicsEq
  <1> QED
    BY <1>1, <1>2, <1>3, Zenon DEF TopicsStep

LEMMA TopicsFront ==
  ASSUME NEW x \in Seq(Byte), Len(x) > 0, NEW r \in Seq(Byte), NEW fs, UnsubscribeCursor(r) = Ok(fs, << >>),
         NEW f, StrParse(Join(x, r)) = Ok(f, r), HasValidWildcard(f)
  PROVE  UnsubscribeCursor(Join(x, r)) = Ok(Join(<<f>>, fs), << >>)
  <1>1. PICK b \in Seq(Byte) : b = Join(x, r)
    BY JoinIsSeq, Zenon
  <1>2. Len(b) = Len(x) + Len(r)
    BY <1>1 DEF Join
  <1>3. PICK k \in Nat : k = Len(b)
    OBVIOUS
  <1>4. k # 0 /\ k \in 0..k
    BY <1>2, <1>3
  <1>5. PICK h : TopicsEq(h, b) /\ UnsubscribeCursor(b) = h[k]
    BY <1>3, UnsubscribeCursorIs, Zenon
  <1>6. PICK g : TopicsEq(g, r) /\ UnsubscribeCursor(r) = g[Len(r)]
    BY UnsubscribeCursorIs, Zenon
  <1>7. h[Len(r)] = g[Len(r)]
    <2>1. Len(r) \in 0..Len(r)
      OBVIOUS
    <2>2. TopicsEq(h, Join(x, r))
      BY <1>1, <1>5, Zenon
    <2>3. TopicsEq(g, r)
      BY <1>6, Zenon
    <2>4. \A j \in 0..Len(r) : h[j] = g[j]
      BY <2>2, <2>3, TopicsBelow
    <2> QED
      BY <2>1, <2>4, Zenon
  <1>8. h[k] = TopicsStep(h, b, k)
    BY <1>3, <1>4, <1>5, Zenon DEF TopicsEq
  <1>9. Ending(b, k) = b
    BY <1>3, <1>4, EndingIs, Zenon
  <1>10. PICK u : u = StrParse(b)
    OBVIOUS
  <1>11. u.ok /\ u.out = f /\ u.rest = r
    <2>1. u = Ok(f, r)
      BY <1>1, <1>10, Zenon
    <2> QED
      BY <2>1, OkIs
  <1>12. PICK v : v = h[Len(r)]
    OBVIOUS
  <1>13. v.ok /\ v.out = fs /\ v.rest = << >>
    <2>1. v = Ok(fs, << >>)
      BY <1>6, <1>7, <1>12, Zenon
    <2> QED
      BY <2>1, OkIs
  <1>14. TopicsStep(h, b, k) = Ok(<<f>> \o fs, << >>)
    BY <1>4, <1>9, <1>10, <1>11, <1>12, <1>13, Zenon DEF TopicsStep, When, Then
  <1> QED
    BY <1>1, <1>5, <1>8, <1>14, Zenon DEF Join

----------------------------------------------------------------------------
(* The filters of a SUBSCRIBE and the topics of an UNSUBSCRIBE.            *)

(* The one letter of TextStart stands for all the letters of a text: where *)
(* its wildcards are in place, those of the whole text are.                *)
LEMMA WildcardsKept ==
  ASSUME NEW t \in Texts, WildcardsValid(t)
  PROVE  HasValidWildcard(TextChars(t))
  <1>1. t.chars \in Seq(Nat) /\ t.pad \in Nat
    BY DEF Texts
  <1>2. PICK c \in Seq(Nat), n \in Nat : c = t.chars /\ n = t.pad
    BY <1>1, Zenon
  <1>3. PICK m \in Nat : m = Len(c)
    OBVIOUS
  <1>4. PICK a : a = TextChars(t)
    OBVIOUS
  <1>5. PICK b : b = TextStart(t)
    OBVIOUS
  <1>6. Len(a) = m + n /\ (\A i \in 1..m : a[i] = c[i]) /\ \A i \in (m + 1)..(m + n) : a[i] = FILL
    <2>1. a = c \o Letters(n)
      BY <1>2, <1>4, Zenon DEF TextChars
    <2>2. Letters(n) \in Seq(Byte) /\ Len(Letters(n)) = n /\ \A i \in 1..n : Letters(n)[i] = FILL
      BY LettersIs
    <2> SUFFICES ASSUME NEW d \in Seq(Nat), Len(d) = n, NEW v, \A i \in 1..n : d[i] = v
                 PROVE  LET j == c \o d IN
                        /\ Len(j) = m + n /\ (\A i \in 1..m : j[i] = c[i])
                        /\ \A i \in (m + 1)..(m + n) : j[i] = v
      <3>1. Letters(n) \in Seq(Nat)
        BY <2>2, BytesAreNats, Zenon
      <3> QED
        BY <2>1, <2>2, <3>1, Zenon
    <2> QED
      BY <1>3
  <1>7. /\ \A i \in 1..m : b[i] = c[i]
        /\ n = 0 => Len(b) = m
        /\ n > 0 => Len(b) = m + 1 /\ b[m + 1] = FILL
    <2>1. b = c \o (IF n > 0 THEN <<FILL>> ELSE << >>)
      BY <1>2, <1>5, Zenon DEF TextStart
    <2>2. CASE n > 0
      <3>1. b = c \o <<FILL>>
        BY <2>1, <2>2, Zenon
      <3> QED
        BY <1>3, <2>2, <3>1 DEF FILL
    <2>3. CASE n = 0
      <3>1. b = c \o << >>
        BY <2>1, <2>3
      <3> QED
        BY <1>3, <2>3, <3>1
    <2> QED
      BY <2>2, <2>3
  <1>8. HasValidWildcard(b)
    BY <1>5, Zenon DEF WildcardsValid
  <1>9. FILL \notin Wildcards
    BY FillIsChar
  <1>10. ASSUME NEW i \in 1..Len(a), a[i] \in Wildcards
         PROVE  (i > 1 => a[i - 1] = SLASH) /\ (i < Len(a) => a[i + 1] = SLASH /\ a[i] = PLUS)
    <2>1. i \in 1..m /\ a[i] = c[i] /\ b[i] = c[i] /\ i \in 1..Len(b)
      BY <1>3, <1>6, <1>7, <1>9, <1>10
    <2>2. (i > 1 => b[i - 1] = SLASH) /\ (i < Len(b) => b[i + 1] = SLASH /\ b[i] = PLUS)
      BY <1>8, <1>10, <2>1, Zenon DEF HasValidWildcard
    <2>3. i > 1 => a[i - 1] = b[i - 1]
      BY <1>6, <1>7, <2>1
    <2>4. i < Len(a) => i < Len(b) /\ a[i + 1] = b[i + 1]
      BY <1>6, <1>7, <2>1
    <2> QED
      BY <2>1, <2>2, <2>3, <2>4
  <1> QED
    BY <1>4, <1>10, Zenon DEF HasValidWildcard

LEMMA NoWildcardChar ==
  ASSUME NEW t \in Texts, ~ContainsWildcardChar(t.chars)
  PROVE  ~ContainsWildcardChar(TextChars(t))
  BY TextCharIs, FillIsChar, Zenon DEF ContainsWildcardChar

FilterAsRead(f) == [topic |-> TextChars(f.topic), qos |-> f.qos]

FilterBytes(f) == Join(StrBytes(f.topic), <<f.qos>>)

LEMMA FilterBytesIs ==
  ASSUME NEW f \in TopicFilter, TextLen(f.topic) <= MaxU16
  PROVE  FilterBytes(f) \in Seq(Byte) /\ Len(FilterBytes(f)) > 0
  <1>1. f.topic \in Texts /\ f.qos \in 0..2
    BY DEF TopicFilter, RequestedQos
  <1>2. PICK a \in Seq(Byte), b \in Seq(Byte) : a = StrBytes(f.topic) /\ b = <<f.qos>> /\ Len(a) > 0
    BY <1>1, StrBytesIs, QosByte, Zenon
  <1>3. Join(a, b) \in Seq(Byte) /\ Len(Join(a, b)) > 0
    <2> SUFFICES ASSUME NEW d \in Seq(Byte), NEW e \in Seq(Byte), Len(d) > 0
                 PROVE  Join(d, e) \in Seq(Byte) /\ Len(Join(d, e)) > 0
      BY <1>2, Zenon
    <2> QED
      BY DEF Join
  <1> QED
    BY <1>2, <1>3, Zenon DEF FilterBytes

LEMMA FilterWhole ==
  ASSUME NEW f \in TopicFilter, Clean(FilterSteps(f)), FilterValid(f), NEW rest \in Seq(Byte)
  PROVE  /\ Out(FilterSteps(f)) = FilterBytes(f)
         /\ FilterBytes(f) \in Seq(Byte) /\ Len(FilterBytes(f)) > 0
         /\ FilterParse(Join(FilterBytes(f), rest)) = Ok(FilterAsRead(f), rest)
  BY FilterOut, FilterBytesIs, FilterUndone, Zenon DEF FilterBytes, FilterAsRead

LEMMA TopicWhole ==
  ASSUME NEW t \in Texts, Clean(StrSteps(t)), WildcardsValid(t), NEW rest \in Seq(Byte)
  PROVE  /\ Out(StrSteps(t)) = StrBytes(t)
         /\ StrBytes(t) \in Seq(Byte) /\ Len(StrBytes(t)) > 0
         /\ StrParse(Join(StrBytes(t), rest)) = Ok(TextChars(t), rest)
         /\ HasValidWildcard(TextChars(t))
  BY StrOut, StrBytesIs, StrUndone, WildcardsKept, Zenon

FilterListSteps(fs) == ForEach(fs, FilterSteps)

FilterListEach(fs) == [i \in 1..Len(fs) |-> FilterSteps(fs[i])]

FilterListAsRead(fs) == [i \in 1..Len(fs) |-> FilterAsRead(fs[i])]

LEMMA FilterListEachIs == ASSUME NEW fs \in Seq(TopicFilter) PROVE FilterListEach(fs) \in Seq(Seq(Step))
  <1>1. ASSUME NEW i \in 1..Len(fs) PROVE FilterSteps(fs[i]) \in Seq(Step)
    <2>1. fs[i] \in TopicFilter
      OBVIOUS
    <2> QED
      BY <2>1, FilterSized, Zenon DEF Sized
  <1> QED
    BY <1>1 DEF FilterListEach

LEMMA FilterListStepsIs == ASSUME NEW fs PROVE FilterListSteps(fs) = FlattenSeq(FilterListEach(fs))
  BY Zenon DEF FilterListSteps, ForEach, FilterListEach

LEMMA NoFilterListSteps == FilterListSteps(<< >>) = << >> /\ FilterListAsRead(<< >>) = << >>
  <1>1. FilterListEach(<< >>) = << >> /\ FilterListAsRead(<< >>) = << >>
    BY DEF FilterListEach, FilterListAsRead
  <1> QED
    BY <1>1, FilterListStepsIs, FlattenNone, Zenon

LEMMA FirstFilterListStep ==
  ASSUME NEW f \in TopicFilter, NEW p \in Seq(TopicFilter)
  PROVE  /\ FilterSteps(f) \in Seq(Step) /\ FilterListSteps(p) \in Seq(Step)
         /\ FilterListSteps(Join(<<f>>, p)) = Join(FilterSteps(f), FilterListSteps(p))
         /\ FilterListAsRead(Join(<<f>>, p)) = Join(<<FilterAsRead(f)>>, FilterListAsRead(p))
  <1>1. <<f>> \in Seq(TopicFilter) /\ FilterListEach(<<f>>) = <<FilterSteps(f)>>
    BY DEF FilterListEach
  <1>2. FilterListEach(Join(<<f>>, p)) = Join(FilterListEach(<<f>>), FilterListEach(p))
    BY DEF FilterListEach, Join
  <1>3. FilterListEach(<<f>>) \in Seq(Seq(Step)) /\ FilterListEach(p) \in Seq(Seq(Step))
        /\ FilterSteps(f) \in Seq(Step)
    BY <1>1, FilterListEachIs, FilterSized, Zenon DEF Sized
  <1>4. FlattenSeq(Join(FilterListEach(<<f>>), FilterListEach(p)))
          = Join(FlattenSeq(FilterListEach(<<f>>)), FlattenSeq(FilterListEach(p)))
    BY <1>3, FlattenJoin, Zenon
  <1>5. FlattenSeq(FilterListEach(<<f>>)) = FilterSteps(f)
    BY <1>1, <1>3, FlattenOne, Zenon
  <1>6. FlattenSeq(FilterListEach(p)) \in Seq(Step)
    BY <1>3, FlattenIsSeq, Zenon
  <1>7. FilterListAsRead(Join(<<f>>, p)) = Join(<<FilterAsRead(f)>>, FilterListAsRead(p))
    BY DEF FilterListAsRead, Join
  <1> QED
    BY <1>2, <1>3, <1>4, <1>5, <1>6, <1>7, FilterListStepsIs, Zenon

LEMMA FilterListUndone ==
  ASSUME NEW fs \in Seq(TopicFilter), Clean(FilterListSteps(fs)), \A i \in 1..Len(fs) : FilterValid(fs[i])
  PROVE  SubscribeCursor(Out(FilterListSteps(fs))) = Ok(FilterListAsRead(fs), << >>)
  <1> DEFINE Legal(p) == \A i \in 1..Len(p) : FilterValid(p[i])
             A == {p \in Seq(TopicFilter) : Clean(FilterListSteps(p)) /\ Legal(p) =>
                                        SubscribeCursor(Out(FilterListSteps(p)))
                                          = Ok(FilterListAsRead(p), << >>)}
  <1>1. << >> \in A
    <2>1. << >> \in Seq(TopicFilter)
      OBVIOUS
    <2> QED
      BY <2>1, NoFilterListSteps, NoFilters, OutNone, Zenon
  <1>2. ASSUME NEW p \in Seq(TopicFilter), NEW f \in TopicFilter, p \in A PROVE Join(<<f>>, p) \in A
    <2>1. PICK q \in Seq(TopicFilter) : q = Join(<<f>>, p)
      <3>1. <<f>> \in Seq(TopicFilter)
        OBVIOUS
      <3> QED
        BY <3>1, JoinIsSeq, Zenon
    <2>2. SUFFICES ASSUME Clean(FilterListSteps(q)), Legal(q)
                   PROVE  SubscribeCursor(Out(FilterListSteps(q))) = Ok(FilterListAsRead(q), << >>)
      BY <2>1, Zenon
    <2>3. FilterValid(f) /\ Legal(p)
      <3>1. /\ 1 \in 1..Len(q) /\ q[1] = f
            /\ \A i \in 1..Len(p) : i + 1 \in 1..Len(q) /\ q[i + 1] = p[i]
        BY <2>1 DEF Join
      <3> QED
        BY <2>2, <3>1, Zenon
    <2>4. Clean(FilterSteps(f)) /\ Clean(FilterListSteps(p))
      <3>1. Clean(Join(FilterSteps(f), FilterListSteps(p))) /\ FilterSteps(f) \in Seq(Step)
            /\ FilterListSteps(p) \in Seq(Step)
        BY <2>1, <2>2, FirstFilterListStep, Zenon
      <3> QED
        BY <3>1, CleanParts, Zenon
    <2>5. Out(FilterListSteps(q)) = Join(Out(FilterSteps(f)), Out(FilterListSteps(p)))
      BY <2>1, <2>4, FirstFilterListStep, OutJoin, Zenon
    <2>6. Out(FilterListSteps(p)) \in Seq(Byte)
          /\ SubscribeCursor(Out(FilterListSteps(p))) = Ok(FilterListAsRead(p), << >>)
      BY <1>2, <2>3, <2>4, OutIsBytes, Zenon
    <2>7. /\ Out(FilterSteps(f)) = FilterBytes(f) /\ FilterBytes(f) \in Seq(Byte) /\ Len(FilterBytes(f)) > 0
          /\ FilterParse(Join(FilterBytes(f), Out(FilterListSteps(p))))
               = Ok(FilterAsRead(f), Out(FilterListSteps(p)))
      BY <2>3, <2>4, <2>6, FilterWhole, Zenon
    <2>8. SubscribeCursor(Join(FilterBytes(f), Out(FilterListSteps(p))))
            = Ok(Join(<<FilterAsRead(f)>>, FilterListAsRead(p)), << >>)
      <3>1. PICK r \in Seq(Byte), x \in Seq(Byte) : r = Out(FilterListSteps(p)) /\ x = FilterBytes(f)
        BY <2>6, <2>7, Zenon
      <3>2. /\ Len(x) > 0 /\ SubscribeCursor(r) = Ok(FilterListAsRead(p), << >>)
            /\ FilterParse(Join(x, r)) = Ok(FilterAsRead(f), r)
        BY <2>6, <2>7, <3>1, Zenon
      <3>3. SubscribeCursor(Join(x, r)) = Ok(Join(<<FilterAsRead(f)>>, FilterListAsRead(p)), << >>)
        BY <3>2, FiltersFront
      <3> QED
        BY <3>1, <3>3, Zenon
    <2> QED
      BY <2>1, <2>5, <2>7, <2>8, FirstFilterListStep, Zenon
  <1>3. fs \in A
    <2> HIDE DEF A
    <2> QED
      BY <1>1, <1>2, FrontInduction, Zenon
  <1> QED
    BY <1>3, Zenon

TopicListSteps(fs) == ForEach(fs, StrSteps)

TopicListEach(fs) == [i \in 1..Len(fs) |-> StrSteps(fs[i])]

TopicListAsRead(fs) == [i \in 1..Len(fs) |-> TextChars(fs[i])]

LEMMA TopicListEachIs == ASSUME NEW fs \in Seq(Texts) PROVE TopicListEach(fs) \in Seq(Seq(Step))
  <1>1. ASSUME NEW i \in 1..Len(fs) PROVE StrSteps(fs[i]) \in Seq(Step)
    <2>1. fs[i] \in Texts
      OBVIOUS
    <2> QED
      BY <2>1, StrSized, Zenon DEF Sized
  <1> QED
    BY <1>1 DEF TopicListEach

LEMMA TopicListStepsIs == ASSUME NEW fs PROVE TopicListSteps(fs) = FlattenSeq(TopicListEach(fs))
  BY Zenon DEF TopicListSteps, ForEach, TopicListEach

LEMMA NoTopicListSteps == TopicListSteps(<< >>) = << >> /\ TopicListAsRead(<< >>) = << >>
  <1>1. TopicListEach(<< >>) = << >> /\ TopicListAsRead(<< >>) = << >>
    BY DEF TopicListEach, TopicListAsRead
  <1> QED
    BY <1>1, TopicListStepsIs, FlattenNone, Zenon

LEMMA FirstTopicListStep ==
  ASSUME NEW f \in Texts, NEW p \in Seq(Texts)
  PROVE  /\ StrSteps(f) \in Seq(Step) /\ TopicListSteps(p) \in Seq(Step)
         /\ TopicListSteps(Join(<<f>>, p)) = Join(StrSteps(f), TopicListSteps(p))
         /\ TopicListAsRead(Join(<<f>>, p)) = Join(<<TextChars(f)>>, TopicListAsRead(p))
  <1>1. <<f>> \in Seq(Texts) /\ TopicListEach(<<f>>) = <<StrSteps(f)>>
    BY DEF TopicListEach
  <1>2. TopicListEach(Join(<<f>>, p)) = Join(TopicListEach(<<f>>), TopicListEach(p))
    BY DEF TopicListEach, Join
  <1>3. TopicListEach(<<f>>) \in Seq(Seq(Step)) /\ TopicListEach(p) \in Seq(Seq(Step))
        /\ StrSteps(f) \in Seq(Step)
    BY <1>1, TopicListEachIs, StrSized, Zenon DEF Sized
  <1>4. FlattenSeq(Join(TopicListEach(<<f>>), TopicListEach(p)))
          = Join(FlattenSeq(TopicListEach(<<f>>)), FlattenSeq(TopicListEach(p)))
    BY <1>3, FlattenJoin, Zenon
  <1>5. FlattenSeq(TopicListEach(<<f>>)) = StrSteps(f)
    BY <1>1, <1>3, FlattenOne, Zenon
  <1>6. FlattenSeq(TopicListEach(p)) \in Seq(Step)
    BY <1>3, FlattenIsSeq, Zenon
  <1>7. TopicListAsRead(Join(<<f>>, p)) = Join(<<TextChars(f)>>, TopicListAsRead(p))
    BY DEF TopicListAsRead, Join
  <1> QED
    BY <1>2, <1>3, <1>4, <1>5, <1>6, <1>7, TopicListStepsIs, Zenon

LEMMA TopicListUndone ==
  ASSUME NEW fs \in Seq(Texts), Clean(TopicListSteps(fs)), \A i \in 1..Len(fs) : WildcardsValid(fs[i])
  PROVE  UnsubscribeCursor(Out(TopicListSteps(fs))) = Ok(TopicListAsRead(fs), << >>)
  <1> DEFINE Legal(p) == \A i \in 1..Len(p) : WildcardsValid(p[i])
             A == {p \in Seq(Texts) : Clean(TopicListSteps(p)) /\ Legal(p) =>
                                        UnsubscribeCursor(Out(TopicListSteps(p)))
                                          = Ok(TopicListAsRead(p), << >>)}
  <1>1. << >> \in A
    <2>1. << >> \in Seq(Texts)
      OBVIOUS
    <2> QED
      BY <2>1, NoTopicListSteps, NoTopics, OutNone, Zenon
  <1>2. ASSUME NEW p \in Seq(Texts), NEW f \in Texts, p \in A PROVE Join(<<f>>, p) \in A
    <2>1. PICK q \in Seq(Texts) : q = Join(<<f>>, p)
      <3>1. <<f>> \in Seq(Texts)
        OBVIOUS
      <3> QED
        BY <3>1, JoinIsSeq, Zenon
    <2>2. SUFFICES ASSUME Clean(TopicListSteps(q)), Legal(q)
                   PROVE  UnsubscribeCursor(Out(TopicListSteps(q))) = Ok(TopicListAsRead(q), << >>)
      BY <2>1, Zenon
    <2>3. WildcardsValid(f) /\ Legal(p)
      <3>1. /\ 1 \in 1..Len(q) /\ q[1] = f
            /\ \A i \in 1..Len(p) : i + 1 \in 1..Len(q) /\ q[i + 1] = p[i]
        BY <2>1 DEF Join
      <3> QED
        BY <2>2, <3>1, Zenon
    <2>4. Clean(StrSteps(f)) /\ Clean(TopicListSteps(p))
      <3>1. Clean(Join(StrSteps(f), TopicListSteps(p))) /\ StrSteps(f) \in Seq(Step)
            /\ TopicListSteps(p) \in Seq(Step)
        BY <2>1, <2>2, FirstTopicListStep, Zenon
      <3> QED
        BY <3>1, CleanParts, Zenon
    <2>5. Out(TopicListSteps(q)) = Join(Out(StrSteps(f)), Out(TopicListSteps(p)))
      BY <2>1, <2>4, FirstTopicListStep, OutJoin, Zenon
    <2>6. Out(TopicListSteps(p)) \in Seq(Byte)
          /\ UnsubscribeCursor(Out(TopicListSteps(p))) = Ok(TopicListAsRead(p), << >>)
      BY <1>2, <2>3, <2>4, OutIsBytes, Zenon
    <2>7. /\ Out(StrSteps(f)) = StrBytes(f) /\ StrBytes(f) \in Seq(Byte) /\ Len(StrBytes(f)) > 0
          /\ StrParse(Join(StrBytes(f), Out(TopicListSteps(p)))) = Ok(TextChars(f), Out(TopicListSteps(p)))
          /\ HasValidWildcard(TextChars(f))
      BY <2>3, <2>4, <2>6, TopicWhole, Zenon
    <2>8. UnsubscribeCursor(Join(StrBytes(f), Out(TopicListSteps(p))))
            = Ok(Join(<<TextChars(f)>>, TopicListAsRead(p)), << >>)
      <3>1. PICK r \in Seq(Byte), x \in Seq(Byte) : r = Out(TopicListSteps(p)) /\ x = StrBytes(f)
        BY <2>6, <2>7, Zenon
      <3>2. /\ Len(x) > 0 /\ UnsubscribeCursor(r) = Ok(TopicListAsRead(p), << >>)
            /\ StrParse(Join(x, r)) = Ok(TextChars(f), r)
            /\ HasValidWildcard(TextChars(f))
        BY <2>6, <2>7, <3>1, Zenon
      <3>3. UnsubscribeCursor(Join(x, r)) = Ok(Join(<<TextChars(f)>>, TopicListAsRead(p)), << >>)
        BY <3>2, TopicsFront
      <3> QED
        BY <3>1, <3>3, Zenon
    <2> QED
      BY <2>1, <2>5, <2>7, <2>8, FirstTopicListStep, Zenon
  <1>3. fs \in A
    <2> HIDE DEF A
    <2> QED
      BY <1>1, <1>2, FrontInduction, Zenon
  <1> QED
    BY <1>3, Zenon

----------------------------------------------------------------------------
(* The fixed header and the flags.                                         *)

LEMMA LengthUndone ==
  ASSUME NEW v \in Nat, v <= MAX_REMAINING_LENGTH, NEW rest \in Seq(Byte)
  PROVE  LengthParse(Join(EncodeToArray(v), rest)) = Ok(v, rest)
  <1>1. PICK L \in 1..4 : L = LenFromU32(v)
    BY LenFromU32Defined
  <1>2. PICK a \in Seq(Byte) : a = EncodeToArray(v) /\ Len(a) = L
    BY <1>1, EncodeToArrayIsBytes
  <1>3. \A i \in 1..L : HasContinueFlag(a[i]) <=> i < L
    BY <1>1, <1>2, EncodedByte
  <1>4. PICK s \in Seq(Byte) : s = Join(a, rest)
    BY JoinIsSeq, Zenon
  <1>5. Len(s) >= L /\ \A i \in 1..L : s[i] = a[i]
    <2> SUFFICES ASSUME NEW x \in Seq(Byte)
                 PROVE  Len(Join(x, rest)) >= Len(x) /\ \A i \in 1..Len(x) : Join(x, rest)[i] = x[i]
      BY <1>2, <1>4, Zenon
    <2> QED
      BY DEF Join
  <1>6. CountContinueFlags(s) = L - 1
    <2>1. L - 1 \in 0..3 /\ (L - 1) + 1 = L
      OBVIOUS
    <2>2. \A i \in 1..L : i <= Len(s)
      BY <1>5
    <2>3. \A i \in 1..L : Continues(s, i) <=> i < L
      BY <1>3, <1>5, <2>2, Zenon DEF Continues
    <2>4. L \in 1..L /\ ~(L < L) /\ \A i \in 1..(L - 1) : i \in 1..L /\ i < L
      OBVIOUS
    <2>5. (\A i \in 1..(L - 1) : Continues(s, i)) /\ ~Continues(s, L)
      BY <2>3, <2>4, Zenon
    <2> QED
      BY <2>1, <2>5, CountIs
  <1>7. CountContinueFlags(s) < MAX_BYTES /\ CountContinueFlags(s) < Len(s) /\ CountContinueFlags(s) + 1 = L
    BY <1>5, <1>6 DEF MAX_BYTES
  <1>8. Take(s, L) = a /\ Drop(s, L) = rest
    BY <1>2, <1>4, TakeJoin, DropJoin, Zenon
  <1>9. ReadFromBuf(a) = v
    <2>1. \A i \in 1..L : a[i] = EncodeToArray(v)[i]
      BY <1>2, Zenon
    <2> QED
      BY <1>1, <1>2, <2>1, ReadUndoesEncode, Zenon
  <1>10. LengthParse(s) = Ok(v, rest)
    BY <1>7, <1>8, <1>9, Zenon DEF LengthParse, When
  <1> QED
    BY <1>2, <1>4, <1>10, Zenon

\* A slice that starts with a header.
StartsWithHeader(s, t, f, v, rest) ==
    /\ s \in Seq(Byte) /\ Len(s) > 0
    /\ ParseType(s[1]) /\ PacketTypeOf(s[1]) = t /\ FlagsOf(s[1]) = f
    /\ Drop(s, 1) = Join(EncodeToArray(v), rest)

LEMMA HeaderStarts ==
  ASSUME NEW t \in 1..14, NEW f \in 0..15, ValidTypeFlags(t, f),
         NEW v \in Nat, v <= MAX_REMAINING_LENGTH, NEW rest \in Seq(Byte)
  PROVE  StartsWithHeader(Join(WriteHeader(t, f, v), rest), t, f, v, rest)
  <1>0. PICK s : s = Join(WriteHeader(t, f, v), rest)
    OBVIOUS
  <1>1. PICK b \in Byte : b = EncodeTypeAndFlags(t, f)
    BY TypeByteRead
  <1>2. PICK a \in Seq(Byte) : a = EncodeToArray(v)
    BY EncodeToArrayIsBytes
  <1>3. WriteHeader(t, f, v) = Join(<<b>>, a)
    BY <1>1, <1>2, Zenon DEF WriteHeader, Join
  <1>4. <<b>> \in Seq(Byte) /\ Len(<<b>>) = 1
    OBVIOUS
  <1>5. PICK r \in Seq(Byte) : r = Join(a, rest)
    BY JoinIsSeq, Zenon
  <1>6. s = Join(<<b>>, r)
    <2>1. Join(Join(<<b>>, a), rest) = Join(<<b>>, Join(a, rest))
      BY <1>4, BytesAssoc, Zenon
    <2> QED
      BY <1>0, <1>3, <1>5, <2>1, Zenon
  <1>7. s \in Seq(Byte) /\ Len(s) > 0 /\ s[1] = b
    <2> SUFFICES Join(<<b>>, r) \in Seq(Byte) /\ Len(Join(<<b>>, r)) > 0 /\ Join(<<b>>, r)[1] = b
      BY <1>6, Zenon
    <2> HIDE <1>1, <1>2, <1>3, <1>5, <1>6
    <2> QED
      BY DEF Join
  <1>8. Drop(s, 1) = r
    <2>1. Drop(Join(<<b>>, r), Len(<<b>>)) = r
      BY <1>4, DropJoin, Zenon
    <2> QED
      BY <1>4, <1>6, <2>1, Zenon
  <1>9. ParseType(b) /\ PacketTypeOf(b) = t /\ FlagsOf(b) = f
    BY <1>1, TypeByteRead
  <1> QED
    BY <1>0, <1>2, <1>5, <1>7, <1>8, <1>9, Zenon DEF StartsWithHeader

LEMMA HeaderUndone ==
  ASSUME NEW t \in 1..14, NEW f \in 0..15, ValidTypeFlags(t, f),
         NEW v \in Nat, v <= MAX_REMAINING_LENGTH, NEW rest \in Seq(Byte)
  PROVE  HeaderParse(Join(WriteHeader(t, f, v), rest)) = Ok([flags |-> f, length |-> v], rest)
  <1>0. PICK s : s = Join(WriteHeader(t, f, v), rest)
    OBVIOUS
  <1>1. PICK r : r = LengthParse(Join(EncodeToArray(v), rest))
    OBVIOUS
  <1>2. r = Ok(v, rest)
    BY <1>1, LengthUndone, Zenon
  <1>3. r.ok /\ r.out = v /\ r.rest = rest
    BY <1>2, OkIs
  <1>4. StartsWithHeader(s, t, f, v, rest)
    BY <1>0, HeaderStarts, Zenon
  <1>5. Len(s) > 0 /\ ParseType(s[1]) /\ FlagsOf(s[1]) = f /\ Drop(s, 1) = Join(EncodeToArray(v), rest)
    BY <1>4, Zenon DEF StartsWithHeader
  <1> QED
    BY <1>0, <1>1, <1>3, <1>5, Zenon DEF HeaderParse, When, Then

LEMMA ShortLength ==
  ASSUME NEW v \in Nat, v < 128
  PROVE  v \in Byte /\ EncodeToArray(v) \in Seq(Byte) /\ EncodeToArray(v) = <<v>> /\ v <= MAX_REMAINING_LENGTH
  <1>1. v <= MAX_REMAINING_LENGTH
    BY SMT DEF MAX_REMAINING_LENGTH
  <1>2. PICK L \in 1..4 : L = LenFromU32(v) /\ v < Place[L + 1] /\ (L = 1 \/ v >= Place[L])
    BY <1>1, LenFromU32Defined
  <1>3. L = 1
    BY <1>2, PlaceValues, SMT
  <1>4. PICK a \in Seq(Byte) : a = EncodeToArray(v) /\ Len(a) = 1
    BY <1>1, <1>2, <1>3, EncodeToArrayIsBytes
  <1>5. EncodeToArray(v)[1] % CONTINUE_FLAG = (v \div Place[1]) % 128
        /\ (HasContinueFlag(EncodeToArray(v)[1]) <=> 1 < L)
    <2>1. 1 \in 1..L
      OBVIOUS
    <2> QED
      BY <1>1, <1>2, <2>1, EncodedByte
  <1>6. PICK y \in 0..255 : y = a[1]
    <2>1. a[1] \in Byte
      BY <1>4
    <2> QED
      BY <2>1, Zenon DEF Byte
  <1>7. y = v
    <2>1. v \div Place[1] = v
      BY PlaceValues, SMT
    <2>2. y % CONTINUE_FLAG = v % 128 /\ (HasContinueFlag(y) <=> 1 < L)
      BY <1>4, <1>5, <1>6, <2>1, Zenon
    <2> QED
      BY <1>3, <2>2, SMT DEF HasContinueFlag, CONTINUE_FLAG
  <1>8. a = <<y>>
    BY <1>4, <1>6
  <1>9. v \in Byte
    BY <1>6, <1>7, Zenon DEF Byte
  <1> QED
    BY <1>1, <1>4, <1>7, <1>8, <1>9, Zenon

LEMMA HeaderArrayUndone ==
  ASSUME NEW t \in 1..14, NEW f \in 0..15, ValidTypeFlags(t, f), NEW v \in Nat, v < 128,
         NEW rest \in Seq(Byte)
  PROVE  HeaderArrayParse(Join(WriteHeader(t, f, v), rest)) = Ok(v, rest)
  <1>0. PICK s : s = Join(WriteHeader(t, f, v), rest)
    OBVIOUS
  <1>1. /\ v <= MAX_REMAINING_LENGTH /\ EncodeToArray(v) = <<v>> /\ EncodeToArray(v) \in Seq(Byte)
        /\ v \in Byte
    BY ShortLength, Zenon
  <1>2. Len(s) > 0 /\ ParseType(s[1]) /\ Drop(s, 1) = Join(EncodeToArray(v), rest)
    <2>1. StartsWithHeader(s, t, f, v, rest)
      BY <1>0, <1>1, HeaderStarts, Zenon
    <2> QED
      BY <2>1, Zenon DEF StartsWithHeader
  <1>3. PICK d : d = Drop(s, 1)
    OBVIOUS
  <1>4. d = Join(<<v>>, rest)
    BY <1>1, <1>2, <1>3, Zenon
  <1>5. <<v>> \in Seq(Byte) /\ Len(<<v>>) = 1
    BY <1>1
  <1>6. Drop(d, 1) = rest
    <2>1. Drop(Join(<<v>>, rest), Len(<<v>>)) = rest
      BY <1>5, DropJoin, Zenon
    <2> QED
      BY <1>4, <1>5, <2>1, Zenon
  <1>7. Len(d) >= 1 /\ d[1] = v
    <2> SUFFICES ASSUME NEW x \in Byte PROVE Len(Join(<<x>>, rest)) >= 1 /\ Join(<<x>>, rest)[1] = x
      <3>1. v \in Byte
        BY <1>1
      <3> QED
        BY <1>4, <3>1, Zenon
    <2> QED
      BY DEF Join
  <1>8. ~HasContinueFlag(v)
    BY SMT DEF HasContinueFlag, CONTINUE_FLAG
  <1> QED
    BY <1>0, <1>2, <1>3, <1>6, <1>7, <1>8, Zenon DEF HeaderArrayParse, LengthArrayParse, When

\* The bits of a byte are e1 to e8, the lowest first.
IsByteOf(b, e1, e2, e3, e4, e5, e6, e7, e8) ==
    b = e1 + 2 * e2 + 4 * e3 + 8 * e4 + 16 * e5 + 32 * e6 + 64 * e7 + 128 * e8

BitSet(b, j) == (b \div Bits[j]) % 2 = 1

LEMMA BitValues ==
  /\ Bits[1] = 1 /\ Bits[2] = 2 /\ Bits[3] = 4 /\ Bits[4] = 8
  /\ Bits[5] = 16 /\ Bits[6] = 32 /\ Bits[7] = 64 /\ Bits[8] = 128
  BY SMT DEF Bits

BitsAre(b, e1, e2, e3, e4, e5, e6, e7, e8) ==
    /\ (BitSet(b, 1) <=> e1 = 1) /\ (BitSet(b, 2) <=> e2 = 1)
    /\ (BitSet(b, 3) <=> e3 = 1) /\ (BitSet(b, 4) <=> e4 = 1)
    /\ (BitSet(b, 5) <=> e5 = 1) /\ (BitSet(b, 6) <=> e6 = 1)
    /\ (BitSet(b, 7) <=> e7 = 1) /\ (BitSet(b, 8) <=> e8 = 1)

LEMMA EightBits ==
  ASSUME NEW e1 \in 0..1, NEW e2 \in 0..1, NEW e3 \in 0..1, NEW e4 \in 0..1,
         NEW e5 \in 0..1, NEW e6 \in 0..1, NEW e7 \in 0..1, NEW e8 \in 0..1,
         NEW b, IsByteOf(b, e1, e2, e3, e4, e5, e6, e7, e8)
  PROVE  BitsAre(b, e1, e2, e3, e4, e5, e6, e7, e8)
  <1>0. b = e1 + 2 * e2 + 4 * e3 + 8 * e4 + 16 * e5 + 32 * e6 + 64 * e7 + 128 * e8
    BY DEF IsByteOf
  <1>1. BitSet(b, 1) <=> e1 = 1
    <2>1. b \div 1 = e1 + 2 * e2 + 4 * e3 + 8 * e4 + 16 * e5 + 32 * e6 + 64 * e7 + 128 * e8
      BY <1>0, SMT
    <2>2. (b \div 1) % 2 = e1
      BY <2>1, SMT
    <2> QED
      BY <2>2, BitValues, SMT DEF BitSet
  <1>2. BitSet(b, 2) <=> e2 = 1
    <2>1. b \div 2 = e2 + 2 * e3 + 4 * e4 + 8 * e5 + 16 * e6 + 32 * e7 + 64 * e8
      BY <1>0, SMT
    <2>2. (b \div 2) % 2 = e2
      BY <2>1, SMT
    <2> QED
      BY <2>2, BitValues, SMT DEF BitSet
  <1>3. BitSet(b, 3) <=> e3 = 1
    <2>1. b \div 4 = e3 + 2 * e4 + 4 * e5 + 8 * e6 + 16 * e7 + 32 * e8
      BY <1>0, SMT
    <2>2. (b \div 4) % 2 = e3
      BY <2>1, SMT
    <2> QED
      BY <2>2, BitValues, SMT DEF BitSet
  <1>4. BitSet(b, 4) <=> e4 = 1
    <2>1. b \div 8 = e4 + 2 * e5 + 4 * e6 + 8 * e7 + 16 * e8
      BY <1>0, SMT
    <2>2. (b \div 8) % 2 = e4
      BY <2>1, SMT
    <2> QED
      BY <2>2, BitValues, SMT DEF BitSet
  <1>5. BitSet(b, 5) <=> e5 = 1
    <2>1. b \div 16 = e5 + 2 * e6 + 4 * e7 + 8 * e8
      BY <1>0, SMT
    <2>2. (b \div 16) % 2 = e5
      BY <2>1, SMT
    <2> QED
      BY <2>2, BitValues, SMT DEF BitSet
  <1>6. BitSet(b, 6) <=> e6 = 1
    <2>1. b \div 32 = e6 + 2 * e7 + 4 * e8
      BY <1>0, SMT
    <2>2. (b \div 32) % 2 = e6
      BY <2>1, SMT
    <2> QED
      BY <2>2, BitValues, SMT DEF BitSet
  <1>7. BitSet(b, 7) <=> e7 = 1
    <2>1. b \div 64 = e7 + 2 * e8
      BY <1>0, SMT
    <2>2. (b \div 64) % 2 = e7
      BY <2>1, SMT
    <2> QED
      BY <2>2, BitValues, SMT DEF BitSet
  <1>8. BitSet(b, 8) <=> e8 = 1
    <2>1. b \div 128 = e8
      BY <1>0, SMT
    <2>2. (b \div 128) % 2 = e8
      BY <2>1, SMT
    <2> QED
      BY <2>2, BitValues, SMT DEF BitSet
  <1> QED
    BY <1>1, <1>2, <1>3, <1>4, <1>5, <1>6, <1>7, <1>8, Zenon DEF BitsAre

FlagSum(names, flags) == [i \in 1..Len(names) |-> IF names[i] \in flags THEN Bits[i] ELSE 0]

\* s holds the bits of the names in flags.
IsFlagSum(s, names, flags, k) ==
    /\ s \in Seq(Int) /\ Len(s) = k
    /\ \A i \in 1..k : \E e \in 0..1 : s[i] = Bits[i] * e /\ (names[i] \in flags <=> e = 1)

LEMMA FlagSumIs ==
  ASSUME NEW names, NEW flags, NEW k \in 1..8, k = Len(names)
  PROVE  IsFlagSum(FlagSum(names, flags), names, flags, k)
  <1>1. \A i \in 1..8 : Bits[i] \in Int
    BY DEF Bits
  <1>2. PICK s : s = FlagSum(names, flags)
    OBVIOUS
  <1>3. s = [i \in 1..k |-> IF names[i] \in flags THEN Bits[i] ELSE 0]
    BY <1>2, Zenon DEF FlagSum
  <1>4. ASSUME NEW i \in 1..k
        PROVE s[i] \in Int /\ \E e \in 0..1 : s[i] = Bits[i] * e /\ (names[i] \in flags <=> e = 1)
    <2>1. Bits[i] \in Int
      <3>1. i \in 1..8
        OBVIOUS
      <3> QED
        BY <1>1, <3>1, Zenon
    <2>2. CASE names[i] \in flags
      <3>1. s[i] = Bits[i]
        BY <1>3, <2>2
      <3> QED
        BY <2>1, <2>2, <3>1
    <2>3. CASE names[i] \notin flags
      <3>1. s[i] = 0
        BY <1>3, <2>3
      <3> QED
        BY <2>1, <2>3, <3>1
    <2> QED
      BY <2>2, <2>3
  <1>5. s = [i \in 1..k |-> s[i]]
    BY <1>3
  <1>6. s \in [1..k -> Int]
    BY <1>4, <1>5, Zenon
  <1>7. s \in Seq(Int) /\ Len(s) = k
    BY <1>6
  <1> QED
    BY <1>2, <1>4, <1>7, Zenon DEF IsFlagSum

LEMMA ConnectBitSet ==
  ASSUME NEW flags, NEW b, b = FlagByte(ConnectBits, flags), NEW j \in 1..8
  PROVE  BitSet(b, j) <=> ConnectBits[j] \in flags
  <1>1. 8 \in 1..8 /\ 8 = Len(ConnectBits)
    BY DEF ConnectBits
  <1>2. PICK s \in Seq(Int) : /\ s = FlagSum(ConnectBits, flags) /\ Len(s) = 8
                              /\ \A i \in 1..8 : \E e \in 0..1 : /\ s[i] = Bits[i] * e
                                                                 /\ ConnectBits[i] \in flags <=> e = 1
    <2>1. IsFlagSum(FlagSum(ConnectBits, flags), ConnectBits, flags, 8)
      BY <1>1, FlagSumIs, Zenon
    <2> QED
      BY <2>1, Zenon DEF IsFlagSum
  <1>3. PICK g : SumsOf(g, s)
    BY SumsExist, Zenon
  <1>4. b = g[8]
    BY <1>2, <1>3, SumIs, Zenon DEF FlagByte, FlagSum
  <1>5. PICK e1 \in 0..1 : s[1] = 1 * e1 /\ (ConnectBits[1] \in flags <=> e1 = 1)
    <2>1. 1 \in 1..8
      OBVIOUS
    <2>2. PICK e \in 0..1 : s[1] = Bits[1] * e /\ (ConnectBits[1] \in flags <=> e = 1)
      BY <1>2, <2>1, Zenon
    <2>3. Bits[1] = 1
      BY BitValues, Zenon
    <2> QED
      BY <2>2, <2>3, Zenon
  <1>6. PICK e2 \in 0..1 : s[2] = 2 * e2 /\ (ConnectBits[2] \in flags <=> e2 = 1)
    <2>1. 2 \in 1..8
      OBVIOUS
    <2>2. PICK e \in 0..1 : s[2] = Bits[2] * e /\ (ConnectBits[2] \in flags <=> e = 1)
      BY <1>2, <2>1, Zenon
    <2>3. Bits[2] = 2
      BY BitValues, Zenon
    <2> QED
      BY <2>2, <2>3, Zenon
  <1>7. PICK e3 \in 0..1 : s[3] = 4 * e3 /\ (ConnectBits[3] \in flags <=> e3 = 1)
    <2>1. 3 \in 1..8
      OBVIOUS
    <2>2. PICK e \in 0..1 : s[3] = Bits[3] * e /\ (ConnectBits[3] \in flags <=> e = 1)
      BY <1>2, <2>1, Zenon
    <2>3. Bits[3] = 4
      BY BitValues, Zenon
    <2> QED
      BY <2>2, <2>3, Zenon
  <1>8. PICK e4 \in 0..1 : s[4] = 8 * e4 /\ (ConnectBits[4] \in flags <=> e4 = 1)
    <2>1. 4 \in 1..8
      OBVIOUS
    <2>2. PICK e \in 0..1 : s[4] = Bits[4] * e /\ (ConnectBits[4] \in flags <=> e = 1)
      BY <1>2, <2>1, Zenon
    <2>3. Bits[4] = 8
      BY BitValues, Zenon
    <2> QED
      BY <2>2, <2>3, Zenon
  <1>9. PICK e5 \in 0..1 : s[5] = 16 * e5 /\ (ConnectBits[5] \in flags <=> e5 = 1)
    <2>1. 5 \in 1..8
      OBVIOUS
    <2>2. PICK e \in 0..1 : s[5] = Bits[5] * e /\ (ConnectBits[5] \in flags <=> e = 1)
      BY <1>2, <2>1, Zenon
    <2>3. Bits[5] = 16
      BY BitValues, Zenon
    <2> QED
      BY <2>2, <2>3, Zenon
  <1>10. PICK e6 \in 0..1 : s[6] = 32 * e6 /\ (ConnectBits[6] \in flags <=> e6 = 1)
    <2>1. 6 \in 1..8
      OBVIOUS
    <2>2. PICK e \in 0..1 : s[6] = Bits[6] * e /\ (ConnectBits[6] \in flags <=> e = 1)
      BY <1>2, <2>1, Zenon
    <2>3. Bits[6] = 32
      BY BitValues, Zenon
    <2> QED
      BY <2>2, <2>3, Zenon
  <1>11. PICK e7 \in 0..1 : s[7] = 64 * e7 /\ (ConnectBits[7] \in flags <=> e7 = 1)
    <2>1. 7 \in 1..8
      OBVIOUS
    <2>2. PICK e \in 0..1 : s[7] = Bits[7] * e /\ (ConnectBits[7] \in flags <=> e = 1)
      BY <1>2, <2>1, Zenon
    <2>3. Bits[7] = 64
      BY BitValues, Zenon
    <2> QED
      BY <2>2, <2>3, Zenon
  <1>12. PICK e8 \in 0..1 : s[8] = 128 * e8 /\ (ConnectBits[8] \in flags <=> e8 = 1)
    <2>1. 8 \in 1..8
      OBVIOUS
    <2>2. PICK e \in 0..1 : s[8] = Bits[8] * e /\ (ConnectBits[8] \in flags <=> e = 1)
      BY <1>2, <2>1, Zenon
    <2>3. Bits[8] = 128
      BY BitValues, Zenon
    <2> QED
      BY <2>2, <2>3, SMT
  <1>13. g[0] = 0 /\ g[1] = g[0] + s[1] /\ g[2] = g[1] + s[2] /\ g[3] = g[2] + s[3] /\ g[4] = g[3] + s[4]
    BY <1>2, <1>3, SMT DEF SumsOf
  <1>14. g[5] = g[4] + s[5] /\ g[6] = g[5] + s[6] /\ g[7] = g[6] + s[7] /\ g[8] = g[7] + s[8]
    BY <1>2, <1>3, SMT DEF SumsOf
  <1>15. IsByteOf(b, e1, e2, e3, e4, e5, e6, e7, e8)
    BY <1>4, <1>5, <1>6, <1>7, <1>8, <1>9, <1>10, <1>11, <1>12, <1>13, <1>14, SMT DEF IsByteOf
  <1>16. BitsAre(b, e1, e2, e3, e4, e5, e6, e7, e8)
    BY <1>15, EightBits
  <1>17. BitSet(b, 1) <=> ConnectBits[1] \in flags
    BY <1>5, <1>16, Zenon DEF BitsAre
  <1>18. BitSet(b, 2) <=> ConnectBits[2] \in flags
    BY <1>6, <1>16, Zenon DEF BitsAre
  <1>19. BitSet(b, 3) <=> ConnectBits[3] \in flags
    BY <1>7, <1>16, Zenon DEF BitsAre
  <1>20. BitSet(b, 4) <=> ConnectBits[4] \in flags
    BY <1>8, <1>16, Zenon DEF BitsAre
  <1>21. BitSet(b, 5) <=> ConnectBits[5] \in flags
    BY <1>9, <1>16, Zenon DEF BitsAre
  <1>22. BitSet(b, 6) <=> ConnectBits[6] \in flags
    BY <1>10, <1>16, Zenon DEF BitsAre
  <1>23. BitSet(b, 7) <=> ConnectBits[7] \in flags
    BY <1>11, <1>16, Zenon DEF BitsAre
  <1>24. BitSet(b, 8) <=> ConnectBits[8] \in flags
    BY <1>12, <1>16, Zenon DEF BitsAre
  <1>25. j = 1 \/ j = 2 \/ j = 3 \/ j = 4 \/ j = 5 \/ j = 6 \/ j = 7 \/ j = 8
    OBVIOUS
  <1> QED
    BY <1>17, <1>18, <1>19, <1>20, <1>21, <1>22, <1>23, <1>24, <1>25, Zenon

LEMMA PublishBitSet ==
  ASSUME NEW flags, NEW b, b = FlagByte(PublishBits, flags), NEW j \in 1..4
  PROVE  BitSet(b, j) <=> PublishBits[j] \in flags
  <1>1. 4 \in 1..8 /\ 4 = Len(PublishBits)
    BY DEF PublishBits
  <1>2. PICK s \in Seq(Int) : /\ s = FlagSum(PublishBits, flags) /\ Len(s) = 4
                              /\ \A i \in 1..4 : \E e \in 0..1 : /\ s[i] = Bits[i] * e
                                                                 /\ PublishBits[i] \in flags <=> e = 1
    <2>1. IsFlagSum(FlagSum(PublishBits, flags), PublishBits, flags, 4)
      BY <1>1, FlagSumIs, Zenon
    <2> QED
      BY <2>1, Zenon DEF IsFlagSum
  <1>3. PICK g : SumsOf(g, s)
    BY SumsExist, Zenon
  <1>4. b = g[4]
    BY <1>2, <1>3, SumIs, Zenon DEF FlagByte, FlagSum
  <1>5. PICK e1 \in 0..1 : s[1] = 1 * e1 /\ (PublishBits[1] \in flags <=> e1 = 1)
    <2>1. 1 \in 1..4
      OBVIOUS
    <2>2. PICK e \in 0..1 : s[1] = Bits[1] * e /\ (PublishBits[1] \in flags <=> e = 1)
      BY <1>2, <2>1, Zenon
    <2>3. Bits[1] = 1
      BY BitValues, Zenon
    <2> QED
      BY <2>2, <2>3, Zenon
  <1>6. PICK e2 \in 0..1 : s[2] = 2 * e2 /\ (PublishBits[2] \in flags <=> e2 = 1)
    <2>1. 2 \in 1..4
      OBVIOUS
    <2>2. PICK e \in 0..1 : s[2] = Bits[2] * e /\ (PublishBits[2] \in flags <=> e = 1)
      BY <1>2, <2>1, Zenon
    <2>3. Bits[2] = 2
      BY BitValues, Zenon
    <2> QED
      BY <2>2, <2>3, Zenon
  <1>7. PICK e3 \in 0..1 : s[3] = 4 * e3 /\ (PublishBits[3] \in flags <=> e3 = 1)
    <2>1. 3 \in 1..4
      OBVIOUS
    <2>2. PICK e \in 0..1 : s[3] = Bits[3] * e /\ (PublishBits[3] \in flags <=> e = 1)
      BY <1>2, <2>1, Zenon
    <2>3. Bits[3] = 4
      BY BitValues, Zenon
    <2> QED
      BY <2>2, <2>3, Zenon
  <1>8. PICK e4 \in 0..1 : s[4] = 8 * e4 /\ (PublishBits[4] \in flags <=> e4 = 1)
    <2>1. 4 \in 1..4
      OBVIOUS
    <2>2. PICK e \in 0..1 : s[4] = Bits[4] * e /\ (PublishBits[4] \in flags <=> e = 1)
      BY <1>2, <2>1, Zenon
    <2>3. Bits[4] = 8
      BY BitValues, Zenon
    <2> QED
      BY <2>2, <2>3, Zenon
  <1>9. g[0] = 0 /\ g[1] = g[0] + s[1] /\ g[2] = g[1] + s[2] /\ g[3] = g[2] + s[3] /\ g[4] = g[3] + s[4]
    BY <1>2, <1>3, SMT DEF SumsOf
  <1>10. IsByteOf(b, e1, e2, e3, e4, 0, 0, 0, 0)
    BY <1>4, <1>5, <1>6, <1>7, <1>8, <1>9, SMT DEF IsByteOf
  <1>11. (BitSet(b, 1) <=> e1 = 1) /\ (BitSet(b, 2) <=> e2 = 1) /\ (BitSet(b, 3) <=> e3 = 1)
         /\ (BitSet(b, 4) <=> e4 = 1)
    <2>1. 0 \in 0..1
      OBVIOUS
    <2>2. BitsAre(b, e1, e2, e3, e4, 0, 0, 0, 0)
      BY <1>10, <2>1, EightBits
    <2> QED
      BY <2>2, Zenon DEF BitsAre
  <1>12. j = 1 \/ j = 2 \/ j = 3 \/ j = 4
    OBVIOUS
  <1> QED
    BY <1>5, <1>6, <1>7, <1>8, <1>11, <1>12, Zenon

LEMMA FlagsOfBits ==
  ASSUME NEW names, NEW b, NEW flags, flags \subseteq {names[i] : i \in 1..Len(names)},
         \A j \in 1..Len(names) : BitSet(b, j) <=> names[j] \in flags
  PROVE  FlagsIn(names, b) = flags
  <1>1. FlagsIn(names, b) = {names[i] : i \in {j \in 1..Len(names) : BitSet(b, j)}}
    BY Zenon DEF FlagsIn, BitSet
  <1> QED
    BY <1>1, Zenon

LEMMA ConnectFlagsUndone ==
  ASSUME NEW flags \in SUBSET ConnectFlags
  PROVE  FlagsIn(ConnectBits, FlagByte(ConnectBits, flags)) = flags
  <1>1. Len(ConnectBits) = 8
    BY DEF ConnectBits
  <1>2. flags \subseteq {ConnectBits[i] : i \in 1..Len(ConnectBits)}
    BY <1>1, Zenon DEF ConnectFlags
  <1>3. PICK b : b = FlagByte(ConnectBits, flags)
    OBVIOUS
  <1>4. \A j \in 1..Len(ConnectBits) : BitSet(b, j) <=> ConnectBits[j] \in flags
    BY <1>1, <1>3, ConnectBitSet, Zenon
  <1> QED
    BY <1>2, <1>3, <1>4, FlagsOfBits, Zenon

LEMMA PublishFlagsUndone ==
  ASSUME NEW flags \in SUBSET PublishFlags
  PROVE  FlagsIn(PublishBits, PublishNibble(flags)) = flags
  <1>1. Len(PublishBits) = 4
    BY DEF PublishBits
  <1>2. flags \subseteq {PublishBits[i] : i \in 1..Len(PublishBits)}
    BY <1>1, Zenon DEF PublishFlags
  <1>3. PICK b : b = FlagByte(PublishBits, flags)
    OBVIOUS
  <1>4. \A j \in 1..Len(PublishBits) : BitSet(b, j) <=> PublishBits[j] \in flags
    BY <1>1, <1>3, PublishBitSet, Zenon
  <1> QED
    BY <1>2, <1>3, <1>4, FlagsOfBits, Zenon DEF PublishNibble

----------------------------------------------------------------------------
(* The bytes of a packet: its header, then its body.                       *)

LEMMA HeaderOut ==
  ASSUME NEW p \in HeaderPackets, FramesHeader(p)
  PROVE  Out(HeaderSteps(p)) = WriteHeader(p.type, HeaderFlags(p), BodyLen(p))
  <1>1. p.type # CONNACK /\ p.type \in 1..14
    BY PacketKinds
  <1>2. PICK t : t = <<EncodeTypeAndFlags(p.type, HeaderFlags(p))>>
    OBVIOUS
  <1>3. PICK l : l = EncodeToArray(BodyLen(p))
    OBVIOUS
  <1>4. HeaderSteps(p) = <<WriteAll(t), WriteAll(l)>>
    BY <1>1, <1>2, <1>3, Zenon DEF HeaderSteps, FramesHeader
  <1>5. t \in Seq(Byte)
    BY <1>1, <1>2, HeaderFlagsBound DEF EncodeTypeAndFlags, Byte
  <1>6. l \in Seq(Byte)
    <2>1. BodyLen(p) \in Nat /\ BodyLen(p) <= MAX_REMAINING_LENGTH
      BY BodySized, SizedIsNat DEF FramesHeader, ValidHeader
    <2> QED
      BY <1>3, <2>1, EncodeToArrayIsBytes, Zenon
  <1>7. PICK x \in Step, y \in Step : /\ x = WriteAll(t) /\ y = WriteAll(l)
                                      /\ x.valid /\ y.valid /\ StepBytes(x) = t /\ StepBytes(y) = l
    <2>1. WriteAll(t) \in Step /\ WriteAll(l) \in Step
      <3>1. Len(t) \in Nat /\ Len(t) <= Len(t) /\ Len(l) \in Nat /\ Len(l) <= Len(l)
        BY <1>5, <1>6
      <3> QED
        BY <1>5, <1>6, <3>1, WriteIsStep, Zenon DEF WriteAll
    <2>2. Clean(<<WriteAll(t)>>) /\ Clean(<<WriteAll(l)>>)
      BY <1>5, <1>6, WriteAllOut, Zenon
    <2>3. WriteAll(t).valid /\ WriteAll(l).valid
      BY <2>1, <2>2, CleanOne, Zenon
    <2>4. StepBytes(WriteAll(t)) = t /\ StepBytes(WriteAll(l)) = l
      BY <1>5, <1>6, <2>1, <2>3, WriteAllOut, OutOne, Zenon
    <2> QED
      BY <2>1, <2>3, <2>4, Zenon
  <1>8. Clean(<<x, y>>)
    BY <1>7 DEF Clean
  <1>9. Out(<<x, y>>) = Join(t, l)
    BY <1>7, <1>8, OutTwo, Zenon
  <1> QED
    BY <1>2, <1>3, <1>4, <1>7, <1>9, Zenon DEF WriteHeader, Join

\* A packet that write_sync wrote: its checks passed, and its body is as long
\* as its header says.
IsWritten(p, body) ==
    /\ ChecksFirst(p) /\ Clean(BodySteps(p)) /\ body = Out(BodySteps(p))
    /\ body \in Seq(Byte) /\ Len(body) = BodyLen(p)
    /\ BytesOf(p) = Join(WriteHeader(p.type, HeaderFlags(p), BodyLen(p)), body)
    /\ p.type \in 1..14 /\ HeaderFlags(p) \in 0..15 /\ ValidTypeFlags(p.type, HeaderFlags(p))
    /\ BodyLen(p) \in Nat /\ BodyLen(p) <= MAX_REMAINING_LENGTH

LEMMA PacketBytes ==
  ASSUME NEW p \in HeaderPackets, Encodes(p)
  PROVE  \E body : IsWritten(p, body)
  <1>1. FramesHeader(p)
    BY EncodesFrames
  <1>2. PICK c : c = <<Check(ChecksFirst(p))>>
    OBVIOUS
  <1>3. ChecksFirst(p) \in BOOLEAN
    BY Zenon DEF ChecksFirst, PublishValid, SubscribeValid, UnsubscribeValid
  <1>4. c \in Seq(Step)
    BY <1>2, <1>3, SizedCheck, Zenon DEF Sized
  <1>5. HeaderSteps(p) \in Seq(Step) /\ BodySteps(p) \in Seq(Step)
    BY <1>1, HeaderSized, BodySized, Zenon DEF Sized
  <1>6. StepsOf(p) = Join(Join(c, HeaderSteps(p)), BodySteps(p))
    BY <1>2, Zenon DEF StepsOf, Join
  <1>7. Clean(StepsOf(p))
    BY StepsAreSteps, Zenon DEF Clean, Encodes
  <1>8. Join(c, HeaderSteps(p)) \in Seq(Step)
    BY <1>4, <1>5, JoinIsSeq, Zenon
  <1>9. Clean(Join(c, HeaderSteps(p))) /\ Clean(BodySteps(p))
    BY <1>5, <1>6, <1>7, <1>8, CleanParts, Zenon
  <1>10. Clean(c) /\ Clean(HeaderSteps(p))
    BY <1>4, <1>5, <1>9, CleanParts, Zenon
  <1>11. ChecksFirst(p) /\ Out(c) = << >>
    BY <1>2, <1>3, <1>10, CheckOut, Zenon
  <1>12. Out(c) \in Seq(Byte) /\ Out(HeaderSteps(p)) \in Seq(Byte) /\ Out(BodySteps(p)) \in Seq(Byte)
    BY <1>9, <1>10, OutIsBytes, Zenon
  <1>13. BytesOf(p) = Join(Join(Out(c), Out(HeaderSteps(p))), Out(BodySteps(p)))
    <2>1. BytesOf(p) = Out(StepsOf(p))
      BY Zenon DEF BytesOf, Out
    <2>2. Out(Join(Join(c, HeaderSteps(p)), BodySteps(p)))
            = Join(Out(Join(c, HeaderSteps(p))), Out(BodySteps(p)))
      BY <1>9, OutJoin, Zenon
    <2>3. Out(Join(c, HeaderSteps(p))) = Join(Out(c), Out(HeaderSteps(p)))
      BY <1>10, OutJoin, Zenon
    <2> QED
      BY <1>6, <2>1, <2>2, <2>3, Zenon
  <1>14. Join(Out(c), Out(HeaderSteps(p))) = Out(HeaderSteps(p))
    BY <1>11, <1>12, JoinNone, Zenon
  <1>15. BytesOf(p) = Join(WriteHeader(p.type, HeaderFlags(p), BodyLen(p)), Out(BodySteps(p)))
    BY <1>1, <1>13, <1>14, HeaderOut, Zenon
  <1>16. Len(Out(BodySteps(p))) = BodyLen(p)
    BY <1>9, OutLen, BodySized, Zenon DEF Sized
  <1>17. /\ p.type \in 1..14 /\ HeaderFlags(p) \in 0..15 /\ ValidTypeFlags(p.type, HeaderFlags(p))
         /\ BodyLen(p) \in Nat /\ BodyLen(p) <= MAX_REMAINING_LENGTH
    <2>1. p.type \in 1..14
      BY PacketKinds
    <2>2. BodyLen(p) \in Nat
      BY BodySized, SizedIsNat, Zenon
    <2> QED
      BY <1>1, <2>1, <2>2, HeaderFlagsBound, Zenon DEF FramesHeader, ValidHeader
  <1> QED
    BY <1>9, <1>11, <1>12, <1>15, <1>16, <1>17, Zenon DEF IsWritten

----------------------------------------------------------------------------
(* Optional fields.                                                        *)

LEMMA OptionIs ==
  ASSUME NEW S, NEW o \in Option(S), o # << >>
  PROVE  \E x \in S : o = <<x>>
  <1>1. o \in Seq(S) /\ Len(o) <= 1
    BY DEF Option
  <1>2. Len(o) = 1
    <2>1. Len(o) = 0 => o = << >>
      BY <1>1
    <2>2. Len(o) \in Nat
      BY <1>1
    <2>3. Len(o) # 0
      BY <2>1, Zenon
    <2>4. ASSUME NEW m \in Nat, m <= 1, m # 0 PROVE m = 1
      BY <2>4
    <2> QED
      BY <1>1, <2>2, <2>3, <2>4, Zenon
  <1>3. o[1] \in S /\ o = <<o[1]>>
    BY <1>1, <1>2
  <1> QED
    BY <1>3, Zenon

WillAsRead(w) == [topic |-> TextChars(w.topic), message |-> Letters(w.message)]

LEMMA WillWhole ==
  ASSUME NEW w \in WillMsg, Clean(WillSteps(w)), NEW rest \in Seq(Byte)
  PROVE  WillParse(Join(Out(WillSteps(w)), rest)) = Ok(WillAsRead(w), rest)
  BY WillOut, WillUndone, Zenon DEF WillAsRead

LEMMA StrWhole ==
  ASSUME NEW t \in Texts, Clean(StrSteps(t)), NEW rest \in Seq(Byte)
  PROVE  StrParse(Join(Out(StrSteps(t)), rest)) = Ok(TextChars(t), rest)
  BY StrOut, StrUndone, Zenon

LEMMA BuffWhole ==
  ASSUME NEW n \in Nat, Clean(BuffSteps(n)), NEW rest \in Seq(Byte)
  PROVE  BuffParse(Join(Out(BuffSteps(n)), rest)) = Ok(Letters(n), rest)
  BY BuffOut, BuffDataUndone, Zenon

SameId(id) == id

LEMMA PacketIdWhole ==
  ASSUME NEW id \in PacketId, Clean(PacketIdSteps(id)), NEW rest \in Seq(Byte)
  PROVE  PacketIdParse(Join(Out(PacketIdSteps(id)), rest)) = Ok(SameId(id), rest)
  BY PacketIdOut, PacketIdUndone, Zenon DEF SameId

LEMMA WillOptionUndone ==
  ASSUME NEW o \in Option(WillMsg), Clean(ForEach(o, WillSteps)), NEW rest \in Seq(Byte), NEW s,
         s = Join(Out(ForEach(o, WillSteps)), rest)
  PROVE  OptionParse(o # << >>, WillParse(s), s) = Ok([i \in 1..Len(o) |-> WillAsRead(o[i])], rest)
  <1>1. CASE o = << >>
    <2>1. [i \in 1..Len(<< >>) |-> WillSteps(<< >>[i])] = << >>
          /\ [i \in 1..Len(<< >>) |-> WillAsRead(<< >>[i])] = << >>
      OBVIOUS
    <2>2. ForEach(<< >>, WillSteps) = << >>
      BY <2>1, FlattenNone, Zenon DEF ForEach
    <2>3. s = rest
      BY <1>1, <2>2, OutNone, JoinNone, Zenon
    <2> QED
      BY <1>1, <2>1, <2>3, Zenon DEF OptionParse
  <1>2. CASE o # << >>
    <2>1. PICK x \in WillMsg : o = <<x>>
      BY <1>2, OptionIs, Zenon
    <2>2. [i \in 1..Len(<<x>>) |-> WillSteps(<<x>>[i])] = <<WillSteps(x)>>
      OBVIOUS
    <2>3. [i \in 1..Len(<<x>>) |-> WillAsRead(<<x>>[i])] = <<WillAsRead(x)>>
      OBVIOUS
    <2>4. WillSteps(x) \in Seq(Step)
      BY WillSized, Zenon DEF Sized
    <2>5. ForEach(o, WillSteps) = WillSteps(x)
      BY <2>1, <2>2, <2>4, FlattenOne, Zenon DEF ForEach
    <2>6. Clean(WillSteps(x)) /\ s = Join(Out(WillSteps(x)), rest)
      BY <2>5, Zenon
    <2>7. PICK r : r = WillParse(s)
      OBVIOUS
    <2>8. r = Ok(WillAsRead(x), rest)
      BY <2>6, <2>7, WillWhole, Zenon
    <2>9. r.ok /\ r.out = WillAsRead(x) /\ r.rest = rest
      BY <2>8, OkIs
    <2> QED
      BY <1>2, <2>1, <2>3, <2>7, <2>9, Zenon DEF OptionParse, Then
  <1> QED
    BY <1>1, <1>2

LEMMA StrOptionUndone ==
  ASSUME NEW o \in Option(Texts), Clean(ForEach(o, StrSteps)), NEW rest \in Seq(Byte), NEW s,
         s = Join(Out(ForEach(o, StrSteps)), rest)
  PROVE  OptionParse(o # << >>, StrParse(s), s) = Ok([i \in 1..Len(o) |-> TextChars(o[i])], rest)
  <1>1. CASE o = << >>
    <2>1. [i \in 1..Len(<< >>) |-> StrSteps(<< >>[i])] = << >>
          /\ [i \in 1..Len(<< >>) |-> TextChars(<< >>[i])] = << >>
      OBVIOUS
    <2>2. ForEach(<< >>, StrSteps) = << >>
      BY <2>1, FlattenNone, Zenon DEF ForEach
    <2>3. s = rest
      BY <1>1, <2>2, OutNone, JoinNone, Zenon
    <2> QED
      BY <1>1, <2>1, <2>3, Zenon DEF OptionParse
  <1>2. CASE o # << >>
    <2>1. PICK x \in Texts : o = <<x>>
      BY <1>2, OptionIs, Zenon
    <2>2. [i \in 1..Len(<<x>>) |-> StrSteps(<<x>>[i])] = <<StrSteps(x)>>
      OBVIOUS
    <2>3. [i \in 1..Len(<<x>>) |-> TextChars(<<x>>[i])] = <<TextChars(x)>>
      OBVIOUS
    <2>4. StrSteps(x) \in Seq(Step)
      BY StrSized, Zenon DEF Sized
    <2>5. ForEach(o, StrSteps) = StrSteps(x)
      BY <2>1, <2>2, <2>4, FlattenOne, Zenon DEF ForEach
    <2>6. Clean(StrSteps(x)) /\ s = Join(Out(StrSteps(x)), rest)
      BY <2>5, Zenon
    <2>7. PICK r : r = StrParse(s)
      OBVIOUS
    <2>8. r = Ok(TextChars(x), rest)
      BY <2>6, <2>7, StrWhole, Zenon
    <2>9. r.ok /\ r.out = TextChars(x) /\ r.rest = rest
      BY <2>8, OkIs
    <2> QED
      BY <1>2, <2>1, <2>3, <2>7, <2>9, Zenon DEF OptionParse, Then
  <1> QED
    BY <1>1, <1>2

LEMMA BuffOptionUndone ==
  ASSUME NEW o \in Option(Nat), Clean(ForEach(o, BuffSteps)), NEW rest \in Seq(Byte), NEW s,
         s = Join(Out(ForEach(o, BuffSteps)), rest)
  PROVE  OptionParse(o # << >>, BuffParse(s), s) = Ok([i \in 1..Len(o) |-> Letters(o[i])], rest)
  <1>1. CASE o = << >>
    <2>1. [i \in 1..Len(<< >>) |-> BuffSteps(<< >>[i])] = << >>
          /\ [i \in 1..Len(<< >>) |-> Letters(<< >>[i])] = << >>
      OBVIOUS
    <2>2. ForEach(<< >>, BuffSteps) = << >>
      BY <2>1, FlattenNone, Zenon DEF ForEach
    <2>3. s = rest
      BY <1>1, <2>2, OutNone, JoinNone, Zenon
    <2> QED
      BY <1>1, <2>1, <2>3, Zenon DEF OptionParse
  <1>2. CASE o # << >>
    <2>1. PICK x \in Nat : o = <<x>>
      BY <1>2, OptionIs, Zenon
    <2>2. [i \in 1..Len(<<x>>) |-> BuffSteps(<<x>>[i])] = <<BuffSteps(x)>>
      OBVIOUS
    <2>3. [i \in 1..Len(<<x>>) |-> Letters(<<x>>[i])] = <<Letters(x)>>
      OBVIOUS
    <2>4. BuffSteps(x) \in Seq(Step)
      BY BuffSized, Zenon DEF Sized
    <2>5. ForEach(o, BuffSteps) = BuffSteps(x)
      BY <2>1, <2>2, <2>4, FlattenOne, Zenon DEF ForEach
    <2>6. Clean(BuffSteps(x)) /\ s = Join(Out(BuffSteps(x)), rest)
      BY <2>5, Zenon
    <2>7. PICK r : r = BuffParse(s)
      OBVIOUS
    <2>8. r = Ok(Letters(x), rest)
      BY <2>6, <2>7, BuffWhole, Zenon
    <2>9. r.ok /\ r.out = Letters(x) /\ r.rest = rest
      BY <2>8, OkIs
    <2> QED
      BY <1>2, <2>1, <2>3, <2>7, <2>9, Zenon DEF OptionParse, Then
  <1> QED
    BY <1>1, <1>2

LEMMA PacketIdOptionUndone ==
  ASSUME NEW o \in Option(PacketId), Clean(ForEach(o, PacketIdSteps)), NEW rest \in Seq(Byte), NEW s,
         s = Join(Out(ForEach(o, PacketIdSteps)), rest)
  PROVE  OptionParse(o # << >>, PacketIdParse(s), s) = Ok([i \in 1..Len(o) |-> SameId(o[i])], rest)
  <1>1. CASE o = << >>
    <2>1. [i \in 1..Len(<< >>) |-> PacketIdSteps(<< >>[i])] = << >>
          /\ [i \in 1..Len(<< >>) |-> SameId(<< >>[i])] = << >>
      OBVIOUS
    <2>2. ForEach(<< >>, PacketIdSteps) = << >>
      BY <2>1, FlattenNone, Zenon DEF ForEach
    <2>3. s = rest
      BY <1>1, <2>2, OutNone, JoinNone, Zenon
    <2> QED
      BY <1>1, <2>1, <2>3, Zenon DEF OptionParse
  <1>2. CASE o # << >>
    <2>1. PICK x \in PacketId : o = <<x>>
      BY <1>2, OptionIs, Zenon
    <2>2. [i \in 1..Len(<<x>>) |-> PacketIdSteps(<<x>>[i])] = <<PacketIdSteps(x)>>
      OBVIOUS
    <2>3. [i \in 1..Len(<<x>>) |-> SameId(<<x>>[i])] = <<SameId(x)>>
      OBVIOUS
    <2>4. PacketIdSteps(x) \in Seq(Step)
      BY PacketIdSized, Zenon DEF Sized
    <2>5. ForEach(o, PacketIdSteps) = PacketIdSteps(x)
      BY <2>1, <2>2, <2>4, FlattenOne, Zenon DEF ForEach
    <2>6. Clean(PacketIdSteps(x)) /\ s = Join(Out(PacketIdSteps(x)), rest)
      BY <2>5, Zenon
    <2>7. PICK r : r = PacketIdParse(s)
      OBVIOUS
    <2>8. r = Ok(SameId(x), rest)
      BY <2>6, <2>7, PacketIdWhole, Zenon
    <2>9. r.ok /\ r.out = SameId(x) /\ r.rest = rest
      BY <2>8, OkIs
    <2> QED
      BY <1>2, <2>1, <2>3, <2>7, <2>9, Zenon DEF OptionParse, Then
  <1> QED
    BY <1>1, <1>2

----------------------------------------------------------------------------
(* What a packet should read back as, field by field.                      *)

LEMMA SubscribeAsRead ==
  ASSUME NEW p \in Subscribe
  PROVE  AsRead(p) = [type |-> SUBSCRIBE, pkid |-> p.pkid, filters |-> FilterListAsRead(p.filters)]
  <1>1. p.type = SUBSCRIBE /\ p.filters \in Seq(TopicFilter)
    BY DEF Subscribe
  <1>2. PICK e : e = [i \in 1..Len(p.filters) |-> [p.filters[i] EXCEPT !.topic = TextChars(@)]]
    OBVIOUS
  <1>3. AsRead(p) = [p EXCEPT !.filters = e]
    <2>1. AsRead(p) = [p EXCEPT !.filters = Each(@, LAMBDA f : [f EXCEPT !.topic = TextChars(@)])]
      BY <1>1, TypesDiffer, Zenon DEF AsRead
    <2> QED
      BY <1>2, <2>1, Zenon DEF Each
  <1>4. e = FilterListAsRead(p.filters)
    <2>1. ASSUME NEW f \in TopicFilter PROVE [f EXCEPT !.topic = TextChars(@)] = FilterAsRead(f)
      BY DEF TopicFilter, FilterAsRead
    <2>2. \A i \in 1..Len(p.filters) : p.filters[i] \in TopicFilter
      BY <1>1
    <2> QED
      BY <1>2, <2>1, <2>2, Zenon DEF FilterListAsRead
  <1>5. [p EXCEPT !.filters = e] = [type |-> SUBSCRIBE, pkid |-> p.pkid, filters |-> e]
    BY DEF Subscribe
  <1> QED
    BY <1>3, <1>4, <1>5, Zenon

LEMMA UnsubscribeAsRead ==
  ASSUME NEW p \in Unsubscribe
  PROVE  AsRead(p) = [type |-> UNSUBSCRIBE, pkid |-> p.pkid, filters |-> TopicListAsRead(p.filters)]
  <1>1. p.type = UNSUBSCRIBE
    BY DEF Unsubscribe
  <1>2. PICK e : e = TopicListAsRead(p.filters)
    OBVIOUS
  <1>3. AsRead(p) = [p EXCEPT !.filters = e]
    <2>1. AsRead(p) = [p EXCEPT !.filters = Each(@, TextChars)]
      BY <1>1, TypesDiffer, Zenon DEF AsRead
    <2> QED
      BY <1>2, <2>1, Zenon DEF Each, TopicListAsRead
  <1>4. [p EXCEPT !.filters = e] = [type |-> UNSUBSCRIBE, pkid |-> p.pkid, filters |-> e]
    BY DEF Unsubscribe
  <1> QED
    BY <1>2, <1>3, <1>4, Zenon

LEMMA PublishAsRead ==
  ASSUME NEW p \in Publish
  PROVE  AsRead(p) = [type |-> PUBLISH, flags |-> p.flags, pkid |-> p.pkid,
                      topic |-> TextChars(p.topic), payload |-> Letters(p.payload)]
  <1>1. p.type = PUBLISH
    BY DEF Publish
  <1>2. AsRead(p) = [p EXCEPT !.topic = TextChars(@), !.payload = Letters(@)]
    BY <1>1, TypesDiffer, Zenon DEF AsRead
  <1>3. ASSUME NEW a, NEW b
        PROVE  [p EXCEPT !.topic = a, !.payload = b]
                 = [type |-> PUBLISH, flags |-> p.flags, pkid |-> p.pkid, topic |-> a, payload |-> b]
    <2>1. PICK q : q = [p EXCEPT !.topic = a]
      OBVIOUS
    <2>2. q = [type |-> PUBLISH, flags |-> p.flags, pkid |-> p.pkid, topic |-> a, payload |-> p.payload]
      BY <2>1 DEF Publish
    <2>3. [q EXCEPT !.payload = b]
            = [type |-> PUBLISH, flags |-> p.flags, pkid |-> p.pkid, topic |-> a, payload |-> b]
      BY <2>2
    <2> QED
      BY <2>1, <2>3, Zenon
  <1>4. [p EXCEPT !.topic = TextChars(@), !.payload = Letters(@)]
          = [p EXCEPT !.topic = TextChars(p.topic), !.payload = Letters(p.payload)]
    BY DEF Publish
  <1> QED
    BY <1>2, <1>3, <1>4, Zenon

LettersEach(o) == [i \in 1..Len(o) |-> Letters(o[i])]

WillEach(o) == [i \in 1..Len(o) |-> WillAsRead(o[i])]

LEMMA ConnectAsRead ==
  ASSUME NEW p \in Connect
  PROVE  AsRead(p) = [type |-> CONNECT, flags |-> p.flags, keepalive |-> p.keepalive,
                      client_id |-> TextChars(p.client_id), will |-> WillEach(p.will),
                      username |-> TopicListAsRead(p.username), password |-> LettersEach(p.password)]
  <1>1. p.type = CONNECT
    BY DEF Connect
  <1>2. AsRead(p) = [p EXCEPT !.client_id = TextChars(@),
                              !.will = Each(@, LAMBDA w : [topic |-> TextChars(w.topic),
                                                           message |-> Letters(w.message)]),
                              !.username = Each(@, TextChars),
                              !.password = Each(@, Letters)]
    BY <1>1, TypesDiffer, Zenon DEF AsRead
  <1>3. AsRead(p) = [p EXCEPT !.client_id = TextChars(p.client_id), !.will = WillEach(p.will),
                              !.username = TopicListAsRead(p.username),
                              !.password = LettersEach(p.password)]
    BY <1>2 DEF Connect, Each, WillEach, WillAsRead, TopicListAsRead, LettersEach
  <1>4. PICK a, b, c, d : /\ a = TextChars(p.client_id) /\ b = WillEach(p.will)
                          /\ c = TopicListAsRead(p.username) /\ d = LettersEach(p.password)
    OBVIOUS
  <1>5. AsRead(p) = [p EXCEPT !.client_id = a, !.will = b, !.username = c, !.password = d]
    BY <1>3, <1>4, Zenon
  <1>6. PICK q1 : q1 = [p EXCEPT !.client_id = a]
    OBVIOUS
  <1>7. PICK q2 : q2 = [q1 EXCEPT !.will = b]
    OBVIOUS
  <1>8. PICK q3 : q3 = [q2 EXCEPT !.username = c]
    OBVIOUS
  <1>9. q1 = [type |-> CONNECT, flags |-> p.flags, keepalive |-> p.keepalive,
                        client_id |-> a, will |-> p.will, username |-> p.username, password |-> p.password]
    BY <1>6 DEF Connect
  <1>10. q2 = [type |-> CONNECT, flags |-> p.flags, keepalive |-> p.keepalive,
                        client_id |-> a, will |-> b, username |-> p.username, password |-> p.password]
    BY <1>7, <1>9
  <1>11. q3 = [type |-> CONNECT, flags |-> p.flags, keepalive |-> p.keepalive,
                        client_id |-> a, will |-> b, username |-> c, password |-> p.password]
    BY <1>8, <1>10
  <1>12. [q3 EXCEPT !.password = d] = [type |-> CONNECT, flags |-> p.flags, keepalive |-> p.keepalive,
                        client_id |-> a, will |-> b, username |-> c, password |-> d]
    BY <1>11
  <1>13. AsRead(p) = [q3 EXCEPT !.password = d]
    BY <1>5, <1>6, <1>7, <1>8, Zenon
  <1> QED
    BY <1>4, <1>12, <1>13, Zenon

LEMMA OtherAsRead ==
  ASSUME NEW p, p.type \notin {CONNECT, PUBLISH, SUBSCRIBE, UNSUBSCRIBE}
  PROVE  AsRead(p) = p
  BY Zenon DEF AsRead

----------------------------------------------------------------------------
(* Packets, read back.                                                     *)

HeaderOf(p) == [flags |-> HeaderFlags(p), length |-> BodyLen(p)]

LEMMA WrittenHeader ==
  ASSUME NEW p, NEW body, IsWritten(p, body), NEW s, s = BytesOf(p)
  PROVE  /\ Len(s) # 0 /\ ParseType(s[1]) /\ PacketTypeOf(s[1]) = p.type
         /\ HeaderParse(s) = Ok(HeaderOf(p), body)
         /\ SplitBody(HeaderOf(p), body) = Ok(body, << >>)
  <1>1. /\ body \in Seq(Byte) /\ Len(body) = BodyLen(p)
        /\ s = Join(WriteHeader(p.type, HeaderFlags(p), BodyLen(p)), body)
        /\ p.type \in 1..14 /\ HeaderFlags(p) \in 0..15 /\ ValidTypeFlags(p.type, HeaderFlags(p))
        /\ BodyLen(p) \in Nat /\ BodyLen(p) <= MAX_REMAINING_LENGTH
    BY Zenon DEF IsWritten
  <1>2. StartsWithHeader(s, p.type, HeaderFlags(p), BodyLen(p), body)
    BY <1>1, HeaderStarts, Zenon
  <1>3. Len(s) > 0 /\ ParseType(s[1]) /\ PacketTypeOf(s[1]) = p.type /\ s \in Seq(Byte)
    BY <1>2, Zenon DEF StartsWithHeader
  <1>4. Len(s) # 0
    <2> HIDE DEF IsWritten
    <2>1. ASSUME NEW m, m > 0, m = 0 PROVE FALSE
      BY <2>1
    <2> QED
      BY <1>3, <2>1, Zenon
  <1>5. HeaderParse(s) = Ok(HeaderOf(p), body)
    BY <1>1, HeaderUndone, Zenon DEF HeaderOf
  <1>6. PICK n \in Nat : n = BodyLen(p)
    BY <1>1, Zenon
  <1>7. Take(body, n) = body /\ Drop(body, n) = << >> /\ n <= Len(body)
    <2> SUFFICES ASSUME NEW b \in Seq(Byte)
                 PROVE  Take(b, Len(b)) = b /\ Drop(b, Len(b)) = << >> /\ Len(b) <= Len(b)
      BY <1>1, <1>6, Zenon
    <2> QED
      BY DEF Take, Drop
  <1>8. HeaderOf(p).length = n
    BY <1>6 DEF HeaderOf
  <1>9. SplitBody(HeaderOf(p), body) = Ok(body, << >>)
    BY <1>7, <1>8, Zenon DEF SplitBody, When
  <1> QED
    BY <1>3, <1>4, <1>5, <1>9, Zenon

ReadsBack(p) == ParseOf(BytesOf(p)) = Ok(AsRead(p), << >>)

LEMMA SubscribeUndone ==
  ASSUME NEW p \in Subscribe, NEW body, IsWritten(p, body)
  PROVE  ReadsBack(p)
  <1>1. p.type = SUBSCRIBE /\ p.pkid \in PacketId /\ p.filters \in Seq(TopicFilter)
    BY DEF Subscribe
  <1>2. BodySteps(p) = Join(PacketIdSteps(p.pkid), FilterListSteps(p.filters))
    <2>1. BodySteps(p) = SubscribeSteps(p)
      BY <1>1, TypesDiffer DEF BodySteps
    <2> QED
      BY <2>1, Zenon DEF SubscribeSteps, Join, FilterListSteps
  <1>3. \A i \in 1..Len(p.filters) : FilterValid(p.filters[i])
    <2>1. ChecksFirst(p) = SubscribeValid(p)
      BY <1>1, TypesDiffer, Zenon DEF ChecksFirst
    <2> QED
      BY <2>1, Zenon DEF IsWritten, SubscribeValid
  <1>4. Clean(PacketIdSteps(p.pkid)) /\ Clean(FilterListSteps(p.filters))
    <2>1. FilterListSteps(p.filters) \in Seq(Step)
      BY <1>1, FilterListStepsIs, FilterListEachIs, FlattenIsSeq, Zenon
    <2>2. PacketIdSteps(p.pkid) \in Seq(Step)
      BY <1>1, PacketIdOut, Zenon
    <2>3. Clean(Join(PacketIdSteps(p.pkid), FilterListSteps(p.filters)))
      BY <1>2, Zenon DEF IsWritten
    <2> QED
      BY <2>1, <2>2, <2>3, CleanParts, Zenon
  <1>5. PICK r1 : r1 = Out(FilterListSteps(p.filters))
    OBVIOUS
  <1>6. r1 \in Seq(Byte)
    BY <1>4, <1>5, OutIsBytes, Zenon
  <1>7. body = Join(U16(p.pkid), r1)
    <2>1. Out(Join(PacketIdSteps(p.pkid), FilterListSteps(p.filters)))
            = Join(Out(PacketIdSteps(p.pkid)), Out(FilterListSteps(p.filters)))
      BY <1>4, OutJoin, Zenon
    <2> QED
      BY <1>1, <1>2, <1>5, <2>1, PacketIdOut, Zenon DEF IsWritten
  <1>8. IsResult(PacketIdParse(body), p.pkid, r1)
    BY <1>1, <1>6, <1>7, PacketIdUndone, IsOk, Zenon
  <1>9. IsResult(SubscribeCursor(r1), FilterListAsRead(p.filters), << >>)
    BY <1>1, <1>3, <1>4, <1>5, FilterListUndone, IsOk, Zenon
  <1>10. SubscribeBody(body, << >>) = Ok(AsRead(p), << >>)
    BY <1>8, <1>9, SubscribeAsRead, Zenon DEF SubscribeBody, Then, IsResult
  <1>11. PICK s : s = BytesOf(p)
    OBVIOUS
  <1>12. /\ Len(s) # 0 /\ ParseType(s[1]) /\ PacketTypeOf(s[1]) = SUBSCRIBE
         /\ HeaderParse(s) = Ok(HeaderOf(p), body) /\ SplitBody(HeaderOf(p), body) = Ok(body, << >>)
    BY <1>1, <1>11, WrittenHeader, Zenon
  <1>13. ParseOf(s) = SubscribeParse(s)
    BY <1>12, ParserOf, Zenon
  <1>14. IsResult(HeaderParse(s), HeaderOf(p), body) /\ IsResult(SplitBody(HeaderOf(p), body), body, << >>)
    BY <1>12, IsOk, Zenon
  <1>15. SubscribeParse(s) = SubscribeBody(body, << >>)
    BY <1>14, Zenon DEF SubscribeParse, SubscribeBody, Then, IsResult
  <1> QED
    BY <1>10, <1>11, <1>13, <1>15, Zenon DEF ReadsBack

LEMMA UnsubscribeUndone ==
  ASSUME NEW p \in Unsubscribe, NEW body, IsWritten(p, body)
  PROVE  ReadsBack(p)
  <1>1. p.type = UNSUBSCRIBE /\ p.pkid \in PacketId /\ p.filters \in Seq(Texts)
    BY DEF Unsubscribe
  <1>2. BodySteps(p) = Join(PacketIdSteps(p.pkid), TopicListSteps(p.filters))
    <2>1. BodySteps(p) = UnsubscribeSteps(p)
      BY <1>1, TypesDiffer DEF BodySteps
    <2> QED
      BY <2>1, Zenon DEF UnsubscribeSteps, Join, TopicListSteps
  <1>3. \A i \in 1..Len(p.filters) : WildcardsValid(p.filters[i])
    <2>1. ChecksFirst(p) = UnsubscribeValid(p)
      BY <1>1, TypesDiffer, Zenon DEF ChecksFirst
    <2> QED
      BY <2>1, Zenon DEF IsWritten, UnsubscribeValid
  <1>4. Clean(PacketIdSteps(p.pkid)) /\ Clean(TopicListSteps(p.filters))
    <2>1. TopicListSteps(p.filters) \in Seq(Step)
      BY <1>1, TopicListStepsIs, TopicListEachIs, FlattenIsSeq, Zenon
    <2>2. PacketIdSteps(p.pkid) \in Seq(Step)
      BY <1>1, PacketIdOut, Zenon
    <2>3. Clean(Join(PacketIdSteps(p.pkid), TopicListSteps(p.filters)))
      BY <1>2, Zenon DEF IsWritten
    <2> QED
      BY <2>1, <2>2, <2>3, CleanParts, Zenon
  <1>5. PICK r1 : r1 = Out(TopicListSteps(p.filters))
    OBVIOUS
  <1>6. r1 \in Seq(Byte)
    BY <1>4, <1>5, OutIsBytes, Zenon
  <1>7. body = Join(U16(p.pkid), r1)
    <2>1. Out(Join(PacketIdSteps(p.pkid), TopicListSteps(p.filters)))
            = Join(Out(PacketIdSteps(p.pkid)), Out(TopicListSteps(p.filters)))
      BY <1>4, OutJoin, Zenon
    <2> QED
      BY <1>1, <1>2, <1>5, <2>1, PacketIdOut, Zenon DEF IsWritten
  <1>8. IsResult(PacketIdParse(body), p.pkid, r1)
    BY <1>1, <1>6, <1>7, PacketIdUndone, IsOk, Zenon
  <1>9. IsResult(UnsubscribeCursor(r1), TopicListAsRead(p.filters), << >>)
    BY <1>1, <1>3, <1>4, <1>5, TopicListUndone, IsOk, Zenon
  <1>10. UnsubscribeBody(body, << >>) = Ok(AsRead(p), << >>)
    BY <1>8, <1>9, UnsubscribeAsRead, Zenon DEF UnsubscribeBody, Then, IsResult
  <1>11. PICK s : s = BytesOf(p)
    OBVIOUS
  <1>12. /\ Len(s) # 0 /\ ParseType(s[1]) /\ PacketTypeOf(s[1]) = UNSUBSCRIBE
         /\ HeaderParse(s) = Ok(HeaderOf(p), body) /\ SplitBody(HeaderOf(p), body) = Ok(body, << >>)
    BY <1>1, <1>11, WrittenHeader, Zenon
  <1>13. ParseOf(s) = UnsubscribeParse(s)
    BY <1>12, ParserOf, Zenon
  <1>14. IsResult(HeaderParse(s), HeaderOf(p), body) /\ IsResult(SplitBody(HeaderOf(p), body), body, << >>)
    BY <1>12, IsOk, Zenon
  <1>15. UnsubscribeParse(s) = UnsubscribeBody(body, << >>)
    BY <1>14, Zenon DEF UnsubscribeParse, UnsubscribeBody, Then, IsResult
  <1> QED
    BY <1>10, <1>11, <1>13, <1>15, Zenon DEF ReadsBack

LEMMA AckUndone ==
  ASSUME NEW p \in PacketIdOnly, NEW body, IsWritten(p, body)
  PROVE  ReadsBack(p)
  <1>1. p.type \in Acks /\ p.pkid \in PacketId /\ p = [type |-> p.type, pkid |-> p.pkid]
    BY DEF PacketIdOnly
  <1>2. BodySteps(p) = PacketIdSteps(p.pkid) /\ BodyLen(p) = 2
    BY <1>1, TypesDiffer DEF BodySteps, BodyLen, PacketIdLen
  <1>3. body = U16(p.pkid) /\ U16(p.pkid) \in Seq(Byte)
    BY <1>1, <1>2, PacketIdOut, PacketIdBytes, Zenon DEF IsWritten
  <1>4. << >> \in Seq(Byte)
    OBVIOUS
  <1>5. body = Join(U16(p.pkid), << >>)
    BY <1>3, JoinNone, Zenon
  <1>6. IsResult(PacketIdParse(body), p.pkid, << >>)
    BY <1>1, <1>4, <1>5, PacketIdUndone, IsOk, Zenon
  <1>7. PICK s : s = BytesOf(p)
    OBVIOUS
  <1>8. Len(s) # 0 /\ ParseType(s[1]) /\ PacketTypeOf(s[1]) = p.type
    BY <1>7, WrittenHeader, Zenon
  <1>9. ParseOf(s) = AckParse(p.type, s)
    BY <1>1, <1>8, ParserOf, Zenon
  <1>10. IsResult(HeaderArrayParse(s), 2, body)
    <2>1. 2 \in Nat /\ 2 < 128
      OBVIOUS
    <2>2. /\ p.type \in 1..14 /\ HeaderFlags(p) \in 0..15 /\ ValidTypeFlags(p.type, HeaderFlags(p))
          /\ body \in Seq(Byte) /\ s = Join(WriteHeader(p.type, HeaderFlags(p), 2), body)
      BY <1>2, <1>7, Zenon DEF IsWritten
    <2>3. HeaderArrayParse(s) = Ok(2, body)
      BY <2>1, <2>2, HeaderArrayUndone, Zenon
    <2> QED
      BY <2>3, IsOk, Zenon
  <1>11. AckParse(p.type, s) = Ok([type |-> p.type, pkid |-> p.pkid], << >>)
    BY <1>6, <1>10, Zenon DEF AckParse, Then, IsResult
  <1>12. AsRead(p) = p
    BY <1>1, TypesDiffer, OtherAsRead, Zenon
  <1> QED
    BY <1>1, <1>7, <1>9, <1>11, <1>12, Zenon DEF ReadsBack

LEMMA EmptyUndone ==
  ASSUME NEW p \in {PingReqPacket, PingRespPacket, DisconnectPacket}, NEW body, IsWritten(p, body)
  PROVE  ReadsBack(p)
  <1>1. p.type \in {PINGREQ, PINGRESP, DISCONNECT} /\ p = [type |-> p.type]
    BY DEF PingReqPacket, PingRespPacket, DisconnectPacket
  <1>2. p.type \notin Acks \cup {CONNECT, CONNACK, PUBLISH, SUBSCRIBE, UNSUBSCRIBE, SUBACK}
    BY <1>1 DEF CONNECT, CONNACK, PUBLISH, PUBACK, PUBREC, PUBREL, PUBCOMP, SUBSCRIBE, SUBACK,
                UNSUBSCRIBE, UNSUBACK, PINGREQ, PINGRESP, DISCONNECT, Acks
  <1>3. BodySteps(p) = << >> /\ BodyLen(p) = 0
    BY <1>2, Zenon DEF BodySteps, BodyLen
  <1>4. body = << >>
    BY <1>3, OutNone, Zenon DEF IsWritten
  <1>5. PICK s : s = BytesOf(p)
    OBVIOUS
  <1>6. Len(s) # 0 /\ ParseType(s[1]) /\ PacketTypeOf(s[1]) = p.type
    BY <1>5, WrittenHeader, Zenon
  <1>7. ParseOf(s) = EmptyParse(p.type, s)
    BY <1>1, <1>6, ParserOf, Zenon
  <1>8. IsResult(HeaderArrayParse(s), 0, << >>)
    <2>1. 0 \in Nat /\ 0 < 128
      OBVIOUS
    <2>2. /\ p.type \in 1..14 /\ HeaderFlags(p) \in 0..15 /\ ValidTypeFlags(p.type, HeaderFlags(p))
          /\ body \in Seq(Byte) /\ s = Join(WriteHeader(p.type, HeaderFlags(p), 0), body)
      BY <1>3, <1>5, Zenon DEF IsWritten
    <2>3. HeaderArrayParse(s) = Ok(0, body)
      BY <2>1, <2>2, HeaderArrayUndone, Zenon
    <2> QED
      BY <1>4, <2>3, IsOk, Zenon
  <1>9. EmptyParse(p.type, s) = Ok([type |-> p.type], << >>)
    BY <1>8, Zenon DEF EmptyParse, Then, IsResult
  <1>10. AsRead(p) = p
    BY <1>2, OtherAsRead, Zenon
  <1> QED
    BY <1>1, <1>5, <1>7, <1>9, <1>10, Zenon DEF ReadsBack

LEMMA IdAndCodes ==
  ASSUME NEW u \in Seq(Byte), Len(u) = 2, NEW c \in Seq(Byte)
  PROVE  LET b == Join(u, c) IN
         Len(b) >= 2 /\ SubSeq(b, 3, Len(b)) = c /\ Drop(b, Len(b)) = << >> /\ Len(b) <= Len(b)
  <1>1. Join(u, c) \in Seq(Byte) /\ Len(Join(u, c)) = 2 + Len(c)
    BY BehindTwo, Zenon
  <1>2. Drop(Join(u, c), 2) = c
    BY DropJoin, Zenon
  <1>3. Len(c) \in Nat
    OBVIOUS
  <1>4. Len(Join(u, c)) >= 2 /\ Len(Join(u, c)) <= Len(Join(u, c))
    BY <1>1, <1>3
  <1>5. 2 + 1 = 3
    OBVIOUS
  <1>6. SubSeq(Join(u, c), 3, Len(Join(u, c))) = c
    BY <1>2, <1>5, Zenon DEF Drop
  <1>7. ASSUME NEW b \in Seq(Byte) PROVE Drop(b, Len(b)) = << >>
    BY DEF Drop
  <1> QED
    BY <1>1, <1>4, <1>6, <1>7, Zenon

LEMMA SubAckUndone ==
  ASSUME NEW p \in SubAck, NEW body, IsWritten(p, body)
  PROVE  ReadsBack(p)
  <1>1. /\ p.type = SUBACK /\ p.pkid \in PacketId /\ p.codes \in Seq(SubAckCodes)
        /\ p = [type |-> SUBACK, pkid |-> p.pkid, codes |-> p.codes]
    BY DEF SubAck
  <1>2. p.codes \in Seq(Byte) /\ \A i \in 1..Len(p.codes) : p.codes[i] \in SubAckCodes
    BY <1>1 DEF SubAckCodes, Byte
  <1>3. BodySteps(p) = Join(PacketIdSteps(p.pkid), <<WriteAll(p.codes)>>)
    <2>1. BodySteps(p) = SubAckSteps(p)
      BY <1>1, TypesDiffer DEF BodySteps
    <2> QED
      BY <2>1, Zenon DEF SubAckSteps, Join
  <1>4. body = Join(U16(p.pkid), p.codes)
    <2>1. Clean(PacketIdSteps(p.pkid)) /\ Clean(<<WriteAll(p.codes)>>)
      BY <1>1, <1>2, PacketIdOut, WriteAllOut, Zenon
    <2>2. Out(Join(PacketIdSteps(p.pkid), <<WriteAll(p.codes)>>))
            = Join(Out(PacketIdSteps(p.pkid)), Out(<<WriteAll(p.codes)>>))
      BY <2>1, OutJoin, Zenon
    <2> QED
      BY <1>1, <1>2, <1>3, <2>2, PacketIdOut, WriteAllOut, Zenon DEF IsWritten
  <1>5. p.pkid \in Nat /\ p.pkid <= MaxU16 /\ p.pkid # 0
    BY <1>1, PacketIdBytes, Zenon
  <1>6. U16(p.pkid) \in Seq(Byte) /\ Len(U16(p.pkid)) = 2 /\ FromU16(body) = p.pkid
    BY <1>2, <1>4, <1>5, U16Undone, Zenon
  <1>7. PICK n : n = Len(body)
    OBVIOUS
  <1>8. n >= 2 /\ SubSeq(body, 3, n) = p.codes /\ Drop(body, n) = << >> /\ n <= Len(body)
    BY <1>2, <1>4, <1>6, <1>7, IdAndCodes, Zenon
  <1>9. PICK s : s = BytesOf(p)
    OBVIOUS
  <1>10. /\ Len(s) # 0 /\ ParseType(s[1]) /\ PacketTypeOf(s[1]) = SUBACK
         /\ HeaderParse(s) = Ok(HeaderOf(p), body)
    BY <1>1, <1>9, WrittenHeader, Zenon
  <1>11. ParseOf(s) = SubAckParse(s)
    BY <1>10, ParserOf, Zenon
  <1>12. IsResult(HeaderParse(s), HeaderOf(p), body)
    BY <1>10, IsOk, Zenon
  <1>13. HeaderOf(p).length = n
    <2>1. HeaderOf(p).length = BodyLen(p)
      BY DEF HeaderOf
    <2> QED
      BY <1>7, <2>1, Zenon DEF IsWritten
  <1>14. SubAckParse(s) = Ok([type |-> SUBACK, pkid |-> p.pkid, codes |-> p.codes], << >>)
    BY <1>2, <1>5, <1>6, <1>8, <1>12, <1>13, Zenon DEF SubAckParse, Then, When, IsResult
  <1>15. AsRead(p) = p
    BY <1>1, TypesDiffer, OtherAsRead, Zenon
  <1> QED
    BY <1>1, <1>9, <1>11, <1>14, <1>15, Zenon DEF ReadsBack

\* ConnAck has no fixed header: its first byte is no packet type.
LEMMA ConnAckUnreadable ==
  ASSUME NEW p \in ConnAck, Encodes(p)
  PROVE  ParseOf(BytesOf(p)) = Err
  <1>1. p.type = CONNACK /\ p.session \in 0..1 /\ p.code \in 0..5
    BY DEF ConnAck, ReturnCodes
  <1>2. PICK b : b = <<p.session, p.code>>
    OBVIOUS
  <1>3. b \in Seq(Byte) /\ Len(b) = 2 /\ b[1] \in 0..1
    BY <1>1, <1>2 DEF Byte
  <1>4. ChecksFirst(p) /\ HeaderSteps(p) = << >> /\ BodySteps(p) = <<WriteAll(b)>>
    <2>1. ChecksFirst(p)
      BY <1>1, TypesDiffer, Zenon DEF ChecksFirst
    <2>2. HeaderSteps(p) = << >>
      BY <1>1, Zenon DEF HeaderSteps
    <2>3. BodySteps(p) = ConnAckSteps(p)
      BY <1>1, TypesDiffer DEF BodySteps
    <2> QED
      BY <1>2, <2>1, <2>2, <2>3, Zenon DEF ConnAckSteps
  <1>5. PICK c : c = <<Check(TRUE)>>
    OBVIOUS
  <1>6. c \in Seq(Step) /\ Clean(c)
    <2>1. TRUE \in BOOLEAN
      OBVIOUS
    <2>2. Check(TRUE) \in Step /\ c \in Seq(Step)
      BY <1>5, <2>1, SizedCheck, Zenon DEF Sized
    <2>3. Check(TRUE).valid
      BY DEF Check, CheckedWrite
    <2> QED
      BY <1>5, <2>2, <2>3, CleanOne, Zenon
  <1>7. Out(c) = << >>
    <2>1. TRUE \in BOOLEAN
      OBVIOUS
    <2> QED
      BY <1>5, <1>6, <2>1, CheckOut, Zenon
  <1>8. StepsOf(p) = Join(c, <<WriteAll(b)>>)
    <2>1. ChecksFirst(p) = TRUE
      BY <1>4, Zenon DEF ChecksFirst, PublishValid, SubscribeValid, UnsubscribeValid
    <2>2. StepsOf(p) = Join(Join(c, << >>), <<WriteAll(b)>>)
      BY <1>4, <1>5, <2>1, Zenon DEF StepsOf, Join
    <2>3. Join(c, << >>) = c
      BY <1>6, JoinNone, Zenon
    <2> QED
      BY <2>2, <2>3, Zenon
  <1>9. BytesOf(p) = b
    <2>1. Clean(<<WriteAll(b)>>) /\ Out(<<WriteAll(b)>>) = b
      BY <1>3, WriteAllOut, Zenon
    <2>2. Out(Join(c, <<WriteAll(b)>>)) = Join(Out(c), Out(<<WriteAll(b)>>))
      BY <1>6, <2>1, OutJoin, Zenon
    <2>3. Join(<< >>, b) = b
      BY <1>3, JoinNone, Zenon
    <2> QED
      BY <1>7, <1>8, <2>1, <2>2, <2>3, Zenon DEF BytesOf, Out
  <1>10. ~ParseType(b[1])
    <2>1. ASSUME NEW x \in 0..1 PROVE ~ParseType(x)
      BY DEF ParseType, PacketTypeOf, ControlPacketTypes
    <2> QED
      BY <1>3, <2>1, Zenon
  <1> QED
    BY <1>9, <1>10, Zenon DEF ParseOf

----------------------------------------------------------------------------
(* PUBLISH.                                                                *)

LEMMA SameIds ==
  ASSUME NEW o \in Option(PacketId)
  PROVE  [i \in 1..Len(o) |-> SameId(o[i])] = o
  <1>1. o \in Seq(PacketId)
    BY Zenon DEF Option
  <1>2. [i \in 1..Len(o) |-> SameId(o[i])] = [i \in 1..Len(o) |-> o[i]]
    BY Zenon DEF SameId
  <1>3. [i \in 1..Len(o) |-> o[i]] = o
    BY <1>1
  <1> QED
    BY <1>2, <1>3, Zenon

\* The body of a PUBLISH, and what its parser has read when it has the topic.
PublishHas(p, body, r1) ==
    /\ r1 = Join(Out(ForEach(p.pkid, PacketIdSteps)), Letters(p.payload)) /\ r1 \in Seq(Byte)
    /\ Clean(ForEach(p.pkid, PacketIdSteps))
    /\ StrParse(body) = Ok(TextChars(p.topic), r1)
    /\ ~ContainsWildcardChar(TextChars(p.topic))

LEMMA PublishBody ==
  ASSUME NEW p \in Publish, NEW body, IsWritten(p, body)
  PROVE  \E r1 : PublishHas(p, body, r1)
  <1>1. p.type = PUBLISH /\ p.topic \in Texts /\ p.pkid \in Option(PacketId) /\ p.payload \in Nat
    BY DEF Publish
  <1>2. PICK a : a = StrSteps(p.topic)
    OBVIOUS
  <1>3. PICK b : b = ForEach(p.pkid, PacketIdSteps)
    OBVIOUS
  <1>4. PICK c : c = <<Write(<< >>, p.payload)>>
    OBVIOUS
  <1>5. BodySteps(p) = Join(Join(a, b), c)
    <2>1. BodySteps(p) = PublishSteps(p)
      BY <1>1, TypesDiffer DEF BodySteps
    <2> QED
      BY <1>2, <1>3, <1>4, <2>1, Zenon DEF PublishSteps, Join
  <1>6. a \in Seq(Step) /\ b \in Seq(Step) /\ c \in Seq(Step)
    <2>1. p.pkid \in Seq(PacketId)
      BY <1>1, Zenon DEF Option
    <2> QED
      BY <1>1, <1>2, <1>3, <1>4, <2>1, StrSized, PacketIdsSized, LettersOut, Zenon DEF Sized
  <1>7. Join(a, b) \in Seq(Step)
    BY <1>6, JoinIsSeq, Zenon
  <1>8. Clean(Join(a, b)) /\ Clean(c)
    BY <1>5, <1>6, <1>7, CleanParts, Zenon DEF IsWritten
  <1>9. Clean(a) /\ Clean(b)
    BY <1>6, <1>8, CleanParts, Zenon
  <1>10. Out(a) \in Seq(Byte) /\ Out(b) \in Seq(Byte) /\ Out(c) \in Seq(Byte)
    BY <1>8, <1>9, OutIsBytes, Zenon
  <1>11. PICK r1 : r1 = Join(Out(b), Out(c))
    OBVIOUS
  <1>12. r1 \in Seq(Byte)
    BY <1>10, <1>11, JoinIsSeq, Zenon
  <1>13. body = Join(Out(a), r1)
    <2>1. Out(Join(Join(a, b), c)) = Join(Out(Join(a, b)), Out(c))
      BY <1>8, OutJoin, Zenon
    <2>2. Out(Join(a, b)) = Join(Out(a), Out(b))
      BY <1>9, OutJoin, Zenon
    <2>3. Join(Join(Out(a), Out(b)), Out(c)) = Join(Out(a), Join(Out(b), Out(c)))
      BY <1>10, BytesAssoc, Zenon
    <2> QED
      BY <1>5, <1>11, <2>1, <2>2, <2>3, Zenon DEF IsWritten
  <1>14. Out(c) = Letters(p.payload)
    BY <1>1, <1>4, LettersOut, Zenon
  <1>15. StrParse(body) = Ok(TextChars(p.topic), r1)
    BY <1>1, <1>2, <1>9, <1>12, <1>13, StrWhole, Zenon
  <1>16. ~ContainsWildcardChar(p.topic.chars)
    <2>1. ChecksFirst(p) = PublishValid(p)
      BY <1>1, TypesDiffer, Zenon DEF ChecksFirst
    <2> QED
      BY <2>1, Zenon DEF IsWritten, PublishValid
  <1> QED
    BY <1>1, <1>3, <1>9, <1>11, <1>12, <1>14, <1>15, <1>16, NoWildcardChar, Zenon DEF PublishHas

LEMMA PublishParts ==
  ASSUME NEW p \in Publish, NEW body, IsWritten(p, body), NEW r1, PublishHas(p, body, r1)
  PROVE  /\ ParseOf(BytesOf(p)) = PublishEnd(HeaderOf(p), TextChars(p.topic), r1, << >>)
         /\ FlagsIn(PublishBits, HeaderOf(p).flags) = p.flags
  <1>1. p.type = PUBLISH /\ p.flags \in SUBSET PublishFlags
    BY DEF Publish
  <1>2. PICK s : s = BytesOf(p)
    OBVIOUS
  <1>3. /\ Len(s) # 0 /\ ParseType(s[1]) /\ PacketTypeOf(s[1]) = PUBLISH
        /\ HeaderParse(s) = Ok(HeaderOf(p), body) /\ SplitBody(HeaderOf(p), body) = Ok(body, << >>)
    BY <1>1, <1>2, WrittenHeader, Zenon
  <1>4. ParseOf(s) = PublishParse(s)
    BY <1>3, ParserOf, Zenon
  <1>5. /\ IsResult(HeaderParse(s), HeaderOf(p), body)
        /\ IsResult(SplitBody(HeaderOf(p), body), body, << >>)
        /\ IsResult(StrParse(body), TextChars(p.topic), r1)
    BY <1>3, IsOk, Zenon DEF PublishHas
  <1>6. PublishParse(s) = PublishEnd(HeaderOf(p), TextChars(p.topic), r1, << >>)
    BY <1>5, Zenon DEF PublishParse, PublishEnd, Then, IsResult
  <1>7. HeaderOf(p).flags = PublishNibble(p.flags)
    <2>1. HeaderOf(p).flags = HeaderFlags(p)
      BY DEF HeaderOf
    <2> QED
      BY <1>1, <2>1, Zenon DEF HeaderFlags
  <1>8. FlagsIn(PublishBits, HeaderOf(p).flags) = p.flags
    BY <1>1, <1>7, PublishFlagsUndone, Zenon
  <1> QED
    BY <1>2, <1>4, <1>6, <1>8, Zenon

LEMMA PublishUndone ==
  ASSUME NEW p \in Publish, NEW body, IsWritten(p, body),
         p.flags \cap {"QOS_1", "QOS_2"} # {} <=> p.pkid # << >>
  PROVE  ReadsBack(p)
  <1>1. p.pkid \in Option(PacketId) /\ p.payload \in Nat
    BY DEF Publish
  <1>2. PICK r1 : PublishHas(p, body, r1)
    BY PublishBody, Zenon
  <1>3. Letters(p.payload) \in Seq(Byte)
    BY <1>1, LettersIs
  <1>4. OptionParse(p.pkid # << >>, PacketIdParse(r1), r1) = Ok(p.pkid, Letters(p.payload))
    <2>1. /\ Clean(ForEach(p.pkid, PacketIdSteps))
          /\ r1 = Join(Out(ForEach(p.pkid, PacketIdSteps)), Letters(p.payload))
      BY <1>2, Zenon DEF PublishHas
    <2>2. OptionParse(p.pkid # << >>, PacketIdParse(r1), r1)
            = Ok([i \in 1..Len(p.pkid) |-> SameId(p.pkid[i])], Letters(p.payload))
      BY <1>1, <1>3, <2>1, PacketIdOptionUndone, Zenon
    <2>3. [i \in 1..Len(p.pkid) |-> SameId(p.pkid[i])] = p.pkid
      BY <1>1, SameIds, Zenon
    <2> QED
      BY <2>2, <2>3, Zenon
  <1>5. (p.flags \cap {"QOS_1", "QOS_2"} # {}) = (p.pkid # << >>)
    BY Zenon
  <1>6. IsResult(OptionParse(p.flags \cap {"QOS_1", "QOS_2"} # {}, PacketIdParse(r1), r1),
                 p.pkid, Letters(p.payload))
    BY <1>4, <1>5, IsOk, Zenon
  <1>7. PublishEnd(HeaderOf(p), TextChars(p.topic), r1, << >>)
          = Ok([type |-> PUBLISH, flags |-> p.flags, pkid |-> p.pkid, topic |-> TextChars(p.topic),
                payload |-> Letters(p.payload)], << >>)
    <2>1. FlagsIn(PublishBits, HeaderOf(p).flags) = p.flags /\ ~ContainsWildcardChar(TextChars(p.topic))
      BY <1>2, PublishParts, Zenon DEF PublishHas
    <2> QED
      BY <1>6, <2>1, Zenon DEF PublishEnd, Then, When, IsResult
  <1> QED
    BY <1>2, <1>7, PublishParts, PublishAsRead, Zenon DEF ReadsBack

\* An identifier that qos(AtMostOnce) left behind is read as a part of the payload.
LEMMA PublishLeftId ==
  ASSUME NEW p \in Publish, NEW body, IsWritten(p, body),
         p.flags \cap {"QOS_1", "QOS_2"} = {}, p.pkid # << >>
  PROVE  \E q : ParseOf(BytesOf(p)) = Ok(q, << >>) /\ q # AsRead(p)
  <1>1. PICK r1 : PublishHas(p, body, r1)
    BY PublishBody, Zenon
  <1>2. IsResult(OptionParse(p.flags \cap {"QOS_1", "QOS_2"} # {}, PacketIdParse(r1), r1), << >>, r1)
    BY IsOk, Zenon DEF OptionParse
  <1>3. PICK q : q = [type |-> PUBLISH, flags |-> p.flags, pkid |-> << >>, topic |-> TextChars(p.topic),
                      payload |-> r1]
    OBVIOUS
  <1>4. PublishEnd(HeaderOf(p), TextChars(p.topic), r1, << >>) = Ok(q, << >>)
    <2>1. FlagsIn(PublishBits, HeaderOf(p).flags) = p.flags /\ ~ContainsWildcardChar(TextChars(p.topic))
      BY <1>1, PublishParts, Zenon DEF PublishHas
    <2> QED
      BY <1>2, <1>3, <2>1, Zenon DEF PublishEnd, Then, When, IsResult
  <1>5. q.pkid = << >>
    BY <1>3
  <1>6. AsRead(p).pkid = p.pkid
    BY PublishAsRead
  <1> QED
    BY <1>1, <1>4, <1>5, <1>6, PublishParts, Zenon

----------------------------------------------------------------------------
(* CONNECT.                                                                *)

LEMMA ByteBehind ==
  ASSUME NEW S, NEW a \in Seq(S), NEW f \in S, NEW t \in Seq(S)
  PROVE  Join(a, Join(<<f>>, t))[Len(a) + 1] = f
  BY DEF Join

LEMMA BytesBehind ==
  ASSUME NEW S, NEW a \in Seq(S), NEW u \in Seq(S), NEW r \in Seq(S)
  PROVE  SubSeq(Join(a, Join(u, r)), Len(a) + 1, Len(a) + Len(u)) = u
  BY DEF Join

LEMMA OneByte == ASSUME NEW b \in Byte PROVE <<b>> \in Seq(Byte) /\ Len(<<b>>) = 1
  OBVIOUS

LEMMA JoinOne ==
  ASSUME NEW S, NEW a \in Seq(S), NEW b \in S
  PROVE  Join(a, <<b>>) \in Seq(S) /\ Len(Join(a, <<b>>)) = Len(a) + 1
  BY DEF Join

LEMMA JoinLen ==
  ASSUME NEW S, NEW a \in Seq(S), NEW r \in Seq(S)
  PROVE  Len(Join(a, r)) >= Len(a) /\ Len(Join(a, r)) = Len(a) + Len(r)
  BY DEF Join

\* A connect header is the seven bytes of the name and the level, the flags and
\* the two bytes of the keep alive.
InParts(n, l, f, u) == Join(Join(n, <<l, f>>), u) = Join(Join(Join(n, <<l>>), <<f>>), u)

LEMMA HeaderInParts ==
  ASSUME NEW S, NEW n \in Seq(S), NEW l \in S, NEW f \in S, NEW u \in Seq(S)
  PROVE  InParts(n, l, f, u)
  BY DEF Join, InParts

\* The same of bytes.
LEMMA BytesJoinOne ==
  ASSUME NEW a \in Seq(Byte), NEW b \in Byte
  PROVE  Join(a, <<b>>) \in Seq(Byte) /\ Len(Join(a, <<b>>)) = Len(a) + 1
  BY JoinOne

ByteAt(s, i, b) == s[i] = b

LEMMA BytesByteBehind ==
  ASSUME NEW a \in Seq(Byte), NEW f \in Byte, NEW t \in Seq(Byte)
  PROVE  ByteAt(Join(a, Join(<<f>>, t)), Len(a) + 1, f)
  BY ByteBehind DEF ByteAt

LEMMA SumsTo == 6 + 1 = 7 /\ 7 + 1 = 8 /\ 8 + 1 = 9 /\ 8 + 2 = 10
  OBVIOUS

LEMMA ConnectFlagByte == ASSUME NEW c \in Connect PROVE FlagByte(ConnectBits, c.flags) \in Byte
  <1>1. Len(ConnectBits) = 8 /\ AllBits[8] = 255
    BY DEF ConnectBits, AllBits
  <1>2. FlagByte(ConnectBits, c.flags) \in Nat /\ FlagByte(ConnectBits, c.flags) <= 255
    BY <1>1, FlagByteBound
  <1> QED
    BY <1>2 DEF Byte

LEMMA NameIsBytes == ProtocolName \in Seq(Byte) /\ Len(ProtocolName) = 6 /\ ProtocolLevel \in Byte
  BY DEF ProtocolName, ProtocolLevel, Byte

LEMMA KeepAliveBytes ==
  ASSUME NEW c \in Connect
  PROVE  /\ c.keepalive \in Nat /\ c.keepalive <= MaxU16
         /\ U16(c.keepalive) \in Seq(Byte) /\ Len(U16(c.keepalive)) = 2
  <1>1. c.keepalive \in 0..MaxU16
    BY DEF Connect
  <1>2. c.keepalive \in Nat /\ c.keepalive <= MaxU16
    BY <1>1
  <1> QED
    BY <1>2, U16Bytes

LEMMA ConnectHeaderUndone ==
  ASSUME NEW c \in Connect, "RESERVED" \notin c.flags, NEW r \in Seq(Byte)
  PROVE  ConnectHeaderParse(Join(ConnectHeader(c), r))
           = Ok([flags |-> c.flags, keepalive |-> c.keepalive], r)
  <1>1. c.flags \in SUBSET ConnectFlags
    BY DEF Connect
  <1>2. PICK k \in Nat : k = c.keepalive /\ k <= MaxU16
    BY KeepAliveBytes, Zenon
  <1>3. PICK f \in Byte : f = FlagByte(ConnectBits, c.flags)
    BY ConnectFlagByte, Zenon
  <1>4. PICK u \in Seq(Byte) : u = U16(k) /\ Len(u) = 2
    BY <1>2, KeepAliveBytes, Zenon
  <1>5. PICK n \in Seq(Byte) : n = ProtocolName /\ Len(n) = 6
    BY NameIsBytes, Zenon
  <1>6. PICK l \in Byte : l = ProtocolLevel
    BY NameIsBytes, Zenon
  <1>7. PICK a : a = Join(n, <<l>>)
    OBVIOUS
  <1>8. PICK b : b = Join(a, <<f>>)
    OBVIOUS
  <1>9. PICK h : h = Join(b, u)
    OBVIOUS
  <1>10. /\ a \in Seq(Byte) /\ Len(a) = 7 /\ b \in Seq(Byte) /\ Len(b) = 8 /\ h \in Seq(Byte) /\ Len(h) = 10
         /\ n \o <<l, f>> \o u = h
    <2>1. a \in Seq(Byte) /\ Len(a) = 7
      <3>1. Join(n, <<l>>) \in Seq(Byte) /\ Len(Join(n, <<l>>)) = Len(n) + 1
        BY BytesJoinOne
      <3> QED
        BY <1>5, <1>7, <3>1, SumsTo, Zenon
    <2>2. b \in Seq(Byte) /\ Len(b) = 8
      <3>1. Join(a, <<f>>) \in Seq(Byte) /\ Len(Join(a, <<f>>)) = Len(a) + 1
        BY <2>1, BytesJoinOne
      <3> QED
        BY <1>8, <2>1, <3>1, SumsTo, Zenon
    <2>3. h \in Seq(Byte)
      BY <1>9, <2>2, JoinIsSeq, Zenon
    <2>4. Len(h) = 10
      BY <1>4, <1>9, <2>2, JoinLen, SumsTo, Zenon
    <2>5. Join(Join(n, <<l, f>>), u) = Join(Join(Join(n, <<l>>), <<f>>), u)
      <3>1. InParts(n, l, f, u)
        BY HeaderInParts, Zenon
      <3> QED
        BY <3>1, Zenon DEF InParts
    <2>6. n \o <<l, f>> \o u = Join(Join(n, <<l, f>>), u)
      BY Zenon DEF Join
    <2> QED
      BY <1>7, <1>8, <1>9, <2>1, <2>2, <2>3, <2>4, <2>5, <2>6, Zenon
  <1>11. PICK s : s = Join(h, r)
    OBVIOUS
  <1>12. h = ConnectHeader(c) /\ s = Join(ConnectHeader(c), r)
    BY <1>2, <1>3, <1>4, <1>5, <1>6, <1>10, <1>11, Zenon DEF ConnectHeader
  <1>13. Join(u, r) \in Seq(Byte) /\ <<f>> \in Seq(Byte)
    BY JoinIsSeq, OneByte, Zenon
  <1>14. s = Join(b, Join(u, r))
    <2>1. Join(Join(b, u), r) = Join(b, Join(u, r))
      BY <1>10, BytesAssoc
    <2> QED
      BY <1>9, <1>11, <2>1, Zenon
  <1>15. PICK t : t = Join(u, r)
    OBVIOUS
  <1>16. t \in Seq(Byte) /\ Join(<<f>>, t) \in Seq(Byte)
    BY <1>13, <1>15, JoinIsSeq, Zenon
  <1>17. s = Join(a, Join(<<f>>, t))
    <2>1. Join(Join(a, <<f>>), t) = Join(a, Join(<<f>>, t))
      <3>1. PICK g \in Seq(Byte) : g = <<f>>
        BY <1>13, Zenon
      <3>2. Join(Join(a, g), t) = Join(a, Join(g, t))
        BY <1>10, <1>16, BytesAssoc
      <3> QED
        BY <3>1, <3>2, Zenon
    <2> QED
      BY <1>8, <1>14, <1>15, <2>1, Zenon
  <1>18. Len(s) >= 10
    BY <1>10, <1>11, JoinLen, Zenon
  <1>19. Take(s, 7) = a
    <2>1. Take(Join(a, Join(<<f>>, t)), Len(a)) = a
      BY <1>10, <1>16, TakeJoin, Zenon
    <2> QED
      BY <1>10, <1>17, <2>1, Zenon
  <1>20. s[8] = f
    <2>1. ByteAt(Join(a, Join(<<f>>, t)), Len(a) + 1, f)
      BY <1>10, <1>16, BytesByteBehind, Zenon
    <2> QED
      BY <1>10, <1>17, <2>1, SumsTo, Zenon DEF ByteAt
  <1>21. SubSeq(s, 9, 10) = u
    <2>1. SubSeq(Join(b, Join(u, r)), Len(b) + 1, Len(b) + Len(u)) = u
      BY <1>4, <1>10, BytesBehind, Zenon
    <2> QED
      BY <1>4, <1>10, <1>14, <2>1, SumsTo, Zenon
  <1>22. Drop(s, 10) = r
    <2>1. Drop(Join(h, r), Len(h)) = r
      BY <1>10, DropJoin, Zenon
    <2> QED
      BY <1>10, <1>11, <2>1, Zenon
  <1>23. FromU16(u) = k
    <2>1. << >> \in Seq(Byte)
      OBVIOUS
    <2>2. FromU16(Join(U16(k), << >>)) = k
      BY <1>2, <2>1, U16Undone, Zenon
    <2>3. Join(u, << >>) = u
      BY JoinNone, Zenon
    <2> QED
      BY <1>4, <2>2, <2>3, Zenon
  <1>24. FlagsIn(ConnectBits, f) = c.flags
    BY <1>1, <1>3, ConnectFlagsUndone, Zenon
  <1>25. Take(s, 7) = ProtocolName \o <<ProtocolLevel>>
    BY <1>5, <1>6, <1>7, <1>19, Zenon DEF Join
  <1>26. ConnectHeaderParse(s) = Ok([flags |-> c.flags, keepalive |-> k], r)
    BY <1>18, <1>20, <1>21, <1>22, <1>23, <1>24, <1>25, Zenon DEF ConnectHeaderParse, When, ConnectHeaderLen
  <1> QED
    BY <1>2, <1>12, <1>26, Zenon

LEMMA FiveParts ==
  ASSUME NEW a \in Seq(Byte), NEW b \in Seq(Byte), NEW c \in Seq(Byte), NEW d \in Seq(Byte),
         NEW e \in Seq(Byte)
  PROVE  Join(Join(Join(Join(a, b), c), d), e) = Join(a, Join(b, Join(c, Join(d, e))))
  <1>1. PICK ab \in Seq(Byte) : ab = Join(a, b)
    BY JoinIsSeq, Zenon
  <1>2. PICK de \in Seq(Byte) : de = Join(d, e)
    BY JoinIsSeq, Zenon
  <1>3. PICK abc \in Seq(Byte) : abc = Join(ab, c)
    BY JoinIsSeq, Zenon
  <1>4. PICK cde \in Seq(Byte) : cde = Join(c, de)
    BY JoinIsSeq, Zenon
  <1>5. Join(Join(abc, d), e) = Join(abc, Join(d, e))
    BY BytesAssoc
  <1>6. Join(Join(ab, c), de) = Join(ab, Join(c, de))
    BY BytesAssoc
  <1>7. Join(Join(a, b), cde) = Join(a, Join(b, cde))
    BY BytesAssoc
  <1> QED
    BY <1>1, <1>2, <1>3, <1>4, <1>5, <1>6, <1>7, Zenon

\* The fields of a CONNECT in the order write_sync writes them: in r1 to r4 what
\* is left behind the header, the client id, the will and the user name.
ConnectHas(p, body, r1, r2, r3, r4) ==
    /\ r1 \in Seq(Byte) /\ r2 \in Seq(Byte) /\ r3 \in Seq(Byte) /\ r4 \in Seq(Byte)
    /\ "RESERVED" \notin p.flags /\ body = Join(ConnectHeader(p), r1)
    /\ Clean(StrSteps(p.client_id)) /\ r1 = Join(Out(StrSteps(p.client_id)), r2)
    /\ Clean(ForEach(p.will, WillSteps)) /\ r2 = Join(Out(ForEach(p.will, WillSteps)), r3)
    /\ Clean(ForEach(p.username, StrSteps)) /\ r3 = Join(Out(ForEach(p.username, StrSteps)), r4)
    /\ Clean(ForEach(p.password, BuffSteps)) /\ r4 = Out(ForEach(p.password, BuffSteps))

LEMMA ConnectBody ==
  ASSUME NEW p \in Connect, NEW body, IsWritten(p, body)
  PROVE  \E r1, r2, r3, r4 : ConnectHas(p, body, r1, r2, r3, r4)
  <1>1. /\ p.type = CONNECT /\ p.client_id \in Texts /\ p.will \in Seq(WillMsg)
        /\ p.username \in Seq(Texts) /\ p.password \in Seq(Nat)
    BY DEF Connect, Option
  <1>2. PICK h : h = <<CheckedWrite(ConnectHeader(p), ConnectHeaderValid(p))>>
    OBVIOUS
  <1>3. PICK a : a = StrSteps(p.client_id)
    OBVIOUS
  <1>4. PICK w : w = ForEach(p.will, WillSteps)
    OBVIOUS
  <1>5. PICK u : u = ForEach(p.username, StrSteps)
    OBVIOUS
  <1>6. PICK v : v = ForEach(p.password, BuffSteps)
    OBVIOUS
  <1>7. BodySteps(p) = Join(Join(Join(Join(h, a), w), u), v)
    <2>1. BodySteps(p) = ConnectSteps(p)
      BY <1>1, TypesDiffer DEF BodySteps
    <2> QED
      BY <1>2, <1>3, <1>4, <1>5, <1>6, <2>1, Zenon DEF ConnectSteps, ClientIdSteps, Join
  <1>8. ConnectHeaderValid(p) \in BOOLEAN /\ ConnectHeader(p) \in Seq(Byte) /\ ConnectHeader(p) \in Seq(Nat)
    BY ConnectHeaderIsBytes, Zenon DEF ConnectHeaderValid
  <1>9. /\ CheckedWrite(ConnectHeader(p), ConnectHeaderValid(p)) \in Step
        /\ h \in Seq(Step)
    BY <1>2, <1>8, CheckedIsStep, SizedChecked, Zenon DEF Sized
  <1>10. a \in Seq(Step) /\ w \in Seq(Step) /\ u \in Seq(Step) /\ v \in Seq(Step)
    <2>1. a \in Seq(Step)
      BY <1>1, <1>3, StrSized, Zenon DEF Sized
    <2>2. w \in Seq(Step)
      BY <1>1, <1>4, WillsSized, Zenon DEF Sized
    <2>3. u \in Seq(Step)
      BY <1>1, <1>5, StrsSized, Zenon DEF Sized
    <2>4. v \in Seq(Step)
      BY <1>1, <1>6, BuffsSized, Zenon DEF Sized
    <2> QED
      BY <2>1, <2>2, <2>3, <2>4, Zenon
  <1>11. Join(h, a) \in Seq(Step)
    BY <1>9, <1>10, JoinIsSeq, Zenon
  <1>12. Join(Join(h, a), w) \in Seq(Step)
    BY <1>10, <1>11, JoinIsSeq, Zenon
  <1>13. Join(Join(Join(h, a), w), u) \in Seq(Step)
    BY <1>10, <1>12, JoinIsSeq, Zenon
  <1>14. Clean(Join(Join(Join(h, a), w), u)) /\ Clean(v)
    BY <1>7, <1>10, <1>13, CleanParts, Zenon DEF IsWritten
  <1>15. Clean(Join(Join(h, a), w)) /\ Clean(u)
    BY <1>10, <1>12, <1>14, CleanParts, Zenon
  <1>16. Clean(Join(h, a)) /\ Clean(w)
    BY <1>10, <1>11, <1>15, CleanParts, Zenon
  <1>17. Clean(h) /\ Clean(a)
    BY <1>9, <1>10, <1>16, CleanParts, Zenon
  <1>18. "RESERVED" \notin p.flags /\ Out(h) = ConnectHeader(p)
    <2>1. /\ StepBytes(CheckedWrite(ConnectHeader(p), ConnectHeaderValid(p))) = ConnectHeader(p)
          /\ CheckedWrite(ConnectHeader(p), ConnectHeaderValid(p)).valid = ConnectHeaderValid(p)
      BY <1>8, BytesOfChecked, Zenon
    <2>2. CheckedWrite(ConnectHeader(p), ConnectHeaderValid(p)).valid
      BY <1>2, <1>9, <1>17, CleanOne, Zenon
    <2>3. ConnectHeaderValid(p)
      BY <2>1, <2>2, Zenon
    <2> QED
      BY <1>2, <1>9, <2>1, <2>2, <2>3, OutOne, Zenon DEF ConnectHeaderValid
  <1>19. /\ Out(h) \in Seq(Byte) /\ Out(a) \in Seq(Byte) /\ Out(w) \in Seq(Byte) /\ Out(u) \in Seq(Byte)
         /\ Out(v) \in Seq(Byte)
    BY <1>14, <1>15, <1>16, <1>17, OutIsBytes, Zenon
  <1>20. body = Join(Out(h), Join(Out(a), Join(Out(w), Join(Out(u), Out(v)))))
    <2>1. Out(Join(Join(Join(Join(h, a), w), u), v)) = Join(Out(Join(Join(Join(h, a), w), u)), Out(v))
      BY <1>14, OutJoin, Zenon
    <2>2. Out(Join(Join(Join(h, a), w), u)) = Join(Out(Join(Join(h, a), w)), Out(u))
      BY <1>15, OutJoin, Zenon
    <2>3. Out(Join(Join(h, a), w)) = Join(Out(Join(h, a)), Out(w))
      BY <1>16, OutJoin, Zenon
    <2>4. Out(Join(h, a)) = Join(Out(h), Out(a))
      BY <1>17, OutJoin, Zenon
    <2>5. Join(Join(Join(Join(Out(h), Out(a)), Out(w)), Out(u)), Out(v))
            = Join(Out(h), Join(Out(a), Join(Out(w), Join(Out(u), Out(v)))))
      <3>1. PICK oh \in Seq(Byte), oa \in Seq(Byte), ow \in Seq(Byte), ou \in Seq(Byte), ov \in Seq(Byte) :
              oh = Out(h) /\ oa = Out(a) /\ ow = Out(w) /\ ou = Out(u) /\ ov = Out(v)
        BY <1>19, Zenon
      <3>2. Join(Join(Join(Join(oh, oa), ow), ou), ov) = Join(oh, Join(oa, Join(ow, Join(ou, ov))))
        BY FiveParts
      <3> QED
        BY <3>1, <3>2, Zenon
    <2> QED
      BY <1>7, <2>1, <2>2, <2>3, <2>4, <2>5, Zenon DEF IsWritten
  <1>21. PICK r3 : r3 = Join(Out(u), Out(v))
    OBVIOUS
  <1>22. PICK r2 : r2 = Join(Out(w), r3)
    OBVIOUS
  <1>23. PICK r1 : r1 = Join(Out(a), r2)
    OBVIOUS
  <1>24. r3 \in Seq(Byte)
    BY <1>19, <1>21, JoinIsSeq, Zenon
  <1>25. r2 \in Seq(Byte)
    BY <1>19, <1>22, <1>24, JoinIsSeq, Zenon
  <1>26. r1 \in Seq(Byte)
    BY <1>19, <1>23, <1>25, JoinIsSeq, Zenon
  <1>27. ConnectHas(p, body, r1, r2, r3, Out(v))
    <2>1. body = Join(ConnectHeader(p), r1)
      BY <1>18, <1>20, <1>21, <1>22, <1>23, Zenon
    <2> QED
      BY <1>3, <1>4, <1>5, <1>6, <1>14, <1>15, <1>16, <1>17, <1>18, <1>19, <1>21, <1>22, <1>23,
         <1>24, <1>25, <1>26, <2>1, Zenon DEF ConnectHas
  <1> QED
    BY <1>27, Zenon

ConnectFieldsOf(p) == [flags |-> p.flags, keepalive |-> p.keepalive]

LEMMA ConnectParts ==
  ASSUME NEW p \in Connect, NEW body, IsWritten(p, body), NEW r1, NEW r2, NEW r3, NEW r4,
         ConnectHas(p, body, r1, r2, r3, r4), NEW x, x = BytesOf(p)[1]
  PROVE  /\ PacketTypeOf(x) = CONNECT
         /\ ParseOf(BytesOf(p)) = FromClientId(x, ConnectFieldsOf(p), r1)
         /\ IsResult(StrParse(r1), TextChars(p.client_id), r2)
  <1>1. p.type = CONNECT /\ p.client_id \in Texts
    BY DEF Connect
  <1>2. PICK s : s = BytesOf(p)
    OBVIOUS
  <1>3. /\ Len(s) # 0 /\ ParseType(s[1]) /\ PacketTypeOf(s[1]) = CONNECT
        /\ HeaderParse(s) = Ok(HeaderOf(p), body)
    BY <1>1, <1>2, WrittenHeader, Zenon
  <1>4. ParseOf(s) = ConnectParse(s)
    BY <1>3, ParserOf, Zenon
  <1>5. IsResult(HeaderParse(s), HeaderOf(p), body)
    BY <1>3, IsOk, Zenon
  <1>6. IsResult(ConnectHeaderParse(body), ConnectFieldsOf(p), r1)
    BY ConnectHeaderUndone, IsOk, Zenon DEF ConnectHas, ConnectFieldsOf
  <1>7. ConnectParse(s) = Then(HeaderParse(s), LAMBDA h, d : FromConnectHeader(s[1], d))
    BY Zenon DEF ConnectParse, FromConnectHeader, FromClientId, FromWill, FromUsername, FromPassword,
                 Then, When
  <1>8. ConnectParse(s) = FromConnectHeader(s[1], body)
    BY <1>5, <1>7, Zenon DEF Then, IsResult
  <1>9. FromConnectHeader(s[1], body) = FromClientId(s[1], ConnectFieldsOf(p), r1)
    BY <1>6, Zenon DEF FromConnectHeader, Then, IsResult
  <1>10. IsResult(StrParse(r1), TextChars(p.client_id), r2)
    BY <1>1, StrWhole, IsOk, Zenon DEF ConnectHas
  <1> QED
    BY <1>2, <1>3, <1>4, <1>8, <1>9, <1>10, Zenon

\* Every flag of a CONNECT announces its field.
FlagsAnnounce(p) ==
    /\ "WILL_FLAG" \in p.flags <=> p.will # << >>
    /\ "USERNAME" \in p.flags <=> p.username # << >>
    /\ "PASSWORD" \in p.flags <=> p.password # << >>

LEMMA ConnectUndone ==
  ASSUME NEW p \in Connect, NEW body, IsWritten(p, body), FlagsAnnounce(p),
         ClientIdReadable(TextChars(p.client_id))
  PROVE  ReadsBack(p)
  <1>1. /\ p.will \in Option(WillMsg) /\ p.username \in Option(Texts) /\ p.password \in Option(Nat)
        /\ ConnectFieldsOf(p).flags = p.flags /\ ConnectFieldsOf(p).keepalive = p.keepalive
    BY DEF Connect, ConnectFieldsOf
  <1>2. PICK r1, r2, r3, r4 : ConnectHas(p, body, r1, r2, r3, r4)
    BY ConnectBody, Zenon
  <1>3. PICK x : x = BytesOf(p)[1]
    OBVIOUS
  <1>4. /\ PacketTypeOf(x) = CONNECT
        /\ ParseOf(BytesOf(p)) = FromClientId(x, ConnectFieldsOf(p), r1)
        /\ IsResult(StrParse(r1), TextChars(p.client_id), r2)
    BY <1>2, <1>3, ConnectParts, Zenon
  <1>5. PICK id, will, name, word : /\ id = TextChars(p.client_id) /\ will = WillEach(p.will)
                                    /\ name = TopicListAsRead(p.username) /\ word = LettersEach(p.password)
    OBVIOUS
  <1>6. PICK h : h = ConnectFieldsOf(p)
    OBVIOUS
  <1>7. FromClientId(x, h, r1) = FromWill(x, h, id, r2)
    <2>1. ClientIdParse(r1) = Ok(id, r2)
      BY <1>4, <1>5, Zenon DEF ClientIdParse, Then, When, IsResult
    <2>2. IsResult(ClientIdParse(r1), id, r2)
      BY <2>1, IsOk, Zenon
    <2> QED
      BY <2>2, Zenon DEF FromClientId, Then, IsResult
  <1>8. FromWill(x, h, id, r2) = FromUsername(x, h, id, will, r3)
    <2>1. OptionParse(p.will # << >>, WillParse(r2), r2) = Ok(will, r3)
      <3>1. /\ Clean(ForEach(p.will, WillSteps)) /\ r3 \in Seq(Byte)
            /\ r2 = Join(Out(ForEach(p.will, WillSteps)), r3)
        BY <1>2, Zenon DEF ConnectHas
      <3>2. OptionParse(p.will # << >>, WillParse(r2), r2) = Ok([i \in 1..Len(p.will) |-> WillAsRead(p.will[i])], r3)
        BY <1>1, <3>1, WillOptionUndone, Zenon
      <3> QED
        BY <1>5, <3>2, Zenon DEF WillEach
    <2>2. OptionParse("WILL_FLAG" \in h.flags, WillParse(r2), r2)
            = OptionParse(p.will # << >>, WillParse(r2), r2)
      <3>1. h.flags = p.flags
        BY <1>1, <1>6, Zenon
      <3>2. "WILL_FLAG" \in p.flags <=> p.will # << >>
        BY Zenon DEF FlagsAnnounce
      <3> QED
        BY <3>1, <3>2, Zenon DEF OptionParse
    <2>3. IsResult(OptionParse("WILL_FLAG" \in h.flags, WillParse(r2), r2), will, r3)
      BY <2>1, <2>2, IsOk, Zenon
    <2> QED
      BY <2>3, Zenon DEF FromWill, Then, IsResult
  <1>9. FromUsername(x, h, id, will, r3) = FromPassword(x, h, id, will, name, r4)
    <2>1. OptionParse(p.username # << >>, StrParse(r3), r3) = Ok(name, r4)
      <3>1. /\ Clean(ForEach(p.username, StrSteps)) /\ r4 \in Seq(Byte)
            /\ r3 = Join(Out(ForEach(p.username, StrSteps)), r4)
        BY <1>2, Zenon DEF ConnectHas
      <3>2. OptionParse(p.username # << >>, StrParse(r3), r3) = Ok([i \in 1..Len(p.username) |-> TextChars(p.username[i])], r4)
        BY <1>1, <3>1, StrOptionUndone, Zenon
      <3> QED
        BY <1>5, <3>2, Zenon DEF TopicListAsRead
    <2>2. OptionParse("USERNAME" \in h.flags, StrParse(r3), r3)
            = OptionParse(p.username # << >>, StrParse(r3), r3)
      <3>1. h.flags = p.flags
        BY <1>1, <1>6, Zenon
      <3>2. "USERNAME" \in p.flags <=> p.username # << >>
        BY Zenon DEF FlagsAnnounce
      <3> QED
        BY <3>1, <3>2, Zenon DEF OptionParse
    <2>3. IsResult(OptionParse("USERNAME" \in h.flags, StrParse(r3), r3), name, r4)
      BY <2>1, <2>2, IsOk, Zenon
    <2> QED
      BY <2>3, Zenon DEF FromUsername, Then, IsResult
  <1>10. FromPassword(x, h, id, will, name, r4)
           = Ok([type |-> CONNECT, flags |-> p.flags, keepalive |-> p.keepalive, client_id |-> id,
                 will |-> will, username |-> name, password |-> word], << >>)
    <2>1. r4 = Join(Out(ForEach(p.password, BuffSteps)), << >>) /\ Clean(ForEach(p.password, BuffSteps))
      BY <1>2, JoinNone, Zenon DEF ConnectHas
    <2>2. << >> \in Seq(Byte)
      OBVIOUS
    <2>3. OptionParse(p.password # << >>, BuffParse(r4), r4) = Ok(word, << >>)
      BY <1>1, <1>5, <2>1, <2>2, BuffOptionUndone, Zenon DEF LettersEach
    <2>4. OptionParse("PASSWORD" \in h.flags, BuffParse(r4), r4)
            = OptionParse(p.password # << >>, BuffParse(r4), r4)
      <3>1. h.flags = p.flags
        BY <1>1, <1>6, Zenon
      <3>2. "PASSWORD" \in p.flags <=> p.password # << >>
        BY Zenon DEF FlagsAnnounce
      <3> QED
        BY <3>1, <3>2, Zenon DEF OptionParse
    <2>5. IsResult(OptionParse("PASSWORD" \in h.flags, BuffParse(r4), r4), word, << >>)
      BY <2>3, <2>4, IsOk, Zenon
    <2> QED
      BY <1>1, <1>4, <1>6, <2>5, Zenon DEF FromPassword, Then, When, IsResult
  <1> QED
    BY <1>4, <1>5, <1>6, <1>7, <1>8, <1>9, <1>10, ConnectAsRead, Zenon DEF ReadsBack

LEMMA ConnectUnreadable ==
  ASSUME NEW p \in Connect, NEW body, IsWritten(p, body), ~ClientIdReadable(TextChars(p.client_id))
  PROVE  ParseOf(BytesOf(p)) = Err
  <1>1. PICK r1, r2, r3, r4 : ConnectHas(p, body, r1, r2, r3, r4)
    BY ConnectBody, Zenon
  <1>2. PICK x : x = BytesOf(p)[1]
    OBVIOUS
  <1>3. /\ ParseOf(BytesOf(p)) = FromClientId(x, ConnectFieldsOf(p), r1)
        /\ IsResult(StrParse(r1), TextChars(p.client_id), r2)
    BY <1>1, <1>2, ConnectParts, Zenon
  <1>4. ClientIdParse(r1) = Err
    BY <1>3, Zenon DEF ClientIdParse, Then, When, IsResult
  <1>5. ~ClientIdParse(r1).ok
    BY <1>4, ErrIs, Zenon
  <1> QED
    BY <1>3, <1>5, Zenon DEF FromClientId, Then

----------------------------------------------------------------------------
(* What consume makes of a written packet.                                 *)

LEMMA ConsumeBack ==
  ASSUME NEW s, NEW q, ParseOf(s) = Ok(q, << >>)
  PROVE  Consume(s) = Ok(q, << >>)
  <1>1. IsResult(ParseOf(s), q, << >>)
    BY IsOk, Zenon
  <1> QED
    BY <1>1, Zenon DEF Consume, Then, When, IsResult

LEMMA OkIsOne ==
  ASSUME NEW a, NEW b, a # b
  PROVE  Ok(a, << >>) # Ok(b, << >>)
  <1>1. Ok(a, << >>).out = a /\ Ok(b, << >>).out = b
    BY OkIs, Zenon
  <1> QED
    BY <1>1, Zenon

LEMMA ConsumeErr ==
  ASSUME NEW s, NEW a, ParseOf(s) = Err
  PROVE  Consume(s) # Ok(a, << >>)
  <1>1. ~ParseOf(s).ok
    BY ErrIs, Zenon
  <1>2. Consume(s) = Err
    BY <1>1, Zenon DEF Consume, Then
  <1>3. Ok(a, << >>).ok
    BY OkIs, Zenon
  <1> QED
    BY <1>2, <1>3, ErrIs, Zenon

\* Every flag announces the field that follows it, whatever calls the builder
\* got.  After qos(AtMostOnce) a PUBLISH may hold an identifier all the same.
Announced ==
    /\ built.type = CONNECT => FlagsAnnounce(built)
    /\ built.type = PUBLISH /\ asked # 0 => built.pkid # << >>

\* The wire of a packet that is built is what write_sync wrote of it.
Written == built # Nothing /\ wire # << >> => wire = BytesOf(built) /\ Encodes(built)

\* RoundTrip of the packet itself.
RoundTrips(p) == Consume(BytesOf(p)) = Ok(AsRead(p), << >>) <=> ~Unreadable(p)

LEMMA Readable ==
  ASSUME NEW p, ReadsBack(p), ~Unreadable(p)
  PROVE  RoundTrips(p)
  BY ConsumeBack, Zenon DEF ReadsBack, RoundTrips

LEMMA ConnectRoundTrip ==
  ASSUME NEW p \in Connect, Encodes(p), FlagsAnnounce(p)
  PROVE  RoundTrips(p)
  <1>1. p.type = CONNECT /\ p.type # PUBLISH /\ p.type # CONNACK /\ p \in HeaderPackets
    BY TypesDiffer DEF Connect, HeaderPackets
  <1>2. PICK body : IsWritten(p, body)
    BY <1>1, PacketBytes, Zenon
  <1>3. CASE ClientIdReadable(TextChars(p.client_id))
    <2>1. ReadsBack(p)
      BY <1>2, <1>3, ConnectUndone, Zenon
    <2>2. ~Unreadable(p)
      BY <1>1, <1>3, Zenon DEF Unreadable
    <2> QED
      BY <2>1, <2>2, Readable, Zenon
  <1>4. CASE ~ClientIdReadable(TextChars(p.client_id))
    <2>1. ParseOf(BytesOf(p)) = Err
      BY <1>2, <1>4, ConnectUnreadable, Zenon
    <2>2. Unreadable(p)
      BY <1>1, <1>4, Zenon DEF Unreadable
    <2> QED
      BY <2>1, <2>2, ConsumeErr, Zenon DEF RoundTrips
  <1> QED
    BY <1>3, <1>4, Zenon

LEMMA PublishRoundTrip ==
  ASSUME NEW p \in Publish, Encodes(p),
         p.flags \cap {"QOS_1", "QOS_2"} # {} <=> asked # 0, asked # 0 => p.pkid # << >>
  PROVE  RoundTrips(p)
  <1>1. p.type = PUBLISH /\ p.type # CONNECT /\ p.type # CONNACK /\ p \in HeaderPackets
    BY TypesDiffer DEF Publish, HeaderPackets
  <1>2. PICK body : IsWritten(p, body)
    BY <1>1, PacketBytes, Zenon
  <1>3. CASE p.flags \cap {"QOS_1", "QOS_2"} # {} <=> p.pkid # << >>
    <2>1. ReadsBack(p)
      BY <1>2, <1>3, PublishUndone, Zenon
    <2>2. ~Unreadable(p)
      BY <1>1, <1>3, Zenon DEF Unreadable
    <2> QED
      BY <2>1, <2>2, Readable, Zenon
  <1>4. CASE ~(p.flags \cap {"QOS_1", "QOS_2"} # {} <=> p.pkid # << >>)
    <2>1. p.flags \cap {"QOS_1", "QOS_2"} = {} /\ p.pkid # << >> /\ asked = 0
      BY <1>4, Zenon
    <2>2. PICK q : ParseOf(BytesOf(p)) = Ok(q, << >>) /\ q # AsRead(p)
      BY <1>2, <2>1, PublishLeftId, Zenon
    <2>3. Unreadable(p)
      BY <1>1, <2>1, Zenon DEF Unreadable
    <2>4. Consume(BytesOf(p)) = Ok(q, << >>) /\ Ok(q, << >>) # Ok(AsRead(p), << >>)
      BY <2>2, ConsumeBack, OkIsOne, Zenon
    <2> QED
      BY <2>3, <2>4, Zenon DEF RoundTrips
  <1> QED
    BY <1>3, <1>4, Zenon

LEMMA ConnAckRoundTrip ==
  ASSUME NEW p \in ConnAck, Encodes(p)
  PROVE  RoundTrips(p)
  <1>1. p.type = CONNACK
    BY DEF ConnAck
  <1>2. Unreadable(p) /\ ParseOf(BytesOf(p)) = Err
    BY <1>1, ConnAckUnreadable, Zenon DEF Unreadable
  <1> QED
    BY <1>2, ConsumeErr, Zenon DEF RoundTrips

\* The other packets always read back.
LEMMA OtherRoundTrip ==
  ASSUME NEW p \in HeaderPackets, Encodes(p), p \notin Connect, p \notin Publish
  PROVE  RoundTrips(p)
  <1>1. PICK body : IsWritten(p, body)
    BY PacketBytes, Zenon
  <1>2. p.type # CONNECT /\ p.type # PUBLISH /\ p.type # CONNACK
    BY PacketKinds
  <1>3. ~Unreadable(p)
    BY <1>2, Zenon DEF Unreadable
  <1>4. CASE p \in Subscribe
    BY <1>1, <1>3, <1>4, SubscribeUndone, Readable, Zenon
  <1>5. CASE p \in Unsubscribe
    BY <1>1, <1>3, <1>5, UnsubscribeUndone, Readable, Zenon
  <1>6. CASE p \in PacketIdOnly
    BY <1>1, <1>3, <1>6, AckUndone, Readable, Zenon
  <1>7. CASE p \in SubAck
    BY <1>1, <1>3, <1>7, SubAckUndone, Readable, Zenon
  <1>8. CASE p \in {PingReqPacket, PingRespPacket, DisconnectPacket}
    BY <1>1, <1>3, <1>8, EmptyUndone, Readable, Zenon
  <1> QED
    BY <1>4, <1>5, <1>6, <1>7, <1>8, Zenon DEF HeaderPackets

(* A SUBSCRIBE, an UNSUBSCRIBE, an acknowledgement, a SUBACK or a packet   *)
(* without a body, whoever made it and however long its list is, is read   *)
(* back by the parser of its type as it was, once write_sync lets it pass. *)
THEOREM OthersReadBack ==
  ASSUME NEW p \in HeaderPackets, Encodes(p), p \notin Connect, p \notin Publish
  PROVE  Consume(BytesOf(p)) = Ok(AsRead(p), << >>)
  <1>1. p.type # CONNECT /\ p.type # PUBLISH /\ p.type # CONNACK
    BY PacketKinds
  <1> QED
    BY <1>1, OtherRoundTrip, Zenon DEF RoundTrips, Unreadable

LEMMA RoundTripHolds ==
  ASSUME IInv, Announced, Written
  PROVE  RoundTrip
  <1> SUFFICES ASSUME built # Nothing, wire # << >>
               PROVE  Consume(wire) = Ok(AsRead(built), << >>) <=> ~Unreadable(built)
    BY Zenon DEF RoundTrip
  <1>1. wire = BytesOf(built) /\ Encodes(built)
    BY Zenon DEF Written
  <1>2. built \in HeaderPackets \/ built \in ConnAck
    BY BuiltKinds, Zenon DEF IInv
  <1>3. RoundTrips(built)
    <2>1. CASE built \in ConnAck
      BY <1>1, <2>1, ConnAckRoundTrip, Zenon
    <2>2. CASE built \in Connect
      <3>1. built.type = CONNECT
        BY <2>2 DEF Connect
      <3> QED
        BY <1>1, <2>2, <3>1, ConnectRoundTrip, Zenon DEF Announced
    <2>3. CASE built \in Publish
      <3>1. built.type = PUBLISH
        BY <2>3 DEF Publish
      <3>2. asked # 0 => built.pkid # << >>
        BY <3>1, Zenon DEF Announced
      <3>3. built.flags \cap {"QOS_1", "QOS_2"} # {} <=> asked # 0
        <4>1. asked = 0 \/ asked = 1 \/ asked = 2
          BY DEF IInv, TypeOK, RequestedQos
        <4>2. ("QOS_1" \in built.flags <=> asked = 1) /\ ("QOS_2" \in built.flags <=> asked = 2)
          BY <3>1, Zenon DEF IInv, QosAsAsked
        <4> QED
          BY <4>1, <4>2
      <3> QED
        BY <1>1, <2>3, <3>2, <3>3, PublishRoundTrip, Zenon
    <2>4. CASE built \in HeaderPackets /\ built \notin Connect /\ built \notin Publish
      BY <1>1, <2>4, OtherRoundTrip, Zenon
    <2> QED
      BY <1>2, <2>1, <2>2, <2>3, <2>4, Zenon
  <1> QED
    BY <1>1, <1>3, Zenon DEF RoundTrips

----------------------------------------------------------------------------
(* The flags announce the fields, and the wire holds what was written.     *)

LEMMA WrittenInit == Init => Announced /\ Written
  <1> SUFFICES ASSUME Init PROVE Announced /\ Written
    OBVIOUS
  <1>1. built = Nothing
    BY DEF Init, BuilderInit
  <1>2. built.type # CONNECT /\ built.type # PUBLISH
    BY <1>1, TypeOfNothing
  <1> QED
    BY <1>1, <1>2, Zenon DEF Announced, Written

\* A call that makes a packet other than a CONNECT or a PUBLISH.
LEMMA AnnouncesNothing ==
  ASSUME built'.type # CONNECT, built'.type # PUBLISH
  PROVE  Announced'
  BY Zenon DEF Announced

LEMMA ConnectAnnounces ==
  ASSUME built'.type = CONNECT,
         "WILL_FLAG" \in built'.flags <=> built'.will # << >>,
         "USERNAME" \in built'.flags <=> built'.username # << >>,
         "PASSWORD" \in built'.flags <=> built'.password # << >>
  PROVE  Announced'
  <1>1. built'.type # PUBLISH
    BY TypesDiffer
  <1> QED
    BY <1>1, Zenon DEF Announced, FlagsAnnounce

LEMMA PublishAnnounces ==
  ASSUME built'.type = PUBLISH, asked' # 0 => built'.pkid # << >>
  PROVE  Announced'
  <1>1. built'.type # CONNECT
    BY TypesDiffer
  <1> QED
    BY <1>1, Zenon DEF Announced

LEMMA BuilderAnnounces ==
  ASSUME IInv, Announced, BuilderCall
  PROVE  Announced'
  <1>1. ASSUME NEW id \in ClientIds, CreateConnect(id) PROVE Announced'
    <2>1. built' = [type |-> CONNECT, flags |-> {}, keepalive |-> DefaultKeepAlive,
                    client_id |-> id, will |-> << >>, username |-> << >>, password |-> << >>]
      BY <1>1, Zenon DEF CreateConnect, NoConnect
    <2>2. /\ built'.type = CONNECT /\ built'.flags = {} /\ built'.will = << >>
          /\ built'.username = << >> /\ built'.password = << >>
      BY <2>1
    <2> QED
      BY <2>2, ConnectAnnounces, Zenon
  <1>2. CASE WithEmptyClientId
    <2>1. built' = [type |-> CONNECT, flags |-> {"CLEAN_SESSION"}, keepalive |-> DefaultKeepAlive,
                    client_id |-> EmptyText, will |-> << >>, username |-> << >>,
                    password |-> << >>]
      BY <1>2 DEF WithEmptyClientId, NoConnect
    <2>2. /\ built'.type = CONNECT /\ built'.flags = {"CLEAN_SESSION"} /\ built'.will = << >>
          /\ built'.username = << >> /\ built'.password = << >>
      BY <2>1
    <2>3. "WILL_FLAG" \notin built'.flags /\ "USERNAME" \notin built'.flags /\ "PASSWORD" \notin built'.flags
      BY <2>2
    <2> QED
      BY <2>2, <2>3, ConnectAnnounces, Zenon
  <1>3. ASSUME built.type = CONNECT
        PROVE  /\ built \in Connect
               /\ "WILL_FLAG" \in built.flags <=> built.will # << >>
               /\ "USERNAME" \in built.flags <=> built.username # << >>
               /\ "PASSWORD" \in built.flags <=> built.password # << >>
    <2>1. built \in Connect
      BY <1>3, BuiltKinds, Zenon DEF IInv
    <2> QED
      BY <1>3, <2>1, Zenon DEF Announced, FlagsAnnounce
  <1>4. CASE CleanSession
    <2>1. /\ built.type = CONNECT
          /\ built' = [built EXCEPT !.flags = @ \cup {"CLEAN_SESSION"}]
      BY <1>4 DEF CleanSession
    <2>2. /\ built'.type = CONNECT /\ built'.flags = built.flags \cup {"CLEAN_SESSION"}
          /\ built'.will = built.will /\ built'.username = built.username
          /\ built'.password = built.password
      BY <1>3, <2>1 DEF Connect
    <2>3. /\ "WILL_FLAG" \in built'.flags <=> "WILL_FLAG" \in built.flags
          /\ "USERNAME" \in built'.flags <=> "USERNAME" \in built.flags
          /\ "PASSWORD" \in built'.flags <=> "PASSWORD" \in built.flags
      BY <2>2
    <2> QED
      BY <1>3, <2>1, <2>2, <2>3, ConnectAnnounces, Zenon
  <1>5. ASSUME NEW k \in Seconds, Keepalive(k) PROVE Announced'
    <2>1. built.type = CONNECT /\ built' = [built EXCEPT !.keepalive = k]
      BY <1>5 DEF Keepalive
    <2>2. /\ built'.type = CONNECT /\ built'.flags = built.flags
          /\ built'.will = built.will /\ built'.username = built.username
          /\ built'.password = built.password
      BY <1>3, <2>1 DEF Connect
    <2> QED
      BY <1>3, <2>1, <2>2, ConnectAnnounces, Zenon
  <1>6. ASSUME NEW t \in Names, NEW n \in Data, NEW q \in 0..2, NEW r \in BOOLEAN, Will(t, n, q, r)
        PROVE  Announced'
    <2>1. /\ built.type = CONNECT
          /\ built' = [built EXCEPT !.will = <<[topic |-> t, message |-> n]>>,
                                    !.flags = WillFlags(@, q, r)]
      BY <1>6 DEF Will
    <2>2. /\ built'.type = CONNECT /\ built'.flags = WillFlags(built.flags, q, r)
          /\ built'.will = <<[topic |-> t, message |-> n]>> /\ built'.username = built.username
          /\ built'.password = built.password
      BY <1>3, <2>1 DEF Connect
    <2>3. /\ "WILL_FLAG" \in WillFlags(built.flags, q, r)
          /\ "USERNAME" \in WillFlags(built.flags, q, r) <=> "USERNAME" \in built.flags
          /\ "PASSWORD" \in WillFlags(built.flags, q, r) <=> "PASSWORD" \in built.flags
      BY DEF WillFlags, WillQos
    <2>4. <<[topic |-> t, message |-> n]>> # << >>
      OBVIOUS
    <2> QED
      BY <1>3, <2>1, <2>2, <2>3, <2>4, ConnectAnnounces, Zenon
  <1>7. ASSUME NEW u \in Names, Username(u) PROVE Announced'
    <2>1. /\ built.type = CONNECT
          /\ built' = [built EXCEPT !.username = <<u>>, !.flags = @ \cup {"USERNAME"}]
      BY <1>7 DEF Username
    <2>2. /\ built'.type = CONNECT /\ built'.flags = built.flags \cup {"USERNAME"}
          /\ built'.will = built.will /\ built'.username = <<u>>
          /\ built'.password = built.password
      BY <1>3, <2>1 DEF Connect
    <2>3. /\ "WILL_FLAG" \in built'.flags <=> "WILL_FLAG" \in built.flags
          /\ "USERNAME" \in built'.flags
          /\ "PASSWORD" \in built'.flags <=> "PASSWORD" \in built.flags
      BY <2>2
    <2>4. <<u>> # << >>
      OBVIOUS
    <2> QED
      BY <1>3, <2>1, <2>2, <2>3, <2>4, ConnectAnnounces, Zenon
  <1>8. ASSUME NEW u \in Names, NEW n \in Data, UsernamePassword(u, n) PROVE Announced'
    <2>1. /\ built.type = CONNECT
          /\ built' = [built EXCEPT !.username = <<u>>, !.password = <<n>>,
                                    !.flags = @ \cup {"USERNAME", "PASSWORD"}]
      BY <1>8 DEF UsernamePassword
    <2>2. /\ built'.type = CONNECT /\ built'.flags = built.flags \cup {"USERNAME", "PASSWORD"}
          /\ built'.will = built.will /\ built'.username = <<u>> /\ built'.password = <<n>>
      BY <1>3, <2>1 DEF Connect
    <2>3. /\ "WILL_FLAG" \in built'.flags <=> "WILL_FLAG" \in built.flags
          /\ "USERNAME" \in built'.flags /\ "PASSWORD" \in built'.flags
      BY <2>2
    <2>4. <<u>> # << >> /\ <<n>> # << >>
      OBVIOUS
    <2> QED
      BY <1>3, <2>1, <2>2, <2>3, <2>4, ConnectAnnounces, Zenon
  <1>9. ASSUME NEW t \in Topics, NEW n \in Payloads, NewPublish(t, n) PROVE Announced'
    <2>1. built = Nothing /\ asked' = asked /\ built'.type = PUBLISH
      BY <1>9 DEF NewPublish
    <2>2. asked' = 0
      BY <2>1, Zenon DEF IInv, NothingAsked
    <2> QED
      BY <2>1, <2>2, PublishAnnounces, Zenon
  <1>10. ASSUME built.type = PUBLISH PROVE built \in Publish /\ (asked # 0 => built.pkid # << >>)
    BY <1>10, BuiltKinds, Zenon DEF IInv, Announced
  <1>11. CASE Retain
    <2>1. built.type = PUBLISH /\ asked' = asked /\ built' = [built EXCEPT !.flags = @ \cup {"RETAIN"}]
      BY <1>11 DEF Retain
    <2>2. built'.type = PUBLISH /\ built'.pkid = built.pkid
      BY <1>10, <2>1 DEF Publish
    <2> QED
      BY <1>10, <2>1, <2>2, PublishAnnounces, Zenon
  <1>12. ASSUME NEW q \in 1..2, NEW d \in BOOLEAN, NEW id \in PacketIds, SetQos(q, d, id) PROVE Announced'
    <2>1. built.type = PUBLISH /\ built' = [built EXCEPT !.pkid = <<id>>, !.flags = QosFlags(@, q, d)]
      BY <1>12 DEF SetQos
    <2>2. built'.type = PUBLISH /\ built'.pkid = <<id>>
      BY <1>10, <2>1 DEF Publish
    <2>3. <<id>> # << >>
      OBVIOUS
    <2> QED
      BY <2>2, <2>3, PublishAnnounces, Zenon
  <1>13. CASE ResetQos
    <2>1. built.type = PUBLISH /\ asked' = 0 /\ built' = [built EXCEPT !.flags = @ \ {"QOS_1", "QOS_2"}]
      BY <1>13 DEF ResetQos
    <2>2. built'.type = PUBLISH
      BY <1>10, <2>1 DEF Publish
    <2> QED
      BY <2>1, <2>2, PublishAnnounces, Zenon
  <1>14. ASSUME NEW id \in PacketIds, NEW fs \in UpToTwo(Filters), NewSubscribe(id, fs) PROVE Announced'
    <2>1. built'.type = SUBSCRIBE
      BY <1>14 DEF NewSubscribe
    <2> QED
      BY <2>1, TypesDiffer, AnnouncesNothing
  <1>15. ASSUME NEW id \in PacketIds, NEW ts \in UpToTwo(Topics), NewUnsubscribe(id, ts) PROVE Announced'
    <2>1. built'.type = UNSUBSCRIBE
      BY <1>15 DEF NewUnsubscribe
    <2> QED
      BY <2>1, TypesDiffer, AnnouncesNothing
  <1> QED
    BY <1>1, <1>2, <1>4, <1>5, <1>6, <1>7, <1>8, <1>9, <1>11, <1>12, <1>13, <1>14, <1>15
       DEF BuilderCall

LEMMA ServerAnnounces ==
  ASSUME ServerCall
  PROVE  Announced'
  <1>1. built'.type \notin {CONNECT, PUBLISH}
    <2>1. ASSUME NEW a \in 0..1, NEW c \in ReturnCodes,
                 NewServerPacket([type |-> CONNACK, session |-> a, code |-> c])
          PROVE  built'.type \notin {CONNECT, PUBLISH}
      BY <2>1, TypesDiffer DEF NewServerPacket
    <2>2. ASSUME NEW t \in Acks, NEW id \in PacketIds, NewServerPacket([type |-> t, pkid |-> id])
          PROVE  built'.type \notin {CONNECT, PUBLISH}
      BY <2>2, TypesDiffer DEF NewServerPacket
    <2>3. ASSUME NEW id \in PacketIds, NEW cs \in UpToTwo(Codes),
                 NewServerPacket([type |-> SUBACK, pkid |-> id, codes |-> cs])
          PROVE  built'.type \notin {CONNECT, PUBLISH}
      BY <2>3, TypesDiffer DEF NewServerPacket
    <2>4. ASSUME NEW p \in {PingReqPacket, PingRespPacket, DisconnectPacket}, NewServerPacket(p)
          PROVE  built'.type \notin {CONNECT, PUBLISH}
      BY <2>4 DEF NewServerPacket, PingReqPacket, PingRespPacket, DisconnectPacket, PINGREQ, PINGRESP,
                  DISCONNECT, CONNECT, PUBLISH
    <2> QED
      BY <2>1, <2>2, <2>3, <2>4, Zenon DEF ServerCall
  <1> QED
    BY <1>1, AnnouncesNothing

LEMMA FromPeerWrites ==
  ASSUME NEW w, FromPeer(w)
  PROVE  Announced' /\ Written'
  <1>1. built' = Nothing
    BY DEF FromPeer
  <1>2. built'.type # CONNECT /\ built'.type # PUBLISH
    BY <1>1, TypeOfNothing
  <1> QED
    BY <1>1, <1>2, AnnouncesNothing, Zenon DEF Written

LEMMA NextWritten == IInv /\ Announced /\ Written /\ [Next]_vars => Announced' /\ Written'
  <1> SUFFICES ASSUME IInv, Announced, Written, [Next]_vars PROVE Announced' /\ Written'
    OBVIOUS
  <1>1. CASE Call
    <2>1. Announced'
      BY <1>1, BuilderAnnounces, ServerAnnounces, Zenon DEF Call
    <2>2. wire' = << >>
      BY <1>1 DEF Call
    <2> QED
      BY <2>1, <2>2, Zenon DEF Written
  <1>2. CASE WriteSync
    <2>1. built' = built /\ asked' = asked /\ wire' = BytesOf(built) /\ Encodes(built)
      BY <1>2 DEF WriteSync, builderVars
    <2> QED
      BY <2>1, Zenon DEF Announced, Written
  <1>3. CASE Alter
    BY <1>3, FromPeerWrites, Zenon DEF Alter
  <1>4. CASE Receive
    BY <1>4, FromPeerWrites, Zenon DEF Receive
  <1>5. CASE UNCHANGED vars
    <2>1. built' = built /\ asked' = asked /\ wire' = wire
      BY <1>5 DEF vars
    <2> QED
      BY <2>1, Zenon DEF Announced, Written
  <1> QED
    BY <1>1, <1>2, <1>3, <1>4, <1>5 DEF Next

(* A packet that write_sync writes reads back through consume as what the  *)
(* calls of its builder made, whatever these calls are and for strings and *)
(* payloads of any length: every flag announces the field that follows it, *)
(* and every encoder is undone by the parser of its type.  The packets of  *)
(* Unreadable (a client id its own parser refuses, an identifier that      *)
(* qos(AtMostOnce) left behind, a CONNACK without its fixed header) are    *)
(* the only exceptions, and every one of them fails to read back.          *)
THEOREM CodecRoundTrip == Spec => []RoundTrip
  <1>1. Spec => [](Announced /\ Written)
    BY AlwaysIInv, WrittenInit, NextWritten, PTL DEF Spec
  <1> QED
    BY <1>1, AlwaysIInv, RoundTripHolds, PTL
=============================================================================
