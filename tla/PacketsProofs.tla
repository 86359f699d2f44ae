--------------------------- MODULE PacketsProofs ---------------------------
(***************************************************************************)
(* Sums and concatenations of any length, and what follows from them for   *)
(* the encoders: encode_len and write_sync agree on every packet.          *)
(***************************************************************************)
EXTENDS Packets, FixedHeaderProofs, SequenceTheorems, WellFoundedInduction

----------------------------------------------------------------------------
(* Induction.  The induction theorems of the library take a predicate as a *)
(* parameter; here a set takes its place.                                  *)

Less == {ss \in Nat \X Nat : ss[1] < ss[2]}

LEMMA LessIsWellFounded == IsWellFoundedOn(Less, Nat)
  BY NatLessThanWellFounded DEF OpToRel, Less

LEMMA LeastElement ==
  ASSUME NEW S \in SUBSET Nat, S # {}
  PROVE  \E n \in S : \A m \in S : n <= m
  <1>1. \E x \in S : \A y \in S : ~ (<<y, x>> \in Less)
    BY LessIsWellFounded, WFMin
  <1>2. PICK x \in S : \A y \in S : ~ (<<y, x>> \in Less)
    BY <1>1
  <1>3. \A y \in S : ~ (y < x)
    BY <1>2 DEF Less
  <1> QED
    BY <1>3

LEMMA Induction ==
  ASSUME NEW S \in SUBSET Nat, 0 \in S, \A n \in S : n + 1 \in S
  PROVE  S = Nat
  <1> SUFFICES ASSUME Nat \ S # {} PROVE FALSE
    OBVIOUS
  <1>1. PICK n \in Nat \ S : \A m \in Nat \ S : n <= m
    BY LeastElement
  <1> QED
    BY <1>1

\* Up to a bound.
LEMMA BoundedInduction ==
  ASSUME NEW m \in Nat, NEW S, 0 \in S, \A n \in 0..(m - 1) : n \in S => n + 1 \in S
  PROVE  \A n \in 0..m : n \in S
  <1> DEFINE T == {n \in Nat : n <= m => n \in S}
  <1>1. 0 \in T /\ \A n \in T : n + 1 \in T
    OBVIOUS
  <1>2. T = Nat
    <2>1. T \in SUBSET Nat
      OBVIOUS
    <2> HIDE DEF T
    <2> QED
      BY <1>1, <2>1, Induction
  <1> QED
    BY <1>2

----------------------------------------------------------------------------
(* Sums.                                                                   *)

\* g holds the sums of the first elements of s.
SumsOf(g, s) ==
    /\ g \in [0..Len(s) -> Int]
    /\ g[0] = 0
    /\ \A i \in 1..Len(s) : g[i] = g[i - 1] + s[i]

LEMMA SumsExist ==
  ASSUME NEW s \in Seq(Int)
  PROVE  \E g : SumsOf(g, s)
  <1> DEFINE P(n, g) == /\ g \in [0..n -> Int]
                        /\ g[0] = 0
                        /\ \A i \in 1..n : g[i] = g[i - 1] + s[i]
             Q(n) == \E g : P(n, g)
             S == {n \in Nat : Q(n)}
  <1>1. Q(0)
    <2>1. P(0, [i \in 0..0 |-> 0])
      OBVIOUS
    <2> QED
      BY <2>1
  <1>2. ASSUME NEW n \in 0..(Len(s) - 1), Q(n) PROVE Q(n + 1)
    <2>1. PICK g : P(n, g)
      BY <1>2
    <2>2. s[n + 1] \in Int /\ n \in Nat
      OBVIOUS
    <2> DEFINE h == [i \in 0..(n + 1) |-> IF i <= n THEN g[i] ELSE g[n] + s[n + 1]]
    <2>3. h \in [0..(n + 1) -> Int] /\ h[0] = 0
      BY <2>1, <2>2
    <2>4. \A i \in 1..(n + 1) : h[i] = h[i - 1] + s[i]
      BY <2>1, <2>2
    <2>5. P(n + 1, h)
      BY <2>3, <2>4
    <2> QED
      BY <2>5
  <1>3. Q(Len(s))
    <2> HIDE DEF Q
    <2>1. 0 \in S /\ \A n \in 0..(Len(s) - 1) : n \in S => n + 1 \in S
      BY <1>1, <1>2
    <2>2. Len(s) \in Nat
      OBVIOUS
    <2>3. \A n \in 0..Len(s) : n \in S
      <3> HIDE DEF S
      <3> QED
        BY <2>1, <2>2, BoundedInduction
    <2> QED
      BY <2>2, <2>3
  <1> QED
    BY <1>3 DEF SumsOf

LEMMA SumsUnique ==
  ASSUME NEW s \in Seq(Int), NEW g, SumsOf(g, s),
         NEW h, h = [i \in 0..Len(s) |-> IF i = 0 THEN 0 ELSE h[i - 1] + s[i]]
  PROVE  h = g
  <1> DEFINE S == {n \in 0..Len(s) : h[n] = g[n]}
  <1>1. 0 \in S
    BY DEF SumsOf
  <1>2. ASSUME NEW n \in 0..(Len(s) - 1), n \in S PROVE n + 1 \in S
    BY <1>2 DEF SumsOf
  <1>3. \A n \in 0..Len(s) : n \in S
    <2> HIDE DEF S
    <2>1. Len(s) \in Nat
      OBVIOUS
    <2> QED
      BY <1>1, <1>2, <2>1, BoundedInduction
  <1> QED
    BY <1>3 DEF SumsOf

LEMMA SumIs ==
  ASSUME NEW s \in Seq(Int), NEW g, SumsOf(g, s)
  PROVE  SumOf(s) = g[Len(s)]
  <1> DEFINE Eq(h) == h = [i \in 0..Len(s) |-> IF i = 0 THEN 0 ELSE h[i - 1] + s[i]]
             sum == CHOOSE h : Eq(h)
  <1>1. Eq(g)
    BY DEF SumsOf
  <1>2. Eq(sum)
    BY <1>1
  <1>3. sum = g
    BY <1>2, SumsUnique
  <1>4. SumOf(s) = sum[Len(s)]
    BY DEF SumOf
  <1> QED
    BY <1>3, <1>4

LEMMA SumOfNone == SumOf(<< >>) = 0
  <1>1. SumsOf([i \in 0..0 |-> 0], << >>)
    BY DEF SumsOf
  <1> QED
    BY <1>1, SumIs

LEMMA SumOfAppend ==
  ASSUME NEW s \in Seq(Int), NEW x \in Int
  PROVE  SumOf(Append(s, x)) = SumOf(s) + x
  <1> SUFFICES ASSUME NEW u, u = Append(s, x) PROVE SumOf(u) = SumOf(s) + x
    OBVIOUS
  <1>1. u \in Seq(Int)
    OBVIOUS
  <1>2. PICK g : SumsOf(g, u)
    BY <1>1, SumsExist
  <1> DEFINE h == [i \in 0..Len(s) |-> g[i]]
  <1>3. SumsOf(h, s)
    BY <1>1, <1>2 DEF SumsOf
  <1>4. SumOf(s) = g[Len(s)]
    BY <1>3, SumIs
  <1>5. SumOf(u) = g[Len(u)]
    BY <1>1, <1>2, SumIs
  <1> QED
    BY <1>1, <1>2, <1>4, <1>5 DEF SumsOf

LEMMA PrefixGrows ==
  ASSUME NEW S, NEW s \in Seq(S), NEW n \in 0..(Len(s) - 1)
  PROVE  /\ SubSeq(s, 1, n) \in Seq(S)
         /\ s[n + 1] \in S
         /\ SubSeq(s, 1, n + 1) = Append(SubSeq(s, 1, n), s[n + 1])
  OBVIOUS

LEMMA PrefixEnds ==
  ASSUME NEW S, NEW s \in Seq(S)
  PROVE  SubSeq(s, 1, 0) = << >> /\ SubSeq(s, 1, Len(s)) = s /\ s \o << >> = s
  OBVIOUS

LEMMA ConcatAppend ==
  ASSUME NEW S, NEW s \in Seq(S), NEW t \in Seq(S), NEW x \in S
  PROVE  s \o t \in Seq(S) /\ s \o Append(t, x) = Append(s \o t, x)
  OBVIOUS

LEMMA ConcatOne == ASSUME NEW S, NEW s \in Seq(S), NEW x \in S PROVE s \o <<x>> = Append(s, x)
  OBVIOUS

LEMMA SumIsInt == ASSUME NEW s \in Seq(Int) PROVE SumOf(s) \in Int
  <1>1. PICK g : SumsOf(g, s)
    BY SumsExist
  <1>2. g[Len(s)] \in Int
    BY <1>1 DEF SumsOf
  <1> QED
    BY <1>1, <1>2, SumIs, Zenon

LEMMA SumOfPrefix ==
  ASSUME NEW s \in Seq(Int), NEW n \in 0..(Len(s) - 1)
  PROVE  /\ s[n + 1] \in Int /\ SumOf(SubSeq(s, 1, n)) \in Int
         /\ SumOf(SubSeq(s, 1, n + 1)) = SumOf(SubSeq(s, 1, n)) + s[n + 1]
  <1>1. /\ SubSeq(s, 1, n) \in Seq(Int) /\ s[n + 1] \in Int
        /\ SubSeq(s, 1, n + 1) = Append(SubSeq(s, 1, n), s[n + 1])
    BY PrefixGrows
  <1>2. SumOf(Append(SubSeq(s, 1, n), s[n + 1])) = SumOf(SubSeq(s, 1, n)) + s[n + 1]
    BY <1>1, SumOfAppend, Zenon
  <1>3. SumOf(SubSeq(s, 1, n)) \in Int
    BY <1>1, SumIsInt, Zenon
  <1> QED
    BY <1>1, <1>2, <1>3, Zenon

LEMMA SumOfConcat ==
  ASSUME NEW s \in Seq(Int), NEW t \in Seq(Int)
  PROVE  SumOf(s \o t) = SumOf(s) + SumOf(t)
  <1> DEFINE Q(n) == SumOf(s \o SubSeq(t, 1, n)) = SumOf(s) + SumOf(SubSeq(t, 1, n))
             S == {n \in 0..Len(t) : Q(n)}
  <1>1. Q(0)
    <2>1. SubSeq(t, 1, 0) = << >> /\ s \o << >> = s
      BY PrefixEnds
    <2>2. SumOf(s) = SumOf(s) + SumOf(<< >>)
      BY SumOfNone, SumIsInt
    <2> QED
      BY <2>1, <2>2, Zenon
  <1>2. ASSUME NEW n \in 0..(Len(t) - 1), Q(n) PROVE Q(n + 1)
    <2>1. PICK v \in Seq(Int) : v = SubSeq(t, 1, n)
      BY PrefixGrows
    <2>2. PICK x \in Int : x = t[n + 1]
      OBVIOUS
    <2>3. SubSeq(t, 1, n + 1) = Append(v, x)
      BY <2>1, <2>2, PrefixGrows
    <2>4. s \o v \in Seq(Int) /\ s \o Append(v, x) = Append(s \o v, x)
      BY ConcatAppend
    <2>5. SumOf(s \o Append(v, x)) = SumOf(s \o v) + x
      BY <2>4, SumOfAppend
    <2>6. SumOf(Append(v, x)) = SumOf(v) + x
      BY SumOfAppend
    <2>7. SumOf(s) \in Int /\ SumOf(v) \in Int
      BY SumIsInt
    <2>8. SumOf(s \o v) = SumOf(s) + SumOf(v)
      BY <1>2, <2>1
    <2>9. SumOf(s \o Append(v, x)) = SumOf(s) + SumOf(Append(v, x))
      BY <2>5, <2>6, <2>7, <2>8
    <2> QED
      BY <2>3, <2>9, Zenon
  <1>3. Q(Len(t))
    <2> HIDE DEF Q
    <2>1. 0 \in S /\ \A n \in 0..(Len(t) - 1) : n \in S => n + 1 \in S
      BY <1>1, <1>2
    <2>2. Len(t) \in Nat
      OBVIOUS
    <2>3. \A n \in 0..Len(t) : n \in S
      <3> HIDE DEF S
      <3> QED
        BY <2>1, <2>2, BoundedInduction
    <2> QED
      BY <2>2, <2>3
  <1> QED
    BY <1>3, PrefixEnds

LEMMA SumIsNat ==
  ASSUME NEW s \in Seq(Nat)
  PROVE  SumOf(s) \in Nat
  <1>1. s \in Seq(Int)
    OBVIOUS
  <1>2. PICK g : SumsOf(g, s)
    BY <1>1, SumsExist
  <1> DEFINE S == {n \in 0..Len(s) : g[n] >= 0}
  <1>3. 0 \in S
    BY <1>2 DEF SumsOf
  <1>4. ASSUME NEW n \in 0..(Len(s) - 1), n \in S PROVE n + 1 \in S
    <2>1. n \in 0..Len(s) /\ n + 1 \in 1..Len(s) /\ n + 1 \in 0..Len(s) /\ (n + 1) - 1 = n
      OBVIOUS
    <2>2. g[n + 1] = g[(n + 1) - 1] + s[n + 1] /\ g[n] \in Int
      BY <1>2, <2>1, Zenon DEF SumsOf
    <2>3. s[n + 1] \in Nat
      BY <2>1
    <2>4. g[n] >= 0
      BY <1>4, Zenon
    <2>5. g[n + 1] >= 0
      BY <2>1, <2>2, <2>3, <2>4
    <2> QED
      BY <2>1, <2>5, Zenon
  <1>5. Len(s) \in S
    <2> HIDE DEF S
    <2>1. Len(s) \in Nat
      OBVIOUS
    <2>2. \A n \in 0..Len(s) : n \in S
      BY <1>3, <1>4, <2>1, BoundedInduction
    <2> QED
      BY <2>1, <2>2
  <1>6. SumOf(s) = g[Len(s)] /\ g[Len(s)] >= 0
    BY <1>1, <1>2, <1>5, SumIs
  <1> QED
    BY <1>1, <1>6, SumIsInt

----------------------------------------------------------------------------
(* Concatenations.                                                         *)

\* A name that keeps the provers from looking into concatenation.
Join(s, t) == s \o t

LEMMA JoinIsSeq == ASSUME NEW S, NEW s \in Seq(S), NEW t \in Seq(S) PROVE Join(s, t) \in Seq(S)
  BY DEF Join

\* g holds the concatenations of the first elements of ss.
FlatsOf(g, ss, S) ==
    /\ g \in [1..Len(ss) -> Seq(S)]
    /\ \A i \in 1..Len(ss) : g[i] = IF i = 1 THEN ss[i] ELSE Join(g[i - 1], ss[i])

LEMMA FlatsExist ==
  ASSUME NEW S, NEW ss \in Seq(Seq(S))
  PROVE  \E g : FlatsOf(g, ss, S)
  <1> DEFINE P(n, g) == /\ g \in [1..n -> Seq(S)]
                        /\ \A i \in 1..n : g[i] = IF i = 1 THEN ss[i] ELSE Join(g[i - 1], ss[i])
             Q(n) == \E g : P(n, g)
             T == {n \in Nat : Q(n)}
  <1>1. Q(0)
    <2>1. P(0, << >>)
      OBVIOUS
    <2> QED
      BY <2>1
  <1>2. ASSUME NEW n \in 0..(Len(ss) - 1), Q(n) PROVE Q(n + 1)
    <2>1. PICK g : P(n, g)
      BY <1>2
    <2>2. ss[n + 1] \in Seq(S) /\ n \in Nat
      OBVIOUS
    <2>3. PICK x \in Seq(S) : x = IF n = 0 THEN ss[n + 1] ELSE Join(g[n], ss[n + 1])
      <3>1. CASE n = 0
        BY <2>2, <3>1
      <3>2. CASE n # 0
        <4>1. g[n] \in Seq(S)
          BY <2>1, <3>2
        <4>2. Join(g[n], ss[n + 1]) \in Seq(S)
          BY <2>2, <4>1, JoinIsSeq
        <4> QED
          BY <3>2, <4>2
      <3> QED
        BY <3>1, <3>2
    <2> DEFINE h == [i \in 1..(n + 1) |-> IF i <= n THEN g[i] ELSE x]
    <2>4. h \in [1..(n + 1) -> Seq(S)]
      BY <2>1, <2>2
    <2>5. ASSUME NEW i \in 1..(n + 1)
          PROVE  h[i] = IF i = 1 THEN ss[i] ELSE Join(h[i - 1], ss[i])
      <3>1. CASE i <= n
        <4>1. h[i] = g[i] /\ (i # 1 => h[i - 1] = g[i - 1])
          BY <2>2, <3>1
        <4> HIDE DEF h
        <4>2. g[i] = IF i = 1 THEN ss[i] ELSE Join(g[i - 1], ss[i])
          <5>1. i \in 1..n
            BY <2>2, <3>1
          <5> QED
            BY <2>1, <5>1, Zenon
        <4> QED
          BY <4>1, <4>2
      <3>2. CASE i = n + 1
        <4>1. h[i] = x /\ (i # 1 => h[i - 1] = g[n])
          BY <2>2, <3>2
        <4>2. i = 1 <=> n = 0
          BY <2>2, <3>2
        <4> HIDE DEF h
        <4> QED
          BY <2>3, <3>2, <4>1, <4>2
      <3> QED
        BY <2>2, <3>1, <3>2
    <2>6. P(n + 1, h)
      BY <2>4, <2>5
    <2> QED
      BY <2>6
  <1>3. Q(Len(ss))
    <2> HIDE DEF Q
    <2>1. 0 \in T /\ \A n \in 0..(Len(ss) - 1) : n \in T => n + 1 \in T
      BY <1>1, <1>2
    <2>2. Len(ss) \in Nat
      OBVIOUS
    <2>3. \A n \in 0..Len(ss) : n \in T
      <3> HIDE DEF T
      <3> QED
        BY <2>1, <2>2, BoundedInduction
    <2> QED
      BY <2>2, <2>3
  <1> QED
    BY <1>3 DEF FlatsOf

\* The equation FlattenSeq chooses a function by.
FlatEq(h, ss) == h = [i \in 1..Len(ss) |-> IF i = 1 THEN ss[i] ELSE Join(h[i - 1], ss[i])]

LEMMA FlatsUnique ==
  ASSUME NEW S, NEW ss \in Seq(Seq(S)), NEW g, FlatsOf(g, ss, S), NEW h, FlatEq(h, ss)
  PROVE  h = g
  <1>0. h = [i \in 1..Len(ss) |-> IF i = 1 THEN ss[i] ELSE Join(h[i - 1], ss[i])]
    BY DEF FlatEq
  <1> DEFINE T == {n \in 0..Len(ss) : n > 0 => h[n] = g[n]}
  <1>1. 0 \in T
    OBVIOUS
  <1>2. ASSUME NEW n \in 0..(Len(ss) - 1), n \in T PROVE n + 1 \in T
    <2>1. n + 1 \in 1..Len(ss) /\ (n + 1) - 1 = n /\ (n + 1 = 1 <=> n = 0) /\ (n # 0 <=> n > 0)
      OBVIOUS
    <2>2. h[n + 1] = IF n = 0 THEN ss[n + 1] ELSE Join(h[n], ss[n + 1])
      BY <1>0, <2>1
    <2>3. g[n + 1] = IF n = 0 THEN ss[n + 1] ELSE Join(g[n], ss[n + 1])
      BY <2>1 DEF FlatsOf
    <2>4. n > 0 => h[n] = g[n]
      BY <1>2
    <2>5. h[n + 1] = g[n + 1]
      BY <2>1, <2>2, <2>3, <2>4
    <2> QED
      BY <2>1, <2>5
  <1>3. \A n \in 1..Len(ss) : h[n] = g[n]
    <2>1. \A n \in 0..Len(ss) : n \in T
      <3> HIDE DEF T
      <3>1. Len(ss) \in Nat
        OBVIOUS
      <3> QED
        BY <1>1, <1>2, <3>1, BoundedInduction
    <2>2. ASSUME NEW n \in 1..Len(ss) PROVE h[n] = g[n]
      <3>1. n \in 0..Len(ss) /\ n > 0
        OBVIOUS
      <3> QED
        BY <2>1, <3>1
    <2> QED
      BY <2>2
  <1>4. g = [i \in 1..Len(ss) |-> g[i]] /\ h = [i \in 1..Len(ss) |-> h[i]]
    BY <1>0 DEF FlatsOf
  <1> QED
    BY <1>3, <1>4

LEMMA FlattenIs ==
  ASSUME NEW S, NEW ss \in Seq(Seq(S)), NEW g, FlatsOf(g, ss, S), Len(ss) # 0
  PROVE  FlattenSeq(ss) = g[Len(ss)]
  <1> DEFINE flat == CHOOSE h : FlatEq(h, ss)
  <1>1. FlatEq(g, ss)
    BY DEF FlatsOf, FlatEq
  <1>2. FlatEq(flat, ss)
    BY <1>1, Zenon
  <1>3. flat = g
    BY <1>2, FlatsUnique, Zenon
  <1>4. FlattenSeq(ss) = flat[Len(ss)]
    BY DEF FlattenSeq, FlatEq, Join
  <1> QED
    BY <1>3, <1>4, Zenon

LEMMA FlattenNone == FlattenSeq(<< >>) = << >>
  BY DEF FlattenSeq

LEMMA FlattenAppend ==
  ASSUME NEW S, NEW ss \in Seq(Seq(S)), NEW x \in Seq(S)
  PROVE  /\ FlattenSeq(ss) \in Seq(S)
         /\ FlattenSeq(Append(ss, x)) = FlattenSeq(ss) \o x
  <1> SUFFICES ASSUME NEW uu, uu = Append(ss, x)
               PROVE  FlattenSeq(ss) \in Seq(S) /\ FlattenSeq(uu) = FlattenSeq(ss) \o x
    OBVIOUS
  <1>1. /\ uu \in Seq(Seq(S)) /\ Len(uu) = Len(ss) + 1 /\ uu[Len(ss) + 1] = x
        /\ \A i \in 1..Len(ss) : uu[i] = ss[i]
        /\ Len(ss) \in Nat
    OBVIOUS
  <1>2. PICK g : FlatsOf(g, uu, S)
    BY <1>1, FlatsExist
  <1>3. FlattenSeq(uu) = g[Len(ss) + 1]
    <2>1. Len(uu) # 0
      BY <1>1
    <2> QED
      BY <1>1, <1>2, <2>1, FlattenIs, Zenon
  <1>4. CASE Len(ss) = 0
    <2>1. ss = << >> /\ << >> \o x = x /\ << >> \in Seq(S)
      BY <1>4
    <2>2. g[1] = x
      BY <1>1, <1>2, <1>4 DEF FlatsOf
    <2>3. FlattenSeq(uu) = x
      BY <1>3, <1>4, <2>2
    <2> QED
      BY <2>1, <2>3, FlattenNone, Zenon
  <1>5. CASE Len(ss) # 0
    <2>1. Len(ss) \in 1..Len(uu) /\ Len(ss) + 1 \in 1..Len(uu) /\ Len(ss) + 1 # 1
          /\ (Len(ss) + 1) - 1 = Len(ss)
      BY <1>1, <1>5
    <2>2. g[Len(ss) + 1] = Join(g[Len(ss)], x)
      BY <1>1, <1>2, <2>1 DEF FlatsOf
    <2>3. g[Len(ss)] \in Seq(S)
      BY <1>2, <2>1 DEF FlatsOf
    <2>4. FlattenSeq(ss) = g[Len(ss)]
      <3> SUFFICES ASSUME NEW h, h = [i \in 1..Len(ss) |-> g[i]] PROVE FlattenSeq(ss) = g[Len(ss)]
        OBVIOUS
      <3>1. FlatsOf(h, ss, S)
        <4>1. h \in [1..Len(ss) -> Seq(S)]
          BY <1>1, <1>2 DEF FlatsOf
        <4>2. ASSUME NEW i \in 1..Len(ss)
              PROVE  h[i] = IF i = 1 THEN ss[i] ELSE Join(h[i - 1], ss[i])
          <5>1. i \in 1..Len(uu) /\ uu[i] = ss[i] /\ h[i] = g[i] /\ (i # 1 => h[i - 1] = g[i - 1])
            BY <1>1
          <5> QED
            BY <1>2, <5>1, Zenon DEF FlatsOf
        <4> QED
          BY <4>1, <4>2 DEF FlatsOf
      <3>2. FlattenSeq(ss) = h[Len(ss)]
        BY <1>5, <3>1, FlattenIs, Zenon
      <3> QED
        BY <1>1, <1>5, <3>2
    <2> QED
      BY <1>3, <2>2, <2>3, <2>4, Zenon DEF Join
  <1> QED
    BY <1>4, <1>5

----------------------------------------------------------------------------
(* The sizes of steps.                                                     *)

\* A step of write_sync: what it writes after a check that passes is bytes.
Step ==
    {s \in [bytes : Seq(Nat), size : Nat, valid : BOOLEAN] :
        Len(s.bytes) <= s.size /\ (s.valid => s.bytes \in Seq(Byte))}

\* Steps that write n bytes in all.
Sized(steps, n) == steps \in Seq(Step) /\ SumOf(Sizes(steps)) = n

LEMMA StepFields ==
  ASSUME NEW s \in Step
  PROVE  /\ s.size \in Nat /\ s.valid \in BOOLEAN /\ s.bytes \in Seq(Nat)
         /\ Len(s.bytes) <= s.size /\ (s.valid => s.bytes \in Seq(Byte))
  BY DEF Step

LEMMA SizesOfSteps ==
  ASSUME NEW s \in Seq(Step)
  PROVE  Sizes(s) \in Seq(Nat) /\ Sizes(s) \in Seq(Int) /\ Len(Sizes(s)) = Len(s)
  <1>1. ASSUME NEW i \in 1..Len(s) PROVE s[i].size \in Nat
    <2>1. s[i] \in Step
      OBVIOUS
    <2> QED
      BY <2>1 DEF Step
  <1>2. Len(s) \in Nat
    OBVIOUS
  <1>3. Sizes(s) \in [1..Len(s) -> Nat]
    BY <1>1 DEF Sizes
  <1> QED
    BY <1>2, <1>3

LEMMA SizesOfConcat ==
  ASSUME NEW s \in Seq(Step), NEW t \in Seq(Step)
  PROVE  Sizes(s \o t) = Sizes(s) \o Sizes(t)
  BY DEF Sizes

LEMMA SizedOne ==
  ASSUME NEW x \in Step, NEW n, x.size = n
  PROVE  Sized(<<x>>, n)
  <1>1. <<x>> \in Seq(Step) /\ Sizes(<<x>>) = Append(<< >>, n) /\ n \in Int
    BY DEF Sizes, Step
  <1>2. SumOf(Append(<< >>, n)) = SumOf(<< >>) + n
    <2>1. << >> \in Seq(Int)
      OBVIOUS
    <2> QED
      BY <1>1, <2>1, SumOfAppend, Zenon
  <1>3. SumOf(Sizes(<<x>>)) = n
    BY <1>1, <1>2, SumOfNone
  <1> QED
    BY <1>1, <1>3 DEF Sized

LEMMA SizedConcat ==
  ASSUME NEW s, NEW t, NEW n, NEW m, Sized(s, n), Sized(t, m)
  PROVE  Sized(s \o t, n + m)
  <1>1. s \in Seq(Step) /\ t \in Seq(Step) /\ s \o t \in Seq(Step)
    BY DEF Sized
  <1>2. SumOf(Sizes(s \o t)) = SumOf(Sizes(s)) + SumOf(Sizes(t))
    BY <1>1, SizesOfSteps, SizesOfConcat, SumOfConcat
  <1> QED
    BY <1>1, <1>2 DEF Sized

LEMMA SizedIsNat == ASSUME NEW s, NEW n, Sized(s, n) PROVE n \in Nat
  BY SizesOfSteps, SumIsNat DEF Sized

LEMMA SizedNone == Sized(<< >>, 0)
  <1>1. Sizes(<< >>) = << >>
    BY DEF Sizes
  <1> QED
    BY <1>1, SumOfNone DEF Sized

LEMMA SizedFlatten ==
  ASSUME NEW ss \in Seq(Seq(Step)), NEW ls \in Seq(Int), Len(ls) = Len(ss),
         \A i \in 1..Len(ss) : Sized(ss[i], ls[i])
  PROVE  Sized(FlattenSeq(ss), SumOf(ls))
  <1> DEFINE Q(n) == Sized(FlattenSeq(SubSeq(ss, 1, n)), SumOf(SubSeq(ls, 1, n)))
             T == {n \in 0..Len(ss) : Q(n)}
  <1>1. Q(0)
    <2>1. SubSeq(ss, 1, 0) = << >> /\ SubSeq(ls, 1, 0) = << >>
      BY PrefixEnds
    <2> QED
      BY <2>1, FlattenNone, SumOfNone, SizedNone, Zenon
  <1>2. ASSUME NEW n \in 0..(Len(ss) - 1), Q(n) PROVE Q(n + 1)
    <2>1. /\ SubSeq(ss, 1, n) \in Seq(Seq(Step)) /\ ss[n + 1] \in Seq(Step)
          /\ SubSeq(ss, 1, n + 1) = Append(SubSeq(ss, 1, n), ss[n + 1])
      BY PrefixGrows
    <2>2. /\ SubSeq(ls, 1, n) \in Seq(Int) /\ ls[n + 1] \in Int
          /\ SubSeq(ls, 1, n + 1) = Append(SubSeq(ls, 1, n), ls[n + 1])
      BY PrefixGrows
    <2>3. FlattenSeq(SubSeq(ss, 1, n + 1)) = FlattenSeq(SubSeq(ss, 1, n)) \o ss[n + 1]
      BY <2>1, FlattenAppend, Zenon
    <2>4. SumOf(SubSeq(ls, 1, n + 1)) = SumOf(SubSeq(ls, 1, n)) + ls[n + 1]
      BY <2>2, SumOfAppend, Zenon
    <2>5. n + 1 \in 1..Len(ss)
      OBVIOUS
    <2>6. Sized(ss[n + 1], ls[n + 1])
      BY <2>5
    <2> QED
      BY <1>2, <2>3, <2>4, <2>6, SizedConcat, Zenon
  <1>3. Q(Len(ss))
    <2> HIDE DEF Q
    <2>1. 0 \in T /\ \A n \in 0..(Len(ss) - 1) : n \in T => n + 1 \in T
      BY <1>1, <1>2
    <2>2. Len(ss) \in Nat
      OBVIOUS
    <2>3. \A n \in 0..Len(ss) : n \in T
      <3> HIDE DEF T
      <3> QED
        BY <2>1, <2>2, BoundedInduction
    <2> QED
      BY <2>2, <2>3
  <1>4. SubSeq(ss, 1, Len(ss)) = ss /\ SubSeq(ls, 1, Len(ls)) = ls
    BY PrefixEnds
  <1> QED
    BY <1>3, <1>4, Zenon

----------------------------------------------------------------------------
(* The fields: the steps that write one write as many bytes as its         *)
(* encode_len says.                                                        *)

LEMMA BytesAreNats == ASSUME NEW s \in Seq(Byte) PROVE s \in Seq(Nat) /\ Len(s) \in Nat
  <1>1. ASSUME NEW i \in 1..Len(s) PROVE s[i] \in Nat
    <2>1. s[i] \in Byte
      OBVIOUS
    <2>2. \A b \in Byte : b \in Nat
      BY DEF Byte
    <2> QED
      BY <2>1, <2>2, Zenon
  <1>2. s \in [1..Len(s) -> Nat] /\ Len(s) \in Nat
    BY <1>1
  <1> QED
    BY <1>2

LEMMA NoBytes == << >> \in Seq(Byte) /\ Len(<< >>) = 0
  OBVIOUS

LEMMA U16Bytes ==
  ASSUME NEW n \in Nat
  PROVE  U16(n) \in Seq(Nat) /\ Len(U16(n)) = 2 /\ (n <= MaxU16 => U16(n) \in Seq(Byte))
  <1>1. n \div 256 \in Nat /\ n % 256 \in 0..255
    OBVIOUS
  <1>2. U16(n) \in Seq(Nat) /\ Len(U16(n)) = 2
    BY <1>1 DEF U16
  <1>3. ASSUME n <= MaxU16 PROVE U16(n) \in Seq(Byte)
    <2>1. n \div 256 \in 0..255
      BY <1>3 DEF MaxU16
    <2> QED
      BY <1>1, <2>1 DEF U16, Byte
  <1> QED
    BY <1>2, <1>3

LEMMA WriteIsStep ==
  ASSUME NEW b \in Seq(Byte), NEW n \in Nat, Len(b) <= n
  PROVE  Write(b, n) \in Step
  BY BytesAreNats DEF Write, Step

LEMMA CheckedIsStep ==
  ASSUME NEW b \in Seq(Nat), NEW c \in BOOLEAN, c => b \in Seq(Byte)
  PROVE  CheckedWrite(b, c) \in Step
  <1>1. Len(b) \in Nat /\ Len(b) <= Len(b)
    OBVIOUS
  <1> QED
    BY <1>1 DEF CheckedWrite, Step

LEMMA SizedWrite ==
  ASSUME NEW b \in Seq(Byte), NEW n \in Nat, Len(b) <= n
  PROVE  Sized(<<Write(b, n)>>, n)
  BY WriteIsStep, SizedOne DEF Write

LEMMA SizedWriteAll ==
  ASSUME NEW b \in Seq(Byte)
  PROVE  Sized(<<WriteAll(b)>>, Len(b))
  <1>1. Len(b) \in Nat /\ Len(b) <= Len(b)
    OBVIOUS
  <1> QED
    BY <1>1, SizedWrite, Zenon DEF WriteAll

LEMMA SizedChecked ==
  ASSUME NEW b \in Seq(Nat), NEW c \in BOOLEAN, c => b \in Seq(Byte)
  PROVE  Sized(<<CheckedWrite(b, c)>>, Len(b))
  BY CheckedIsStep, SizedOne DEF CheckedWrite

\* A check that writes nothing.
LEMMA SizedCheck ==
  ASSUME NEW c \in BOOLEAN
  PROVE  Check(c) \in Step /\ Sized(<<Check(c)>>, 0)
  <1>1. << >> \in Seq(Nat)
    OBVIOUS
  <1> QED
    BY <1>1, NoBytes, CheckedIsStep, SizedChecked, Zenon DEF Check

\* Two steps in a row.
LEMMA SizedTwo ==
  ASSUME NEW x, NEW y, NEW n, NEW m, Sized(<<x>>, n), Sized(<<y>>, m)
  PROVE  Sized(<<x, y>>, n + m)
  <1>1. <<x>> \in Seq({x, y}) /\ <<y>> \in Seq({x, y})
    OBVIOUS
  <1>2. <<x, y>> = <<x>> \o <<y>>
    <2>1. <<x>> \o <<y>> = Append(<<x>>, y)
      <3>1. y \in {x, y}
        OBVIOUS
      <3> QED
        BY <1>1, <3>1, ConcatOne, Zenon
    <2>2. <<x, y>> = Append(<<x>>, y)
      OBVIOUS
    <2> QED
      BY <2>1, <2>2, Zenon
  <1> QED
    BY <1>2, SizedConcat, Zenon

LEMMA BuffSized == ASSUME NEW n \in Nat PROVE Sized(BuffSteps(n), BuffLen(n))
  <1>1. BuffValid(n) \in BOOLEAN /\ (BuffValid(n) => n <= MaxU16)
    BY DEF BuffValid
  <1>2. Sized(<<CheckedWrite(U16(n), BuffValid(n))>>, 2)
    BY <1>1, U16Bytes, SizedChecked
  <1>3. Len(<< >>) <= n
    OBVIOUS
  <1>4. Sized(<<Write(<< >>, n)>>, n)
    BY <1>3, NoBytes, SizedWrite, Zenon
  <1> QED
    BY <1>2, <1>4, SizedTwo, Zenon DEF BuffSteps, BuffLen

LEMMA Utf8IsBytes == ASSUME NEW c, IsChar(c) PROVE c \in Nat /\ Utf8(c) \in Seq(Byte)
  <1>1. c \in Nat /\ c <= 1114111
    BY SMT DEF IsChar
  <1>2. Trail(c, 1) \in Byte /\ Trail(c, 64) \in Byte /\ Trail(c, 4096) \in Byte
    BY <1>1, SMT DEF Trail, Byte
  <1>3. CASE c < 128
    <2>1. Utf8(c) = <<c>> /\ c \in Byte
      BY <1>1, <1>3, SMT DEF Utf8, Byte
    <2> QED
      BY <1>1, <2>1, SMT
  <1>4. CASE c >= 128 /\ c < 2048
    <2>1. 192 + c \div 64 \in Byte
      BY <1>1, <1>4, SMT DEF Byte
    <2>2. Utf8(c) = <<192 + c \div 64, Trail(c, 1)>>
      BY <1>1, <1>4, SMT DEF Utf8
    <2> QED
      BY <1>1, <1>2, <2>1, <2>2, SMT
  <1>5. CASE c >= 2048 /\ c < 65536
    <2>1. 224 + c \div 4096 \in Byte
      BY <1>1, <1>5, SMT DEF Byte
    <2>2. Utf8(c) = <<224 + c \div 4096, Trail(c, 64), Trail(c, 1)>>
      BY <1>1, <1>5, SMT DEF Utf8
    <2> QED
      BY <1>1, <1>2, <2>1, <2>2, SMT
  <1>6. CASE c >= 65536
    <2>1. 240 + c \div 262144 \in Byte
      BY <1>1, <1>6, SMT DEF Byte
    <2>2. Utf8(c) = <<240 + c \div 262144, Trail(c, 4096), Trail(c, 64), Trail(c, 1)>>
      BY <1>1, <1>6, SMT DEF Utf8
    <2> QED
      BY <1>1, <1>2, <2>1, <2>2, SMT
  <1> QED
    BY <1>1, <1>3, <1>4, <1>5, <1>6, SMT

LEMMA TextBytesIsBytes ==
  ASSUME NEW t \in Texts
  PROVE  /\ TextBytes(t) \in Seq(Byte) /\ Len(TextBytes(t)) \in Nat
         /\ TextLen(t) \in Nat /\ Len(TextBytes(t)) <= TextLen(t)
  <1>1. t.chars \in Seq(Nat) /\ t.pad \in Nat /\ \A i \in 1..Len(t.chars) : IsChar(t.chars[i])
    BY DEF Texts
  <1>2. [i \in 1..Len(t.chars) |-> Utf8(t.chars[i])] \in Seq(Seq(Byte))
    <2>1. ASSUME NEW i \in 1..Len(t.chars) PROVE Utf8(t.chars[i]) \in Seq(Byte)
      BY <1>1, Utf8IsBytes, Zenon
    <2>2. Len(t.chars) \in Nat
      BY <1>1
    <2> QED
      BY <2>1, <2>2
  <1>3. TextBytes(t) \in Seq(Byte)
    <2> SUFFICES ASSUME NEW ss, ss = [i \in 1..Len(t.chars) |-> Utf8(t.chars[i])]
                 PROVE  FlattenSeq(ss) \in Seq(Byte)
      BY DEF TextBytes, ForEach
    <2>1. ss \in Seq(Seq(Byte)) /\ << >> \in Seq(Byte)
      BY <1>2
    <2> QED
      BY <2>1, FlattenAppend, Zenon
  <1> QED
    BY <1>1, <1>3 DEF TextLen

LEMMA StrSized == ASSUME NEW t \in Texts PROVE Sized(StrSteps(t), StrLen(t))
  <1>1. TextLen(t) \in Nat /\ TextBytes(t) \in Seq(Byte) /\ Len(TextBytes(t)) <= TextLen(t)
    BY TextBytesIsBytes
  <1>2. /\ (StrValid(t) /\ BuffValid(TextLen(t))) \in BOOLEAN
        /\ StrValid(t) /\ BuffValid(TextLen(t)) => TextLen(t) <= MaxU16
    BY DEF BuffValid
  <1>3. Sized(<<CheckedWrite(U16(TextLen(t)), StrValid(t) /\ BuffValid(TextLen(t)))>>, 2)
    BY <1>1, <1>2, U16Bytes, SizedChecked
  <1>4. Sized(<<Write(TextBytes(t), TextLen(t))>>, TextLen(t))
    BY <1>1, SizedWrite
  <1> QED
    BY <1>3, <1>4, SizedTwo, Zenon DEF StrSteps, StrLen

LEMMA PacketIdSized == ASSUME NEW id \in PacketId PROVE Sized(PacketIdSteps(id), PacketIdLen(id))
  <1>1. id \in Nat /\ id <= MaxU16
    BY DEF PacketId
  <1> QED
    BY <1>1, U16Bytes, SizedWriteAll DEF PacketIdSteps, PacketIdLen

LEMMA FilterSized == ASSUME NEW f \in TopicFilter PROVE Sized(FilterSteps(f), FilterLen(f))
  <1>1. f.topic \in Texts /\ f.qos \in 0..2
    BY DEF TopicFilter, RequestedQos
  <1>2. Sized(<<Check(FilterValid(f))>>, 0)
    <2>1. FilterValid(f) \in BOOLEAN
      BY DEF FilterValid, WildcardsValid, HasValidWildcard
    <2> QED
      BY <2>1, SizedCheck
  <1>3. Sized(StrSteps(f.topic), StrLen(f.topic))
    BY <1>1, StrSized
  <1>4. Sized(<<WriteAll(<<f.qos>>)>>, 1)
    <2>1. <<f.qos>> \in Seq(Byte) /\ Len(<<f.qos>>) = 1
      BY <1>1 DEF Byte
    <2> QED
      BY <2>1, SizedWriteAll
  <1>5. Sized(<<Check(FilterValid(f))>> \o StrSteps(f.topic), 0 + StrLen(f.topic))
    BY <1>2, <1>3, SizedConcat, Zenon
  <1>6. Sized(FilterSteps(f), (0 + StrLen(f.topic)) + 1)
    BY <1>4, <1>5, SizedConcat, Zenon DEF FilterSteps
  <1>7. (0 + StrLen(f.topic)) + 1 = FilterLen(f)
    BY <1>3, SizedIsNat DEF FilterLen
  <1> QED
    BY <1>6, <1>7

LEMMA WillSized == ASSUME NEW w \in WillMsg PROVE Sized(WillSteps(w), WillLen(w))
  <1>1. w.topic \in Texts /\ w.message \in Nat
    BY DEF WillMsg
  <1> QED
    BY <1>1, StrSized, BuffSized, SizedConcat, Zenon DEF WillSteps, WillLen

----------------------------------------------------------------------------
(* Sequences of fields.                                                    *)

LEMMA SizedEach ==
  ASSUME NEW k \in Nat, NEW ss, NEW ls,
         ss = [i \in 1..k |-> ss[i]], ls = [i \in 1..k |-> ls[i]],
         \A i \in 1..k : Sized(ss[i], ls[i])
  PROVE  Sized(FlattenSeq(ss), SumOf(ls))
  <1>1. \A i \in 1..k : ss[i] \in Seq(Step) /\ ls[i] \in Int
    <2> SUFFICES ASSUME NEW i \in 1..k PROVE ss[i] \in Seq(Step) /\ ls[i] \in Int
      OBVIOUS
    <2>1. ls[i] \in Nat
      BY SizedIsNat
    <2> QED
      BY <2>1 DEF Sized
  <1>2. ss \in [1..k -> Seq(Step)] /\ ls \in [1..k -> Int]
    BY <1>1
  <1>3. ss \in Seq(Seq(Step)) /\ ls \in Seq(Int) /\ Len(ss) = k /\ Len(ls) = k
    BY <1>2
  <1> QED
    BY <1>3, SizedFlatten

LEMMA WillsSized ==
  ASSUME NEW s \in Seq(WillMsg)
  PROVE  Sized(ForEach(s, WillSteps), SumOf([i \in 1..Len(s) |-> WillLen(s[i])]))
  <1>1. \A i \in 1..Len(s) : Sized(WillSteps(s[i]), WillLen(s[i]))
    BY WillSized
  <1> DEFINE ss == [i \in 1..Len(s) |-> WillSteps(s[i])]
             ls == [i \in 1..Len(s) |-> WillLen(s[i])]
  <1>2. /\ Len(s) \in Nat /\ ss = [i \in 1..Len(s) |-> ss[i]] /\ ls = [i \in 1..Len(s) |-> ls[i]]
        /\ \A i \in 1..Len(s) : Sized(ss[i], ls[i])
    BY <1>1
  <1>3. ForEach(s, WillSteps) = FlattenSeq(ss)
    BY DEF ForEach
  <1> HIDE DEF ss, ls
  <1>4. Sized(FlattenSeq(ss), SumOf(ls))
    BY <1>2, SizedEach
  <1> QED
    BY <1>3, <1>4 DEF ls

LEMMA StrsSized ==
  ASSUME NEW s \in Seq(Texts)
  PROVE  Sized(ForEach(s, StrSteps), SumOf([i \in 1..Len(s) |-> StrLen(s[i])]))
  <1>1. \A i \in 1..Len(s) : Sized(StrSteps(s[i]), StrLen(s[i]))
    BY StrSized
  <1> DEFINE ss == [i \in 1..Len(s) |-> StrSteps(s[i])]
             ls == [i \in 1..Len(s) |-> StrLen(s[i])]
  <1>2. /\ Len(s) \in Nat /\ ss = [i \in 1..Len(s) |-> ss[i]] /\ ls = [i \in 1..Len(s) |-> ls[i]]
        /\ \A i \in 1..Len(s) : Sized(ss[i], ls[i])
    BY <1>1
  <1>3. ForEach(s, StrSteps) = FlattenSeq(ss)
    BY DEF ForEach
  <1> HIDE DEF ss, ls
  <1>4. Sized(FlattenSeq(ss), SumOf(ls))
    BY <1>2, SizedEach
  <1> QED
    BY <1>3, <1>4 DEF ls

LEMMA BuffsSized ==
  ASSUME NEW s \in Seq(Nat)
  PROVE  Sized(ForEach(s, BuffSteps), SumOf([i \in 1..Len(s) |-> BuffLen(s[i])]))
  <1>1. \A i \in 1..Len(s) : Sized(BuffSteps(s[i]), BuffLen(s[i]))
    BY BuffSized
  <1> DEFINE ss == [i \in 1..Len(s) |-> BuffSteps(s[i])]
             ls == [i \in 1..Len(s) |-> BuffLen(s[i])]
  <1>2. /\ Len(s) \in Nat /\ ss = [i \in 1..Len(s) |-> ss[i]] /\ ls = [i \in 1..Len(s) |-> ls[i]]
        /\ \A i \in 1..Len(s) : Sized(ss[i], ls[i])
    BY <1>1
  <1>3. ForEach(s, BuffSteps) = FlattenSeq(ss)
    BY DEF ForEach
  <1> HIDE DEF ss, ls
  <1>4. Sized(FlattenSeq(ss), SumOf(ls))
    BY <1>2, SizedEach
  <1> QED
    BY <1>3, <1>4 DEF ls

LEMMA PacketIdsSized ==
  ASSUME NEW s \in Seq(PacketId)
  PROVE  Sized(ForEach(s, PacketIdSteps), SumOf([i \in 1..Len(s) |-> PacketIdLen(s[i])]))
  <1>1. \A i \in 1..Len(s) : Sized(PacketIdSteps(s[i]), PacketIdLen(s[i]))
    BY PacketIdSized
  <1> DEFINE ss == [i \in 1..Len(s) |-> PacketIdSteps(s[i])]
             ls == [i \in 1..Len(s) |-> PacketIdLen(s[i])]
  <1>2. /\ Len(s) \in Nat /\ ss = [i \in 1..Len(s) |-> ss[i]] /\ ls = [i \in 1..Len(s) |-> ls[i]]
        /\ \A i \in 1..Len(s) : Sized(ss[i], ls[i])
    BY <1>1
  <1>3. ForEach(s, PacketIdSteps) = FlattenSeq(ss)
    BY DEF ForEach
  <1> HIDE DEF ss, ls
  <1>4. Sized(FlattenSeq(ss), SumOf(ls))
    BY <1>2, SizedEach
  <1> QED
    BY <1>3, <1>4 DEF ls

LEMMA FiltersSized ==
  ASSUME NEW s \in Seq(TopicFilter)
  PROVE  Sized(ForEach(s, FilterSteps), SumOf([i \in 1..Len(s) |-> FilterLen(s[i])]))
  <1>1. \A i \in 1..Len(s) : Sized(FilterSteps(s[i]), FilterLen(s[i]))
    BY FilterSized
  <1> DEFINE ss == [i \in 1..Len(s) |-> FilterSteps(s[i])]
             ls == [i \in 1..Len(s) |-> FilterLen(s[i])]
  <1>2. /\ Len(s) \in Nat /\ ss = [i \in 1..Len(s) |-> ss[i]] /\ ls = [i \in 1..Len(s) |-> ls[i]]
        /\ \A i \in 1..Len(s) : Sized(ss[i], ls[i])
    BY <1>1
  <1>3. ForEach(s, FilterSteps) = FlattenSeq(ss)
    BY DEF ForEach
  <1> HIDE DEF ss, ls
  <1>4. Sized(FlattenSeq(ss), SumOf(ls))
    BY <1>2, SizedEach
  <1> QED
    BY <1>3, <1>4 DEF ls

----------------------------------------------------------------------------
(* Whole packets.                                                          *)

\* The type of a packet tells what it is.
LEMMA PacketKinds ==
  ASSUME NEW p \in HeaderPackets
  PROVE  /\ p.type \in (1..14) \ {CONNACK}
         /\ p.type = CONNECT => p \in Connect
         /\ p.type = PUBLISH => p \in Publish
         /\ p.type = SUBSCRIBE => p \in Subscribe
         /\ p.type = UNSUBSCRIBE => p \in Unsubscribe
         /\ p.type \in Acks => p \in PacketIdOnly
         /\ p.type = SUBACK => p \in SubAck
  <1> USE DEF CONNECT, CONNACK, PUBLISH, PUBACK, PUBREC, PUBREL, PUBCOMP, SUBSCRIBE, SUBACK,
              UNSUBSCRIBE, UNSUBACK, PINGREQ, PINGRESP, DISCONNECT, Acks
  <1>1. CASE p \in Connect
    BY <1>1 DEF Connect
  <1>2. CASE p \in Publish
    BY <1>2 DEF Publish
  <1>3. CASE p \in Subscribe
    BY <1>3 DEF Subscribe
  <1>4. CASE p \in Unsubscribe
    BY <1>4 DEF Unsubscribe
  <1>5. CASE p \in PacketIdOnly
    BY <1>5 DEF PacketIdOnly
  <1>6. CASE p \in SubAck
    BY <1>6 DEF SubAck
  <1>7. CASE p \in {PingReqPacket, PingRespPacket, DisconnectPacket}
    BY <1>7 DEF PingReqPacket, PingRespPacket, DisconnectPacket
  <1> QED
    BY <1>1, <1>2, <1>3, <1>4, <1>5, <1>6, <1>7 DEF HeaderPackets

\* The byte with all of the first bits.
AllBits == <<1, 3, 7, 15, 31, 63, 127, 255>>

LEMMA AllBitsAdd ==
  ASSUME NEW n \in 1..7
  PROVE  AllBits[n] + Bits[n + 1] = AllBits[n + 1] /\ AllBits[n] \in Nat
  BY DEF AllBits, Bits

LEMMA FlagByteBound ==
  ASSUME NEW names, NEW flags, NEW k \in 1..8, k = Len(names)
  PROVE  FlagByte(names, flags) \in Nat /\ FlagByte(names, flags) <= AllBits[k]
  <1> SUFFICES ASSUME NEW s, s = [i \in 1..k |-> IF names[i] \in flags THEN Bits[i] ELSE 0]
               PROVE  SumOf(s) \in Nat /\ SumOf(s) <= AllBits[k]
    BY DEF FlagByte
  <1>1. \A i \in 1..8 : Bits[i] \in Nat
    BY DEF Bits
  <1>2. ASSUME NEW i \in 1..k PROVE s[i] \in Nat /\ s[i] <= Bits[i] /\ Bits[i] \in Nat
    <2>1. i \in 1..8
      OBVIOUS
    <2>2. Bits[i] \in Nat
      BY <1>1, <2>1, Zenon
    <2>3. s[i] = IF names[i] \in flags THEN Bits[i] ELSE 0
      OBVIOUS
    <2> QED
      BY <2>2, <2>3
  <1>3. s = [i \in 1..k |-> s[i]]
    OBVIOUS
  <1>4. s \in [1..k -> Nat]
    BY <1>2, <1>3, Zenon
  <1>5. s \in Seq(Nat) /\ s \in Seq(Int) /\ Len(s) = k /\ k \in Nat
    BY <1>4
  <1> DEFINE Q(n) == n > 0 => SumOf(SubSeq(s, 1, n)) <= AllBits[n]
             T == {n \in 0..k : Q(n)}
  <1>6. Q(0)
    OBVIOUS
  <1>7. ASSUME NEW n \in 0..(k - 1), Q(n) PROVE Q(n + 1)
    <2>0. n \in 0..(Len(s) - 1)
      BY <1>5
    <2>1. /\ s[n + 1] \in Int /\ SumOf(SubSeq(s, 1, n)) \in Int
          /\ SumOf(SubSeq(s, 1, n + 1)) = SumOf(SubSeq(s, 1, n)) + s[n + 1]
      BY <1>5, <2>0, SumOfPrefix, Zenon
    <2>2. SumOf(SubSeq(s, 1, n + 1)) = SumOf(SubSeq(s, 1, n)) + s[n + 1]
      BY <2>1, Zenon
    <2>3. SumOf(SubSeq(s, 1, n)) \in Int
      BY <2>1, Zenon
    <2>4. n + 1 \in 1..k /\ s[n + 1] <= Bits[n + 1] /\ Bits[n + 1] \in Nat
      BY <1>2
    <2>5. CASE n = 0
      <3>1. SumOf(SubSeq(s, 1, n)) = 0
        BY <1>5, <2>5, PrefixEnds, SumOfNone
      <3>2. Bits[n + 1] = AllBits[n + 1]
        BY <2>5 DEF Bits, AllBits
      <3> QED
        BY <2>1, <2>2, <2>4, <3>1, <3>2
    <2>6. CASE n > 0
      <3>1. n \in 1..7
        BY <2>6
      <3>2. AllBits[n] + Bits[n + 1] = AllBits[n + 1] /\ AllBits[n] \in Nat
        BY <3>1, AllBitsAdd, Zenon
      <3>3. SumOf(SubSeq(s, 1, n)) <= AllBits[n]
        BY <1>7, <2>6
      <3> QED
        BY <2>1, <2>2, <2>3, <2>4, <3>2, <3>3
    <2> QED
      BY <2>5, <2>6
  <1>8. Q(k)
    <2> HIDE DEF Q
    <2>1. 0 \in T /\ \A n \in 0..(k - 1) : n \in T => n + 1 \in T
      BY <1>6, <1>7
    <2>2. \A n \in 0..k : n \in T
      <3> HIDE DEF T
      <3> QED
        BY <1>5, <2>1, BoundedInduction
    <2> QED
      BY <1>5, <2>2
  <1>9. SubSeq(s, 1, k) = s
    BY <1>5, PrefixEnds
  <1>10. k > 0 /\ SumOf(s) \in Nat
    BY <1>5, SumIsNat
  <1> QED
    BY <1>8, <1>9, <1>10, Zenon

LEMMA ConnectHeaderIsBytes ==
  ASSUME NEW c \in Connect
  PROVE  /\ ConnectHeader(c) \in Seq(Byte) /\ ConnectHeader(c) \in Seq(Nat)
         /\ Len(ConnectHeader(c)) = ConnectHeaderLen
  <1>1. FlagByte(ConnectBits, c.flags) \in Byte
    <2>1. Len(ConnectBits) = 8 /\ AllBits[8] = 255
      BY DEF ConnectBits, AllBits
    <2>2. FlagByte(ConnectBits, c.flags) \in Nat /\ FlagByte(ConnectBits, c.flags) <= 255
      BY <2>1, FlagByteBound
    <2> QED
      BY <2>2 DEF Byte
  <1>2. U16(c.keepalive) \in Seq(Byte) /\ Len(U16(c.keepalive)) = 2
    <2>1. c.keepalive \in 0..MaxU16
      BY DEF Connect
    <2>2. c.keepalive \in Nat /\ c.keepalive <= MaxU16
      BY <2>1
    <2> QED
      BY <2>2, U16Bytes
  <1>3. ProtocolName \in Seq(Byte) /\ Len(ProtocolName) = 6
    BY DEF ProtocolName, Byte
  <1>4. <<ProtocolLevel, FlagByte(ConnectBits, c.flags)>> \in Seq(Byte)
        /\ Len(<<ProtocolLevel, FlagByte(ConnectBits, c.flags)>>) = 2
    <2>1. ProtocolLevel \in Byte
      BY DEF ProtocolLevel, Byte
    <2> QED
      BY <1>1, <2>1
  <1>5. ASSUME NEW a \in Seq(Byte), NEW b \in Seq(Byte)
        PROVE  a \o b \in Seq(Byte) /\ Len(a \o b) = Len(a) + Len(b)
    OBVIOUS
  <1> DEFINE h == ProtocolName \o <<ProtocolLevel, FlagByte(ConnectBits, c.flags)>>
  <1>6. h \in Seq(Byte) /\ Len(h) = 6 + 2
    BY <1>3, <1>4, <1>5
  <1>7. ConnectHeader(c) = h \o U16(c.keepalive)
    BY DEF ConnectHeader
  <1> HIDE DEF h
  <1>8. ConnectHeader(c) \in Seq(Byte) /\ Len(ConnectHeader(c)) = (6 + 2) + 2
    BY <1>2, <1>5, <1>6, <1>7
  <1> QED
    BY <1>8, BytesAreNats DEF ConnectHeaderLen

LEMMA ConnectSized == ASSUME NEW c \in Connect PROVE Sized(ConnectSteps(c), ConnectLen(c))
  <1>1. /\ c.client_id \in Texts /\ c.will \in Seq(WillMsg) /\ c.username \in Seq(Texts)
        /\ c.password \in Seq(Nat)
    BY DEF Connect, Option
  <1> DEFINE h == <<CheckedWrite(ConnectHeader(c), ConnectHeaderValid(c))>>
             wl == SumOf([i \in 1..Len(c.will) |-> WillLen(c.will[i])])
             ul == SumOf([i \in 1..Len(c.username) |-> StrLen(c.username[i])])
             pl == SumOf([i \in 1..Len(c.password) |-> BuffLen(c.password[i])])
             ws == ForEach(c.will, WillSteps)
             us == ForEach(c.username, StrSteps)
             ps == ForEach(c.password, BuffSteps)
  <1>2. Sized(h, ConnectHeaderLen)
    <2>1. ConnectHeaderValid(c) \in BOOLEAN
      BY DEF ConnectHeaderValid
    <2> QED
      BY <2>1, ConnectHeaderIsBytes, SizedChecked
  <1>3. Sized(StrSteps(c.client_id), StrLen(c.client_id))
    BY <1>1, StrSized
  <1>4. Sized(ws, wl)
    BY <1>1, WillsSized
  <1>5. Sized(us, ul)
    BY <1>1, StrsSized
  <1>6. Sized(ps, pl)
    BY <1>1, BuffsSized
  <1>7. /\ ConnectSteps(c) = h \o StrSteps(c.client_id) \o ws \o us \o ps
        /\ ConnectLen(c) = ConnectHeaderLen + StrLen(c.client_id) + wl + ul + pl
    BY DEF ConnectSteps, ConnectLen, ClientIdSteps
  <1> HIDE DEF h, wl, ul, pl, ws, us, ps
  <1> QED
    BY <1>2, <1>3, <1>4, <1>5, <1>6, <1>7, SizedConcat, Zenon

LEMMA PublishSized == ASSUME NEW p \in Publish PROVE Sized(PublishSteps(p), PublishLen(p))
  <1>1. p.topic \in Texts /\ p.pkid \in Seq(PacketId) /\ p.payload \in Nat
    BY DEF Publish, Option
  <1>2. Sized(StrSteps(p.topic), StrLen(p.topic))
    BY <1>1, StrSized
  <1>3. Sized(ForEach(p.pkid, PacketIdSteps), SumOf([i \in 1..Len(p.pkid) |-> PacketIdLen(p.pkid[i])]))
    BY <1>1, PacketIdsSized
  <1>4. Sized(<<Write(<< >>, p.payload)>>, p.payload)
    <2>1. Len(<< >>) <= p.payload
      BY <1>1
    <2> QED
      BY <1>1, <2>1, NoBytes, SizedWrite, Zenon
  <1> QED
    BY <1>2, <1>3, <1>4, SizedConcat, Zenon DEF PublishSteps, PublishLen

\* The types are told apart.
LEMMA TypesDiffer ==
  /\ CONNECT \notin Acks \cup {CONNACK, PUBLISH, SUBSCRIBE, UNSUBSCRIBE, SUBACK}
  /\ CONNACK \notin Acks \cup {CONNECT, PUBLISH, SUBSCRIBE, UNSUBSCRIBE, SUBACK}
  /\ PUBLISH \notin Acks \cup {CONNECT, CONNACK, SUBSCRIBE, UNSUBSCRIBE, SUBACK}
  /\ SUBSCRIBE \notin Acks \cup {CONNECT, CONNACK, PUBLISH, UNSUBSCRIBE, SUBACK}
  /\ UNSUBSCRIBE \notin Acks \cup {CONNECT, CONNACK, PUBLISH, SUBSCRIBE, SUBACK}
  /\ SUBACK \notin Acks \cup {CONNECT, CONNACK, PUBLISH, SUBSCRIBE, UNSUBSCRIBE}
  BY DEF CONNECT, CONNACK, PUBLISH, PUBACK, PUBREC, PUBREL, PUBCOMP, SUBSCRIBE, SUBACK,
         UNSUBSCRIBE, UNSUBACK, Acks

LEMMA BodySized == ASSUME NEW p \in HeaderPackets PROVE Sized(BodySteps(p), BodyLen(p))
  <1>1. CASE p.type = CONNECT
    <2>1. BodySteps(p) = ConnectSteps(p) /\ BodyLen(p) = ConnectLen(p)
      BY <1>1, TypesDiffer DEF BodySteps, BodyLen
    <2> QED
      BY <1>1, <2>1, PacketKinds, ConnectSized, Zenon
  <1>2. CASE p.type = PUBLISH
    <2>1. BodySteps(p) = PublishSteps(p) /\ BodyLen(p) = PublishLen(p)
      BY <1>2, TypesDiffer DEF BodySteps, BodyLen
    <2> QED
      BY <1>2, <2>1, PacketKinds, PublishSized, Zenon
  <1>3. CASE p.type \in Acks
    <2>1. BodySteps(p) = PacketIdSteps(p.pkid) /\ BodyLen(p) = PacketIdLen(p.pkid)
      BY <1>3, TypesDiffer DEF BodySteps, BodyLen
    <2>2. p.pkid \in PacketId
      BY <1>3, PacketKinds DEF PacketIdOnly
    <2> QED
      BY <2>1, <2>2, PacketIdSized, Zenon
  <1>4. CASE p.type = SUBSCRIBE
    <2>1. BodySteps(p) = SubscribeSteps(p) /\ BodyLen(p) = SubscribeLen(p)
      BY <1>4, TypesDiffer DEF BodySteps, BodyLen
    <2>2. p.pkid \in PacketId /\ p.filters \in Seq(TopicFilter)
      BY <1>4, PacketKinds DEF Subscribe
    <2> QED
      BY <2>1, <2>2, PacketIdSized, FiltersSized, SizedConcat, Zenon
         DEF SubscribeSteps, SubscribeLen
  <1>5. CASE p.type = UNSUBSCRIBE
    <2>1. BodySteps(p) = UnsubscribeSteps(p) /\ BodyLen(p) = UnsubscribeLen(p)
      BY <1>5, TypesDiffer DEF BodySteps, BodyLen
    <2>2. p.pkid \in PacketId /\ p.filters \in Seq(Texts)
      BY <1>5, PacketKinds DEF Unsubscribe
    <2> QED
      BY <2>1, <2>2, PacketIdSized, StrsSized, SizedConcat, Zenon
         DEF UnsubscribeSteps, UnsubscribeLen
  <1>6. CASE p.type = SUBACK
    <2>1. BodySteps(p) = SubAckSteps(p) /\ BodyLen(p) = SubAckLen(p)
      BY <1>6, TypesDiffer DEF BodySteps, BodyLen
    <2>2. p.pkid \in PacketId /\ p.codes \in Seq(Byte)
      BY <1>6, PacketKinds DEF SubAck, SubAckCodes, Byte
    <2>3. Sized(<<WriteAll(p.codes)>>, Len(p.codes))
      BY <2>2, SizedWriteAll
    <2> QED
      BY <2>1, <2>2, <2>3, PacketIdSized, SizedConcat, Zenon DEF SubAckSteps, SubAckLen
  <1>7. CASE p.type \notin Acks \cup {CONNECT, PUBLISH, SUBSCRIBE, UNSUBSCRIBE, SUBACK}
    <2>1. p.type # CONNACK
      BY PacketKinds
    <2>2. BodySteps(p) = << >> /\ BodyLen(p) = 0
      BY <1>7, <2>1, Zenon DEF BodySteps, BodyLen
    <2> QED
      BY <2>2, SizedNone
  <1> QED
    BY <1>1, <1>2, <1>3, <1>4, <1>5, <1>6, <1>7

\* A length that fits the fixed header takes 1 to 4 bytes.
LEMMA LenFromU32Defined ==
  ASSUME NEW v \in Nat, v <= MAX_REMAINING_LENGTH
  PROVE  /\ LenFromU32(v) \in 1..4
         /\ v < Place[LenFromU32(v) + 1]
         /\ LenFromU32(v) = 1 \/ v >= Place[LenFromU32(v)]
  <1> DEFINE P(n) == v < Place[n + 1] /\ (n = 1 \/ v >= Place[n])
  <1>1. \E n \in 1..4 : P(n)
    <2>1. v < 128 \/ (v >= 128 /\ v < 16384) \/ (v >= 16384 /\ v < 2097152)
          \/ (v >= 2097152 /\ v < 268435456)
      BY DEF MAX_REMAINING_LENGTH
    <2>2. Place[2] = 128 /\ Place[3] = 16384 /\ Place[4] = 2097152 /\ Place[5] = 268435456
      BY DEF Place
    <2>3. P(1) \/ P(2) \/ P(3) \/ P(4)
      BY <2>1, <2>2
    <2> QED
      BY <2>3
  <1>2. LenFromU32(v) = CHOOSE n \in 1..4 : P(n)
    BY DEF LenFromU32, MAX_BYTES
  <1> QED
    BY <1>1, <1>2

LEMMA EncodeToArrayIsBytes ==
  ASSUME NEW v \in Nat, v <= MAX_REMAINING_LENGTH
  PROVE  /\ EncodeToArray(v) \in Seq(Byte) /\ Len(EncodeToArray(v)) = LenFromU32(v)
         /\ EncodeLen(v) \in 2..5
  <1>1. LenFromU32(v) \in 1..4
    BY LenFromU32Defined
  <1>2. ASSUME NEW i \in 1..4
        PROVE  ((v \div Place[i]) % CONTINUE_FLAG)
                    + (IF v \div Place[i + 1] > 0 THEN CONTINUE_FLAG ELSE 0) \in Byte
    <2>1. Place[i] \in Nat \ {0}
      BY DEF Place
    <2>2. v \div Place[i] \in Nat
      BY <2>1
    <2>3. (v \div Place[i]) % CONTINUE_FLAG \in 0..127
      BY <2>2 DEF CONTINUE_FLAG
    <2>4. \A x \in 0..127 : x \in Byte /\ x + CONTINUE_FLAG \in Byte /\ x + 0 \in Byte
      BY DEF CONTINUE_FLAG, Byte
    <2>5. CASE v \div Place[i + 1] > 0
      BY <2>3, <2>4, <2>5, Zenon
    <2>6. CASE ~(v \div Place[i + 1] > 0)
      BY <2>3, <2>4, <2>6, Zenon
    <2> QED
      BY <2>5, <2>6, Zenon
  <1>a. EncodeLen(v) \in 2..5
    BY <1>1 DEF EncodeLen
  <1> SUFFICES ASSUME NEW k \in 1..4, k = LenFromU32(v)
               PROVE  EncodeToArray(v) \in Seq(Byte) /\ Len(EncodeToArray(v)) = k
    BY <1>1, <1>a, Zenon
  <1>3. EncodeToArray(v) \in [1..k -> Byte]
    <2>1. EncodeToArray(v) = [i \in 1..k |-> EncodeToArray(v)[i]]
      BY DEF EncodeToArray
    <2>2. ASSUME NEW i \in 1..k PROVE EncodeToArray(v)[i] \in Byte
      <3>1. i \in 1..4
        OBVIOUS
      <3>2. EncodeToArray(v)[i] = ((v \div Place[i]) % CONTINUE_FLAG)
                    + (IF v \div Place[i + 1] > 0 THEN CONTINUE_FLAG ELSE 0)
        BY Zenon DEF EncodeToArray
      <3> QED
        BY <1>2, <3>1, <3>2, Zenon
    <2> QED
      BY <2>1, <2>2, Zenon
  <1> QED
    BY <1>3

LEMMA HeaderFlagsBound == ASSUME NEW p \in HeaderPackets PROVE HeaderFlags(p) \in 0..15
  <1>1. CASE p.type = PUBLISH
    <2>1. Len(PublishBits) = 4 /\ AllBits[4] = 15
      BY DEF PublishBits, AllBits
    <2>2. PublishNibble(p.flags) \in Nat /\ PublishNibble(p.flags) <= 15
      BY <2>1, FlagByteBound DEF PublishNibble
    <2> QED
      BY <1>1, <2>2 DEF HeaderFlags
  <1>2. CASE p.type # PUBLISH
    <2>1. DefaultFlags(p.type) \in 0..15
      BY DEF DefaultFlags
    <2> QED
      BY <1>2, <2>1 DEF HeaderFlags
  <1> QED
    BY <1>1, <1>2

\* The header of a packet the library can frame, and how many bytes it takes.
FramesHeader(p) == ValidHeader(p.type, HeaderFlags(p), BodyLen(p))

LEMMA HeaderSized ==
  ASSUME NEW p \in HeaderPackets
  PROVE  /\ FramesHeader(p) => Sized(HeaderSteps(p), EncodeLen(BodyLen(p)))
         /\ ~FramesHeader(p) => Sized(HeaderSteps(p), 0) /\ HeaderSteps(p) = <<Check(FALSE)>>
  <1>1. p.type # CONNACK /\ p.type \in 1..14
    BY PacketKinds
  <1>2. CASE FramesHeader(p)
    <2> DEFINE t == <<EncodeTypeAndFlags(p.type, HeaderFlags(p))>>
               l == EncodeToArray(BodyLen(p))
    <2>1. HeaderSteps(p) = <<WriteAll(t), WriteAll(l)>>
      BY <1>1, <1>2, Zenon DEF HeaderSteps, FramesHeader
    <2>2. t \in Seq(Byte) /\ Len(t) = 1
      BY <1>1, HeaderFlagsBound DEF EncodeTypeAndFlags, Byte
    <2>3. BodyLen(p) \in Nat /\ BodyLen(p) <= MAX_REMAINING_LENGTH
      BY <1>2, BodySized, SizedIsNat DEF FramesHeader, ValidHeader
    <2>4. l \in Seq(Byte) /\ Len(l) = LenFromU32(BodyLen(p))
      BY <2>3, EncodeToArrayIsBytes
    <2> HIDE DEF t, l
    <2>5. Sized(<<WriteAll(t), WriteAll(l)>>, 1 + LenFromU32(BodyLen(p)))
      BY <2>2, <2>4, SizedWriteAll, SizedTwo
    <2> QED
      BY <1>2, <2>1, <2>5 DEF EncodeLen
  <1>3. CASE ~FramesHeader(p)
    <2>1. HeaderSteps(p) = <<Check(FALSE)>>
      BY <1>1, <1>3, Zenon DEF HeaderSteps, FramesHeader
    <2>3. Sized(<<Check(FALSE)>>, 0)
      BY SizedCheck
    <2> QED
      BY <1>3, <2>1, <2>3
  <1> QED
    BY <1>2, <1>3

LEMMA StepsAreSteps ==
  ASSUME NEW p \in HeaderPackets
  PROVE  /\ StepsOf(p) \in Seq(Step)
         /\ FramesHeader(p) => Sized(StepsOf(p), PacketLen(p))
  <1>1. Sized(<<Check(ChecksFirst(p))>>, 0)
    <2>2. ChecksFirst(p) \in BOOLEAN
      BY Zenon DEF ChecksFirst, PublishValid, SubscribeValid, UnsubscribeValid
    <2> QED
      BY <2>2, SizedCheck
  <1>2. Sized(BodySteps(p), BodyLen(p))
    BY BodySized
  <1>3. CASE FramesHeader(p)
    <2>1. Sized(HeaderSteps(p), EncodeLen(BodyLen(p)))
      BY <1>3, HeaderSized
    <2>2. Sized(<<Check(ChecksFirst(p))>> \o HeaderSteps(p), 0 + EncodeLen(BodyLen(p)))
      BY <1>1, <2>1, SizedConcat, Zenon
    <2>3. Sized(StepsOf(p), (0 + EncodeLen(BodyLen(p))) + BodyLen(p))
      BY <1>2, <2>2, SizedConcat, Zenon DEF StepsOf
    <2>4. EncodeLen(BodyLen(p)) \in Nat
      BY <2>1, SizedIsNat
    <2> QED
      BY <2>3, <2>4 DEF PacketLen, Sized
  <1>4. CASE ~FramesHeader(p)
    <2>1. Sized(HeaderSteps(p), 0)
      BY <1>4, HeaderSized
    <2>2. Sized(<<Check(ChecksFirst(p))>> \o HeaderSteps(p), 0 + 0)
      BY <1>1, <2>1, SizedConcat, Zenon
    <2>3. Sized(StepsOf(p), (0 + 0) + BodyLen(p))
      BY <1>2, <2>2, SizedConcat, Zenon DEF StepsOf
    <2> QED
      BY <1>4, <2>3 DEF Sized
  <1> QED
    BY <1>3, <1>4

\* The second step of a packet that cannot be framed is the check that fails.
LEMMA UnframedStops ==
  ASSUME NEW p \in HeaderPackets, ~FramesHeader(p)
  PROVE  2 \in 1..Len(StepsOf(p)) /\ ~StepsOf(p)[2].valid
  <1> DEFINE a == Check(ChecksFirst(p))
             b == Check(FALSE)
  <1>1. StepsOf(p) = <<a>> \o <<b>> \o BodySteps(p)
    BY HeaderSized DEF StepsOf
  <1>2. BodySteps(p) \in Seq(Step)
    BY BodySized DEF Sized
  <1>3. <<a>> \in Seq(Step) /\ b \in Step /\ b.valid = FALSE
    <2>2. ChecksFirst(p) \in BOOLEAN
      BY Zenon DEF ChecksFirst, PublishValid, SubscribeValid, UnsubscribeValid
    <2>3. a \in Step /\ b \in Step
      BY <2>2, SizedCheck
    <2> QED
      BY <2>3 DEF Check, CheckedWrite
  <1> HIDE DEF a, b
  <1>4. <<a>> \o <<b>> = Append(<<a>>, b)
    BY <1>3, ConcatOne, Zenon
  <1>5. Append(<<a>>, b) \in Seq(Step) /\ Len(Append(<<a>>, b)) = 2 /\ Append(<<a>>, b)[2] = b
    BY <1>3
  <1>6. ASSUME NEW u \in Seq(Step), NEW v \in Seq(Step), Len(u) = 2
        PROVE  2 \in 1..Len(u \o v) /\ (u \o v)[2] = u[2]
    BY <1>6
  <1>7. 2 \in 1..Len(StepsOf(p)) /\ StepsOf(p)[2] = b
    BY <1>1, <1>2, <1>4, <1>5, <1>6
  <1> QED
    BY <1>3, <1>7

LEMMA EncodesFrames == ASSUME NEW p \in HeaderPackets, Encodes(p) PROVE FramesHeader(p)
  BY UnframedStops DEF Encodes

(* encode_len and write_sync agree: a packet that encodes writes as many   *)
(* bytes as its fixed header declares, whatever its fields hold and        *)
(* however many filters it has.                                            *)
THEOREM LengthsAgree ==
  ASSUME NEW p \in HeaderPackets, Encodes(p)
  PROVE  SumOf(Sizes(StepsOf(p))) = PacketLen(p)
  BY EncodesFrames, StepsAreSteps DEF Sized

----------------------------------------------------------------------------
(* Wildcards.                                                              *)

LEMMA CheckedIsLegalFilter ==
  ASSUME NEW s \in Seq(Nat), HasValidWildcard(s)
  PROVE  LegalFilter(s)
  <1> SUFFICES ASSUME NEW i \in 1..Len(s), NEW j \in 1..Len(s), i <= j, IsLevel(s, i, j),
                      NEW k \in i..j, s[k] \in Wildcards
               PROVE  i = j /\ (s[k] = HASH => j = Len(s))
    BY DEF LegalFilter
  <1>1. k \in 1..Len(s) /\ k \in Int
    OBVIOUS
  <1>2. k = i
    <2> SUFFICES ASSUME k > i PROVE FALSE
      BY <1>1
    <2>1. s[k - 1] = SLASH
      BY <1>1 DEF HasValidWildcard
    <2>2. k - 1 \in i..j
      BY <1>1
    <2> QED
      BY <2>1, <2>2 DEF IsLevel
  <1>3. k = j
    <2> SUFFICES ASSUME k < j PROVE FALSE
      BY <1>1
    <2>1. s[k + 1] = SLASH
      BY <1>1 DEF HasValidWildcard
    <2>2. k + 1 \in i..j
      BY <1>1
    <2> QED
      BY <2>1, <2>2 DEF IsLevel
  <1>4. s[k] = HASH => k = Len(s)
    BY <1>1 DEF HasValidWildcard, HASH, PLUS
  <1> QED
    BY <1>2, <1>3, <1>4

\* Every character that is no slash lies in a level.
LEMMA LevelAround ==
  ASSUME NEW s \in Seq(Nat), NEW k \in 1..Len(s), s[k] # SLASH
  PROVE  \E i, j \in 1..Len(s) : i <= k /\ k <= j /\ IsLevel(s, i, j)
  <1> DEFINE B == {n \in Nat : k - n \in 0..(k - 1) /\ (n = k \/ s[k - n] = SLASH)}
             E == {n \in Nat : k + n \in (k + 1)..(Len(s) + 1) /\ (k + n = Len(s) + 1 \/ s[k + n] = SLASH)}
  <1>1. k \in Nat /\ Len(s) \in Nat /\ k >= 1 /\ k <= Len(s)
    OBVIOUS
  <1>2. k \in B /\ Len(s) + 1 - k \in E
    BY <1>1
  <1>3. B \in SUBSET Nat /\ E \in SUBSET Nat
    OBVIOUS
  <1>4. PICK b \in B : \A m \in B : b <= m
    <2> HIDE DEF B, E
    <2> QED
      BY <1>2, <1>3, LeastElement
  <1>5. PICK e \in E : \A m \in E : e <= m
    <2> HIDE DEF B, E
    <2> QED
      BY <1>2, <1>3, LeastElement
  <1> DEFINE i == k - b + 1
             j == k + e - 1
  <1>6. i \in 1..Len(s) /\ j \in 1..Len(s) /\ i <= k /\ k <= j
    BY <1>1
  <1>7. i = 1 \/ s[i - 1] = SLASH
    BY <1>1
  <1>8. j = Len(s) \/ s[j + 1] = SLASH
    BY <1>1
  <1>9. ASSUME NEW l \in i..j PROVE s[l] # SLASH
    <2>1. CASE l = k
      BY <2>1
    <2>2. CASE l < k
      <3>1. k - l \in Nat /\ k - l < b /\ k - (k - l) = l /\ l \in 0..(k - 1)
        BY <1>1, <2>2
      <3>2. k - l \notin B
        <4>1. b \in Nat
          OBVIOUS
        <4> HIDE DEF B, E, i, j
        <4> QED
          BY <1>4, <3>1, <4>1
      <3> QED
        BY <3>1, <3>2
    <2>3. CASE l > k
      <3>1. l - k \in Nat /\ l - k < e /\ k + (l - k) = l /\ l \in (k + 1)..(Len(s) + 1)
        BY <1>1, <2>3
      <3>2. l - k \notin E
        BY <1>5, <3>1
      <3> QED
        BY <3>1, <3>2
    <2> QED
      BY <1>1, <2>1, <2>2, <2>3
  <1>10. IsLevel(s, i, j)
    BY <1>7, <1>8, <1>9 DEF IsLevel
  <1> QED
    BY <1>6, <1>10

(* Looking at the neighbours of each wildcard, as has_valid_wildcard does, *)
(* decides the rule about topic levels, for strings of any length.         *)
THEOREM WildcardCheckDecides ==
  ASSUME NEW s \in Seq(Nat)
  PROVE  HasValidWildcard(s) <=> LegalFilter(s)
  <1>1. ASSUME LegalFilter(s) PROVE HasValidWildcard(s)
    <2> SUFFICES ASSUME NEW k \in 1..Len(s), s[k] \in Wildcards
                 PROVE  /\ k > 1 => s[k - 1] = SLASH
                        /\ k < Len(s) => s[k + 1] = SLASH /\ s[k] = PLUS
      BY DEF HasValidWildcard
    <2>1. s[k] # SLASH
      BY DEF Wildcards, PLUS, HASH, SLASH
    <2>2. PICK i, j \in 1..Len(s) : i <= k /\ k <= j /\ IsLevel(s, i, j)
      BY <2>1, LevelAround
    <2>3. i = j /\ (s[k] = HASH => j = Len(s))
      BY <1>1, <2>2 DEF LegalFilter
    <2>4. i = k /\ j = k
      BY <2>2, <2>3
    <2> QED
      BY <2>2, <2>3, <2>4 DEF IsLevel, Wildcards
  <1> QED
    BY <1>1, CheckedIsLegalFilter
=============================================================================
