---------------------------- MODULE WriterProofs ----------------------------
(***************************************************************************)
(* What the calls that send put on the wire, for any packets, any number   *)
(* of threads and calls and any size of the send buffer.                   *)
(***************************************************************************)
EXTENDS Writer, PacketsProofs

----------------------------------------------------------------------------
(* The steps of write_sync.                                                *)

\* The bytes the steps before step k write.
Before(s, k) == SumOf(Sizes(SubSeq(s, 1, k - 1)))

LEMMA SizesOfAppend ==
  ASSUME NEW s \in Seq(Step), NEW x \in Step
  PROVE  Sizes(Append(s, x)) = Append(Sizes(s), x.size)
  BY DEF Sizes

LEMMA BeforeIsNat ==
  ASSUME NEW s \in Seq(Step), NEW k \in 1..(Len(s) + 1)
  PROVE  Before(s, k) \in Nat
  <1>1. SubSeq(s, 1, k - 1) \in Seq(Step)
    OBVIOUS
  <1> QED
    BY <1>1, SizesOfSteps, SumIsNat DEF Before

LEMMA BeforeGrows ==
  ASSUME NEW s \in Seq(Step), NEW k \in 1..Len(s)
  PROVE  s[k] \in Step /\ Before(s, k + 1) = Before(s, k) + s[k].size
  <1> DEFINE u == SubSeq(s, 1, k - 1)
  <1>1. k - 1 \in 0..(Len(s) - 1) /\ (k - 1) + 1 = k /\ (k + 1) - 1 = k
    OBVIOUS
  <1>2. u \in Seq(Step) /\ s[k] \in Step /\ SubSeq(s, 1, k) = Append(u, s[k])
    <2>1. /\ SubSeq(s, 1, k - 1) \in Seq(Step) /\ s[(k - 1) + 1] \in Step
          /\ SubSeq(s, 1, (k - 1) + 1) = Append(SubSeq(s, 1, k - 1), s[(k - 1) + 1])
      BY <1>1, PrefixGrows, Zenon
    <2> QED
      BY <1>1, <2>1
  <1> HIDE DEF u
  <1>3. Sizes(u) \in Seq(Int) /\ s[k].size \in Int
    BY <1>2, SizesOfSteps, StepFields
  <1>4. SumOf(Sizes(Append(u, s[k]))) = SumOf(Sizes(u)) + s[k].size
    BY <1>2, <1>3, SizesOfAppend, SumOfAppend, Zenon
  <1>5. Before(s, k + 1) = SumOf(Sizes(Append(u, s[k])))
    BY <1>1, <1>2, Zenon DEF Before
  <1>6. Before(s, k) = SumOf(Sizes(u))
    BY Zenon DEF Before, u
  <1> QED
    BY <1>2, <1>4, <1>5, <1>6, Zenon

LEMMA BeforeEnds ==
  ASSUME NEW s \in Seq(Step)
  PROVE  Before(s, 1) = 0 /\ Before(s, Len(s) + 1) = SumOf(Sizes(s))
  <1>1. SubSeq(s, 1, 0) = << >> /\ SubSeq(s, 1, Len(s)) = s
    BY PrefixEnds
  <1>2. SumOf(Sizes(<< >>)) = 0
    BY SizedNone DEF Sized
  <1>3. 1 - 1 = 0 /\ (Len(s) + 1) - 1 = Len(s)
    OBVIOUS
  <1> QED
    BY <1>1, <1>2, <1>3, Zenon DEF Before

LEMMA BeforeMonotone ==
  ASSUME NEW s \in Seq(Step), NEW k \in 1..(Len(s) + 1)
  PROVE  Before(s, k) <= Before(s, Len(s) + 1)
  <1> DEFINE Q(n) == n >= k - 1 => Before(s, k) <= Before(s, n + 1)
             S == {n \in 0..Len(s) : Q(n)}
  <1>1. Before(s, k) \in Nat /\ Len(s) \in Nat
    BY BeforeIsNat
  <1>2. Q(0)
    <2>1. 0 >= k - 1 => k = 0 + 1
      OBVIOUS
    <2> QED
      BY <1>1, <2>1
  <1>3. ASSUME NEW n \in 0..(Len(s) - 1), Q(n) PROVE Q(n + 1)
    <2>1. n + 1 \in 1..Len(s) /\ n + 1 \in 1..(Len(s) + 1)
      OBVIOUS
    <2>2. Before(s, n + 1) \in Nat
      BY <2>1, BeforeIsNat
    <2>3. s[n + 1].size \in Nat /\ Before(s, (n + 1) + 1) = Before(s, n + 1) + s[n + 1].size
      BY <2>1, BeforeGrows, StepFields
    <2>4. CASE k = (n + 1) + 1
      BY <1>1, <2>4
    <2>5. CASE k <= n + 1
      BY <1>1, <1>3, <2>2, <2>3, <2>5
    <2> QED
      BY <2>4, <2>5
  <1>4. Q(Len(s))
    <2> HIDE DEF Q
    <2>1. 0 \in S /\ \A n \in 0..(Len(s) - 1) : n \in S => n + 1 \in S
      BY <1>2, <1>3
    <2>2. \A n \in 0..Len(s) : n \in S
      <3> HIDE DEF S
      <3> QED
        BY <1>1, <2>1, BoundedInduction
    <2> QED
      BY <1>1, <2>2
  <1> QED
    BY <1>4

\* The steps from k on up to the next system call write nothing and pass.
LEMMA NextCallSkips ==
  ASSUME NEW p \in HeaderPackets, NEW k \in 1..(Len(StepsOf(p)) + 1)
  PROVE  LET s == StepsOf(p)  n == NextCall(p, k) IN
         /\ n \in k..(Len(s) + 1)
         /\ n <= Len(s) => MakesCall(s[n])
         /\ \A j \in k..(n - 1) : s[j].valid
         /\ Before(s, n) = Before(s, k)
  <1> SUFFICES ASSUME NEW s \in Seq(Step), s = StepsOf(p), NEW n, n = NextCall(p, k)
               PROVE  /\ n \in k..(Len(s) + 1)
                      /\ n <= Len(s) => MakesCall(s[n])
                      /\ \A j \in k..(n - 1) : s[j].valid
                      /\ Before(s, n) = Before(s, k)
    BY StepsAreSteps
  <1> DEFINE P(i) == /\ i <= Len(s) => MakesCall(s[i])
                     /\ \A j \in k..(i - 1) : ~MakesCall(s[j])
             T == {i \in k..(Len(s) + 1) : i <= Len(s) => MakesCall(s[i])}
  <1>1. Len(s) \in Nat /\ k \in Nat
    OBVIOUS
  <1>2. \E i \in k..(Len(s) + 1) : P(i)
    <2>1. Len(s) + 1 \in T /\ T \in SUBSET Nat
      BY <1>1
    <2>2. PICK i \in T : \A m \in T : i <= m
      <3> HIDE DEF T
      <3> QED
        BY <2>1, LeastElement
    <2>3. ASSUME NEW j \in k..(i - 1) PROVE ~MakesCall(s[j])
      <3>1. j \in k..(Len(s) + 1) /\ ~(i <= j)
        BY <1>1
      <3>2. j \notin T
        BY <2>2, <3>1, Zenon
      <3> QED
        BY <3>1, <3>2
    <2> QED
      BY <2>3
  <1>3. n = CHOOSE i \in k..(Len(s) + 1) : P(i)
    BY Zenon DEF NextCall
  <1>4. n \in k..(Len(s) + 1) /\ P(n)
    <2> HIDE DEF P
    <2> QED
      BY <1>2, <1>3
  <1>5. ASSUME NEW j \in k..(n - 1)
        PROVE  j \in 1..Len(s) /\ s[j].valid /\ s[j].size = 0
    <2>1. j \in 1..Len(s) /\ ~MakesCall(s[j])
      BY <1>4
    <2>2. s[j] \in Step
      BY <2>1
    <2> QED
      BY <2>1, <2>2, StepFields DEF MakesCall
  <1> DEFINE Q(d) == Before(s, k + d) = Before(s, k)
             S == {d \in 0..(n - k) : Q(d)}
  <1>6. n - k \in Nat
    BY <1>1, <1>4
  <1>7. Q(0)
    BY <1>1
  <1>8. ASSUME NEW d \in 0..((n - k) - 1), Q(d) PROVE Q(d + 1)
    <2>1. k + d \in k..(n - 1) /\ k + (d + 1) = (k + d) + 1
      BY <1>1, <1>4
    <2>2. k + d \in 1..Len(s) /\ s[k + d].size = 0
      BY <1>5, <2>1
    <2>3. Before(s, (k + d) + 1) = Before(s, k + d) + s[k + d].size
      BY <2>2, BeforeGrows
    <2>4. Before(s, k + d) \in Nat
      <3>1. k + d \in 1..(Len(s) + 1)
        BY <2>2
      <3> QED
        BY <3>1, BeforeIsNat
    <2> QED
      BY <1>8, <2>1, <2>2, <2>3, <2>4
  <1>9. Q(n - k)
    <2> HIDE DEF Q
    <2>1. 0 \in S /\ \A d \in 0..((n - k) - 1) : d \in S => d + 1 \in S
      BY <1>6, <1>7, <1>8
    <2>2. \A d \in 0..(n - k) : d \in S
      <3> HIDE DEF S
      <3> QED
        BY <1>6, <2>1, BoundedInduction
    <2> QED
      BY <1>6, <2>2
  <1>10. k + (n - k) = n
    BY <1>1, <1>4
  <1> QED
    BY <1>4, <1>5, <1>9, <1>10

----------------------------------------------------------------------------
(* One call.                                                               *)

\* Where a call is: every check before its step passed, and its bytes are those
\* of the steps before and the part of its step that is done.
Progress(r) ==
    LET s == StepsOf(r.packet) IN
    /\ r.step \in 1..(Len(s) + 1)
    /\ r.step <= Len(s) => MakesCall(s[r.step])
    /\ \A j \in 1..(r.step - 1) : s[j].valid
    /\ r.done = 0 \/ (r.step <= Len(s) /\ s[r.step].valid /\ r.done < s[r.step].size)
    /\ r.written = Before(s, r.step) + r.done
    /\ r.status = "ok" => r.step = Len(s) + 1

LEMMA PacketsAreFramed ==
  ASSUME NEW r \in Calls
  PROVE  r.packet \in HeaderPackets /\ StepsOf(r.packet) \in Seq(Step)
  <1>1. r.packet \in HeaderPackets
    BY WriterAssumption DEF Calls, HeaderPackets
  <1> QED
    BY <1>1, StepsAreSteps

\* A call where it starts.
NewCall(t, p) ==
    [thread |-> t, packet |-> p, step |-> NextCall(p, 1), done |-> 0, written |-> 0, runs |-> 0,
     status |-> "running"]

LEMMA NewCallProgress ==
  ASSUME NEW t \in Threads, NEW p \in Sendable \cup {PingReqPacket}
  PROVE  NewCall(t, p) \in Calls /\ Progress(NewCall(t, p))
  <1>1. p \in HeaderPackets
    BY WriterAssumption DEF HeaderPackets
  <1> SUFFICES ASSUME NEW s \in Seq(Step), s = StepsOf(p), NEW n, n = NextCall(p, 1)
               PROVE  NewCall(t, p) \in Calls /\ Progress(NewCall(t, p))
    BY <1>1, StepsAreSteps
  <1>2. 1 \in 1..(Len(s) + 1)
    OBVIOUS
  <1>3. /\ n \in 1..(Len(s) + 1)
        /\ n <= Len(s) => MakesCall(s[n])
        /\ \A j \in 1..(n - 1) : s[j].valid
        /\ Before(s, n) = Before(s, 1)
    BY <1>1, <1>2, NextCallSkips
  <1>4. Before(s, n) = 0
    BY <1>3, BeforeEnds
  <1>5. NewCall(t, p) \in Calls
    BY <1>3 DEF NewCall, Calls
  <1> QED
    BY <1>3, <1>4, <1>5 DEF NewCall, Progress

\* Call r after n bytes of its step, in the run at the end of the wire or not.
Wrote(r, n, same) ==
    [(IF n = StepsOf(r.packet)[r.step].size - r.done
      THEN [r EXCEPT !.step = NextCall(r.packet, @ + 1), !.done = 0]
      ELSE [r EXCEPT !.done = @ + n])
     EXCEPT !.written = @ + n, !.runs = IF same THEN @ ELSE @ + 1]

\* Call w is call r at another place.
MovedTo(w, r, m, d, x, k) ==
    /\ w \in Calls
    /\ w.step = m /\ w.done = d /\ w.written = x /\ w.runs = k
    /\ w.status = r.status /\ w.packet = r.packet

LEMMA WroteStep ==
  ASSUME NEW r \in Calls, NEW n \in Nat, NEW m \in Nat \ {0},
         NEW same \in BOOLEAN, NEW k \in Nat, k = IF same THEN r.runs ELSE r.runs + 1,
         n = StepsOf(r.packet)[r.step].size - r.done, m = NextCall(r.packet, r.step + 1),
         NEW w, w = Wrote(r, n, same)
  PROVE  MovedTo(w, r, m, 0, r.written + n, k)
  <1>1. w = [thread |-> r.thread, packet |-> r.packet, step |-> m, done |-> 0,
             written |-> r.written + n, runs |-> k, status |-> r.status]
    BY DEF Calls, Wrote
  <1>2. /\ r.thread \in Threads /\ r.packet \in Sendable \cup {PingReqPacket}
        /\ r.status \in {"running", "ok", "err"} /\ r.written + n \in Nat
    BY DEF Calls
  <1>3. w \in Calls
    BY <1>1, <1>2 DEF Calls
  <1> QED
    BY <1>1, <1>3 DEF MovedTo

LEMMA WrotePart ==
  ASSUME NEW r \in Calls, NEW n \in Nat,
         NEW same \in BOOLEAN, NEW k \in Nat, k = IF same THEN r.runs ELSE r.runs + 1,
         n # StepsOf(r.packet)[r.step].size - r.done, NEW w, w = Wrote(r, n, same)
  PROVE  MovedTo(w, r, r.step, r.done + n, r.written + n, k)
  <1>1. w = [thread |-> r.thread, packet |-> r.packet, step |-> r.step, done |-> r.done + n,
             written |-> r.written + n, runs |-> k, status |-> r.status]
    BY DEF Calls, Wrote
  <1>2. /\ r.thread \in Threads /\ r.packet \in Sendable \cup {PingReqPacket}
        /\ r.status \in {"running", "ok", "err"} /\ r.step \in Nat \ {0}
        /\ r.done + n \in Nat /\ r.written + n \in Nat
    BY DEF Calls
  <1>3. w \in Calls
    BY <1>1, <1>2 DEF Calls
  <1> QED
    BY <1>1, <1>3 DEF MovedTo

\* Call w is call r, in progress, with n bytes more.
GoesOn(w, r, n, k) ==
    /\ w \in Calls /\ Progress(w)
    /\ w.written = r.written + n /\ w.runs = k /\ w.status = "running" /\ w.packet = r.packet

LEMMA WroteProgress ==
  ASSUME NEW r \in Calls, Progress(r), r.status = "running",
         r.step <= Len(StepsOf(r.packet)), StepsOf(r.packet)[r.step].valid,
         NEW n \in Nat, n <= StepsOf(r.packet)[r.step].size - r.done,
         NEW same \in BOOLEAN, NEW k \in Nat, k = IF same THEN r.runs ELSE r.runs + 1
  PROVE  GoesOn(Wrote(r, n, same), r, n, k)
  <1>1. r.packet \in HeaderPackets /\ StepsOf(r.packet) \in Seq(Step)
    BY PacketsAreFramed
  <1> SUFFICES ASSUME NEW s \in Seq(Step), s = StepsOf(r.packet)
               PROVE  GoesOn(Wrote(r, n, same), r, n, k)
    BY <1>1
  <1>2. /\ r.step \in 1..Len(s) /\ s[r.step] \in Step /\ s[r.step].size \in Nat
        /\ r.done \in Nat /\ r.written \in Nat
        /\ s[r.step].valid /\ n <= s[r.step].size - r.done
    BY BeforeGrows, StepFields DEF Calls, Progress
  <1>3. Before(s, r.step) \in Nat /\ r.step \in 1..(Len(s) + 1)
    BY <1>2, BeforeIsNat
  <1>4. Before(s, r.step + 1) = Before(s, r.step) + s[r.step].size
    BY <1>2, BeforeGrows
  <1>5. r.written = Before(s, r.step) + r.done /\ \A j \in 1..(r.step - 1) : s[j].valid
    BY DEF Progress
  <1>6. CASE n = s[r.step].size - r.done
    <2> SUFFICES ASSUME NEW m, m = NextCall(r.packet, r.step + 1), NEW w, w = Wrote(r, n, same)
                 PROVE  /\ w \in Calls /\ Progress(w) /\ w.written = r.written + n /\ w.runs = k
                        /\ w.status = "running" /\ w.packet = r.packet
      BY DEF GoesOn
    <2>1. r.step + 1 \in 1..(Len(s) + 1)
      BY <1>2
    <2>2. /\ m \in (r.step + 1)..(Len(s) + 1)
          /\ m <= Len(s) => MakesCall(s[m])
          /\ \A j \in (r.step + 1)..(m - 1) : s[j].valid
          /\ Before(s, m) = Before(s, r.step + 1)
      BY <1>1, <2>1, NextCallSkips
    <2>4. /\ w.step = m /\ w.done = 0 /\ w.written = r.written + n /\ w.runs = k
          /\ w.status = "running" /\ w.packet = r.packet /\ w \in Calls
      <3>1. m \in Nat \ {0} /\ n = StepsOf(r.packet)[r.step].size - r.done
        BY <1>2, <1>6, <2>2
      <3> QED
        <4>1. MovedTo(w, r, m, 0, r.written + n, k)
          BY <3>1, WroteStep, Zenon
        <4> QED
          BY <4>1 DEF MovedTo
    <2>5. ASSUME NEW j \in 1..(m - 1) PROVE s[j].valid
      <3>1. CASE j \in 1..(r.step - 1)
        BY <1>5, <3>1
      <3>2. CASE j = r.step
        BY <1>2, <3>2
      <3>3. CASE j \in (r.step + 1)..(m - 1)
        BY <2>2, <3>3
      <3> QED
        BY <1>2, <3>1, <3>2, <3>3
    <2>6. w.written = Before(s, m) + 0
      <3>1. r.written + n = Before(s, r.step) + s[r.step].size
        <4>1. PICK z \in Nat : z = s[r.step].size
          BY <1>2
        <4>2. PICK b \in Nat : b = Before(s, r.step)
          BY <1>3
        <4>3. PICK d \in Nat : d = r.done
          BY <1>2
        <4>4. r.written = b + d /\ n = z - d
          BY <1>5, <1>6, <4>1, <4>2, <4>3, Zenon
        <4>5. (b + d) + (z - d) = b + z
          OBVIOUS
        <4> QED
          BY <4>1, <4>2, <4>4, <4>5, Zenon
      <3> QED
        BY <1>2, <1>3, <1>4, <2>2, <2>4, <3>1
    <2> QED
      BY <1>2, <2>2, <2>4, <2>5, <2>6 DEF Progress
  <1>7. CASE n # s[r.step].size - r.done
    <2> SUFFICES ASSUME NEW w, w = Wrote(r, n, same)
                 PROVE  /\ w \in Calls /\ Progress(w) /\ w.written = r.written + n /\ w.runs = k
                        /\ w.status = "running" /\ w.packet = r.packet
      BY DEF GoesOn
    <2>2. /\ w.step = r.step /\ w.done = r.done + n /\ w.written = r.written + n /\ w.runs = k
          /\ w.status = "running" /\ w.packet = r.packet /\ w \in Calls
      <3>1. MovedTo(w, r, r.step, r.done + n, r.written + n, k)
        BY <1>7, WrotePart, Zenon
      <3> QED
        BY <3>1 DEF MovedTo
    <2>3. w.done < s[r.step].size /\ w.written = Before(s, r.step) + w.done
      <3>1. r.done + n < s[r.step].size
        BY <1>2, <1>7
      <3>2. r.written + n = Before(s, r.step) + (r.done + n)
        BY <1>2, <1>3, <1>5
      <3> QED
        BY <2>2, <3>1, <3>2, Zenon
    <2> QED
      BY <1>2, <1>3, <1>5, <2>2, <2>3 DEF Progress
  <1> QED
    BY <1>6, <1>7

LEMMA EndProgress ==
  ASSUME NEW r \in Calls, Progress(r), NEW v \in {"ok", "err"},
         v = "ok" => r.step > Len(StepsOf(r.packet))
  PROVE  LET w == [r EXCEPT !.status = v] IN
         /\ w \in Calls /\ Progress(w) /\ w.status = v
         /\ w.written = r.written /\ w.runs = r.runs /\ w.packet = r.packet
  <1> SUFFICES ASSUME NEW w, w = [r EXCEPT !.status = v]
               PROVE  /\ w \in Calls /\ Progress(w) /\ w.status = v
                      /\ w.written = r.written /\ w.runs = r.runs /\ w.packet = r.packet
    OBVIOUS
  <1>1. /\ w \in Calls /\ w.step = r.step /\ w.done = r.done /\ w.written = r.written
        /\ w.runs = r.runs /\ w.packet = r.packet /\ w.status = v
    BY DEF Calls
  <1>2. StepsOf(r.packet) \in Seq(Step)
    BY PacketsAreFramed
  <1>3. v = "ok" => r.step = Len(StepsOf(r.packet)) + 1
    BY <1>2 DEF Progress
  <1> QED
    BY <1>1, <1>3 DEF Progress

----------------------------------------------------------------------------
(* What the place of a call says of its bytes.                             *)

\* The first step is the check of the whole packet.
LEMMA FirstStep ==
  ASSUME NEW p \in HeaderPackets
  PROVE  /\ Len(StepsOf(p)) \in Nat \ {0}
         /\ StepsOf(p)[1].size = 0
         /\ StepsOf(p)[1].valid <=> ChecksFirst(p)
  <1> DEFINE a == Check(ChecksFirst(p))
  <1>1. a.size = 0 /\ (a.valid <=> ChecksFirst(p))
    BY DEF Check, CheckedWrite
  <1>2. HeaderSteps(p) \in Seq(Step) /\ BodySteps(p) \in Seq(Step)
    BY HeaderSized, BodySized DEF Sized
  <1>3. a \in Step
    <2>1. ChecksFirst(p) \in BOOLEAN
      BY Zenon DEF ChecksFirst, PublishValid, SubscribeValid, UnsubscribeValid
    <2> QED
      BY <2>1, SizedCheck, Zenon
  <1>4. StepsOf(p) = <<a>> \o HeaderSteps(p) \o BodySteps(p)
    BY DEF StepsOf
  <1> HIDE DEF a
  <1>5. <<a>> \in Seq(Step) /\ Len(<<a>>) = 1 /\ <<a>>[1] = a
    BY <1>3
  <1>6. ASSUME NEW u \in Seq(Step), NEW v \in Seq(Step), Len(u) >= 1
        PROVE  u \o v \in Seq(Step) /\ Len(u \o v) >= 1 /\ (u \o v)[1] = u[1]
    BY <1>6
  <1> DEFINE b == <<a>> \o HeaderSteps(p)
  <1>7. b \in Seq(Step) /\ Len(b) >= 1 /\ b[1] = a
    BY <1>2, <1>5, <1>6
  <1> HIDE DEF b
  <1>8. StepsOf(p) \in Seq(Step) /\ Len(StepsOf(p)) >= 1 /\ StepsOf(p)[1] = a
    BY <1>2, <1>4, <1>6, <1>7 DEF b
  <1> QED
    BY <1>1, <1>8

LEMMA OkIsWhole ==
  ASSUME NEW r \in Calls, Progress(r), r.status = "ok"
  PROVE  r.written = PacketLen(r.packet)
  <1>1. r.packet \in HeaderPackets /\ StepsOf(r.packet) \in Seq(Step)
    BY PacketsAreFramed
  <1> SUFFICES ASSUME NEW s \in Seq(Step), s = StepsOf(r.packet)
               PROVE  r.written = PacketLen(r.packet)
    BY <1>1
  <1>2. r.step = Len(s) + 1 /\ Len(s) \in Nat
    BY DEF Progress
  <1>3. /\ \A j \in 1..(r.step - 1) : s[j].valid
        /\ r.done = 0
        /\ r.written = Before(s, r.step) + r.done
    BY <1>2 DEF Progress
  <1>4. Encodes(r.packet)
    <2>1. r.step - 1 = Len(s)
      BY <1>2
    <2> QED
      BY <1>3, <2>1, Zenon DEF Encodes
  <1>5. SumOf(Sizes(s)) = PacketLen(r.packet)
    BY <1>1, <1>4, LengthsAgree
  <1>6. Before(s, Len(s) + 1) \in Nat /\ Before(s, Len(s) + 1) = SumOf(Sizes(s))
    <2>1. Len(s) + 1 \in 1..(Len(s) + 1)
      BY <1>2
    <2> QED
      BY <2>1, BeforeIsNat, BeforeEnds
  <1> QED
    BY <1>2, <1>3, <1>5, <1>6

LEMMA RefusedWritesNothing ==
  ASSUME NEW r \in Calls, Progress(r), ~ChecksFirst(r.packet)
  PROVE  r.written = 0
  <1>1. r.packet \in HeaderPackets /\ StepsOf(r.packet) \in Seq(Step)
    BY PacketsAreFramed
  <1> SUFFICES ASSUME NEW s \in Seq(Step), s = StepsOf(r.packet)
               PROVE  r.written = 0
    BY <1>1
  <1>2. ~s[1].valid
    BY <1>1, FirstStep
  <1>3. r.step = 1
    BY <1>2 DEF Progress
  <1>4. r.done = 0 /\ r.written = Before(s, 1) + r.done
    BY <1>2, <1>3 DEF Progress
  <1> QED
    BY <1>4, BeforeEnds

\* A packet with no fixed header stops at the second step.
LEMMA UnframedWritesNothing ==
  ASSUME NEW r \in Calls, Progress(r), ~FramesHeader(r.packet)
  PROVE  r.written = 0
  <1>1. r.packet \in HeaderPackets /\ StepsOf(r.packet) \in Seq(Step)
    BY PacketsAreFramed
  <1> SUFFICES ASSUME NEW s \in Seq(Step), s = StepsOf(r.packet)
               PROVE  r.written = 0
    BY <1>1
  <1>2. Len(s) >= 2 /\ ~s[2].valid
    BY <1>1, UnframedStops
  <1>3. s[1].size = 0
    BY <1>1, FirstStep
  <1>4. r.step \in 1..2
    BY <1>2 DEF Progress
  <1>5. Before(s, 1) = 0
    BY BeforeEnds
  <1>6. Before(s, 2) = 0
    <2>1. 1 \in 1..Len(s) /\ 1 + 1 = 2
      BY <1>2
    <2>2. Before(s, 1 + 1) = Before(s, 1) + s[1].size
      BY <2>1, BeforeGrows
    <2> QED
      BY <1>3, <1>5, <2>1, <2>2
  <1>7. r.done = 0
    <2>1. CASE r.step = 1
      <3>1. s[1] \in Step
        BY <1>2
      <3> QED
        BY <1>3, <2>1, <3>1, StepFields DEF Progress, Calls
    <2>2. CASE r.step = 2
      BY <1>2, <2>2 DEF Progress
    <2> QED
      BY <1>4, <2>1, <2>2
  <1>8. r.written = Before(s, r.step) + r.done
    BY DEF Progress
  <1>9. Before(s, r.step) = 0
    BY <1>4, <1>5, <1>6
  <1> QED
    BY <1>7, <1>8, <1>9

LEMMA WrittenFits ==
  ASSUME NEW r \in Calls, Progress(r), r.written > 0
  PROVE  BodyLen(r.packet) <= MAX_REMAINING_LENGTH /\ r.written <= PacketLen(r.packet)
  <1>1. r.packet \in HeaderPackets /\ StepsOf(r.packet) \in Seq(Step)
    BY PacketsAreFramed
  <1> SUFFICES ASSUME NEW s \in Seq(Step), s = StepsOf(r.packet)
               PROVE  BodyLen(r.packet) <= MAX_REMAINING_LENGTH /\ r.written <= PacketLen(r.packet)
    BY <1>1
  <1>2. FramesHeader(r.packet)
    BY UnframedWritesNothing DEF Calls
  <1>3. SumOf(Sizes(s)) = PacketLen(r.packet)
    BY <1>1, <1>2, StepsAreSteps DEF Sized
  <1>4. Before(s, Len(s) + 1) = PacketLen(r.packet)
    BY <1>3, BeforeEnds
  <1>5. /\ r.step \in 1..(Len(s) + 1) /\ r.done \in Nat
        /\ r.done = 0 \/ (r.step <= Len(s) /\ r.done < s[r.step].size)
        /\ r.written = Before(s, r.step) + r.done
    BY DEF Progress, Calls
  <1>6. r.written <= Before(s, Len(s) + 1)
    <2>1. Before(s, r.step) \in Nat /\ Before(s, Len(s) + 1) \in Nat
      <3>1. Len(s) + 1 \in 1..(Len(s) + 1)
        OBVIOUS
      <3> QED
        BY <1>5, <3>1, BeforeIsNat
    <2>2. CASE r.done = 0
      BY <1>5, <2>1, <2>2, BeforeMonotone
    <2>3. CASE r.step <= Len(s) /\ r.done < s[r.step].size
      <3>1. r.step \in 1..Len(s) /\ r.step + 1 \in 1..(Len(s) + 1)
        BY <1>5, <2>3
      <3>2. Before(s, r.step + 1) = Before(s, r.step) + s[r.step].size /\ s[r.step].size \in Nat
        BY <3>1, BeforeGrows, StepFields
      <3>3. Before(s, r.step + 1) <= Before(s, Len(s) + 1)
        BY <3>1, BeforeMonotone
      <3> QED
        BY <1>5, <2>1, <2>3, <3>2, <3>3
    <2> QED
      BY <1>5, <2>2, <2>3
  <1> QED
    BY <1>2, <1>4, <1>6 DEF FramesHeader, ValidHeader

----------------------------------------------------------------------------
(* The wire.                                                               *)

OnWire(c) == \E i \in 1..Len(wire) : wire[i] = c

AllProgress == \A c \in 1..Len(calls) : Progress(calls[c])

WireOnce == \A i, j \in 1..Len(wire) : wire[i] = wire[j] => i = j

WireWritten == \A c \in 1..Len(calls) : calls[c].written > 0 <=> OnWire(c)

\* Calls that never overlapped: the last call alone may be in progress, its bytes
\* end the wire, and each call's bytes are in one run.
Alone ==
    ~overlapped =>
        /\ \A c \in Running : c = Len(calls)
        /\ \A c \in Running : calls[c].written > 0 => wire[Len(wire)] = c
        /\ \A c \in 1..Len(calls) : calls[c].runs = IF calls[c].written > 0 THEN 1 ELSE 0
        /\ last = IF wire = << >> THEN 0 ELSE wire[Len(wire)]

WireTypes ==
    /\ calls \in Seq(Calls)
    /\ wire \in Seq(1..Len(calls))
    /\ last \in 0..Len(calls)
    /\ space \in 0..SendBuffer
    /\ sent_flag \in BOOLEAN
    /\ overlapped \in BOOLEAN

IInv == WireTypes /\ AllProgress /\ WireOnce /\ WireWritten /\ Alone

LEMMA InitIInv == Init => IInv
  <1> SUFFICES ASSUME Init PROVE IInv
    OBVIOUS
  <1> USE DEF Init
  <1>1. WireTypes
    <2>1. << >> \in Seq(Calls) /\ << >> \in Seq(1..Len(<< >>)) /\ 0 \in 0..Len(<< >>)
      OBVIOUS
    <2>2. SendBuffer \in 0..SendBuffer
      BY WriterAssumption
    <2> QED
      BY <2>1, <2>2 DEF WireTypes
  <1>2. AllProgress /\ WireOnce /\ WireWritten
    BY DEF AllProgress, WireOnce, WireWritten
  <1>3. Alone
    BY DEF Alone, Running
  <1> QED
    BY <1>1, <1>2, <1>3 DEF IInv

LEMMA StartKeeps ==
  ASSUME IInv, NEW t \in Threads, NEW p \in Sendable \cup {PingReqPacket}, Start(t, p),
         sent_flag' = sent_flag
  PROVE  IInv'
  <1> SUFFICES ASSUME NEW r \in Calls, r = NewCall(t, p), Progress(r) PROVE IInv'
    BY NewCallProgress
  <1>1. /\ calls \in Seq(Calls) /\ wire \in Seq(1..Len(calls)) /\ last \in 0..Len(calls)
        /\ space \in 0..SendBuffer /\ sent_flag \in BOOLEAN /\ overlapped \in BOOLEAN
    BY DEF IInv, WireTypes
  <1>2. r.status = "running" /\ r.written = 0 /\ r.runs = 0
    BY DEF NewCall
  <1>3. /\ calls' = Append(calls, r) /\ wire' = wire /\ last' = last /\ space' = space
        /\ overlapped' = (overlapped \/ Running # {})
    BY DEF Start, NewCall
  <1>4. /\ calls' \in Seq(Calls) /\ Len(calls') = Len(calls) + 1 /\ Len(calls) \in Nat
        /\ \A c \in 1..Len(calls) : calls'[c] = calls[c]
        /\ calls'[Len(calls) + 1] = r
    BY <1>1, <1>3
  <1>5. WireTypes'
    <2>1. wire' \in Seq(1..Len(calls'))
      BY <1>1, <1>3, <1>4
    <2> QED
      BY <1>1, <1>3, <1>4, <2>1 DEF WireTypes
  <1>6. AllProgress'
    BY <1>4 DEF IInv, AllProgress
  <1>7. WireOnce'
    BY <1>3 DEF IInv, WireOnce
  <1>8. WireWritten'
    <2> SUFFICES ASSUME NEW c \in 1..Len(calls') PROVE calls'[c].written > 0 <=> OnWire(c)'
      BY DEF WireWritten
    <2>1. CASE c \in 1..Len(calls)
      BY <1>3, <1>4, <2>1 DEF IInv, WireWritten, OnWire
    <2>2. CASE c = Len(calls) + 1
      BY <1>1, <1>2, <1>3, <1>4, <2>2 DEF OnWire
    <2> QED
      BY <1>4, <2>1, <2>2
  <1>9. Alone'
    <2> SUFFICES ASSUME ~overlapped' PROVE Alone'
      BY DEF Alone
    <2>1. ~overlapped /\ Running = {}
      BY <1>3
    <2>2. \A c \in Running' : c = Len(calls')
      BY <1>4, <2>1 DEF Running
    <2>3. \A c \in Running' : calls'[c].written = 0
      BY <1>2, <1>4, <2>2
    <2>4. \A c \in 1..Len(calls') : calls'[c].runs = IF calls'[c].written > 0 THEN 1 ELSE 0
      BY <1>2, <1>4, <2>1 DEF IInv, Alone
    <2>5. last' = IF wire' = << >> THEN 0 ELSE wire'[Len(wire')]
      BY <1>3, <2>1 DEF IInv, Alone
    <2> QED
      BY <2>2, <2>3, <2>4, <2>5 DEF Alone
  <1> QED
    BY <1>5, <1>6, <1>7, <1>8, <1>9 DEF IInv

LEMMA ReplaceOne ==
  ASSUME NEW S, NEW s \in Seq(S), NEW c \in 1..Len(s), NEW w \in S, NEW u, u = [s EXCEPT ![c] = w]
  PROVE  /\ u \in Seq(S) /\ Len(u) = Len(s) /\ u[c] = w
         /\ \A d \in 1..Len(s) : d # c => u[d] = s[d]
  OBVIOUS

LEMMA EndKeeps ==
  ASSUME IInv, NEW c \in Running, NEW v \in {"ok", "err"},
         v = "ok" => calls[c].step > Len(StepsOf(calls[c].packet)),
         calls' = [calls EXCEPT ![c].status = v],
         sent_flag' \in BOOLEAN, UNCHANGED <<wire, last, space, overlapped>>
  PROVE  IInv'
  <1>1. /\ calls \in Seq(Calls) /\ wire \in Seq(1..Len(calls)) /\ last \in 0..Len(calls)
        /\ space \in 0..SendBuffer /\ overlapped \in BOOLEAN
    BY DEF IInv, WireTypes
  <1>2. c \in 1..Len(calls) /\ calls[c] \in Calls /\ Progress(calls[c])
    BY <1>1 DEF Running, IInv, AllProgress
  <1> SUFFICES ASSUME NEW w, w = [calls[c] EXCEPT !.status = v] PROVE IInv'
    OBVIOUS
  <1>3. /\ w \in Calls /\ Progress(w) /\ w.status = v
        /\ w.written = calls[c].written /\ w.runs = calls[c].runs
    BY <1>2, EndProgress
  <1>4. /\ calls' \in Seq(Calls) /\ Len(calls') = Len(calls)
        /\ calls'[c] = w /\ \A d \in 1..Len(calls) : d # c => calls'[d] = calls[d]
    <2>1. calls' = [calls EXCEPT ![c] = w]
      OBVIOUS
    <2> QED
      BY <1>1, <1>2, <1>3, <2>1, ReplaceOne
  <1>5. WireTypes'
    BY <1>1, <1>4 DEF WireTypes
  <1>6. AllProgress'
    BY <1>3, <1>4 DEF IInv, AllProgress
  <1>7. WireOnce'
    BY DEF IInv, WireOnce
  <1>8. \A d \in 1..Len(calls) : calls'[d].written = calls[d].written /\ calls'[d].runs = calls[d].runs
    BY <1>3, <1>4
  <1>9. WireWritten'
    BY <1>4, <1>8 DEF IInv, WireWritten, OnWire
  <1>10. Running' \subseteq Running
    BY <1>3, <1>4 DEF Running
  <1>11. Alone'
    <2> SUFFICES ASSUME ~overlapped PROVE Alone'
      BY DEF Alone
    <2>1. /\ \A d \in Running : d = Len(calls)
          /\ \A d \in Running : calls[d].written > 0 => wire[Len(wire)] = d
          /\ \A d \in 1..Len(calls) : calls[d].runs = IF calls[d].written > 0 THEN 1 ELSE 0
          /\ last = IF wire = << >> THEN 0 ELSE wire[Len(wire)]
      BY DEF IInv, Alone
    <2>2. \A d \in Running' : d = Len(calls')
      BY <1>4, <1>10, <2>1
    <2>3. \A d \in Running' : calls'[d].written > 0 => wire'[Len(wire')] = d
      BY <1>8, <1>10, <2>1 DEF Running
    <2>4. \A d \in 1..Len(calls') : calls'[d].runs = IF calls'[d].written > 0 THEN 1 ELSE 0
      BY <1>4, <1>8, <2>1
    <2> QED
      BY <2>1, <2>2, <2>3, <2>4 DEF Alone
  <1> QED
    BY <1>5, <1>6, <1>7, <1>9, <1>11 DEF IInv

LEMMA AppendOne == ASSUME NEW S, NEW s \in Seq(S), NEW x \in S PROVE Append(s, x) \in Seq(S)
  OBVIOUS

LEMMA WriteKeeps ==
  ASSUME IInv, NEW c \in 1..Len(calls), WriteSome(c)
  PROVE  IInv'
  <1>1. /\ calls \in Seq(Calls) /\ wire \in Seq(1..Len(calls)) /\ last \in 0..Len(calls)
        /\ space \in 0..SendBuffer /\ sent_flag \in BOOLEAN /\ overlapped \in BOOLEAN
        /\ SendBuffer \in Nat
    BY WriterAssumption DEF IInv, WireTypes
  <1> DEFINE r == calls[c]
             s == StepsOf(r.packet)
  <1>2. /\ r \in Calls /\ Progress(r) /\ r.status = "running" /\ c \in Running
        /\ r.step <= Len(s) /\ s[r.step].valid
    BY <1>1 DEF IInv, AllProgress, WriteSome, Unfinished, StepNow, Running
  <1>3. s[r.step].size \in Nat /\ r.done \in Nat /\ r.done < s[r.step].size
    <2>1. s \in Seq(Step) /\ r.step \in 1..Len(s)
      BY <1>2, PacketsAreFramed DEF Progress
    <2>2. s[r.step] \in Step
      BY <2>1, BeforeGrows
    <2>3. s[r.step].size \in Nat /\ r.done \in Nat
      BY <1>2, <2>2, StepFields DEF Calls
    <2>4. s[r.step].size > 0
      BY <1>2, <2>3 DEF Progress, MakesCall
    <2> QED
      BY <1>2, <2>3, <2>4 DEF Progress
  <1>4. PICK n \in Nat : /\ n > 0 /\ n <= s[r.step].size - r.done /\ n <= space
                         /\ Put(c, n) /\ space' = space - n
    <2>1. Left(c) = s[r.step].size - r.done
      BY DEF Left, StepNow
    <2>2. Left(c) \in Nat \ {0} /\ space \in Nat \ {0}
      BY <1>1, <1>3, <2>1 DEF WriteSome
    <2> DEFINE size == IF Left(c) <= space THEN Left(c) ELSE space
    <2>3. Put(c, size) /\ space' = space - size
      BY <1>1, Zenon DEF WriteSome
    <2>4. size \in Nat /\ size > 0 /\ size <= Left(c) /\ size <= space
      BY <2>2
    <2> HIDE DEF size
    <2>5. size <= s[r.step].size - r.done
      BY <2>1, <2>4, Zenon
    <2> QED
      BY <2>3, <2>4, <2>5, Zenon
  <1> SUFFICES ASSUME NEW w, w = Wrote(r, n, last = c), NEW k, k = IF last = c THEN r.runs ELSE r.runs + 1
               PROVE  IInv'
    OBVIOUS
  <1>5. k \in Nat /\ r.written \in Nat /\ r.runs \in Nat
    BY <1>2 DEF Calls
  <1>6. w \in Calls /\ Progress(w) /\ w.written = r.written + n /\ w.runs = k /\ w.status = "running"
    <2> SUFFICES ASSUME NEW same \in BOOLEAN, same = (last = c) PROVE GoesOn(w, r, n, k)
      BY DEF GoesOn
    <2>1. w = Wrote(r, n, same) /\ k = IF same THEN r.runs ELSE r.runs + 1
      OBVIOUS
    <2> HIDE DEF r
    <2> QED
      BY <1>2, <1>4, <1>5, <2>1, WroteProgress, Zenon DEF s
  <1>7. calls' = [calls EXCEPT ![c] = w]
    BY <1>4 DEF Put, Advance, Left, StepNow, Wrote
  <1>8. /\ calls' \in Seq(Calls) /\ Len(calls') = Len(calls)
        /\ calls'[c] = w /\ \A d \in 1..Len(calls) : d # c => calls'[d] = calls[d]
    BY <1>1, <1>6, <1>7, ReplaceOne
  <1>9. last' = c /\ wire' = (IF r.written = 0 THEN Append(wire, c) ELSE wire) /\ overlapped' = overlapped
        /\ sent_flag' = sent_flag
    BY <1>4 DEF Put, WriteSome
  <1>10. r.written > 0 <=> OnWire(c)
    BY DEF IInv, WireWritten
  <1>11. w.written > 0
    BY <1>4, <1>5, <1>6
  <1> HIDE DEF r, s
  <1>12. WireTypes'
    <2>1. wire' \in Seq(1..Len(calls'))
      <3>1. wire' \in Seq(1..Len(calls))
        <4>1. Append(wire, c) \in Seq(1..Len(calls))
          BY <1>1, AppendOne, Zenon
        <4> QED
          BY <1>1, <1>9, <4>1, Zenon
      <3> QED
        BY <1>8, <3>1
    <2>2. space' \in 0..SendBuffer
      BY <1>1, <1>4
    <2> QED
      BY <1>1, <1>8, <1>9, <2>1, <2>2 DEF WireTypes
  <1>13. AllProgress'
    BY <1>6, <1>8 DEF IInv, AllProgress
  <1>14. /\ Len(wire) \in Nat
         /\ r.written = 0 => /\ Len(wire') = Len(wire) + 1 /\ wire'[Len(wire) + 1] = c
                             /\ \A i \in 1..Len(wire) : wire'[i] = wire[i]
         /\ r.written # 0 => wire' = wire
    BY <1>1, <1>9
  <1>15. WireOnce'
    <2>1. CASE r.written = 0
      <3>1. ~OnWire(c)
        BY <1>5, <1>10, <2>1
      <3>2. \A i \in 1..Len(wire) : wire'[i] # c
        BY <1>14, <2>1, <3>1 DEF OnWire
      <3> SUFFICES ASSUME NEW i \in 1..Len(wire'), NEW j \in 1..Len(wire'), wire'[i] = wire'[j]
                   PROVE  i = j
        BY DEF WireOnce
      <3>3. (i \in 1..Len(wire) \/ i = Len(wire) + 1) /\ (j \in 1..Len(wire) \/ j = Len(wire) + 1)
        BY <1>14, <2>1
      <3> QED
        BY <1>14, <2>1, <3>2, <3>3 DEF IInv, WireOnce
    <2>2. CASE r.written # 0
      BY <1>14, <2>2 DEF IInv, WireOnce
    <2> QED
      BY <2>1, <2>2
  <1>16. WireWritten'
    <2> SUFFICES ASSUME NEW d \in 1..Len(calls) PROVE calls'[d].written > 0 <=> OnWire(d)'
      BY <1>8 DEF WireWritten
    <2>1. calls[d].written > 0 <=> OnWire(d)
      BY DEF IInv, WireWritten
    <2>2. CASE r.written # 0
      <3>1. OnWire(d)' <=> OnWire(d)
        BY <1>14, <2>2 DEF OnWire
      <3>2. calls'[d].written > 0 <=> calls[d].written > 0
        BY <1>5, <1>8, <1>11, <2>2 DEF r
      <3> QED
        BY <2>1, <3>1, <3>2
    <2>3. CASE r.written = 0
      <3>1. OnWire(d)' <=> OnWire(d) \/ d = c
        BY <1>14, <2>3 DEF OnWire
      <3>2. CASE d = c
        BY <1>8, <1>11, <3>1, <3>2
      <3>3. CASE d # c
        BY <1>8, <2>1, <3>1, <3>3
      <3> QED
        BY <3>2, <3>3
    <2> QED
      BY <2>2, <2>3
  <1>17. Running' = Running
    BY <1>2, <1>6, <1>8 DEF Running, r
  <1>18. Alone'
    <2> SUFFICES ASSUME ~overlapped PROVE Alone'
      BY <1>9 DEF Alone
    <2>1. /\ \A d \in Running : d = Len(calls)
          /\ \A d \in Running : calls[d].written > 0 => wire[Len(wire)] = d
          /\ \A d \in 1..Len(calls) : calls[d].runs = IF calls[d].written > 0 THEN 1 ELSE 0
          /\ last = IF wire = << >> THEN 0 ELSE wire[Len(wire)]
      BY DEF IInv, Alone
    <2>2. \A d \in Running : d = c
      BY <1>2, <2>1
    <2>3. wire' # << >> /\ wire'[Len(wire')] = c
      <3>1. CASE r.written = 0
        BY <1>1, <1>14, <3>1
      <3>2. CASE r.written # 0
        <4>1. wire[Len(wire)] = c
          BY <1>2, <1>5, <2>1, <3>2 DEF r
        <4>2. wire # << >>
          BY <1>5, <1>10, <3>2 DEF OnWire
        <4> QED
          BY <1>14, <3>2, <4>1, <4>2
      <3> QED
        BY <3>1, <3>2
    <2>4. w.runs = 1
      <3>0. r.runs = IF r.written > 0 THEN 1 ELSE 0
        BY <2>1 DEF r
      <3>1. CASE r.written = 0
        <4>1. last # c
          <5>1. CASE wire = << >>
            BY <2>1, <5>1
          <5>2. CASE wire # << >>
            <6>1. Len(wire) \in 1..Len(wire) /\ last = wire[Len(wire)]
              BY <1>1, <2>1, <5>2
            <6>2. OnWire(last)
              BY <6>1 DEF OnWire
            <6> QED
              BY <1>5, <1>10, <3>1, <6>2
          <5> QED
            BY <5>1, <5>2
        <4> QED
          BY <1>6, <3>0, <3>1, <4>1
      <3>2. CASE r.written # 0
        <4>1. wire[Len(wire)] = c /\ wire # << >>
          BY <1>14, <2>3, <3>2
        <4> QED
          BY <1>5, <1>6, <2>1, <3>0, <3>2, <4>1
      <3> QED
        BY <3>1, <3>2
    <2>5. \A d \in 1..Len(calls') : calls'[d].runs = IF calls'[d].written > 0 THEN 1 ELSE 0
      BY <1>8, <1>11, <2>1, <2>4
    <2>6. \A d \in Running' : d = Len(calls')
      BY <1>8, <1>17, <2>1
    <2>7. \A d \in Running' : calls'[d].written > 0 => wire'[Len(wire')] = d
      BY <1>17, <2>2, <2>3
    <2>8. last' = IF wire' = << >> THEN 0 ELSE wire'[Len(wire')]
      BY <1>9, <2>3
    <2> QED
      BY <2>5, <2>6, <2>7, <2>8 DEF Alone
  <1> QED
    BY <1>12, <1>13, <1>15, <1>16, <1>18 DEF IInv

LEMMA NextKeeps == IInv /\ [Next]_vars => IInv'
  <1> SUFFICES ASSUME IInv, [Next]_vars PROVE IInv'
    OBVIOUS
  <1>1. sent_flag \in BOOLEAN
    BY DEF IInv, WireTypes
  <1>2. ASSUME NEW t \in Threads, Send(t) PROVE IInv'
    <2>1. PICK p \in Sendable : Start(t, p)
      BY <1>2 DEF Send
    <2> QED
      BY <1>2, <2>1, StartKeeps DEF Send
  <1>3. ASSUME NEW t \in Threads, Ping(t) PROVE IInv'
    BY <1>3, StartKeeps DEF Ping
  <1>4. ASSUME ClearFlag PROVE IInv'
    <2>1. UNCHANGED <<calls, wire, last, space, overlapped>> /\ sent_flag' \in BOOLEAN
      BY <1>4 DEF ClearFlag
    <2> QED
      BY <2>1 DEF IInv, WireTypes, AllProgress, WireOnce, WireWritten, OnWire, Alone, Running
  <1>5. ASSUME NEW c \in 1..Len(calls), WriteSome(c) PROVE IInv'
    BY <1>5, WriteKeeps
  <1>6. ASSUME NEW c \in 1..Len(calls), WriteFails(c) \/ CheckFails(c) PROVE IInv'
    <2>1. c \in Running /\ Fail(c)
      BY <1>6 DEF WriteFails, CheckFails, Unfinished
    <2>2. /\ calls' = [calls EXCEPT ![c].status = "err"] /\ sent_flag' \in BOOLEAN
          /\ UNCHANGED <<wire, last, space, overlapped>>
      BY <1>1, <2>1 DEF Fail
    <2> QED
      BY <2>1, <2>2, EndKeeps
  <1>7. ASSUME NEW c \in 1..Len(calls), Finish(c) PROVE IInv'
    <2>1. c \in Running /\ calls[c].step > Len(StepsOf(calls[c].packet))
      <3>1. calls[c] \in Calls
        BY DEF IInv, WireTypes
      <3>2. calls[c].step \in Nat /\ Len(StepsOf(calls[c].packet)) \in Nat
        BY <3>1, PacketsAreFramed DEF Calls
      <3> QED
        BY <1>7, <3>2 DEF Finish, Unfinished
    <2>2. sent_flag' \in BOOLEAN
      <3>1. CASE calls[c].packet.type \in SetsFlag
        BY <1>7, <3>1, TypesDiffer DEF Finish, SetsFlag, PINGREQ, CONNECT, PUBLISH, SUBSCRIBE, UNSUBSCRIBE
      <3>2. CASE calls[c].packet.type \notin SetsFlag
        BY <1>1, <1>7, <3>2, Zenon DEF Finish
      <3> QED
        BY <3>1, <3>2
    <2>3. calls' = [calls EXCEPT ![c].status = "ok"] /\ UNCHANGED <<wire, last, space, overlapped>>
      BY <1>7 DEF Finish
    <2> QED
      BY <2>1, <2>2, <2>3, EndKeeps
  <1>8. ASSUME Drain PROVE IInv'
    <2>1. UNCHANGED <<calls, wire, last, sent_flag, overlapped>> /\ space' \in 0..SendBuffer
      BY <1>8, WriterAssumption DEF Drain, IInv, WireTypes
    <2> QED
      BY <2>1 DEF IInv, WireTypes, AllProgress, WireOnce, WireWritten, OnWire, Alone, Running
  <1>9. ASSUME UNCHANGED vars PROVE IInv'
    BY <1>9 DEF vars, IInv, WireTypes, AllProgress, WireOnce, WireWritten, OnWire, Alone, Running
  <1> QED
    BY <1>2, <1>3, <1>4, <1>5, <1>6, <1>7, <1>8, <1>9 DEF Next

LEMMA WriterIInv == Spec => []IInv
  BY InitIInv, NextKeeps, PTL DEF Spec

----------------------------------------------------------------------------
(* Theorems.                                                               *)

(* A call that returns Ok wrote every byte its fixed header declares,      *)
(* whatever the kernel did with its writes and whoever wrote in between;   *)
(* no call wrote more than that.                                           *)
THEOREM WriterOkMeansWhole == Spec => []OkMeansWhole
  <1>1. IInv => OkMeansWhole
    <2> SUFFICES ASSUME IInv, NEW c \in 1..Len(calls)
                 PROVE  /\ calls[c].status = "ok" => Whole(c)
                        /\ calls[c].written > 0 =>
                            /\ BodyLen(calls[c].packet) <= MAX_REMAINING_LENGTH
                            /\ calls[c].written <= PacketLen(calls[c].packet)
      BY DEF OkMeansWhole
    <2>1. calls[c] \in Calls /\ Progress(calls[c])
      BY DEF IInv, WireTypes, AllProgress
    <2>2. calls[c].status = "ok" => Whole(c)
      BY <2>1, OkIsWhole, Zenon DEF Whole
    <2> QED
      BY <2>1, <2>2, WrittenFits, Zenon
  <1> QED
    BY <1>1, WriterIInv, PTL

(* A packet that validate_value refuses leaves no byte on the wire.        *)
THEOREM WriterRefusedLeavesNoTrace == Spec => []RefusedLeavesNoTrace
  <1>1. IInv => RefusedLeavesNoTrace
    <2> SUFFICES ASSUME IInv, NEW c \in 1..Len(calls), ~ChecksFirst(calls[c].packet)
                 PROVE  calls[c].written = 0
      BY DEF RefusedLeavesNoTrace
    <2>1. calls[c] \in Calls /\ Progress(calls[c])
      BY DEF IInv, WireTypes, AllProgress
    <2> QED
      BY <2>1, RefusedWritesNothing, Zenon
  <1> QED
    BY <1>1, WriterIInv, PTL

(* While no calls overlapped and none failed part way, the wire is a       *)
(* sequence of whole packets, each in one run, with the packet in progress *)
(* at its end.                                                             *)
THEOREM WriterPacketsInSequence == Spec => []PacketsInSequence
  <1>1. IInv => PacketsInSequence
    <2> SUFFICES ASSUME IInv, ~overlapped, \A c \in 1..Len(calls) : ~Torn(c),
                        NEW i \in 1..Len(wire)
                 PROVE  /\ calls[wire[i]].runs = 1
                        /\ Whole(wire[i]) \/ (i = Len(wire) /\ wire[i] \in Running)
      BY DEF PacketsInSequence
    <2>1. PICK c \in 1..Len(calls) : c = wire[i]
      BY DEF IInv, WireTypes
    <2>2. calls[c] \in Calls /\ Progress(calls[c])
      BY DEF IInv, WireTypes, AllProgress
    <2>3. calls[c].written > 0
      BY <2>1 DEF IInv, WireWritten, OnWire
    <2>4. calls[c].runs = 1
      BY <2>3 DEF IInv, Alone
    <2>5. CASE calls[c].status = "ok"
      BY <2>1, <2>2, <2>4, <2>5, OkIsWhole DEF Whole
    <2>6. CASE calls[c].status = "running"
      <3>1. c \in Running
        BY <2>6 DEF Running
      <3>2. wire[Len(wire)] = c
        BY <2>3, <3>1 DEF IInv, Alone
      <3>3. Len(wire) \in 1..Len(wire)
        BY DEF IInv, WireTypes
      <3>4. i = Len(wire)
        BY <2>1, <3>2, <3>3 DEF IInv, WireOnce
      <3> QED
        BY <2>1, <2>4, <3>1, <3>4
    <2>7. CASE calls[c].status = "err"
      BY <2>3, <2>7 DEF Torn
    <2>8. calls[c].status \in {"running", "ok", "err"}
      BY <2>2 DEF Calls
    <2> QED
      BY <2>5, <2>6, <2>7, <2>8
  <1> QED
    BY <1>1, WriterIInv, PTL

----------------------------------------------------------------------------
(* The flag.  A call in progress began after handle_ping last took the     *)
(* flag, for it takes it in recv, which runs alone; and a PINGREQ, which   *)
(* clears the flag, runs alone too, and only while it is not set.          *)

Sent(c) == calls[c].packet.type \in SetsFlag /\ calls[c].status = "ok"

FlagInv ==
    /\ taken \in 0..Len(calls)
    /\ \A c \in Running : c > taken
    /\ \A c \in Running : calls[c].packet.type = PINGREQ =>
            ~sent_flag /\ \A d \in Running : d = c
    /\ sent_flag <=> \E c \in (taken + 1)..Len(calls) : Sent(c)

LEMMA InitFlag == Init => FlagInv
  BY DEF Init, FlagInv, Running

\* A call begins.
LEMMA StartFlag ==
  ASSUME IInv, FlagInv, NEW t \in Threads, NEW p \in Sendable \cup {PingReqPacket}, Start(t, p),
         sent_flag' = sent_flag, p = PingReqPacket => ~sent_flag
  PROVE  FlagInv'
  <1>1. calls \in Seq(Calls) /\ Len(calls) \in Nat /\ taken \in 0..Len(calls)
    BY DEF IInv, WireTypes, FlagInv
  <1>n. PICK n \in Nat : n = Len(calls) + 1
    BY <1>1
  <1>2. calls' = Append(calls, NewCall(t, p)) /\ UNCHANGED taken /\ MayStart(t, p)
    BY DEF Start, NewCall
  <1>3. /\ Len(calls') = n
        /\ \A c \in 1..Len(calls) : calls'[c] = calls[c]
        /\ calls'[n].packet = p /\ calls'[n].status = "running"
    BY <1>1, <1>2, <1>n DEF NewCall
  <1>4. Running' = Running \cup {n}
    BY <1>1, <1>3, <1>n DEF Running
  <1>5. taken' \in 0..Len(calls') /\ \A c \in Running' : c > taken'
    BY <1>1, <1>2, <1>3, <1>4, <1>n DEF FlagInv
  <1>6. ASSUME NEW c \in Running', calls'[c].packet.type = PINGREQ
        PROVE  ~sent_flag' /\ \A d \in Running' : d = c
    <2>1. \A d \in Running : calls[d].packet.type = PINGREQ => FALSE
      <3> SUFFICES ASSUME NEW d \in Running, calls[d].packet.type = PINGREQ PROVE FALSE
        OBVIOUS
      <3>1. calls[d].packet.type \notin Exclusive
        BY <1>2, Zenon DEF MayStart
      <3> QED
        BY <3>1 DEF Exclusive
    <2>2. c = n
      BY <1>3, <1>4, <1>6, <1>n, <2>1 DEF Running
    <2>3. p.type = PINGREQ
      BY <1>3, <1>6, <2>2
    <2>4. p = PingReqPacket
      BY <2>3, WriterAssumption
    <2>5. Running = {}
      BY <1>2, <2>3 DEF MayStart, Exclusive
    <2> QED
      BY <1>4, <2>2, <2>4, <2>5
  <1>7. sent_flag' <=> \E c \in (taken' + 1)..Len(calls') : Sent(c)'
    <2>1. \A c \in (taken + 1)..Len(calls) : Sent(c)' <=> Sent(c)
      BY <1>1, <1>3 DEF Sent
    <2>2. ~Sent(n)'
      BY <1>3 DEF Sent
    <2>3. (taken + 1)..Len(calls') = ((taken + 1)..Len(calls)) \cup {n}
      BY <1>1, <1>3, <1>n
    <2>4. sent_flag <=> \E c \in (taken + 1)..Len(calls) : Sent(c)
      BY DEF FlagInv
    <2> QED
      BY <1>2, <2>1, <2>2, <2>3, <2>4, Zenon
  <1> QED
    BY <1>5, <1>6, <1>7 DEF FlagInv

\* A call in progress goes on or returns, and the flag stays as it is.
LEMMA CallKeepsFlag ==
  ASSUME IInv, FlagInv, NEW c \in Running, NEW w, calls' = [calls EXCEPT ![c] = w],
         w.packet = calls[c].packet, w.status = "ok" => w.packet.type \notin SetsFlag,
         UNCHANGED <<sent_flag, taken>>
  PROVE  FlagInv'
  <1>1. calls \in Seq(Calls) /\ c \in 1..Len(calls) /\ calls[c].status = "running"
    BY DEF IInv, WireTypes, Running
  <1>2. Len(calls') = Len(calls) /\ calls'[c] = w /\ \A d \in 1..Len(calls) : d # c => calls'[d] = calls[d]
    BY <1>1
  <1>3. Running' \subseteq Running
    BY <1>1, <1>2 DEF Running
  <1>4. \A d \in 1..Len(calls) : calls'[d].packet = calls[d].packet
    BY <1>2
  <1>5. taken' \in 0..Len(calls') /\ \A d \in Running' : d > taken'
    BY <1>2, <1>3 DEF FlagInv
  <1>6. \A d \in Running' : calls'[d].packet.type = PINGREQ =>
            ~sent_flag' /\ \A e \in Running' : e = d
    BY <1>3, <1>4 DEF FlagInv, Running
  <1>7. \A d \in 1..Len(calls) : Sent(d)' <=> Sent(d)
    BY <1>1, <1>2 DEF Sent
  <1>8. taken \in Nat /\ (sent_flag <=> \E d \in (taken + 1)..Len(calls) : Sent(d))
    BY DEF FlagInv
  <1>9. sent_flag' <=> \E d \in (taken' + 1)..Len(calls') : Sent(d)'
    BY <1>2, <1>7, <1>8
  <1> QED
    BY <1>5, <1>6, <1>9 DEF FlagInv

\* A call returns Ok and sets the flag; no PINGREQ can be in progress beside it.
LEMMA CallSetsFlag ==
  ASSUME IInv, FlagInv, NEW c \in Running, calls[c].packet.type \in SetsFlag,
         calls' = [calls EXCEPT ![c].status = "ok"], sent_flag', UNCHANGED taken
  PROVE  FlagInv'
  <1>1. calls \in Seq(Calls) /\ c \in 1..Len(calls) /\ calls[c] \in Calls
    BY DEF IInv, WireTypes, Running
  <1>2. /\ Len(calls') = Len(calls)
        /\ calls'[c].packet = calls[c].packet /\ calls'[c].status = "ok"
        /\ \A d \in 1..Len(calls) : d # c => calls'[d] = calls[d]
    BY <1>1 DEF Calls
  <1>3. Running' = Running \ {c}
    BY <1>1, <1>2 DEF Running
  <1>4. taken' \in 0..Len(calls') /\ c > taken /\ \A d \in Running' : d > taken'
    BY <1>2, <1>3 DEF FlagInv
  <1>5. \A d \in Running' : calls'[d].packet.type # PINGREQ
    <2> SUFFICES ASSUME NEW d \in Running', calls'[d].packet.type = PINGREQ PROVE FALSE
      OBVIOUS
    <2>1. d \in Running /\ d # c /\ calls[d].packet.type = PINGREQ
      BY <1>2, <1>3 DEF Running
    <2> QED
      BY <2>1 DEF FlagInv
  <1>6. c \in (taken' + 1)..Len(calls') /\ Sent(c)'
    BY <1>1, <1>2, <1>4 DEF Sent
  <1> QED
    BY <1>4, <1>5, <1>6 DEF FlagInv

LEMMA FinishFlag ==
  ASSUME IInv, FlagInv, NEW c \in Running, Finish(c)
  PROVE  FlagInv'
  <1>1. calls[c] \in Calls
    BY DEF IInv, WireTypes, Running
  <1>2. calls' = [calls EXCEPT ![c].status = "ok"] /\ UNCHANGED taken
    BY DEF Finish
  <1>3. CASE calls[c].packet.type \in SetsFlag
    <2>1. sent_flag'
      BY <1>3, TypesDiffer DEF Finish, SetsFlag, PINGREQ, CONNECT, PUBLISH, SUBSCRIBE, UNSUBSCRIBE
    <2> QED
      BY <1>2, <1>3, <2>1, CallSetsFlag
  <1>4. CASE calls[c].packet.type \notin SetsFlag
    <2>1. UNCHANGED sent_flag
      <3>1. CASE calls[c].packet.type = PINGREQ
        <4>1. sent_flag' = FALSE
          BY <1>4, <3>1, Zenon DEF Finish
        <4>2. sent_flag = FALSE
          BY <3>1 DEF FlagInv, IInv, WireTypes
        <4> QED
          BY <4>1, <4>2
      <3>2. CASE calls[c].packet.type # PINGREQ
        BY <1>4, <3>2, Zenon DEF Finish
      <3> QED
        BY <3>1, <3>2
    <2> DEFINE w == [calls[c] EXCEPT !.status = "ok"]
    <2>2. w.packet = calls[c].packet /\ calls' = [calls EXCEPT ![c] = w]
      BY <1>1, <1>2 DEF Calls
    <2> HIDE DEF w
    <2> QED
      BY <1>2, <1>4, <2>1, <2>2, CallKeepsFlag
  <1> QED
    BY <1>3, <1>4

LEMMA NextFlag == IInv /\ FlagInv /\ [Next]_vars => FlagInv'
  <1> SUFFICES ASSUME IInv, FlagInv, [Next]_vars PROVE FlagInv'
    OBVIOUS
  <1>0. calls \in Seq(Calls) /\ \A c \in Running : c \in 1..Len(calls) /\ calls[c] \in Calls
    BY DEF IInv, WireTypes, Running
  <1>1. ASSUME NEW t \in Threads, Send(t) PROVE FlagInv'
    <2>1. PICK p \in Sendable : Start(t, p)
      BY <1>1 DEF Send
    <2>2. p # PingReqPacket
      BY WriterAssumption DEF PingReqPacket
    <2> QED
      BY <1>1, <2>1, <2>2, StartFlag DEF Send
  <1>2. ASSUME NEW t \in Threads, Ping(t) PROVE FlagInv'
    BY <1>2, StartFlag DEF Ping
  <1>3. ASSUME ClearFlag PROVE FlagInv'
    <2>1. Running = {} /\ UNCHANGED calls /\ sent_flag' = FALSE /\ taken' = Len(calls)
      BY <1>3 DEF ClearFlag
    <2>2. Running' = {} /\ Len(calls) \in Nat
      BY <1>0, <2>1 DEF Running
    <2> QED
      BY <2>1, <2>2 DEF FlagInv
  <1>4. ASSUME NEW c \in 1..Len(calls), WriteSome(c) PROVE FlagInv'
    <2>1. c \in Running /\ UNCHANGED <<sent_flag, taken>>
      BY <1>4 DEF WriteSome, Unfinished
    <2>2. PICK n : Put(c, n)
      BY <1>4 DEF WriteSome
    <2> DEFINE w == [Advance(c, n) EXCEPT !.written = @ + n,
                                          !.runs = IF last = c THEN @ ELSE @ + 1]
    <2>3. calls' = [calls EXCEPT ![c] = w]
      BY <2>2 DEF Put
    <2>4. w.packet = calls[c].packet /\ w.status = "running"
      <3>1. calls[c] \in Calls /\ calls[c].status = "running"
        BY <1>0, <2>1 DEF Running
      <3> QED
        BY <3>1 DEF Advance, Calls
    <2> HIDE DEF w
    <2> QED
      BY <2>1, <2>3, <2>4, CallKeepsFlag
  <1>5. ASSUME NEW c \in 1..Len(calls), WriteFails(c) \/ CheckFails(c) PROVE FlagInv'
    <2>1. c \in Running /\ Fail(c)
      BY <1>5 DEF WriteFails, CheckFails, Unfinished
    <2> DEFINE w == [calls[c] EXCEPT !.status = "err"]
    <2>2. calls' = [calls EXCEPT ![c] = w] /\ UNCHANGED <<sent_flag, taken>>
      BY <2>1 DEF Fail
    <2>3. w.packet = calls[c].packet /\ w.status = "err"
      BY <1>0, <2>1 DEF Calls
    <2> HIDE DEF w
    <2> QED
      BY <2>1, <2>2, <2>3, CallKeepsFlag
  <1>6. ASSUME NEW c \in 1..Len(calls), Finish(c) PROVE FlagInv'
    BY <1>6, FinishFlag DEF Finish
  <1>7. CASE UNCHANGED <<calls, sent_flag, taken>>
    BY <1>7 DEF FlagInv, Running, Sent
  <1>8. Drain \/ UNCHANGED vars => UNCHANGED <<calls, sent_flag, taken>>
    BY DEF Drain, vars
  <1> QED
    BY <1>1, <1>2, <1>3, <1>4, <1>5, <1>6, <1>7, <1>8 DEF Next

LEMMA WriterFlagInv == Spec => []FlagInv
  BY InitFlag, NextFlag, WriterIInv, PTL DEF Spec

(* The state of WriterHalf and of the calls stays in its type.             *)
THEOREM WriterTypeOK == Spec => []TypeOK
  <1>1. IInv /\ FlagInv => TypeOK
    BY Zenon DEF IInv, WireTypes, FlagInv, TypeOK
  <1> QED
    BY <1>1, WriterIInv, WriterFlagInv, PTL

(* sent_flag is set exactly while a packet that sets it was sent whole     *)
(* since handle_ping last took it: a PINGREQ is never skipped for a packet *)
(* that failed, is under way or was already counted, and none is missed,   *)
(* for any packets, threads and splits of the writes.                      *)
THEOREM WriterFlagMeansSent == Spec => []FlagMeansSent
  <1>1. IInv /\ FlagInv => FlagMeansSent
    <2> SUFFICES ASSUME IInv, FlagInv PROVE FlagMeansSent
      OBVIOUS
    <2>1. \A c \in (taken + 1)..Len(calls) :
            Sent(c) <=> calls[c].packet.type \in SetsFlag /\ calls[c].status = "ok" /\ Whole(c)
      <3> SUFFICES ASSUME NEW c \in (taken + 1)..Len(calls), Sent(c) PROVE Whole(c)
        BY DEF Sent
      <3>1. c \in 1..Len(calls)
        BY DEF FlagInv
      <3>2. calls[c] \in Calls /\ Progress(calls[c])
        BY <3>1 DEF IInv, WireTypes, AllProgress
      <3> QED
        BY <3>2, OkIsWhole, Zenon DEF Sent, Whole
    <2>2. sent_flag <=> \E c \in (taken + 1)..Len(calls) : Sent(c)
      BY DEF FlagInv
    <2> QED
      BY <2>1, <2>2, Zenon DEF FlagMeansSent
  <1> QED
    BY <1>1, WriterIInv, WriterFlagInv, PTL
=============================================================================
