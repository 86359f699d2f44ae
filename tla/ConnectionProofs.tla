-------------------------- MODULE ConnectionProofs --------------------------
(***************************************************************************)
(* First the halves: the keep-alive rule of handle_ping, whatever the      *)
(* socket and the poll do.  It is inductive together with what sent_flag   *)
(* means: while it is set, no tick has passed since the write that set it. *)
(* Then the types, and from them that an expiry nobody has read is on its  *)
(* way to the loop.                                                        *)
(*                                                                         *)
(* A connection runs these halves, and is silent for no longer than two    *)
(* timeouts and the time its caller is away.                               *)
(***************************************************************************)
EXTENDS Connection, SequenceTheorems, TLAPS

----------------------------------------------------------------------------
(* The halves.                                                             *)

FlagMeansNoTick ==
    /\ sent_flag \in BOOLEAN
    /\ quiet \in {0, 1}
    /\ sent_flag => quiet = 0

\* No tick before the first call.
LEMMA InitFlag == Init => FlagMeansNoTick
  BY Zenon DEF Init, FlagMeansNoTick

\* A READER event: the loop is left, or goes on to the next event.
LEMMA ReaderHandled ==
  ASSUME HandleReader
  PROVE  /\ pc = "events" /\ Head(evs) = READER
         /\ LeaveLoop \/ NextEvent
         /\ UNCHANGED <<closed, dead, torn, rdy, timer, sent_flag, pings, quiet>>
  <1>1. TakePacket \/ ReturnStale \/ Refuse \/ FindPart \/ ReadAstray
    BY Zenon DEF HandleReader
  <1>2. LeaveLoop \/ NextEvent
    BY <1>1, Zenon DEF TakePacket, ReturnStale, Refuse, FindPart, ReadAstray, RunsDry
  <1> QED
    BY <1>2 DEF HandleReader, keepalive

\* handle_ping and the sends are the only steps that touch the flag.
LEMMA NextFlag == FlagMeansNoTick /\ [Next]_vars => FlagMeansNoTick'
  <1> SUFFICES ASSUME FlagMeansNoTick, [Next]_vars PROVE FlagMeansNoTick'
    OBVIOUS
  <1> USE DEF FlagMeansNoTick
  <1>1. CASE UNCHANGED <<sent_flag, quiet>>
    BY <1>1, Zenon
  <1>2. CASE Arrive \/ Pong \/ ArrivePart \/ Close \/ Reset \/ Expire
    BY <1>2, <1>1 DEF Arrive, Pong, ArrivePart, Close, Reset, Expire, keepalive, history
  <1>3. CASE CallRecv \/ SendTears \/ EpollWait \/ PollFails \/ HandleReader
    BY <1>3, <1>1, ReaderHandled DEF CallRecv, SendTears, EpollWait, PollFails, keepalive, history
  <1>4. CASE CallConnect \/ Send
    BY <1>4, Zenon DEF CallConnect, Send
  <1>5. CASE Disconnect
    BY <1>5, Zenon DEF Disconnect, keepalive
  <1>6. CASE HandleTimer
    <2>1. AlreadySent \/ SendPing \/ SendPingFails
      BY <1>6 DEF HandleTimer
    <2>2. CASE AlreadySent
      <3>1. quiet = 0 /\ sent_flag' = FALSE /\ quiet' = quiet + 1
        BY <2>2, Zenon DEF AlreadySent
      <3>2. quiet' = 1
        BY <3>1
      <3> QED
        BY <3>1, <3>2, Zenon
    <2>3. CASE SendPing
      BY <2>3, Zenon DEF SendPing
    <2>4. CASE SendPingFails
      BY <2>4, Zenon DEF SendPingFails
    <2> QED
      BY <2>1, <2>2, <2>3, <2>4
  <1>7. CASE UNCHANGED vars
    BY <1>7, <1>1 DEF vars, keepalive, history
  <1> QED
    BY <1>2, <1>3, <1>4, <1>5, <1>6, <1>7 DEF Next

(* Of two ticks in a row that handle_ping returns Ok from, at most one     *)
(* passes without a packet written since the one before.                   *)
THEOREM KeepAliveGapHolds == Spec => []KeepAliveGap
  <1>1. FlagMeansNoTick => KeepAliveGap
    BY DEF FlagMeansNoTick, KeepAliveGap
  <1> QED
    BY <1>1, InitFlag, NextFlag, PTL DEF Spec

----------------------------------------------------------------------------
(* The ready list and the batches of events.                               *)

\* What a batch is made of.
LEMMA BatchParts ==
  ASSUME NEW b \in Batches
  PROVE  /\ Range(<< >>) = {}
         /\ Range(b) \subseteq {READER, TIMER}
         /\ b # << >> =>
              /\ Tail(b) \in Batches
              /\ Head(b) \in {READER, TIMER}
              /\ Range(b) = {Head(b)} \cup Range(Tail(b))
  <1>1. CASE b = << >>
    BY <1>1 DEF Range
  <1>2. CASE b = <<READER>>
    BY <1>2 DEF Range, Batches
  <1>3. CASE b = <<TIMER>>
    BY <1>3 DEF Range, Batches
  <1>4. CASE b = <<READER, TIMER>>
    BY <1>4 DEF Range, Batches
  <1>5. CASE b = <<TIMER, READER>>
    BY <1>5 DEF Range, Batches
  <1> QED
    BY <1>1, <1>2, <1>3, <1>4, <1>5 DEF Batches

\* What Append makes of a sequence of one element.
LEMMA AppendToOne ==
  ASSUME NEW S, NEW a \in S, NEW b \in S
  PROVE  Append(<<a>>, b) = <<a, b>>
  <1>1. /\ Append(<<a>>, b) \in Seq(S)
        /\ Len(Append(<<a>>, b)) = 2
        /\ Append(<<a>>, b)[1] = a
        /\ Append(<<a>>, b)[2] = b
    OBVIOUS
  <1>2. /\ <<a, b>> \in Seq(S)
        /\ Len(<<a, b>>) = 2
        /\ <<a, b>>[1] = a
        /\ <<a, b>>[2] = b
    OBVIOUS
  <1>3. \A i \in 1..2 : Append(<<a>>, b)[i] = <<a, b>>[i]
    BY <1>1, <1>2
  <1> QED
    BY <1>1, <1>2, <1>3, SeqEqual

\* A source that wakes the poll is on the ready list then.
LEMMA WakeAdds ==
  ASSUME NEW token \in {READER, TIMER}, rdy \in Batches, Wake(token)
  PROVE  rdy' \in Batches /\ Range(rdy') = Range(rdy) \cup {token}
  <1>1. CASE rdy = << >>
    BY <1>1 DEF Wake, Range, Batches
  <1>2. CASE rdy = <<READER>>
    <2>0. Append(<<READER>>, TIMER) = <<READER, TIMER>>
      BY AppendToOne, READER \in {READER, TIMER}, TIMER \in {READER, TIMER}
    <2>1. Range(rdy) = {READER} /\ Append(<<READER>>, TIMER) = <<READER, TIMER>>
      BY <1>2, <2>0 DEF Range
    <2>2. rdy' = IF token = READER THEN <<READER>> ELSE <<READER, TIMER>>
      <3>1. CASE token = READER
        BY <1>2, <2>1, <3>1 DEF Wake
      <3>2. CASE token = TIMER
        BY <1>2, <2>1, <3>2 DEF Wake, READER, TIMER
      <3> QED
        BY <3>1, <3>2
    <2>3. Range(<<READER, TIMER>>) = {READER, TIMER}
      BY DEF Range
    <2> QED
      BY <1>2, <2>1, <2>2, <2>3 DEF Batches
  <1>3. CASE rdy = <<TIMER>>
    <2>0. Append(<<TIMER>>, READER) = <<TIMER, READER>>
      BY AppendToOne, TIMER \in {READER, TIMER}, READER \in {READER, TIMER}
    <2>1. Range(rdy) = {TIMER} /\ Append(<<TIMER>>, READER) = <<TIMER, READER>>
      BY <1>3, <2>0 DEF Range
    <2>2. rdy' = IF token = TIMER THEN <<TIMER>> ELSE <<TIMER, READER>>
      <3>1. CASE token = TIMER
        BY <1>3, <2>1, <3>1 DEF Wake
      <3>2. CASE token = READER
        BY <1>3, <2>1, <3>2 DEF Wake, READER, TIMER
      <3> QED
        BY <3>1, <3>2
    <2>3. Range(<<TIMER, READER>>) = {READER, TIMER}
      BY DEF Range
    <2> QED
      BY <1>3, <2>1, <2>2, <2>3 DEF Batches
  <1>4. CASE rdy = <<READER, TIMER>>
    BY <1>4 DEF Wake, Range, Batches
  <1>5. CASE rdy = <<TIMER, READER>>
    BY <1>5 DEF Wake, Range, Batches
  <1> QED
    BY <1>1, <1>2, <1>3, <1>4, <1>5 DEF Batches

----------------------------------------------------------------------------
(* The types, in three parts that are proved apart: counters, flags, and   *)
(* the lists with the place of the loop.                                   *)

Counters ==
    /\ queued \in 0..KMax
    /\ held \in 0..1
    /\ pings \in 0..MaxPings
    /\ quiet \in Nat

Switches ==
    /\ part \in BOOLEAN
    /\ closed \in BOOLEAN
    /\ dead \in BOOLEAN
    /\ torn \in BOOLEAN
    /\ frame \in {"none", "half", "whole"}
    /\ astray \in BOOLEAN
    /\ sent_flag \in BOOLEAN
    /\ deaf \in BOOLEAN

Lists ==
    /\ rdy \in Batches
    /\ evs \in Batches
    /\ evs # << >> <=> pc = "events"
    /\ timer \in {"off", "running", "expired"}
    /\ pc \in {"idle", "poll", "events"}

LEMMA TypeParts == TypeOK <=> Counters /\ Switches /\ Lists
  BY Zenon DEF TypeOK, Counters, Switches, Lists

\* A counter stays below its bound, and what is taken from one that is not
\* zero leaves no less than zero.
LEMMA CounterBounds ==
  ASSUME NEW max \in Nat \ {0}, NEW n \in 0..max
  PROVE  /\ More(n, max) \in 0..max
         /\ n > 0 => \A k \in Fewer(n, max) : k \in 0..max
  BY DEF More, Fewer

LEMMA InitTypes == Init => TypeOK
  <1> SUFFICES ASSUME Init PROVE Counters /\ Switches /\ Lists
    BY TypeParts
  <1>1. Counters
    BY ReaderHalfAssumption DEF Init, Counters
  <1>2. Switches
    BY Zenon DEF Init, Switches
  <1>3. Lists
    BY DEF Init, Lists, Batches
  <1> QED
    BY <1>1, <1>2, <1>3

LEMMA NextCounters == TypeOK /\ [Next]_vars => Counters'
  <1> SUFFICES ASSUME Counters, [Next]_vars PROVE Counters'
    BY TypeParts
  <1> USE ReaderHalfAssumption, CounterBounds
  <1>0. CASE UNCHANGED <<queued, held, pings, quiet>>
    BY <1>0 DEF Counters
  <1>1. CASE Arrive
    BY <1>1 DEF Arrive, ArrivePacket, reader, keepalive, history, Counters
  <1>2. CASE Pong
    BY <1>2 DEF Pong, ArrivePacket, reader, history, Counters
  <1>3. CASE ArrivePart \/ Close \/ Reset \/ Expire \/ CallRecv \/ SendTears
    BY <1>3, <1>0 DEF ArrivePart, Close, Reset, Expire, CallRecv, SendTears,
        socket, reader, keepalive, history
  <1>8. CASE EpollWait \/ PollFails
    BY <1>8, <1>0 DEF EpollWait, PollFails, socket, reader, keepalive, history
  <1>4. CASE CallConnect \/ Send \/ Disconnect
    BY <1>4 DEF CallConnect, Send, Disconnect, socket, reader, keepalive, Counters
  <1>5. CASE HandleReader
    <2>1. UNCHANGED <<pings, quiet>>
      BY <1>5, ReaderHandled
    <2>2. CASE TakePacket
      <3>1. CASE held > 0
        <4>1. held # 0
          BY <3>1
        <4>2. held' = held - 1 /\ UNCHANGED queued
          BY <2>2, <4>1, Zenon DEF TakePacket
        <4> QED
          BY <2>1, <3>1, <4>2 DEF Counters
      <3>2. CASE held = 0
        <4>1. queued > 0 /\ \A n \in Fewer(queued, KMax) : n \in 0..KMax
          BY <2>2, <3>2 DEF TakePacket, Counters
        <4>2. CASE queued' \in Fewer(queued, KMax) /\ UNCHANGED held
          BY <2>1, <4>1, <4>2 DEF Counters
        <4>3. CASE \E n \in Fewer(queued, KMax) :
                     n > 0 /\ queued' \in Fewer(n, KMax) /\ held' = 1
          <5>1. PICK n \in Fewer(queued, KMax) :
                  n > 0 /\ queued' \in Fewer(n, KMax) /\ held' = 1
            BY <4>3
          <5>2. queued' \in 0..KMax
            BY <4>1, <5>1
          <5> QED
            BY <2>1, <5>1, <5>2 DEF Counters
        <4> QED
          BY <2>2, <3>2, <4>2, <4>3 DEF TakePacket
      <3> QED
        BY <3>1, <3>2 DEF Counters
    <2>3. CASE UNCHANGED <<queued, held>>
      BY <2>1, <2>3 DEF Counters
    <2>4. CASE Refuse
      BY <2>1, <2>4 DEF Refuse, Counters
    <2>5. CASE ReadAstray
      <3>1. queued' \in 0..queued \/ queued' = 0
        BY <2>5, Zenon DEF ReadAstray
      <3>2. held' = held
        BY <2>5 DEF ReadAstray
      <3> QED
        BY <2>1, <3>1, <3>2 DEF Counters
    <2>6. ReturnStale \/ FindPart => UNCHANGED <<queued, held>>
      BY DEF ReturnStale, FindPart, reader
    <2> QED
      BY <1>5, <2>2, <2>3, <2>4, <2>5, <2>6 DEF HandleReader
  <1>6. CASE HandleTimer
    <2>1. UNCHANGED <<queued, held>>
      BY <1>6 DEF HandleTimer, reader
    <2>2. CASE AlreadySent
      BY <2>1, <2>2 DEF AlreadySent, Counters
    <2>3. CASE SendPing
      BY <2>1, <2>3 DEF SendPing, Counters
    <2>4. CASE SendPingFails
      BY <2>1, <2>4 DEF SendPingFails, Counters
    <2> QED
      BY <1>6, <2>2, <2>3, <2>4 DEF HandleTimer
  <1>7. CASE UNCHANGED vars
    BY <1>7, <1>0 DEF vars, socket, reader, keepalive, history
  <1> QED
    BY <1>1, <1>2, <1>3, <1>4, <1>5, <1>6, <1>7, <1>8 DEF Next

LEMMA NextSwitches == TypeOK /\ [Next]_vars => Switches'
  <1> SUFFICES ASSUME Switches, [Next]_vars PROVE Switches'
    BY TypeParts
  <1> USE DEF Switches
  <1>0. CASE UNCHANGED <<part, closed, dead, torn, frame, astray, sent_flag, deaf>>
    BY <1>0, Zenon
  <1>1. CASE Arrive
    BY <1>1, Zenon DEF Arrive, ArrivePacket, reader, keepalive, history
  <1>2. CASE Pong
    BY <1>2, Zenon DEF Pong, ArrivePacket, reader, history
  <1>3. CASE ArrivePart \/ Close \/ Reset \/ SendTears
    BY <1>3, Zenon DEF ArrivePart, Close, Reset, SendTears, reader, keepalive, history
  <1>4. CASE Expire \/ EpollWait \/ PollFails \/ Disconnect
    BY <1>4, <1>0 DEF Expire, EpollWait, PollFails, Disconnect, socket, reader, keepalive,
        history
  <1>5. CASE CallConnect \/ Send
    BY <1>5, Zenon DEF CallConnect, Send, socket, reader
  <1>9. CASE CallRecv
    BY <1>9, Zenon DEF CallRecv, socket, keepalive, history
  <1>6. CASE HandleReader
    <2>1. UNCHANGED <<closed, dead, torn, sent_flag>>
      BY <1>6, ReaderHandled
    <2>2. TakePacket \/ ReturnStale \/ Refuse \/ FindPart \/ ReadAstray
      BY <1>6, Zenon DEF HandleReader
    <2>3. part' \in BOOLEAN
      BY <2>2, Zenon DEF TakePacket, ReturnStale, Refuse, FindPart, ReadAstray
    <2>4. frame' \in {"none", "half", "whole"}
      BY <2>2 DEF TakePacket, ReturnStale, Refuse, FindPart, ReadAstray, reader
    <2>5. astray' \in BOOLEAN
      BY <2>2, Zenon DEF TakePacket, ReturnStale, Refuse, FindPart, ReadAstray, reader
    <2>6. deaf' \in BOOLEAN
      BY <1>6, ReaderHandled, Zenon DEF LeaveLoop, NextEvent
    <2> QED
      BY <2>1, <2>3, <2>4, <2>5, <2>6, Zenon
  <1>7. CASE HandleTimer
    <2>1. UNCHANGED <<part, closed, dead, frame, astray>>
      BY <1>7 DEF HandleTimer, reader
    <2>2. sent_flag' \in BOOLEAN /\ torn' \in BOOLEAN
      BY <1>7, Zenon DEF HandleTimer, AlreadySent, SendPing, SendPingFails
    <2>3. deaf' \in BOOLEAN
      BY <1>7, Zenon DEF HandleTimer, LeaveLoop, NextEvent
    <2> QED
      BY <2>1, <2>2, <2>3, Zenon
  <1>8. CASE UNCHANGED vars
    BY <1>8, <1>0 DEF vars, socket, reader, keepalive, history
  <1> QED
    BY <1>1, <1>2, <1>3, <1>4, <1>5, <1>6, <1>7, <1>8, <1>9 DEF Next

\* The batch that is left after an event, or none when the loop is left.
LEMMA EventHandled ==
  ASSUME Lists, pc = "events", LeaveLoop \/ NextEvent
  PROVE  /\ evs' \in Batches
         /\ evs' # << >> <=> pc' = "events"
         /\ pc' \in {"idle", "poll", "events"}
  <1>1. evs # << >> /\ Tail(evs) \in Batches
    BY BatchParts DEF Lists
  <1>2. CASE LeaveLoop
    BY <1>2 DEF LeaveLoop, Batches
  <1>3. CASE NextEvent
    BY <1>1, <1>3 DEF NextEvent
  <1> QED
    BY <1>2, <1>3

LEMMA NextLists == TypeOK /\ [Next]_vars => Lists'
  <1> SUFFICES ASSUME Lists, [Next]_vars PROVE Lists'
    BY TypeParts
  <1>0. CASE UNCHANGED <<rdy, evs, pc, timer>>
    BY <1>0 DEF Lists
  <1>1. CASE Arrive \/ Pong \/ ArrivePart \/ Close \/ Reset
    <2>1. Wake(READER) /\ UNCHANGED <<evs, pc, timer>>
      BY <1>1 DEF Arrive, Pong, ArrivePacket, ArrivePart, Close, Reset, keepalive
    <2> QED
      BY <2>1, WakeAdds DEF Lists
  <1>2. CASE Expire
    <2>1. Wake(TIMER) /\ timer' = "expired" /\ UNCHANGED <<evs, pc>>
      BY <1>2 DEF Expire
    <2> QED
      BY <2>1, WakeAdds DEF Lists
  <1>3. CASE CallRecv \/ CallConnect
    BY <1>3 DEF CallRecv, CallConnect, poll, keepalive, Lists
  <1>4. CASE Send \/ Disconnect \/ SendTears
    BY <1>4, <1>0 DEF Send, Disconnect, SendTears, poll, keepalive
  <1>5. CASE EpollWait
    <2>1. << >> \in Batches
      BY DEF Batches
    <2> QED
      BY <1>5, <2>1 DEF EpollWait, keepalive, Lists
  <1>6. CASE PollFails
    BY <1>6 DEF PollFails, poll, keepalive, Lists
  <1>7. CASE HandleReader
    <2>1. pc = "events" /\ (LeaveLoop \/ NextEvent) /\ UNCHANGED <<rdy, timer>>
      BY <1>7, ReaderHandled
    <2> QED
      BY <2>1, EventHandled DEF Lists
  <1>8. CASE HandleTimer
    <2>1. pc = "events" /\ (LeaveLoop \/ NextEvent) /\ timer' = "running" /\ UNCHANGED rdy
      BY <1>8 DEF HandleTimer
    <2> QED
      BY <2>1, EventHandled DEF Lists
  <1>9. CASE UNCHANGED vars
    BY <1>9, <1>0 DEF vars, poll, keepalive
  <1> QED
    BY <1>1, <1>2, <1>3, <1>4, <1>5, <1>6, <1>7, <1>8, <1>9 DEF Next

LEMMA NextTypes == TypeOK /\ [Next]_vars => TypeOK'
  <1> SUFFICES ASSUME TypeOK, [Next]_vars PROVE Counters' /\ Switches' /\ Lists'
    BY Zenon DEF TypeOK, Counters, Switches, Lists
  <1> QED
    BY NextCounters, NextSwitches, NextLists

(* The state of the loop keeps its types, for every timeout and whatever   *)
(* the server and the callers do: a source is on the ready list and in a   *)
(* batch of events at most once, and the loop is never at an event that    *)
(* the batch does not have.                                                *)
THEOREM ReaderHalfTypeCorrect == Spec => []TypeOK
  BY InitTypes, NextTypes, PTL DEF Spec

----------------------------------------------------------------------------
(* An expiry is on its way to handle_ping.                                 *)

\* A timer that has expired at once is on the ready list.
LEMMA InitExpiry == Init => ExpiryIsPending
  <1> SUFFICES ASSUME Init, timer = "expired" PROVE TIMER \in Range(rdy)
    BY DEF ExpiryIsPending
  <1>1. rdy = <<TIMER>>
    BY DEF Init
  <1> QED
    BY <1>1 DEF Range

\* An event is handled: a TIMER behind a READER stays, or makes the loop deaf.
LEMMA ExpiryStays ==
  ASSUME TypeOK, ExpiryIsPending, HandleReader
  PROVE  ExpiryIsPending'
  <1> SUFFICES ASSUME timer' = "expired", ~deaf' PROVE (TIMER \in Range(rdy) \cup Range(evs))'
    BY DEF ExpiryIsPending
  <1>1. /\ pc = "events" /\ Head(evs) = READER
        /\ UNCHANGED <<rdy, timer>>
        /\ LeaveLoop \/ NextEvent
    BY ReaderHandled
  <1>2. ~deaf
    BY <1>1, Zenon DEF LeaveLoop, NextEvent
  <1>3. TIMER \in Range(rdy) \cup Range(evs)
    BY <1>1, <1>2 DEF ExpiryIsPending
  <1>4. evs \in Batches /\ evs # << >>
    BY <1>1 DEF TypeOK
  <1>5. TIMER \in Range(rdy) \cup Range(Tail(evs))
    BY <1>1, <1>3, <1>4, BatchParts DEF READER, TIMER
  <1>6. CASE LeaveLoop
    <2>1. TIMER \notin Range(Tail(evs))
      BY <1>6, Zenon DEF LeaveLoop
    <2> QED
      BY <1>1, <1>5, <2>1
  <1>7. CASE NextEvent
    BY <1>1, <1>5, <1>7 DEF NextEvent
  <1> QED
    BY <1>1, <1>6, <1>7

LEMMA NextExpiry == TypeOK /\ ExpiryIsPending /\ [Next]_vars => ExpiryIsPending'
  <1> SUFFICES ASSUME TypeOK, ExpiryIsPending, [Next]_vars PROVE ExpiryIsPending'
    OBVIOUS
  <1>t. rdy \in Batches /\ evs \in Batches /\ (evs # << >> <=> pc = "events")
    BY Zenon DEF TypeOK
  <1>0. CASE UNCHANGED <<rdy, evs, timer, deaf>>
    BY <1>0 DEF ExpiryIsPending
  <1>1. CASE Arrive \/ Pong \/ ArrivePart \/ Close \/ Reset
    <2>1. Wake(READER) /\ UNCHANGED <<evs, timer, deaf>>
      BY <1>1 DEF Arrive, Pong, ArrivePacket, ArrivePart, Close, Reset, keepalive, history
    <2>2. Range(rdy') = Range(rdy) \cup {READER}
      BY <1>t, <2>1, WakeAdds
    <2> QED
      BY <2>1, <2>2 DEF ExpiryIsPending
  <1>2. CASE Expire
    <2>1. Range(rdy') = Range(rdy) \cup {TIMER}
      BY <1>2, <1>t, WakeAdds DEF Expire
    <2> QED
      BY <2>1 DEF ExpiryIsPending
  <1>3. CASE CallRecv \/ CallConnect \/ Send \/ Disconnect \/ SendTears \/ PollFails
    BY <1>3, <1>0 DEF CallRecv, CallConnect, Send, Disconnect, SendTears, PollFails, poll,
        keepalive, history
  <1>4. CASE EpollWait
    <2>1. evs = << >> /\ Range(evs) = {} /\ UNCHANGED <<timer, deaf>>
      BY <1>4, <1>t, BatchParts DEF EpollWait, keepalive, history
    <2>2. timer = "expired" => IsReady(TIMER)
      BY DEF IsReady, READER, TIMER
    <2>3. Range(evs') = {token \in Range(rdy) : IsReady(token)}
      BY <1>4 DEF EpollWait
    <2> QED
      BY <2>1, <2>2, <2>3 DEF ExpiryIsPending
  <1>5. CASE HandleReader
    BY <1>5, ExpiryStays
  <1>6. CASE HandleTimer
    BY <1>6 DEF HandleTimer, ExpiryIsPending
  <1>7. CASE UNCHANGED vars
    BY <1>7, <1>0 DEF vars, poll, keepalive, history
  <1> QED
    BY <1>1, <1>2, <1>3, <1>4, <1>5, <1>6, <1>7 DEF Next

(* No expiry of the timer is forgotten while no event was discarded: it is *)
(* on the ready list or in the batch in progress, for every interleaving   *)
(* of arrivals, expiries and calls.                                        *)
THEOREM ExpiryAlwaysPending == Spec => []ExpiryIsPending
  BY InitExpiry, InitTypes, NextTypes, NextExpiry, PTL DEF Spec

----------------------------------------------------------------------------
(* The steps of a connection are those of its halves, or leave them alone. *)

\* A second expires the timer or leaves the halves alone.
LEMMA SecondImplements == TypeOK /\ Second => [Next]_vars
  <1> SUFFICES ASSUME TypeOK, Second PROVE [Next]_vars
    OBVIOUS
  <1>1. Tick /\ UNCHANGED <<socket, reader, evs, sent_flag, pings, pc, history>>
    BY DEF Second
  <1>2. CASE UNCHANGED <<timer, rdy>>
    BY <1>1, <1>2 DEF vars, poll, keepalive
  <1>3. CASE timer = "running" /\ timer' = "expired" /\ Wake(TIMER)
    BY <1>1, <1>3 DEF Expire, Next
  <1>4. timer = "running" \/ timer = "expired" \/ timer = "off"
    BY DEF TypeOK
  <1> QED
    BY <1>1, <1>2, <1>3, <1>4 DEF Tick

LEMMA StepImplements == TypeOK /\ [ConnectionNext]_connectionVars => [Next]_vars
  <1> SUFFICES ASSUME TypeOK, [ConnectionNext]_connectionVars PROVE [Next]_vars
    OBVIOUS
  <1>1. CASE Create
    BY <1>1 DEF Create, Resolve, DialFails, Dial, NoAddressLeft, Start, Setup
  <1>2. CASE Second
    BY <1>2, SecondImplements
  <1>3. CASE Use
    BY <1>3 DEF Use, Connect, SendPacket, SendDisconnect, HandleTick, Quietly, Next
  <1>4. CASE UNCHANGED connectionVars
    BY <1>4 DEF connectionVars
  <1> QED
    BY <1>1, <1>2, <1>3, <1>4 DEF ConnectionNext

LEMMA TypesUnderTheClock == ConnectionSpec => []TypeOK
  <1>1. ConnectionInit => TypeOK
    BY InitTypes DEF ConnectionInit
  <1>2. TypeOK /\ [ConnectionNext]_connectionVars => TypeOK'
    BY StepImplements, NextTypes
  <1> QED
    BY <1>1, <1>2, PTL DEF ConnectionSpec

----------------------------------------------------------------------------
(* How long a connection may be silent, by what the next tick will do.     *)

Pace ==
    /\ left \in 1..Period
    /\ silence \in Nat
    /\ away \in Nat
    /\ timer # "off" => TimeoutSecs > 0

\* A tick that finds the flag set lets one more period pass.
Allowance == IF sent_flag THEN TimeoutSecs ELSE 2 * TimeoutSecs

\* What of the period that runs is still to come cannot have been silent.
ToCome == IF timer = "running" THEN left ELSE 0

Heard == timer # "off" /\ ~deaf /\ ~failed => silence + ToCome <= Allowance + away

SilenceInv == ExpiryIsPending /\ Pace /\ Heard

LEMMA AllowanceBounds ==
  /\ Allowance \in Nat
  /\ Allowance >= TimeoutSecs
  /\ Allowance <= 2 * TimeoutSecs
  /\ sent_flag => Allowance = TimeoutSecs
  /\ ~sent_flag => Allowance = 2 * TimeoutSecs
  <1>1. CASE sent_flag
    <2>1. Allowance = TimeoutSecs
      BY <1>1, Zenon DEF Allowance
    <2> QED
      BY <1>1, <2>1, ReaderHalfAssumption
  <1>2. CASE ~sent_flag
    <2>1. Allowance = 2 * TimeoutSecs
      BY <1>2, Zenon DEF Allowance
    <2> QED
      BY <1>2, <2>1, ReaderHalfAssumption
  <1> QED
    BY <1>1, <1>2

LEMMA PaceBounds ==
  ASSUME Pace, timer # "off"
  PROVE  /\ left \in 1..TimeoutSecs
         /\ TimeoutSecs \in Nat
         /\ ToCome \in 0..TimeoutSecs
         /\ silence \in Nat /\ away \in Nat
  BY ReaderHalfAssumption DEF Pace, Period, ToCome

\* While the timer waits to be read, time passes only outside of the loop.
LEMMA SecondOutside ==
  ASSUME TypeOK, ExpiryIsPending, Second, timer = "expired", ~deaf
  PROVE  away' = away + 1
  <1>1. TIMER \in Range(rdy) \cup Range(evs)
    BY DEF ExpiryIsPending
  <1>2. rdy \in Batches /\ evs \in Batches /\ (evs # << >> <=> pc = "events")
    BY Zenon DEF TypeOK
  <1>3. ~(pc = "poll" /\ rdy = << >>)
    BY <1>1, <1>2, BatchParts
  <1> QED
    BY <1>3 DEF Second

LEMMA SecondHeard ==
  ASSUME TypeOK, SilenceInv, Second
  PROVE  Pace' /\ Heard'
  <1>1. Pace /\ Heard /\ ExpiryIsPending
    BY DEF SilenceInv
  <1>2. /\ silence' = silence + 1
        /\ away' \in {away, away + 1}
        /\ UNCHANGED <<sent_flag, deaf, failed>>
        /\ Tick
    BY DEF Second, history
  <1>3. timer \in {"off", "running", "expired"}
    BY Zenon DEF TypeOK
  <1>4. timer' = "off" <=> timer = "off"
    BY <1>2, <1>3 DEF Tick
  <1>5. Pace'
    BY <1>1, <1>2, <1>4, ReaderHalfAssumption DEF Pace, Period, Tick
  <1>6. Heard'
    <2> SUFFICES ASSUME timer' # "off", ~deaf', ~failed'
                 PROVE  silence' + ToCome' <= Allowance' + away'
      BY DEF Heard
    <2>1. Allowance' = Allowance
      BY <1>2 DEF Allowance
    <2>2. timer # "off" /\ ~deaf /\ ~failed
      BY <1>2, <1>4, Zenon
    <2>3. silence + ToCome <= Allowance + away
      BY <1>1, <2>2, Zenon DEF Heard
    <2>4. CASE timer = "running"
      BY <1>1, <1>2, <2>1, <2>2, <2>3, <2>4, PaceBounds, AllowanceBounds DEF Tick, ToCome
    <2>5. CASE timer = "expired"
      <3>1. away' = away + 1
        BY <1>1, <2>2, <2>5, SecondOutside
      <3>2. timer' = "expired"
        BY <1>2, <2>5 DEF Tick
      <3> QED
        BY <1>1, <1>2, <2>1, <2>2, <2>3, <2>5, <3>1, <3>2, PaceBounds, AllowanceBounds DEF ToCome
    <2> QED
      BY <1>3, <2>2, <2>4, <2>5
  <1> QED
    BY <1>5, <1>6

LEMMA NothingSilent ==
  ASSUME NEW s, NEW a, s = 0, a = 0, NEW m \in Nat, NEW n \in Nat, m <= n
  PROVE  s + m <= n + a
  OBVIOUS

\* A packet was written, and the timer left alone.
LEMMA WriteHeard ==
  ASSUME Pace, silence' = 0, away' = 0, UNCHANGED <<left, timer>>
  PROVE  Pace' /\ Heard'
  <1>1. Pace'
    BY DEF Pace
  <1>2. CASE timer' # "off"
    <2>1. ToCome' \in 0..TimeoutSecs /\ TimeoutSecs \in Nat
      BY <1>2, PaceBounds DEF ToCome
    <2>2. Allowance' \in Nat /\ Allowance' >= TimeoutSecs
      <3>1. CASE sent_flag'
        BY <3>1, ReaderHalfAssumption DEF Allowance
      <3>2. CASE ~sent_flag'
        BY <3>2, ReaderHalfAssumption DEF Allowance
      <3> QED
        BY <3>1, <3>2
    <2>3. silence' + ToCome' <= Allowance' + away'
      <3>1. ToCome' \in Nat /\ ToCome' <= Allowance'
        BY <2>1, <2>2
      <3> QED
        BY <2>2, <3>1, NothingSilent, Zenon
    <2> QED
      BY <1>1, <2>3, Zenon DEF Heard
  <1>3. CASE timer' = "off"
    BY <1>1, <1>3 DEF Heard
  <1> QED
    BY <1>2, <1>3

\* The timer is read: a tick passes, or a PINGREQ is written, or fails.
LEMMA TickHeard ==
  ASSUME TypeOK, SilenceInv, HandleTick, UNCHANGED left,
         failed' = (failed \/ (pc = "events" /\ pc' = "idle" /\ Head(evs) = TIMER))
  PROVE  Pace' /\ Heard'
  <1>1. Pace /\ Heard
    BY DEF SilenceInv
  <1>2. /\ pc = "events" /\ Head(evs) = TIMER
        /\ timer = "expired" /\ timer' = "running"
    BY DEF HandleTick, HandleTimer
  <1>3. TimeoutSecs > 0 /\ left \in 1..TimeoutSecs /\ silence \in Nat /\ away \in Nat
    BY <1>1, <1>2, PaceBounds DEF Pace
  <1>4. CASE AlreadySent /\ NextEvent
    <2>1. sent_flag /\ sent_flag' = FALSE /\ UNCHANGED <<silence, away, deaf>>
      BY <1>4 DEF AlreadySent, NextEvent, HandleTick
    <2>2. Pace'
      BY <1>1, <1>2, <2>1 DEF Pace
    <2>3. Heard'
      <3> SUFFICES ASSUME timer' # "off", ~deaf', ~failed'
                   PROVE  silence' + ToCome' <= Allowance' + away'
        BY DEF Heard
      <3>1. ~deaf /\ ~failed
        BY <2>1, Zenon
      <3>2. silence + ToCome <= Allowance + away
        BY <1>1, <1>2, <3>1 DEF Heard
      <3>3. Allowance = TimeoutSecs /\ ToCome = 0
        BY <1>2, <2>1, AllowanceBounds DEF ToCome
      <3>4. Allowance' = 2 * TimeoutSecs /\ ToCome' = left
        BY <1>2, <2>1 DEF Allowance, ToCome
      <3> QED
        BY <1>3, <2>1, <3>2, <3>3, <3>4, ReaderHalfAssumption
    <2> QED
      BY <2>2, <2>3
  <1>5. CASE SendPing /\ NextEvent
    <2>1. ~sent_flag /\ pc' # "idle" /\ sent_flag' = sent_flag
      BY <1>5 DEF SendPing, NextEvent
    <2>2. silence' = 0 /\ away' = 0
      BY <2>1, Zenon DEF HandleTick, Wrote
    <2>3. Pace'
      BY <1>1, <1>2, <2>2 DEF Pace
    <2>4. Allowance' = 2 * TimeoutSecs /\ ToCome' = left
      BY <1>2, <2>1 DEF Allowance, ToCome
    <2>5. Heard'
      BY <1>3, <2>2, <2>4, ReaderHalfAssumption DEF Heard
    <2> QED
      BY <2>3, <2>5
  <1>6. CASE SendPingFails /\ LeaveLoop
    <2>1. pc' = "idle"
      BY <1>6 DEF LeaveLoop
    <2>2. failed'
      BY <1>2, <2>1, Zenon
    <2>3. UNCHANGED <<silence, away>>
      BY <2>1, Zenon DEF HandleTick
    <2>4. Pace'
      BY <1>1, <1>2, <2>3 DEF Pace
    <2> QED
      BY <2>2, <2>4 DEF Heard
  <1> QED
    BY <1>4, <1>5, <1>6 DEF HandleTick, HandleTimer

\* Nothing is written and the timer is left alone.
LEMMA OtherHeard ==
  ASSUME Pace, Heard, UNCHANGED <<left, silence, away, timer, sent_flag>>,
         deaf => deaf', failed => failed'
  PROVE  Pace' /\ Heard'
  BY DEF Pace, Heard, Allowance, ToCome

LEMMA UseHeard ==
  ASSUME TypeOK, SilenceInv, Use
  PROVE  Pace' /\ Heard'
  <1>1. Pace /\ Heard
    BY DEF SilenceInv
  <1>2. /\ UNCHANGED left
        /\ failed' = (failed \/ (pc = "events" /\ pc' = "idle" /\ Head(evs) = TIMER))
    BY DEF Use
  <1>3. failed => failed'
    BY <1>2, Zenon
  <1>4. CASE Connect \/ SendPacket \/ SendDisconnect
    <2>1. silence' = 0 /\ away' = 0 /\ UNCHANGED timer
      BY <1>4 DEF Connect, SendPacket, SendDisconnect, Wrote, CallConnect, Send, Disconnect,
          keepalive
    <2> QED
      BY <1>1, <1>2, <2>1, WriteHeard
  <1>6. CASE HandleTick
    BY <1>2, <1>6, TickHeard
  <1>7. CASE Quietly
    <2>1. UNCHANGED <<silence, away>>
      BY <1>7 DEF Quietly
    <2>2. CASE HandleReader
      <3>1. UNCHANGED <<timer, sent_flag>> /\ (LeaveLoop \/ NextEvent)
        BY <2>2, ReaderHandled
      <3>2. deaf => deaf'
        BY <3>1, Zenon DEF LeaveLoop, NextEvent
      <3> QED
        BY <1>1, <1>2, <1>3, <2>1, <3>1, <3>2, OtherHeard
    <2>3. CASE UNCHANGED <<timer, sent_flag, deaf>>
      BY <1>1, <1>2, <1>3, <2>1, <2>3, OtherHeard
    <2> QED
      BY <1>7, <2>2, <2>3 DEF Quietly, Arrive, Pong, ArrivePart, Close, Reset, CallRecv,
          SendTears, EpollWait, PollFails, keepalive, history
  <1> QED
    BY <1>4, <1>6, <1>7 DEF Use

LEMMA InitSilence == ConnectionInit => SilenceInv
  <1> SUFFICES ASSUME ConnectionInit PROVE SilenceInv
    OBVIOUS
  <1>1. ExpiryIsPending
    BY InitExpiry DEF ConnectionInit
  <1>2. Pace
    BY ReaderHalfAssumption DEF ConnectionInit, Init, Pace
  <1>3. Heard
    <2>1. silence = 0 /\ away = 0
      BY DEF ConnectionInit
    <2> QED
      BY <1>2, <2>1, PaceBounds, AllowanceBounds DEF Heard
  <1> QED
    BY <1>1, <1>2, <1>3 DEF SilenceInv

LEMMA NextSilence ==
  TypeOK /\ SilenceInv /\ [ConnectionNext]_connectionVars => SilenceInv'
  <1> SUFFICES ASSUME TypeOK, SilenceInv, [ConnectionNext]_connectionVars PROVE SilenceInv'
    OBVIOUS
  <1>1. ExpiryIsPending'
    BY StepImplements, NextExpiry DEF SilenceInv
  <1>2. CASE Create \/ UNCHANGED connectionVars
    <2>1. UNCHANGED <<left, silence, away, timer, sent_flag, deaf, failed>>
      BY <1>2 DEF Create, Resolve, DialFails, Dial, NoAddressLeft, Start, Setup, connectionVars,
          vars, keepalive, history, time
    <2> QED
      BY <1>1, <2>1, OtherHeard DEF SilenceInv
  <1>3. CASE Second
    BY <1>1, <1>3, SecondHeard DEF SilenceInv
  <1>4. CASE Use
    BY <1>1, <1>4, UseHeard DEF SilenceInv
  <1> QED
    BY <1>2, <1>3, <1>4 DEF ConnectionNext

(* A client whose PINGREQs are written and whose ticks are not dropped is  *)
(* silent for at most two timeouts and the time its caller is outside of   *)
(* recv and connect, for every timeout and every first expiry.             *)
THEOREM SilenceAlwaysBounded == ConnectionSpec => []SilenceBounded
  <1>1. SilenceInv => SilenceBounded
    <2> SUFFICES ASSUME SilenceInv, timer # "off", ~deaf, ~failed
                 PROVE  silence <= 2 * TimeoutSecs + away
      BY DEF SilenceBounded
    <2>1. silence + ToCome <= Allowance + away
      BY Zenon DEF SilenceInv, Heard
    <2> QED
      BY <2>1, PaceBounds, AllowanceBounds DEF SilenceInv
  <1> QED
    BY <1>1, InitSilence, NextSilence, TypesUnderTheClock, PTL DEF ConnectionSpec

----------------------------------------------------------------------------
(* Types.  The clock is within its period only because a timer that is     *)
(* off never expires, so the types need the pace of the silence proof.     *)

Dialled ==
    /\ setup \in {"resolve", "dial", "start", "open", "failed"}
    /\ tried \in 0..Addresses

Clocked ==
    /\ silence \in 0..MaxSilence
    /\ away \in 0..silence

LEMMA ConnectionParts ==
  TypeOK /\ SilenceInv /\ Dialled /\ Clocked /\ failed \in BOOLEAN => ConnectionTypeOK
  BY Zenon DEF SilenceInv, Pace, Dialled, Clocked, ConnectionTypeOK

LEMMA InitParts == ConnectionInit => Dialled /\ Clocked
  BY ConnectionAssumption DEF ConnectionInit, Dialled, Clocked

LEMMA NextDialled == Dialled /\ [ConnectionNext]_connectionVars => Dialled'
  <1> SUFFICES ASSUME Dialled, [ConnectionNext]_connectionVars PROVE Dialled'
    OBVIOUS
  <1>1. CASE Create
    BY <1>1, ConnectionAssumption
    DEF Dialled, Create, Resolve, DialFails, Dial, NoAddressLeft, Start, Setup
  <1>2. CASE UNCHANGED creation
    BY <1>2 DEF Dialled, creation
  <1>3. Second \/ Use \/ UNCHANGED connectionVars => UNCHANGED creation
    BY Zenon DEF Second, Use, connectionVars, creation
  <1> QED
    BY <1>1, <1>2, <1>3 DEF ConnectionNext

\* A second counts both clocks on, or the silence alone; a write resets both.
LEMMA NextClocked == Clocked /\ [ConnectionNext]_connectionVars => Clocked'
  <1> SUFFICES ASSUME Clocked, [ConnectionNext]_connectionVars PROVE Clocked'
    OBVIOUS
  <1>1. CASE Second
    <2>1. silence < MaxSilence /\ silence' = silence + 1 /\ away' \in {away, away + 1}
      BY <1>1 DEF Second
    <2> QED
      BY <2>1, ConnectionAssumption DEF Clocked
  <1>2. CASE silence' = 0 /\ away' = 0
    BY <1>2, ConnectionAssumption DEF Clocked
  <1>3. CASE UNCHANGED <<silence, away>>
    BY <1>3 DEF Clocked
  <1>4. Create \/ UNCHANGED connectionVars => UNCHANGED <<silence, away>>
    BY DEF Create, Resolve, DialFails, Dial, NoAddressLeft, Start, Setup, connectionVars, time
  <1>5. Use => (silence' = 0 /\ away' = 0) \/ UNCHANGED <<silence, away>>
    BY DEF Use, Connect, SendPacket, SendDisconnect, HandleTick, Quietly, Wrote
  <1> QED
    BY <1>1, <1>2, <1>3, <1>4, <1>5 DEF ConnectionNext

LEMMA NextFailed == failed \in BOOLEAN /\ [ConnectionNext]_connectionVars => failed' \in BOOLEAN
  BY Zenon
  DEF ConnectionNext, Create, Resolve, DialFails, Dial, NoAddressLeft, Start, Setup, Second, Use,
      connectionVars

(* Every state of a connection is one of those it is meant to have: create *)
(* tries no more addresses than there are, the timer's countdown stays     *)
(* within its period, and the time a caller is away is part of the silence. *)
THEOREM ConnectionTypeCorrect == ConnectionSpec => []ConnectionTypeOK
  <1> DEFINE Inv == TypeOK /\ SilenceInv /\ Dialled /\ Clocked /\ failed \in BOOLEAN
  <1>1. ConnectionInit => Inv
    BY InitTypes, InitSilence, InitParts, Zenon DEF ConnectionInit
  <1>2. Inv /\ [ConnectionNext]_connectionVars => Inv'
    BY StepImplements, NextTypes, NextSilence, NextDialled, NextClocked, NextFailed
  <1>3. Inv => ConnectionTypeOK
    BY ConnectionParts
  <1> QED
    BY <1>1, <1>2, <1>3, PTL DEF ConnectionSpec
=============================================================================
