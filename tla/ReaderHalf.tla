----------------------------- MODULE ReaderHalf -----------------------------
(***************************************************************************)
(* ReaderHalf: the poll loop that waits for the socket and for the         *)
(* keep-alive timer, and the sent_flag it shares with WriterHalf.          *)
(*                                                                         *)
(* Reader is reduced to what the loop sees of it: how many packets are     *)
(* left in the kernel and in the buffer, and whether a read finds one.  A  *)
(* read that loses bytes of a body, as read_exact does when only a part of *)
(* it is there, leads the reader astray: it takes what follows for the     *)
(* rest, and from then on may find a packet anywhere or nowhere.           *)
(* The readiness queue is edge-triggered, as mio registers it: a source    *)
(* enters it when data arrives or the timer expires, and leaves it when    *)
(* the poll reports it, read or not.  A periodic timerfd counts on but     *)
(* wakes nobody between an expiry and the read of it.                      *)
(***************************************************************************)
EXTENDS Naturals, Sequences, Functions

CONSTANTS
    TimeoutSecs,    \* Duration::as_secs() of the timeout given to create
    KMax,           \* bound: KMax packets in the kernel stand for KMax or more
    MaxPings        \* bound: MaxPings unanswered PINGREQs stand for that or more

ASSUME ReaderHalfAssumption ==
    /\ TimeoutSecs \in Nat
    /\ KMax \in Nat \ {0}
    /\ MaxPings \in Nat \ {0}

VARIABLES
    queued,         \* whole packets in the kernel's receive queue
    part,           \* the receive queue ends with a part of a packet
    closed,         \* the server has closed its side
    dead,           \* the server has reset the connection: writes fail
    torn,           \* a packet was written in part: the server reads on in it
    held,           \* whole packets fill_head read past the frame it looked for
    frame,          \* Reader::frame: "none", or a frame of which "half" is there, or the "whole"
    astray,         \* the reader is no longer where a packet of the server starts
    rdy,            \* the ready list of the poll, in order of arrival
    evs,            \* events: what the last poll reported and is not yet handled
    timer,          \* timer_fd: "off", "running" or "expired" (and not yet read)
    sent_flag,      \* WriterHalf::sent_flag
    pings,          \* PINGREQs the server has not answered
    pc,             \* "idle", or in poll_event: "poll" or "events"
    quiet,          \* history: ticks handle_ping was Ok with since the last write
    deaf            \* history: a TIMER event was discarded unhandled

socket == <<queued, part, closed, dead, torn>>
reader == <<held, frame, astray>>
poll == <<rdy, evs>>
keepalive == <<timer, sent_flag, pings>>
history == <<quiet, deaf>>
vars == <<socket, reader, poll, keepalive, pc, history>>

READER == "READER"
TIMER == "TIMER"

\* A source is on the ready list, and in a batch of events, at most once.
Batches == {<< >>, <<READER>>, <<TIMER>>, <<READER, TIMER>>, <<TIMER, READER>>}

\* Counters saturate: the bound stands for the bound or more.
More(n, max) == IF n < max THEN n + 1 ELSE max

Fewer(n, max) == IF n = max THEN {n - 1, n} ELSE {n - 1}

\* The waitqueue callback of epoll: a source is on the ready list once.
Wake(token) == rdy' = IF token \in Range(rdy) THEN rdy ELSE Append(rdy, token)

\* create_timer_fd: the first expiry is at an absolute time, so as a rule in the
\* past; an interval of less than a second disarms the timer.
Init ==
    /\ queued = 0 /\ part = FALSE /\ closed = FALSE /\ dead = FALSE /\ torn = FALSE
    /\ held = 0 /\ frame = "none" /\ astray = FALSE
    /\ timer \in IF TimeoutSecs = 0 THEN {"off"} ELSE {"expired", "running"}
    /\ rdy = IF timer = "expired" THEN <<TIMER>> ELSE << >>
    /\ evs = << >>
    /\ sent_flag = FALSE
    /\ pings = 0
    /\ pc = "idle"
    /\ quiet = 0 /\ deaf = FALSE

----------------------------------------------------------------------------
(* The server, the network and the clock.                                  *)

\* The last byte of a packet arrives, and perhaps a part of the next.
ArrivePacket ==
    /\ ~closed
    /\ queued' = More(queued, KMax)
    /\ part' \in BOOLEAN
    /\ Wake(READER)

Arrive ==
    /\ ArrivePacket
    /\ UNCHANGED <<closed, dead, torn, reader, evs, keepalive, pc, history>>

\* The server answers a PINGREQ.
Pong ==
    /\ pings > 0
    /\ ArrivePacket
    /\ pings' \in Fewer(pings, MaxPings)
    /\ UNCHANGED <<closed, dead, torn, reader, evs, timer, sent_flag, pc, history>>

\* The first bytes of a packet arrive.
ArrivePart ==
    /\ ~closed
    /\ part' = TRUE
    /\ Wake(READER)
    /\ UNCHANGED <<queued, closed, dead, torn, reader, evs, keepalive, pc, history>>

Close ==
    /\ ~closed
    /\ closed' = TRUE
    /\ Wake(READER)
    /\ UNCHANGED <<queued, part, dead, torn, reader, evs, keepalive, pc, history>>

\* A RST: the socket is readable once more, for what is left in it.
Reset ==
    /\ ~dead
    /\ dead' = TRUE
    /\ closed' = TRUE
    /\ Wake(READER)
    /\ UNCHANGED <<queued, part, torn, reader, evs, keepalive, pc, history>>

\* What is written to a server that is gone is answered with a RST.
AnsweredByReset ==
    /\ closed
    /\ pings > 0
    /\ Reset

Expire ==
    /\ timer = "running"
    /\ timer' = "expired"
    /\ Wake(TIMER)
    /\ UNCHANGED <<socket, reader, evs, sent_flag, pings, pc, history>>

----------------------------------------------------------------------------
(* The caller.  recv and connect take &mut self: no send overlaps them.    *)

\* recv: consume skips what is there of the frame, and what is still to come of
\* a half one will be read as headers.
CallRecv ==
    /\ pc = "idle"
    /\ pc' = "poll"
    /\ frame' = "none"
    /\ astray' = (astray \/ frame = "half")
    /\ UNCHANGED <<socket, held, poll, keepalive, history>>

\* connect: CONNECT is written, the flag is set, and poll_event is entered.
CallConnect ==
    /\ pc = "idle"
    /\ ~dead
    /\ pc' = "poll"
    /\ sent_flag' = TRUE
    /\ quiet' = 0
    /\ UNCHANGED <<socket, reader, poll, timer, pings, deaf>>

\* publish, subscribe and unsubscribe.
Send ==
    /\ pc = "idle"
    /\ ~dead
    /\ sent_flag' = TRUE
    /\ quiet' = 0
    /\ UNCHANGED <<socket, reader, poll, timer, pings, pc, deaf>>

\* disconnect does not set the flag.
Disconnect ==
    /\ pc = "idle"
    /\ ~dead
    /\ quiet' = 0
    /\ UNCHANGED <<socket, reader, poll, keepalive, pc, deaf>>

\* Any of them, connect included, fails part way: on a full socket buffer, or on
\* a field that is checked behind the header.  One that fails before its first
\* byte changes nothing.
SendTears ==
    /\ pc = "idle"
    /\ torn' = TRUE
    /\ UNCHANGED <<queued, part, closed, dead, reader, poll, keepalive, pc, history>>

----------------------------------------------------------------------------
(* poll_event.                                                             *)

IsReady(token) ==
    CASE token = READER -> queued > 0 \/ part \/ closed
      [] token = TIMER  -> timer = "expired"

\* poll: report the sources of the ready list that are still ready, in its
\* order.  A poll that times out after 100 ms with nothing to report changes
\* nothing.
EpollWait ==
    /\ pc = "poll"
    /\ rdy # << >>
    /\ evs' \in Batches
    /\ Range(evs') = {token \in Range(rdy) : IsReady(token)}
    /\ Len(evs') = 2 => evs' = rdy
    /\ rdy' = << >>
    /\ pc' = IF evs' = << >> THEN "poll" ELSE "events"
    /\ UNCHANGED <<socket, reader, keepalive, history>>

\* poll: interrupted by a signal.
PollFails ==
    /\ pc = "poll"
    /\ pc' = "idle"
    /\ UNCHANGED <<socket, reader, poll, keepalive, history>>

\* Leave poll_event, with a packet or an error: the events left are dropped.
LeaveLoop ==
    /\ pc' = "idle"
    /\ evs' = << >>
    /\ deaf' = (deaf \/ TIMER \in Range(Tail(evs)))

\* Mutant of NextEvent: the rest of the batch is dropped here too.
NextEventDrops ==
    /\ evs' = << >>
    /\ pc' = "poll"
    /\ UNCHANGED deaf

\* On to the next event, or to the next poll.
NextEvent ==
    /\ evs' = Tail(evs)
    /\ pc' = IF Tail(evs) = << >> THEN "poll" ELSE "events"
    /\ UNCHANGED deaf

\* Mutant of TakePacket: the packet in the buffer is overlooked.
TakePacketFromKernel ==
    /\ frame # "whole" /\ ~astray /\ held + queued > 0
    /\ \/ queued' \in Fewer(queued, KMax) /\ UNCHANGED held
       \/ \E n \in Fewer(queued, KMax) :
             n > 0 /\ queued' \in Fewer(n, KMax) /\ held' = 1
    /\ part' \in {FALSE, part}
    /\ frame' = "whole"
    /\ UNCHANGED astray
    /\ LeaveLoop

\* Reader::read finds a frame, in the buffer or in the kernel; fill_head may
\* take one more short packet into the buffer with it.
TakePacket ==
    /\ frame # "whole" /\ ~astray
    /\ \/ /\ held > 0
          /\ held' = held - 1
          /\ UNCHANGED <<queued, part>>
       \/ /\ held = 0 /\ queued > 0
          /\ \/ queued' \in Fewer(queued, KMax) /\ UNCHANGED held
             \/ \E n \in Fewer(queued, KMax) :
                   frame = "none" /\ n > 0 /\ queued' \in Fewer(n, KMax) /\ held' = 1
          /\ part' \in {FALSE, part}
    /\ frame' = "whole"
    /\ UNCHANGED astray
    /\ LeaveLoop

\* The frame connect finds from the call before: nothing is read.
ReturnStale ==
    /\ frame = "whole"
    /\ UNCHANGED <<queued, part, reader>>
    /\ LeaveLoop

\* A header that is malformed, or of a frame too long for the buffer.
Refuse ==
    /\ frame = "none" /\ ~astray
    /\ held + queued > 0 \/ part
    /\ queued' \in 0..queued
    /\ part' \in {FALSE, part}
    /\ held' = 0
    /\ frame' \in {"none", "half"}
    /\ astray' = TRUE
    /\ LeaveLoop

\* WouldBlock, or the end of the stream.
RunsDry == IF closed THEN LeaveLoop ELSE NextEvent

\* No whole packet.  The buffer keeps a part of a header; of a part of a body
\* read_exact loses what it takes.
FindPart ==
    /\ frame # "whole" /\ ~astray
    /\ held + queued = 0
    /\ part' = FALSE
    /\ frame' \in {frame, "half"}
    /\ \/ UNCHANGED astray /\ ~(part /\ frame = "half")
       \/ astray' = TRUE /\ part /\ frame' = "half"
    /\ RunsDry
    /\ UNCHANGED <<queued, held>>

\* A reader that is astray finds something it takes for a packet or for an
\* error, or takes all there is and waits for more.
ReadAstray ==
    /\ frame # "whole" /\ astray
    /\ \/ queued' \in 0..queued /\ part' \in {FALSE, part}
          /\ frame' \in {frame, "half", "whole"}
          /\ LeaveLoop
       \/ queued' = 0 /\ part' = FALSE
          /\ frame' \in {frame, "half"}
          /\ RunsDry
    /\ UNCHANGED <<held, astray>>

\* A READER event: break with the frame, go on after WouldBlock, or fail.
HandleReader ==
    /\ pc = "events"
    /\ Head(evs) = READER
    /\ TakePacket \/ ReturnStale \/ Refuse \/ FindPart \/ ReadAstray
    /\ UNCHANGED <<closed, dead, torn, rdy, keepalive, quiet>>

\* Mutant of AlreadySent: the flag is loaded, not exchanged.
AlreadySentKeepsFlag ==
    /\ sent_flag
    /\ quiet' = quiet + 1
    /\ UNCHANGED <<sent_flag, pings, torn>>

\* handle_ping: nothing to do if a packet was sent since the last tick.
AlreadySent ==
    /\ sent_flag
    /\ sent_flag' = FALSE
    /\ quiet' = quiet + 1
    /\ UNCHANGED <<pings, torn>>

\* Mutant of SendPing: the PINGREQ does not reach the server.
SendPingNothing ==
    /\ ~sent_flag
    /\ ~dead
    /\ quiet' = 0
    /\ UNCHANGED <<sent_flag, pings, torn>>

\* In a packet that was torn the server may read the PINGREQ as a part of it.
SendPing ==
    /\ ~sent_flag
    /\ ~dead
    /\ \/ pings' = More(pings, MaxPings)
       \/ torn /\ UNCHANGED pings
    /\ quiet' = 0
    /\ UNCHANGED <<sent_flag, torn>>

\* handle_ping: the write of the PINGREQ fails, perhaps in the middle of it.
SendPingFails ==
    /\ ~sent_flag
    /\ torn' \in {torn, TRUE}
    /\ UNCHANGED <<sent_flag, pings, quiet>>

\* A TIMER event: read the timer, which re-arms it and cannot fail on one that
\* has expired, then handle_ping.
HandleTimer ==
    /\ pc = "events"
    /\ Head(evs) = TIMER
    /\ timer = "expired"
    /\ timer' = "running"
    /\ \/ (AlreadySent \/ SendPing) /\ NextEvent
       \/ SendPingFails /\ LeaveLoop
    /\ UNCHANGED <<queued, part, closed, dead, reader, rdy>>

----------------------------------------------------------------------------
Next ==
    \/ Arrive
    \/ Pong
    \/ ArrivePart
    \/ Close
    \/ Reset
    \/ Expire
    \/ CallRecv
    \/ CallConnect
    \/ Send
    \/ Disconnect
    \/ SendTears
    \/ EpollWait
    \/ PollFails
    \/ HandleReader
    \/ HandleTimer

\* The loop runs while the kernel schedules the thread and not every poll is
\* interrupted; the clock ticks; the server answers PINGREQ, or its host does.
Fairness ==
    /\ SF_vars(EpollWait)
    /\ WF_vars(HandleReader)
    /\ WF_vars(HandleTimer)
    /\ WF_vars(Expire)
    /\ WF_vars(Pong)
    /\ WF_vars(AnsweredByReset)

Spec == Init /\ [][Next]_vars /\ Fairness

\* A caller in the loop of examples/sync-receiver: it always calls recv again.
RecvLoop == Spec /\ WF_vars(CallRecv)

----------------------------------------------------------------------------
(* Properties.                                                             *)

TypeOK ==
    /\ queued \in 0..KMax
    /\ part \in BOOLEAN
    /\ closed \in BOOLEAN
    /\ dead \in BOOLEAN
    /\ torn \in BOOLEAN
    /\ held \in 0..1
    /\ frame \in {"none", "half", "whole"}
    /\ astray \in BOOLEAN
    /\ rdy \in Batches
    /\ evs \in Batches
    /\ evs # << >> <=> pc = "events"
    /\ timer \in {"off", "running", "expired"}
    /\ sent_flag \in BOOLEAN
    /\ pings \in 0..MaxPings
    /\ pc \in {"idle", "poll", "events"}
    /\ quiet \in Nat
    /\ deaf \in BOOLEAN

(* An expired timer is on its way to handle_ping: until poll_event leaves  *)
(* its loop with a TIMER event unhandled, an expiry is either on the ready *)
(* list or among the events of the batch in progress.                      *)
ExpiryIsPending ==
    timer = "expired" /\ ~deaf => TIMER \in Range(rdy) \cup Range(evs)

(* Keep-alive: of any two ticks in a row that handle_ping returns Ok from, *)
(* at most one passes without a packet written since the one before.       *)
KeepAliveGap == quiet <= 1

(* recv returns when there is a packet for it to return, or an end of the  *)
(* stream to report, although the loop takes one packet per edge of the    *)
(* socket and leaves the rest, the end of the stream included, without an  *)
(* event: the timer makes it send a PINGREQ, and the answer or the RST is  *)
(* a new edge.  That needs a timer that runs, no TIMER event lost, and two *)
(* streams in which the packets can still be found: the server's, where    *)
(* the packet is, and the client's, where the PINGREQ is.                  *)
RecvReturns ==
    pc # "idle" /\ ((held + queued > 0 /\ ~astray) \/ closed)
        ~> pc = "idle" \/ deaf \/ torn \/ timer = "off"

----------------------------------------------------------------------------
(* What the code's comments say, and what does not hold.                   *)

(* "the maximum time interval that is permitted to elapse between the      *)
(* point at which the Client finishes transmitting one Control Packet and  *)
(* the point it starts sending the next": for a caller that never stops    *)
(* receiving, every tick of the timer is followed by the next one while    *)
(* the connection is open and its packets can be told apart.               *)
KeepAliveTicks == timer = "expired" ~> timer = "running" \/ closed \/ torn \/ astray
=============================================================================
