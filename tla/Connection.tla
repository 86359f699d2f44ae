----------------------------- MODULE Connection -----------------------------
(***************************************************************************)
(* A Connection over its life and in time: create looks for an address     *)
(* that answers and starts the two halves; then the calls of ReaderHalf    *)
(* run against a clock.  A second is the unit of the timer: as_secs cuts   *)
(* the timeout down to whole seconds, and the tick that reminds the client *)
(* of its keep alive comes once per timeout, whatever keep alive the       *)
(* CONNECT announced.                                                      *)
(*                                                                         *)
(* The steps of the loop take no time: a second passes while the caller is *)
(* outside of recv and connect, or while the poll has nothing to report.   *)
(***************************************************************************)
EXTENDS ReaderHalf

CONSTANTS
    Addresses,      \* how many addresses the name resolves to
    MaxSilence,     \* bound: the longest silence that is told apart
    MaxAway         \* bound: the longest time a caller stays outside of recv

ASSUME ConnectionAssumption == {Addresses, MaxSilence, MaxAway} \subseteq Nat

VARIABLES
    setup,          \* create: "resolve", "dial", "start", then "open" or "failed"
    tried,          \* create: how many addresses have failed
    left,           \* seconds to the next expiry of the timer
    silence,        \* seconds since the last packet was written
    away,           \* seconds since then that the caller spent outside of recv
    failed          \* history: the write of a PINGREQ failed

creation == <<setup, tried>>
time == <<left, silence, away>>
connectionVars == <<vars, creation, time, failed>>

Period == IF TimeoutSecs = 0 THEN 1 ELSE TimeoutSecs

\* The timer has expired already, or expires in part of a period (see Init);
\* in both cases part of a period is left to the expiry behind that.
ConnectionInit ==
    /\ Init
    /\ setup = "resolve" /\ tried = 0
    /\ left \in 1..Period
    /\ silence = 0 /\ away = 0
    /\ failed = FALSE

----------------------------------------------------------------------------
(* create.                                                                 *)

Setup(from, to) ==
    /\ setup = from
    /\ setup' = to
    /\ UNCHANGED <<vars, time, failed>>

\* to_socket_addrs
Resolve == (Setup("resolve", "dial") \/ Setup("resolve", "failed")) /\ UNCHANGED tried

\* Mutant of DialFails: the addresses do not end.
DialFailsOn == tried' = tried + 1 /\ Setup("dial", "dial")

\* connect_timeout, an option or the clone fails: the next address is tried.
DialFails == tried < Addresses /\ tried' = tried + 1 /\ Setup("dial", "dial")

Dial == tried < Addresses /\ UNCHANGED tried /\ Setup("dial", "start")

NoAddressLeft == tried = Addresses /\ UNCHANGED tried /\ Setup("dial", "failed")

\* The timer, the poll and the two registrations, each of which may fail.
Start == (Setup("start", "open") \/ Setup("start", "failed")) /\ UNCHANGED tried

Create == Resolve \/ DialFails \/ Dial \/ NoAddressLeft \/ Start

----------------------------------------------------------------------------
(* The clock.                                                              *)

\* The timerfd: an expiry wakes the poll if the one before was read.
Tick ==
    IF left > 1 \/ timer = "off"
    THEN left' = (IF left > 1 THEN left - 1 ELSE left) /\ UNCHANGED <<timer, rdy>>
    ELSE /\ left' = TimeoutSecs
         /\ timer' = "expired"
         /\ IF timer = "running" THEN Wake(TIMER) ELSE UNCHANGED rdy

Second ==
    /\ setup = "open"
    /\ silence < MaxSilence
    /\ \/ pc = "idle" /\ away < MaxAway /\ away' = away + 1
       \/ pc = "poll" /\ rdy = << >> /\ UNCHANGED away
    /\ silence' = silence + 1
    /\ Tick
    /\ UNCHANGED <<socket, reader, evs, sent_flag, pings, pc, history>>
    /\ UNCHANGED <<creation, failed>>

----------------------------------------------------------------------------
(* The calls and the loop.                                                 *)

Wrote == silence' = 0 /\ away' = 0

Connect == CallConnect /\ Wrote

SendPacket == Send /\ Wrote

SendDisconnect == Disconnect /\ Wrote

\* A tick: handle_ping leaves the loop only when the PINGREQ fails.
HandleTick ==
    /\ HandleTimer
    /\ IF sent_flag \/ pc' = "idle" THEN UNCHANGED <<silence, away>> ELSE Wrote

\* A packet that is not written whole ends no silence.
Quietly ==
    /\ \/ Arrive \/ Pong \/ ArrivePart \/ Close \/ Reset
       \/ CallRecv \/ SendTears \/ EpollWait \/ PollFails \/ HandleReader
    /\ UNCHANGED <<silence, away>>

Use ==
    /\ setup = "open"
    /\ Connect \/ SendPacket \/ SendDisconnect \/ HandleTick \/ Quietly
    /\ failed' = (failed \/ (pc = "events" /\ pc' = "idle" /\ Head(evs) = TIMER))
    /\ UNCHANGED <<creation, left>>

ConnectionNext == Create \/ Second \/ Use

ConnectionSpec == ConnectionInit /\ [][ConnectionNext]_connectionVars

----------------------------------------------------------------------------
(* Properties.                                                             *)

ConnectionTypeOK ==
    /\ TypeOK
    /\ setup \in {"resolve", "dial", "start", "open", "failed"}
    /\ tried \in 0..Addresses
    /\ left \in 1..Period
    /\ silence \in 0..MaxSilence
    /\ away \in 0..silence
    /\ failed \in BOOLEAN

(* The keep alive, in seconds: a client whose PINGREQs are written and     *)
(* whose ticks are not dropped is silent for at most two timeouts and the  *)
(* time its caller stays outside of recv and connect.  So a keep alive of  *)
(* at least twice the timeout is kept by a caller that is always in recv,  *)
(* and one below twice the timeout is not: the code relates the two        *)
(* nowhere.                                                                *)
SilenceBounded ==
    setup = "open" /\ timer # "off" /\ ~deaf /\ ~failed =>
        silence <= 2 * TimeoutSecs + away
=============================================================================
