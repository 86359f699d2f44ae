------------------------------- MODULE Writer -------------------------------
(***************************************************************************)
(* WriterHalf: what the calls that send put on the wire.  A call writes    *)
(* its packet in several write_all calls to a non-blocking socket that     *)
(* nothing locks.  publish, subscribe, unsubscribe and disconnect take     *)
(* &self, so threads that share the connection may run them at the same    *)
(* time; connect, and recv with the PINGREQ of its keep-alive tick, take   *)
(* &mut self and run alone.                                                *)
(***************************************************************************)
EXTENDS Packets

CONSTANTS
    Threads,        \* the threads that share the connection
    Sendable,       \* the packets callers send
    SendBuffer,     \* the size of the kernel's send buffer
    MaxCalls        \* bound: how many packets are sent in a behaviour

ASSUME WriterAssumption ==
    /\ Sendable \subseteq HeaderPackets
    /\ \A p \in Sendable : p.type # PINGREQ
    /\ SendBuffer \in Nat \ {0}
    /\ MaxCalls \in Nat

VARIABLES
    calls,          \* the calls made so far: see Start
    wire,           \* the calls with bytes on the wire, by their first byte
    last,           \* the call whose bytes are at the end of the wire
    space,          \* free bytes in the send buffer
    sent_flag,      \* WriterHalf::sent_flag
    overlapped,     \* history: two calls were in progress at the same time
    taken           \* history: the calls made before handle_ping last took the flag

vars == <<calls, wire, last, space, sent_flag, overlapped, taken>>

Running == {c \in 1..Len(calls) : calls[c].status = "running"}

Exclusive == {CONNECT, PINGREQ}

\* The types after which the call stores true in sent_flag.
SetsFlag == {CONNECT, PUBLISH, SUBSCRIBE, UNSUBSCRIBE}

Init ==
    /\ calls = << >>
    /\ wire = << >>
    /\ last = 0
    /\ space = SendBuffer
    /\ sent_flag = FALSE
    /\ overlapped = FALSE
    /\ taken = 0

----------------------------------------------------------------------------
\* The borrow rules: a call may start beside the ones in progress.
MayStart(t, p) ==
    /\ \A c \in Running : calls[c].thread # t
    /\ Running # {} =>
        /\ p.type \notin Exclusive
        /\ \A c \in Running : calls[c].packet.type \notin Exclusive

\* A check that passes and a write of nothing make no system call.
MakesCall(s) == s.size > 0 \/ ~s.valid

\* The first step of write_sync from step k on that makes one, or the end.
NextCall(p, k) ==
    CHOOSE i \in k..(Len(StepsOf(p)) + 1) :
        /\ i <= Len(StepsOf(p)) => MakesCall(StepsOf(p)[i])
        /\ \A j \in k..(i - 1) : ~MakesCall(StepsOf(p)[j])

\* A call: the step of write_sync it is at and the bytes of that step that are
\* written; the bytes of it on the wire, in how many runs; and what became of it.
Start(t, p) ==
    /\ Len(calls) < MaxCalls
    /\ MayStart(t, p)
    /\ calls' = Append(calls, [thread |-> t, packet |-> p, step |-> NextCall(p, 1),
                               done |-> 0, written |-> 0, runs |-> 0, status |-> "running"])
    /\ overlapped' = (overlapped \/ Running # {})
    /\ UNCHANGED <<wire, last, space, taken>>

\* connect, publish, subscribe, unsubscribe, disconnect.
Send(t) ==
    /\ \E p \in Sendable : Start(t, p)
    /\ UNCHANGED sent_flag

\* handle_ping on a tick of the timer: clear the flag, or send a PINGREQ.
ClearFlag ==
    /\ Running = {}
    /\ sent_flag
    /\ sent_flag' = FALSE
    /\ taken' = Len(calls)
    /\ UNCHANGED <<calls, wire, last, space, overlapped>>

Ping(t) ==
    /\ ~sent_flag
    /\ Start(t, PingReqPacket)
    /\ UNCHANGED sent_flag

----------------------------------------------------------------------------
(* The progress of a call.                                                 *)

StepNow(c) == StepsOf(calls[c].packet)[calls[c].step]

Unfinished(c) == c \in Running /\ calls[c].step <= Len(StepsOf(calls[c].packet))

Left(c) == StepNow(c).size - calls[c].done

\* Mutant of Advance: write instead of write_all, a short write passes.
AdvanceShort(c, n) ==
    [calls[c] EXCEPT !.step = NextCall(calls[c].packet, @ + 1), !.done = 0]

\* Call c after n more bytes of the current step: write_all goes on until it
\* has written them all.
Advance(c, n) ==
    IF n = Left(c)
    THEN [calls[c] EXCEPT !.step = NextCall(calls[c].packet, @ + 1), !.done = 0]
    ELSE [calls[c] EXCEPT !.done = @ + n]

\* n bytes of call c go to the end of the wire.
Put(c, n) ==
    /\ calls' = [calls EXCEPT ![c] =
                    [Advance(c, n) EXCEPT !.written = @ + n,
                                          !.runs = IF last = c THEN @ ELSE @ + 1]]
    /\ wire' = IF calls[c].written = 0 THEN Append(wire, c) ELSE wire
    /\ last' = c

\* Mutant of WriteSome: the kernel is taken to accept any size.
WriteSomeBlind(c) ==
    /\ Unfinished(c)
    /\ StepNow(c).valid
    /\ space > 0
    /\ Put(c, Left(c))
    /\ space' = space - Left(c)
    /\ UNCHANGED <<sent_flag, overlapped, taken>>

\* One write of a write_all: the kernel takes what fits.
WriteSome(c) ==
    /\ Unfinished(c)
    /\ StepNow(c).valid
    /\ space > 0
    /\ LET n == IF Left(c) <= space THEN Left(c) ELSE space IN
        /\ Put(c, n)
        /\ space' = space - n
    /\ UNCHANGED <<sent_flag, overlapped, taken>>

\* Mutant of Fail: the flag is stored whatever write_sync returned.
FailSetsFlag(c) ==
    /\ calls' = [calls EXCEPT ![c].status = "err"]
    /\ sent_flag' = TRUE
    /\ UNCHANGED <<wire, last, space, overlapped, taken>>

Fail(c) ==
    /\ calls' = [calls EXCEPT ![c].status = "err"]
    /\ UNCHANGED <<wire, last, space, sent_flag, overlapped, taken>>

\* write_all: the send buffer is full, and WouldBlock is an error like any other;
\* the others (a reset, a broken pipe) come with a full buffer or without.
WriteFails(c) ==
    /\ Unfinished(c)
    /\ StepNow(c).valid
    /\ Fail(c)

\* Mutant of CheckFails: the error is dropped and the call returns Ok.
CheckFailsSwallowed(c) ==
    /\ Unfinished(c)
    /\ ~StepNow(c).valid
    /\ calls' = [calls EXCEPT ![c].status = "ok"]
    /\ UNCHANGED <<wire, last, space, sent_flag, overlapped, taken>>

\* A check fails, before anything is written or in the middle of the packet.
CheckFails(c) ==
    /\ Unfinished(c)
    /\ ~StepNow(c).valid
    /\ Fail(c)

\* The packet is written: flush does nothing on a socket, then the flag.
Finish(c) ==
    /\ c \in Running
    /\ ~Unfinished(c)
    /\ calls' = [calls EXCEPT ![c].status = "ok"]
    /\ sent_flag' = CASE calls[c].packet.type \in SetsFlag -> TRUE
                      [] calls[c].packet.type = PINGREQ -> FALSE
                      [] OTHER -> sent_flag
    /\ UNCHANGED <<wire, last, space, overlapped, taken>>

\* The network takes bytes from the send buffer.
Drain ==
    /\ space < SendBuffer
    /\ space' \in (space + 1)..SendBuffer
    /\ UNCHANGED <<calls, wire, last, sent_flag, overlapped, taken>>

Next ==
    \/ \E t \in Threads : Send(t) \/ Ping(t)
    \/ ClearFlag
    \/ \E c \in 1..Len(calls) :
        WriteSome(c) \/ WriteFails(c) \/ CheckFails(c) \/ Finish(c)
    \/ Drain

Spec == Init /\ [][Next]_vars

----------------------------------------------------------------------------
(* Properties.                                                             *)

\* The states of a call.
Calls ==
    [thread : Threads, packet : Sendable \cup {PingReqPacket}, step : Nat \ {0}, done : Nat,
     written : Nat, runs : Nat, status : {"running", "ok", "err"}]

TypeOK ==
    /\ calls \in Seq(Calls)
    /\ wire \in Seq(1..Len(calls))
    /\ last \in 0..Len(calls)
    /\ space \in 0..SendBuffer
    /\ sent_flag \in BOOLEAN
    /\ overlapped \in BOOLEAN
    /\ taken \in 0..Len(calls)

Whole(c) == calls[c].written = PacketLen(calls[c].packet)

Torn(c) == calls[c].status = "err" /\ calls[c].written > 0

(* A send that returns Ok has put every byte its fixed header declares on  *)
(* the wire, however the kernel split the writes and whoever wrote in      *)
(* between; no call writes more, and none writes a byte of a packet whose  *)
(* length no fixed header can declare.                                     *)
OkMeansWhole ==
    \A c \in 1..Len(calls) :
        /\ calls[c].status = "ok" => Whole(c)
        /\ calls[c].written > 0 =>
            /\ BodyLen(calls[c].packet) <= MAX_REMAINING_LENGTH
            /\ calls[c].written <= PacketLen(calls[c].packet)

(* The server can find every packet: while no two calls overlapped and no  *)
(* call failed part way, the wire is a sequence of whole packets, each in  *)
(* one run, with the packet in progress, if there is one, at its end.      *)
PacketsInSequence ==
    (~overlapped /\ \A c \in 1..Len(calls) : ~Torn(c)) =>
        \A i \in 1..Len(wire) :
            /\ calls[wire[i]].runs = 1
            /\ Whole(wire[i]) \/ (i = Len(wire) /\ wire[i] \in Running)

(* Wildcards are refused before the first byte: a publish to a topic with  *)
(* a wildcard, and a subscribe or unsubscribe with an invalid one, leaves  *)
(* the stream as it was.                                                   *)
RefusedLeavesNoTrace ==
    \A c \in 1..Len(calls) : ~ChecksFirst(calls[c].packet) => calls[c].written = 0

(* handle_ping skips the PINGREQ of a tick exactly when a packet was sent  *)
(* whole, from its first byte to its last, since it last took the flag:    *)
(* never for a packet that failed or is under way, or for one that another *)
(* tick has been skipped for, and it misses none.                          *)
FlagMeansSent ==
    sent_flag <=> \E c \in (taken + 1)..Len(calls) :
        calls[c].packet.type \in SetsFlag /\ calls[c].status = "ok" /\ Whole(c)

----------------------------------------------------------------------------
(* What the code's comments say, and what does not hold.                   *)

(* "Sends a PUBLISH packet": the bytes of a packet sent with Ok follow     *)
(* each other on the wire.                                                 *)
OkPacketsContiguous ==
    \A c \in 1..Len(calls) : calls[c].status = "ok" => calls[c].runs = 1

(* "Sends a PUBLISH packet": where the bytes of a publish that returned Ok *)
(* begin the server expects a packet, not the rest of one that was given   *)
(* up behind its header, at a field that failed its check.                 *)
OkPacketsFramed ==
    \A j \in 1..Len(wire) :
        calls[wire[j]].packet.type = PUBLISH /\ calls[wire[j]].status = "ok" =>
            \A i \in 1..(j - 1) : ~(Torn(wire[i]) /\ ~StepNow(wire[i]).valid)
=============================================================================
