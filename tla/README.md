# A TLA+ model of mcutt

mcutt is an MQTT 3.1.1 client library: it builds and parses control packets
without copying them, and has a synchronous client on a non-blocking socket.
These modules model the parts of it that keep state or that several parties
touch, check them with TLC on small instances, and prove the central
invariants with TLAPS for every value of the constants.

## Inventory

| Component | State it keeps | Operations | Hard behaviour |
|---|---|---|---|
| Fixed header codec (`common/fixed/`) | none | `next_frame`, `parse`, `write_sync` | size classes, continuation bits, partial headers, two parsers |
| `Reader` (`sync.rs`) | `buf`, `pos`, `filled`, `frame` | `read`, `next_frame`, `fill_head`, `read_frame`, `consume` | short reads, WouldBlock in the middle, five bytes read ahead, errors that leave state behind |
| `ReaderHalf` (`sync.rs`) | `poll`, `events`, `timer_fd` | `poll_event`, `recv`, `register` | edge-triggered readiness, batches of events, a timer that has to be read |
| `WriterHalf` (`sync.rs`) | socket, `sent_flag` | `publish`, `subscribe`, `unsubscribe`, `disconnect`, `handle_ping` | several `write_all` calls per packet, threads, full send buffer, late checks |
| `Connection` (`sync.rs`) | both halves | `create`, `connect` and the calls of the halves | calls before `connect` and after `disconnect`; ticks at an interval that is not the keep alive |
| Encoders (`connect`, `publish`, `subscribe`, ...) | none | `encode_len`, `write_sync` | two definitions of one length |
| Builders (`*/builder.rs`) | the packet being built | `will`, `username`, `keepalive`, `qos`, `retain`, ... | calls made twice |
| Decoders (`*/ack.rs`, `packet.rs`, `*/iter.rs`, ...) | none | `parse`, `consume`, the filter cursors | bytes behind the packet, lengths the peer chose, malformed UTF-8 |
| String and topic checks (`common/string.rs`, `common/topic.rs`) | none | `is_valid_char`, `has_valid_wildcard` | code point arithmetic |
| `Slab` (`slab.rs`) | `next_free`, `store` | `insert`, `try_insert`, `remove`, `get`, `get_mut` | free list, failed inserts, removals of free entries |

`connect` and `recv` borrow the connection mutably and run alone; the calls
that send borrow it shared, so threads may run them at the same time.
`ReaderHalf` calls `WriterHalf::handle_ping` on every tick of the timer; the
two share the socket and `sent_flag`. `Reader` asks `FixedHeader::next_frame`
how long the next packet is. No code of the crate uses `Slab` yet.

What makes each part correct: the codec gives back what it was given and finds
a frame as soon as, and not before, its header is complete; the reader hands
out every packet whole, once and in order; the loop returns when there is
something to return and lets no tick pass unheard; the writers leave only
whole packets on the wire; a packet is as long as its header says, its flags
match its fields, and its parser reads back what its builder made; what a
parser accepts is legal; a connection writes something often enough; the slab never
gives one index to two packets, and takes one as long as it has room.

## Modules

`FixedHeader` holds the operators of the header codec and `Strings` the checks
on characters and wildcards, on code points; next to each check stands a
definition of what it is for, written from the sets of code points and from
topic levels, that does not follow the code.

`Reader` is the framing buffer with its callers and the network. The byte at
offset *k* of the stream is represented by *k*, so a lost, repeated or misplaced
byte shows; values are looked up in `stream` where the code looks at them. One
action is one system call or the code between two: `Read` is the entry of
`Reader::read` with `backshift`, `FillHead` one `read`, `ReadExact` one `read`
of the `read_exact` loop, with `got` the bytes it has so far. `FrameReady` ends
`poll_event` and parses: a sized packet (CONNACK, PUBACK, ..., PINGRESP) is as
long as its type says, PUBLISH and SUBACK as the frame is; of the fields nothing
is assumed, so a parser may reject any packet. `lost` and `clamped` record the
two ways in which the code itself gets out of step.

`ReaderHalf` is the loop of `poll_event`. In place of the buffer it keeps the count of
packets in the kernel (`queued`, `part`) and in the buffer (`held`), and whether a
frame is there, half or whole. `TakePacket` and `FindPart` are the reads of a reader
that knows where it is. A part of a body that `read_exact` loses, a header it refuses,
and a half frame that `recv` consumes leave it `astray`: `ReadAstray` then returns
anything, or takes all there is and waits for more. On the other side a send that
fails part way (`SendTears`) leaves the connection `torn`, and the server may take a
PINGREQ for the rest of that packet. The ready list (`rdy`) and the batch (`evs`)
follow epoll with the edge-triggered registration mio makes; a timerfd that has
expired gives no new edge until it is read, and a timer set to zero seconds is off.
`quiet` counts the ticks that passed without a packet since the last one written,
`deaf` records that a tick was dropped.

`Connection` extends `ReaderHalf` with `create` and with time. `create` resolves the
name, tries one address after the other (`DialFails` is a timeout, or an option or the
clone that fails), and starts the two halves, which may fail too. From then on
`Second` is the clock: it advances while the caller is outside of `recv` and
`connect`, or while the poll has nothing to report, and `Tick` is the timerfd. The
first expiry is at an absolute time that as a rule has passed, so the timer may have
expired at once, and any part of a period may be left to the next. `silence` counts
the seconds since the last packet and `away` those of them that the caller spent
elsewhere; a send that fails part way ends no silence. By construction every step of
`Connection` is a step of `ReaderHalf` or leaves its variables alone.

`Packets` gives, for each packet, the checks made before anything is written, the
length `encode_len` declares, and the steps `write_sync` takes: a `write_all` of some
bytes, each with the check made right before it. A string is its first
characters and a number of letters behind them, which makes strings of 64 KiB
cheap; data is a number of bytes. `Builders` has the calls of the builders as
actions. `Decoders` has a parser for each packet as an operator from bytes to
what it read and the bytes it left, or `Err`; UTF-8 is decoded, and the `?` of the code
is `Then`. `Codec` composes the three: calls build a packet, `WriteSync` writes it,
the parser of its type reads it. `Alter` and `Receive` stand for peers that are not
this library: a packet that differs in one byte or in its end, and malformed
frames that one byte of difference does not reach.

`Writer` runs the steps of `Packets` from several threads against a send buffer of
bounded size. A call is at the step `NextCall` finds, the next one that makes a system
call or fails its check: `WriteSome` is one `write`, `WriteFails` the error that
`write_all` returns (WouldBlock on a full buffer, or any other), `CheckFails` a check
that fails at its place in the packet. `taken` remembers the calls made before
`handle_ping` last took `sent_flag`.

`Slab` is the vector with its free list; `PacketStore` says what a store of
packets promises, and `Slab` is shown to implement it with `issued` as the
indexes below the length of the vector and `items` as the occupied entries.
The last call and its answer are part of both, so that a `remove` that left its
packet behind, or an answer from another index, would not be taken for a `get`.

`MC*` modules hold constants for TLC. `*Proofs` modules hold the theorems. A
definition with "Mutant of" in its comment is a plausible bug in the
definition it names, used to see that a property can fail; no specification
refers to it.

## Runs

Runs that pass:

| Run | Shows | Bounds |
|---|---|---|
| `reader` | slices in range, bytes in order, packets whole and once | buffer of 7 bytes (`MIN` is 5: a packet that fits exactly and one that does not), six streams of up to 3 packets, cut at any byte, closed at any time, calls in any order |
| `reader_half` | expiries pending, keep-alive gap, `recv` returns a packet or the end of the stream | 2 packets in the kernel stand for 2 or more, 1 unanswered PINGREQ for 1 or more; both counters saturate and a removal from a saturated one is nondeterministic, so longer queues are covered |
| `slab` | the slab refines the packet store | 3 entries, 2 values: full, full with free entries among occupied ones, and reads past the end; two entries free at once, so that a chain would show if `remove` made one |
| `codec` | lengths, header, QoS bits, round trip, own frame, legal strings, wildcards | strings with characters of 1 to 4 bytes of UTF-8, too long, with an invalid character, with wildcards; client ids of 1, 23 and 24 letters; payloads that end on the last length of each of the four size classes, and past it with an identifier; data on both sides of 65535; up to 2 filters or codes; packets of up to `MaxWire` = 300 bytes are written out, those of up to `MaxAltered` = 20 altered, at every byte, to one of five values |
| `connection` | silence in seconds | a timeout of 2 s, 2 addresses, callers away for up to `MaxAway` = 3 s, silences of up to `MaxSilence` = 8 s (2 timeouts, `MaxAway` and 1 more, so that the bound can be passed) |
| `writer` | `Ok` means whole, packets in sequence, `sent_flag` set exactly for packets sent whole | 2 threads (symmetric), 2 calls, a send buffer of 4 bytes: every packet but PINGREQ and DISCONNECT is split, and one is too long for any header |

`codec`, `connection` and `writer` check no deadlock: their behaviours end when a
packet was read, when `create` fails or the silence reaches its bound, and when
`MaxCalls` packets were sent.

Runs that show where the code departs from what its documentation says
(`findings` in `PROJECT.json` quotes it):

| Run | The counterexample |
|---|---|
| `reader_split` | the body of a PUBLISH arrives in two parts; `read_exact` takes the first, fails with WouldBlock and forgets it; the next attempt fills the gap with later bytes |
| `reader_pipelined` | the five bytes read for the header of a 2- or 4-byte packet contain bytes of the next, and `consume` refuses the packet |
| `reader_half_keepalive` | a packet and a tick in one batch: `break 'blk` drops the tick, and the timer is never read again |
| `slab_full` | insert until the slab is full and remove one entry: `remove` never sets `next_free`, and the next insert is refused |
| `writer_shared` | two threads publish at the same time, the packets interleave, both get `Ok` |
| `writer_torn` | a publish to a topic with U+0001 returns `Err` behind its header; the next publish is written into the rest of that packet and returns `Ok` |

The hypotheses of the passing properties mark the other limits of the code;
dropping one of them gives a counterexample within the same bounds:

- `FrameAligned` and `DeliveredWhole` hold while no read lost bytes and no frame
  was skipped in part (`clamped`). A frame is skipped in part after "payload is too
  big", which leaves the rest of the frame on the stream, and after a failed poll
  or PINGREQ between the header and the body.
- `HeaderRoom` needs a stream with valid headers: a remaining length of five
  bytes stays in the buffer, and the next call meets the `debug_assert!` of
  `next_frame` with five unread bytes.
- `NoReplay` is about `recv`. `connect` does not call `consume`: after another
  call it returns that call's packet again.
- `PacketsInSequence` needs that no two calls overlap and that none fails part
  way. WouldBlock, or a string that is only checked when its turn comes, leaves a
  torn packet, and later packets are written behind it (`writer_torn`).
- `RecvReturns` needs a timer that runs (`create` with less than a second turns it
  off) and no dropped tick: the tick, its PINGREQ and the answer are what
  wakes the loop for packets it left in the kernel. It also needs a reader that is
  not `astray`, since a reader that lost bytes takes the packets that follow for the
  rest of a frame, every answer to a PINGREQ among them, and may never return; and a
  connection that is not `torn`, where a PINGREQ may stay without an answer.
- `FlagMeansSent` is exact: set for a packet sent whole since the last tick took the
  flag, and for no other. DISCONNECT and PINGREQ do not set it.
- `QosAsAsked` is about the QoS bits. `will` never clears `WILL_RETAIN`, and `qos`
  never clears `PUBLISH_DUP`.
- `RoundTrip` names its exceptions (`Unreadable`) and shows that each is one: a client
  id that is empty, longer than 23 bytes or not alphanumeric is written and not
  read; `qos(AtMostOnce)` after another `qos` keeps the packet identifier, which the
  reader takes for payload; `ConnAck::write_sync` writes no fixed header.
- `ReadsItsFrame` bounds PUBLISH, SUBSCRIBE, SUBACK and UNSUBSCRIBE by their remaining
  length. The sized packets ignore theirs (`FixedHeaderArray` only reads it), and
  `Connect::parse` follows its flags past it.
- `WildcardsByLevel` is about the check before a write and about UNSUBSCRIBE.
  `TopicFilter::parse` does not call the `validate` that would check a SUBSCRIBE it reads.
- `AcceptedIsLegal` is about what the code means to refuse: U+0000 to U+001F and the
  noncharacters. It refuses others with them: `is_last_two_supplementary` keeps 8 bits
  of a code point where 16 tell the last two of a plane from the others, so U+1F5FF makes a
  topic invalid (`MCTopics` has it). U+007F to U+009F pass. The reserved bits of a CONNACK pass too:
  the mask in `ConnAck::validate` is `!SESSION_PRESENT`, which bitflags cuts down to
  the known flags, so it is empty, although `connect/ack.rs:200` says that these bits
  "MUST be set to 0".
- `SilenceBounded` adds the time a caller is away, and needs that no PINGREQ failed and
  no tick was dropped. Two timeouts is the bound, and the run reaches it: a keep
  alive below twice the timeout given to `create` is not kept by this client,
  and nothing in the code relates the two. It counts what is written; behind a torn
  packet the server may see less of it.
- No property says that what is written is legal at its place in the conversation: no
  call is refused before `connect` or after `disconnect`, and a `recv` there sends
  PINGREQs.
- `ImplementsPacketStore` allows an index to be given up for good. `remove` does that
  (`slab_full`), and so does `try_insert` when its closure fails: the entry it reserved
  stays in the vector, and no `next_free` leads to it.

## Fairness

`ReaderHalf` assumes: a thread in the loop is scheduled (weak fairness of the
handling of events) and not every poll of it is interrupted by a signal (strong
fairness of `EpollWait`, which `PollFails` disables again and again); the clock
goes on (weak fairness of `Expire`); the server answers PINGREQ while the
connection is open (weak fairness of `Pong`, which MQTT demands of it); and the
host of a server that is gone answers what is written to it with a RST (weak
fairness of `AnsweredByReset`, which TCP demands). `RecvLoop`, the
specification of `reader_half_keepalive`, adds a caller that always calls `recv`
again, as the loop of `examples/sync-receiver` does. Nothing is assumed of arrivals, of senders or
of the success of a PINGREQ. The other modules are checked for safety only.

## Proofs

`ReaderProofs` assumes `Capacity >= MIN`, which `with_capacity` checks, and
that every stream is a sequence of bytes with marks on it. The invariants are
not inductive by themselves. `IndInv` adds to the types what the positions of
the code imply: `Cursors` (`pos` is 0 whenever a frame is set or a header is
being read, at most `MIN` bytes are filled while a header is read, `got` is only
nonzero in a `read_exact` of a frame that fits) and `Sourced` (the unread cells
come from distinct, increasing offsets). `BytesInOrder` and `SlicesInRange`
follow. `FrameAligned` is inductive on top of `IndInv`: its step for
`HeaderFound` rests on `WellFormed`, which relates the bytes of a stream to its
boundaries, and on the unread bytes being those behind a boundary.
`DeliveredWhole` follows from it at `FrameReady`, `HeaderRoom` needs the same
fact at every return (`Room`), and `NoReplay` that every unread byte is newer
than the last packet returned (`Newer`).

`ConnectionProofs` begins with the halves, and proves `KeepAliveGap` of them from
`FlagMeansNoTick`: if the flag is set, no tick has passed since the last packet. It
proves the types, in three parts (`Counters`, `Switches`, `Lists`) of which the last
says that a batch and the ready list never name a source twice; and `ExpiryIsPending`,
which is inductive with the types: only a step that leaves the loop drops an event, and
it sets `deaf` when the event is the timer's.

It goes on with the connection, and assumes nothing but that the constants are numbers. Every step
of `Connection` is a step of `ReaderHalf` or a stutter (the lemma `StepImplements`), so
`ExpiryIsPending` holds of a connection too. `SilenceBounded` is not inductive; the
invariant behind it is `Heard`: the silence, and what of the current period is
still to come, are together at most the allowance and the time the caller
was away, where the allowance is one timeout while `sent_flag` is set
and two once a tick has taken it. A second is covered by what is to come, as long
as the timer runs; once it has expired, `ExpiryIsPending` says that the poll has
something to report, so that seconds pass only outside of the loop and count
as `away`. A tick that takes the flag gains a timeout and starts a period of
one; a tick without the flag writes. The types need the pace of the silence proof: the countdown is
set to the timeout at every expiry, and stays within its period because a timer
of zero seconds is off and never expires.

`SlabProofs` proves the refinement from `IndInv`, which contains that the free
list is empty in every reachable state (`Unchained`): the reason why the slab
is safe, and the reason of the finding above.

`FixedHeaderProofs` bounds the length `next_frame` returns (`FrameLenBound`: no
`checked_add` can fail on 32 bits) and shows that five bytes always decide
(`FiveBytesDecide`: `fill_head` never asks for zero bytes).

`PacketsProofs` has the facts about sums and concatenations of any length on which
the encoders rest, and two theorems. `LengthsAgree`: for every packet that
encodes, the sizes of the steps of `write_sync` add up to what `encode_len` put
into the fixed header. It goes from the fields (`Sized`: these steps write this
many bytes) through the sequences of fields, by induction on their number, to the
packets. `WildcardCheckDecides`: the check of a wildcard's neighbours is the rule
about levels, for strings of any length. The part that needs induction is that every
wildcard stands in a level, whose ends are found with least elements.

`WriterProofs` assumes that what is sent are packets of the types in `Packets`, and a
send buffer of at least one byte; the number of threads and of calls is any. Its
invariant is `IInv`: every call has written the steps before the one it is at and
the bytes `done` of that one, and every check on the way passed (`Progress`); a call is
on the wire once, and exactly when it has written something; and without overlap the last call
alone may be running, what it has written ends the wire, and the bytes of each call are
in one run (`Alone`). `OkMeansWhole` is `Progress` at the end of the
steps together with `LengthsAgree`; `RefusedLeavesNoTrace` is `Progress` at the first
step, which is the check; `PacketsInSequence` needs `Alone`. `FlagMeansSent` is inductive with `IInv` and
`FlagInv`: the calls in progress began after the flag was last taken, since a tick has the
connection to itself, and a PINGREQ runs alone and only while the flag is not set,
so that the store of `false` behind it clears nothing. That nobody but the tick sends a
PINGREQ is an assumption on `Sendable`; the crate has no such call.

`CodecProofs` assumes that the constants of `Builders` are texts, names, identifiers
and sizes, and that `Codec`'s peers send bytes. The types and `QosAsAsked` are inductive
together, over every call of the builders; `LengthHonest` is `LengthsAgree`.
`FrameFoundAtLastHeaderByte` is proved in the four size classes of the
remaining length: the digits `encode_to_array` writes are the ones `read_from_buf`
adds up, and only the last has no continuation bit. `ReadsItsFrame`,
`AcceptedIsLegal` and `WildcardsByLevel` are consequences of one lemma, `ParseSound`: for every
sequence of bytes, whoever made it, what `ParseOf` returns is in `Accepted` (the packets
with legal fields), a byte appended to the input is appended to what is left and
changes nothing else, and a parser that splits at the remaining length takes
the frame `next_frame` finds. It is proved parser by parser, from the fields up.

`RoundTripProofs` proves the other direction, `RoundTrip`: each encoder is undone by the
parser of its type. The bytes of a packet are those of its steps, one behind the other
(`Out`, over steps that pass their checks); a lemma per field says that its parser,
given the bytes the encoder wrote and any bytes behind them, returns the field and
leaves the rest: characters in the four UTF-8 sizes, strings, buffers and filter lists
of any length (by induction on the number of characters or filters), the digits of the
remaining length, the flag bytes bit by bit (`EightBits`), optional fields. A lemma per
packet type puts them together (`SubscribeUndone`, `PublishUndone`, `ConnectUndone`,
...), and `OthersReadBack` states what follows for every packet that is neither a
CONNECT nor a PUBLISH, with lists of any length (the model builds up to two entries).
For those two types the parser follows the flags, so the flags must announce the fields
that are there. That is not a fact about one call but an invariant of every chain of
calls: `Announced` (the flag of the will, the user name and the password is set exactly
when the field is; a QoS above zero comes with an identifier). It is inductive together
with the types, `QosAsAsked` and `Written` (what is on the wire of a packet that is
built is what `write_sync` made of it). The exceptions are proved to be exceptions: a
CONNECT whose client id is not readable and a CONNACK are refused, and a PUBLISH with a
left-over identifier is read as another packet, with the identifier in its payload.

The library's induction theorems take a predicate as a parameter, which the installed
provers cannot instantiate. `PacketsProofs` states induction with a set in its place
(`Induction`, from well-founded minima), `RoundTripProofs` turns it into induction over
sequences from either end, and `CodecProofs` derives from it that a function defined
from its values for fewer bytes exists (`Recursion`): the parsers of UTF-8 and of the
filter lists are such functions.

Only model-checked: `RecvReturns`, since liveness under fairness is out of the reach of the
prover. Every other property of a passing run is also a theorem.

## Not modelled

- `Display`, `Debug`, tracing, the wording of errors, the benches.
- The socket options of `connect_socket`: they leave no state in the library.
- The debug_asserts that a parser is given a packet of its own type: the models
  are those of a release build.
- `Duration`s below a second other than as the timer sees them (`as_secs` cuts them to
  zero, which turns it off), and the errors of a clock.

## Plan

1. (done) the codec, the reader, the loop, the slab, encoders, builders and
   writers; the proofs about the reader, the keep-alive gap and the slab.
2. (done) strings and wildcards, the decoders and their round trip with the
   builders, the connection with its setup and a clock, a server that resets.
3. (done) the proofs about the loop and the connection: types, pending expiries,
   the bound on the silence.
4. (done) the proofs about encoders, writers, builders and parsers: lengths, wildcards,
   the wire, the QoS bits, the header, what a parser takes and what it accepts.
5. (done) the proof of `RoundTrip`: what the parser of a field reads of the bytes its encoder
   wrote, with any bytes behind them, then the packets.
