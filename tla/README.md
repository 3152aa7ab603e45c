# A TLA+ model of rust-libp2p-nym

`rust-libp2p-nym` is a libp2p transport over the Nym mixnet. This directory holds
TLA+ specifications of its protocol logic, TLC configurations that model-check
them, and TLAPS proofs. `PROJECT.json` maps every definition to the lines of code
it models and lists the runs, mutants, findings, hazards and theorems.

## The system

```
 application / libp2p swarm
   |  dial, listen, poll           |  open, accept, close        |  read, write
 NymTransport  ---- inbound ---->  Connection  ---- data ---->  Substream
   |   ^      channel per ID       |   shared nonce counter         |
   |   MessageQueue per ID         +---------- outbound channel ----+
 mixnet task (websocket) <------------------------+
   |
 Nym: delivers in any order
```

| Component | State | Operations | What makes it correct |
|---|---|---|---|
| `NymTransport` (`transport.rs`) | `connections`, `pending_dials`, `message_queues`, listener events; a future per dial, an `Upgrade` per incoming connection | `dial` and its future (with a timeout), `poll`, `remove_listener`, the handlers of the three kinds of message | the two ends of a connection agree; it is set up once, whatever is repeated or late; messages reach it in order; a dial ends |
| `MessageQueue` (`queue.rs`) | next expected nonce, set of early messages | `set_connection_message_received`, `try_push`, `pop` | each nonce is handed out once, in order, as soon as possible |
| `Connection` (`connection.rs`) | pending substreams, two channels per substream, queues for `poll_inbound` and `poll_close`, nonce counter | `poll_outbound`, `poll_inbound`, `poll_close`, `poll` | a message for a substream finds the substream's channels; opens are answered |
| `Substream` (`substream.rs`) | data channel, close signal, `closed`, `unread_data` | `poll_read`, `poll_write`, `poll_flush`, `poll_close` | bytes arrive in order and complete; a reader is woken for data and for a close; closed from either end, it stays closed |
| messages (`message.rs`) | none | encoding and decoding, order by nonce | decoding inverts encoding |
| mixnet task (`mixnet.rs`) | websocket with the slot of its sink, two channels | asking for the own address, then a `select!` loop over reading and writing | messages are passed on unaltered and in order; neither direction blocks the other; nothing taken from a channel is lost |

What is hard here: the mixnet reorders; a dial's answer races its timeout and the
application's decision to drop it; messages overtake the handshake they depend on;
`fetch_add` and send are two steps of several threads; both ends close and drop
substreams at the same time; the Connection closes a substream in two steps while
another task reads it; the mixnet task cancels a write whenever a frame comes in.

## Modules

| Module | What it is |
|---|---|
| `MessageQueue` | `queue.rs` as operators on a record: one operator per method, and a closed form of the callers' loop over `pop` |
| `QueueLoop` | one queue and the transport's loop over `pop`, one iteration a step, under a peer that keeps to no protocol |
| `Transport` | every node's `NymTransport`, its dials, upgrades and Connections, and the mixnet between them; extends `MessageQueue` |
| `OrderedLink` | the abstract specification: an ordered exactly-once link per connection and direction |
| `Connection` | the two ends of one connection and their substreams, over such a link |
| `Substream` | `poll_read` byte by byte, with wakers, between the Connection and the task that reads, writes and closes |
| `Message` | the wire format of `message.rs` as operators: an encoder and a decoder per type |
| `Mixnet` | the task of `mixnet.rs` between a transport and its Nym client; extends `Message` |
| `MessageQueueProofs`, `QueueLoopProofs`, `TransportProofs`, `ConnectionProofs`, `SubstreamProofs`, `MessageProofs`, `MixnetProofs` | the inductive invariants and the theorems about the module in the name |
| `LinkProofs` | `Transport` implements `OrderedLink`, and sets a connection up once; extends `TransportProofs` |
| `MCTransport`, `MCConnection`, `MCMixnet` | what TLC needs in addition: symmetry; for the task the messages and the damaged byte strings |

Definitions named `X_Something` are mutants: `X` with a plausible bug. No
specification uses them; each shows that some property would notice that bug.

### QueueLoop

The same queue and the same two handlers as in `Transport`, seen from one connection.
There a handler with its loop over `pop` is one action, and the loop is the closed form
`DrainEnd`, `DrainedTo`, `DrainOnto`. Here the loop takes one step per iteration (`PopNext`,
`EndLoop`), and `before` remembers the queue it started from, so that `DrainIsPopLoop` can
compare its end with the closed form. Once the application has the Connection (`given`) it
may drop it at any moment, also between two iterations, as it may run in another thread: the
popped message is then lost and the loop ends with an `InboundSendError`. The peer sends
any nonce from 1 on, in any order, and may send a nonce twice with different payloads, which
no peer that runs this code does.

### Transport

A node stands for its peer ID and its Nym address. The fields of `NymTransport` are
variables indexed by node. A map from IDs to queues is total, with an empty queue
for an ID the code has no entry for; the code creates an empty queue on first use.
Every action is one call: `Dial` is `dial`, `PollDial` the first poll of its future,
`ResolveDial` and `TimeOutDial` its two ends (`timeout` polls the channel first, so
an answer that is there wins), and `HandleInbound` one turn of the loop in
`Transport::poll`, with the handler, the queue and the loop over `pop` inside.
`TransportEvent`s for the application are not kept; an `Upgrade` is visible in the
state of its Connection.

IDs are 32 random bytes; the model takes them as fresh. A Connection is reduced
here to its inbound channel and its nonce counter, of which `ReserveNonce`
(`fetch_add`), `SendMessage` and `DiscardNonce` (a nonce that
`Substream::poll_close` fetches and does not use) are separate actions.

`mixnet` is a set of messages under way. A receiver takes any message addressed to
it, so all orders occur; a message may be delivered again up to `MaxDuplicates`
times; and since `Spec` has no fairness, a message may stay under way forever, which
is the same as being lost.

`posted` (what was sent to a node over an ID) and `inbound` (what was sent on the
Connection's channel) are histories. `alarms` collects the panic and the errors
that peers running this code should not cause.

### Connection

The link between the ends is what `OrderedLink` promises: each end's messages
reach the other in nonce order. So `sent[e]` is a sequence indexed by nonce, and a
nonce that was fetched and not used is a hole the receiver cannot pass. An end's
application may open, accept, write, read, close and drop at any moment. Two
different ends are assumed: a node that dials itself never gets a Connection from
the dial (see `DialEnds`).

### Substream

Byte `k` of the stream is the number `k`. `poll_read` is two steps, `StartRead`
(`check_closed`) and `Copy` (the channel and the buffer), and `handle_close` is
two, `RemoveSender` and `SendClose`; they interleave if the reader runs in a task
of its own (`SameTask = FALSE`). `poll_recv` leaves a waker only if the channel is
empty and its sender exists.

A substream is closed from two sides. The remote end's Close comes as a signal, which
whoever calls `check_closed` first takes: `poll_read`, or `poll_write` and `poll_flush`
(`PollWrite`). The application's own `poll_close` (`PollClose`) sets the same flag without a
look at the signal, and wakes no reader; `closed_here` remembers it. Each operation takes the
substream as `Pin<&mut Self>`, so none begins in the middle of a `poll_read`. What the
operations send, and the nonce that a second `poll_close` wastes, are in `Connection`.

### Message

A message is a record, its encoding a sequence of bytes. Field lengths are constants,
since nothing depends on a length being 32. IDs are byte sequences, as in the code.
What `message.rs` takes from libraries is a function from values to bytes with the
properties that the code relies on (`MessageAssumption`): the nonce's encoding is a
bijection onto the sequences of its length, a recipient's is injective and of fixed
length, a peer ID's is injective and not empty. A decoder returns `Error` where the
code returns any error: the only caller ignores which. Slices are written with the
offsets of the code (`Slice`, `Drop`).

### Mixnet

`phase` is where `initialize_mixnet` is. `GetSelfAddress` is one turn of the loop in
`get_self_address`, `CheckInbound` one completed `check_inbound` with `handle_inbound`.
`check_outbound` is several steps, because it awaits twice: `CheckOutbound` receives
a message, encodes it and offers it to the sink; `FlushSlot` is the websocket taking
the sink's frame, which may be delayed for any time; `FinishSend` and `FailSend` end
it. `CheckInbound` also ends it, from any of its states: this is `select!` dropping the
other future. The sink is external: `SplitSink` of the futures crate holds one frame
in a slot (`start_send` fills it, `poll_ready` and `poll_flush` hand it on), and the
slot survives the dropped future, while a message that still waits for the slot
does not. A drop of `check_inbound` by a completed send changes nothing, since it
awaits nothing once it has a frame.

The messages are addressed to the transport itself, as in the test of `mixnet.rs`:
`Arrive` brings a written frame back, in any order. Other frames come from `Foreign`:
messages of peers, damaged ones, errors, responses nobody asked for, and frames that
cannot be read, also before the address. Frames that were sent before the websocket
closed can still be read.

## Runs

| Run | Shows |
|---|---|
| `transport_stream` | one connection, two nonces each way, two payloads, two repeated deliveries, one removed listener: all safety properties, the inductive invariant and the refinement of `OrderedLink` |
| `transport_live` | `Delivery` and `DialEnds` under fairness, with a repeated delivery |
| `queue` | one queue, four nonces, two payloads, any peer whose nonces begin at 1, the Connection dropped at any moment: the closed form equals the loop, the first message of a nonce wins, and the inductive invariant |
| `connection` | one substream opened by either end, two writes each way, one wasted nonce per end: safety, the inductive invariant, and liveness under fairness |
| `substream` | six bytes in data of 1 to 3 bytes, buffers of 1, 2 and 4 bytes, closed from either end or from both: safety with the inductive invariant, and liveness under fairness |
| `mixnet` | two messages sent, one frame out of 21 from elsewhere and one more: what is decoded, the order and the losses of writing, the inductive invariant, and liveness with a blocked and with a fair sink |
| `pending_dials`, `skipped_nonces`, `dropped_substreams`, `substream_read`, `substream_wake`, `outbound_lost` | the findings: each checks what a comment or test says, and TLC shows a behaviour of the code that does otherwise |

Bounds. Two nonces are the least for which messages can be reordered, one can wait
for another, and a duplicate can come before and after its turn; two repeated
deliveries let a connection message and a transport message, or one message twice,
be repeated. Two nodes cover both roles at both ends and dialing oneself. The runs have
one connection ID: two dials at a time, and whatever else more nodes or IDs could add, are
covered by the proofs only, which have no bound. Six bytes make
unread data, a full buffer and a buffer with room meet each other in all orders.
A loss in the mixnet task takes two messages, one in the slot and one waiting for it,
and two frames that interrupt them. The frames from elsewhere hold a message of every
shape and encodings cut before, inside and after each field, with a code that does not exist,
or longer than they should be; the fields have different lengths, so that an offset computed from the
wrong one shows.
`NonceSpace` stands for 2^64 and is larger than any nonce used. Deadlock is
checked in run `queue` only, whose peer can always send again: elsewhere the applications
may stop, and the bounds end every run.

Fairness. `Transport`: weak fairness of `PollEvent` and `HandleInbound`, because the
swarm polls a transport that its channels have woken and "Nym does not guarantee any
sort of message ordering, only delivery" (`queue.rs:9`). `Connection`: weak fairness
of `Poll`, for the same reason. `Substream`: the executor runs a task it has woken
until it is pending, so weak fairness of `Read` and `WakeUp`, and `handle_close`
finishes what it began (`SendClose`). `Mixnet`: `select!` polls both futures, in random
order, whenever the task is woken, so weak fairness of reading a frame; the Nym client
answers and the mixnet delivers. The sink is not fair in `FairSpec`: `InboundIsNotBlocked`
holds even if the Nym client never reads. `OutboundDrains` states its assumption of a
client that does read (`SinkIsFair`) as a premise. Applications, senders and timeouts are never
assumed to act.

## Findings

1. `pending_dials`: entries of dials that timed out or were dropped are never removed.
2. `skipped_nonces`: a second `poll_close` wastes a nonce and stalls the connection.
3. `dropped_substreams`: a remote Close of a dropped substream panics in `handle_close`.
4. `substream_read`: a read that joins unread and new data returns too small a count.
5. `substream_wake`: a reader in its own task can miss the close of its substream.
6. `outbound_lost`: the mixnet task drops a message it has taken from the outbound
   channel, if frames come in while the websocket is blocked. `LostOnlyWhenBlocked` shows
   that this is the only way to lose one before the websocket closes.

The properties of the passing runs state the exceptions these findings make:
`OpenIsAnswered` and `CloseArrives` exclude a link with a hole, and
`InboundMatchesFrames` excludes the empty Data message, which `to_bytes` encodes and
`try_from_bytes` refuses.

## Proofs

Every theorem holds for all values of the constants that satisfy the named
assumptions, and for `Spec`, that is without fairness. Each component has an inductive
invariant `IndInv`, which the runs check too, and one lemma per action or group of
actions that do the same to the invariant.

| Module | Proved | For all |
|---|---|---|
| `MessageQueueProofs` | `LoopStops`, `LoopGoesOn` | queues, payloads, sizes of the nonce |
| `QueueLoopProofs` | `IndInv`, `TypeOK`, `DrainIsPopLoop`, `FirstArrivalWins` | payloads, numbers of nonces (from 1 on), orders of arrival |
| `TransportProofs` | `IndInv`, `TypeOK`, `InOrder`, `NoAlarms`, `Agreement`, `NothingPoppableIsLeft` | nodes, IDs, payloads, messages, repeated deliveries |
| `LinkProofs` | `SetUpOnce`, `ImplementsOrderedLink` | the same |
| `ConnectionProofs` | `IndInv`, `TypeOK`, `NoAlarms`, `ReadInOrder`, `CloseIsLast`, `ChannelsUntilRemoteClose` | substreams, writes, wasted nonces |
| `SubstreamProofs` | `IndInv`, `TypeOK`, `NoByteIsLost`, `ReportedInOrder`, `FailsOnlyWhenClosed`, `ClosedForGood` | lengths of data and buffers, one task or two |
| `MessageProofs` | `RoundTrip`, `Decoding`, `DecodedIsMessage` | lengths of fields, library encodings, byte strings |
| `MixnetProofs` | `IndInv`, `TypeOK`, `InboundMatchesFrames`, `WrittenInOrder`, `StartFailsForCause`, `LostOnlyWhenBlocked` | messages, frames, bounds |

### The queue

`Transport` uses a closed form of the callers' loop over `pop`. `LoopStops` and
`LoopGoesOn` say that the closed form solves the two equations of that loop: it changes
nothing when `pop` returns nothing, and after a `pop` it is what it was before, with the
message sent.

`QueueLoopProofs` makes a theorem about the loop of these equations. Assumption:
`QueueLoopAssumption` (no nonce reaches the wrap). While the loop runs, the closed form of
what is left ends where the closed form of the whole does (`LoopInv`): a loop that starts
has it, `LoopGoesOn` keeps it over an iteration, and `LoopStops` turns it into
`DrainIsPopLoop` when `pop` returns nothing. This is induction over the steps of the
machine, which needs no recursive operator. `FirstArrivalWins` needs that the queue holds
only first arrivals, and all of those whose turn is to come (`StoredInv`), and that a
Connection that is still there has got one message per nonce passed (`AliveInv`): that
holds in the middle of the loop too, and after a drop nothing is handed over any more.

### Transport

Assumptions: `NonceSpaceAssumption` (there are more than two nonces) and
`TransportAssumption` (`NoNode` is not a node, the bounds are numbers, and no nonce
counter reaches the wrap at 2^64). Sets of nodes, IDs and payloads may be infinite.

None of the properties is inductive alone. In-order delivery needs that a queue
holds only posted messages (`QueueInv`) and that no two posted messages have a nonce
in common; the second needs that a posted nonce is used up at the sender
(`PostedInv`) and that only one node sends to a given node over a given ID, which
follows from `Agreement` and the uniqueness of the dialer (`DialInv`). `Agreement` is
made by requests and responses under way (`MixnetInv`). That set-up never panics, and
that no message is taken as expected before the Connection exists, needs that
nothing of a connection has been touched before (`FreshInv`: the expected nonce is 0
and posted nonces start at 1). The two handlers that create a Connection share
`CreateStep`, and every step that touches a queue uses `ReceiveInv`; both rest on
`DrainExact`, the effect of the loop over `pop` on a queue and a channel.

`LinkProofs` shows that every step of `Transport` is a step of `OrderedLink` or changes
nothing that it speaks of. A step of `handle_inbound` only lengthens the channel of one
Connection (`GoesOn`), and by the invariant after the step what it added is what was
posted with the next nonces: this is `Deliver`. A send adds one message with a new nonce
to what was posted, which is `Post`, because by `SingleSender` nobody else sends there.
`SetUpOnce` follows from the same view of the steps.

### Connection

Assumption: `ConnectionAssumption`, the bounds are numbers. The properties speak of one
end's maps; whether a message finds them depends on what the other end has said and on
how much of it was taken, so the invariant is about `sent` and `handled` of both ends.
`OpenInv` puts the OpenRequest first among all that is said about a substream and ties
it to the other end's knowledge; `KnownInv` says that nobody speaks of a substream it
does not know. Together they show that data and a Close find the substream, which is
`NoAlarms`. `ClosedInv` (after a Close an end is closed and silent) gives `CloseIsLast`
and shows that no data comes after the Close that takes the channels away;
`ChannelInv` is `ChannelsUntilRemoteClose` in a form that does not depend on the
Connection being open. `WriteInv` and `DataInv` number the writes: what was taken of
them is what was read or is in the channel, which gives `ReadInOrder`. That is about whole
writes; the bytes that `poll_read`'s count leaves out of them (finding 4) are below its
level. `QueuedInv` keeps the substreams that wait for `poll_inbound` apart.

### Substream

Assumption: `SubstreamAssumption`, lengths are positive. `NoByteIsLost` joins all chunks
of the channel at once and says nothing of where they are cut, so the invariant says
more (`ByteInv`): every chunk is a run of consecutive bytes, and each begins where the
one before ends. `FlattenSpan` shows, by the least chunk at which it would fail, that
joining such chunks gives the bytes between the first border and the last. `CopySpans` is
the arithmetic of `poll_read`: whatever the lengths, the buffer and the new
`unread_data` are the old unread bytes and the new ones, cut elsewhere. `ReportedInOrder`
needs that only copied bytes are reported. `CloseInv` follows the two ways to close: the
signal comes only with the remote Close, `closed` only from that signal or from `poll_close`,
and a reader fails only on `closed`, which gives `FailsOnlyWhenClosed`. Its last part, that
nothing closes the substream under a read that is past `check_closed`, gives
`ClosedForGood`: such a read is the one thing that hands out bytes.

### Messages and the mixnet task

Assumptions: `MessageAssumption` (the encodings are injective, of the lengths that
message.rs assumes, a peer ID is not empty) and `MixnetAssumption` (what is sent are
messages, what comes from elsewhere are frames, only the Nym client sends the address).

`RoundTrip`: `ParseMessageData` of `MessageToBytes(m)` is `m`, unless `m` is a Data message
without data. It rests on `SplitConcat3` and `SplitConcat4`: the offsets at which the
decoders cut are the borders at which the encoders joined. `DecodedIsMessage`: any other
bytes are refused or decoded to some well-formed message.

`Decoding` says which bytes are accepted. `Says` states, without the decoders, when bytes
say a message: they are its encoding, or begin with it if it has no data (an OpenRequest, an
OpenResponse or a Close shows its own end, and nothing looks behind it), and it is not Data
without data. The theorem is that `ParseMessageData` returns `m` exactly if the bytes say
`m`. One direction is `RoundTrip` with bytes behind the encoding (`SaidIsDecoded`). The other
(`DecodedIsSaid`) joins the slices that a decoder took from adjacent offsets
(`SliceJoin`) and finds the encoding again, field by field. So no two messages are said by
the same bytes, and what is accepted beyond encodings is known exactly.

`InboundMatchesFrames` matches the messages on the inbound channel with positions of
frames, in order. The invariant says the same in terms of the decoder (`InboundInv`), with
which `CheckInbound` steps: it adds the position it reads, or leaves one out for which the
decoder returned an error or, once the transport is dropped, for which nobody listens; a
position left out is never filled in later. That a frame counts only after the address
needs `StartedInv`: the task runs if and only if it has read that frame. `Decoding` then
turns what the decoder returned into what the frames say. `Known`, the messages that are
looked for in the frames, may be any set of messages.

`WrittenInOrder` is inductive given the types: every step keeps the pipeline of frames
(written, in the slot, waiting, still in the channel), adds the frame of what was sent at
its end, or drops frames from its middle, and all three keep it a subsequence of what was
sent (`EmbedAppend`, `EmbedDrop`). `LostOnlyWhenBlocked` needs `WaitsForSlot`: a frame
waits only while the slot is taken. `Accounted` bounds the frames that came back, so that
the environment's choice of the next frame is defined.

### Only model-checked

* The liveness properties, which need fairness: `Delivery`, `DialEnds`, `OpenIsAnswered`,
  `CloseArrives`, `DataIsRead`, `CloseIsNoticed`, `InboundIsNotBlocked`, `OutboundDrains`.

Every other property of a passing run is a theorem.

## Not modelled

* In the mixnet task, `notify_inbound_tx`, which only tests set; the bytes of Nym's own
  requests and responses; the busy loop of a task whose websocket has ended or whose
  outbound channel has no sender left, which changes nothing.
* Multiaddresses (`transport.rs:508-518`): a failed conversion ends `dial` before any
  state is changed. `listen_on` and `address_translation` return constants.
* Failed sends on the outbound channel: its receiver lives in the mixnet task, which
  never ends.
* The wakers of `NymTransport` and `Connection`: both register with the channels they
  poll, so the stored waker is only an additional one.
* What no node that runs this code sends: a ConnectionRequest without a recipient, which
  `transport.rs:221` refuses, since `dial` always sets it; and a TransportMessage with nonce
  0, since every `message_nonce` starts at 1. The queue relies on the latter: it would take
  such a message, if it came before the ConnectionRequest, for the connection message, and
  `set_connection_message_received` would panic. `NoAlarms` and the theorems of `QueueLoop`
  are about nonces from 1 on.
* `error.rs`, `lib.rs`, `test_utils.rs`, the examples: no protocol state.

## Plan

1. Done: `MessageQueue`, `Transport`, `OrderedLink`, `Connection`, `Substream`, their
   runs, and the proofs about `Transport`'s safety.
2. Done: `Message` and `Mixnet`, with their runs, and the proof that decoding inverts
   encoding.
3. Done: proofs of `SetUpOnce` and of the refinement of `OrderedLink`; inductive
   invariants of `Connection`, `Substream` and `Mixnet` and the safety properties that
   follow; the equations of the loop over `pop`.
4. Done: `QueueLoop` and the proof that the loop over `pop` has its closed form and that
   the first arrival of a nonce wins; which bytes the decoders accept;
   `InboundMatchesFrames` for all messages.
5. Done: the application's `poll_close`, `poll_write` and `poll_flush` in `Substream`, and
   `ClosedForGood`.
6. Open: `Connection` with two substreams in one run (with one write each it is beyond what
   a run can enumerate; without writes it passes).
