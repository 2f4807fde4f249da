# A TLA+ model of bluefin

bluefin is a transport protocol over UDP that runs in user space: a handshake,
ordered delivery of a byte stream, acknowledgements, and a graceful close. This
directory holds TLA+ modules that model its protocol and its concurrency, TLC
configurations that check them on small instances, and TLAPS proofs of the most
important properties for all instances. `PROJECT.json` maps every definition to
the lines it models and lists runs, findings, hazards and theorems.

## The system

| part | where | what it does |
| --- | --- | --- |
| handshake | `net/server.rs`, `net/client.rs`, `worker/reader.rs`, `net/connection.rs` | hello, hello, client ack; `accept` and `connect`, each with a 3 s timeout |
| packetiser | `worker/writer.rs` `consume_data_into` | cuts queued sends into packets and datagrams |
| writer pipeline | `worker/writer.rs` | send calls, data channel, packetising task, sending task, `flush`, numbering of the Fin |
| reorder ring | `net/ordered_bytes.rs` | buffers data packets by number, hands out bytes in order |
| receive path | `worker/conn_reader.rs`, `net/connection.rs`, `worker/reader.rs` | buffers packets, wakes and serves `recv` / `recv_bytes` |
| acknowledgements | `worker/reader.rs`, `worker/writer.rs`, `net/ack_handler.rs`, `utils/window.rs` | emitted by reads, packed by the ack pump, counted by the AckConsumer |
| graceful close | `net/close_handler.rs`, `net/connection.rs`, `worker/conn_reader.rs` | Fin / FinAck with retransmission |
| conn_reader tasks | `worker/conn_reader.rs` | receive datagrams into recycled buffers, parse them in place, dispatch them by type |
| codec | `core/header.rs`, `core/packet.rs` | the 20-byte header, packets end to end in a datagram |
| bluefintool | `bluefintool/src/main.rs` | a line-oriented pipe between stdin/stdout and connections |
| sockets, benchmarks | `utils/`, `bluefin-io`, `bin/` | system calls, measuring loops |

An application task calls `send`, `flush`, `recv` or `close` on a (clone of a)
connection. Sends go through a bounded channel to the packetising task, from
there through an unbounded one to the task that owns the socket writes. On the
other side the conn_reader tasks sort datagrams into three buffers, each with its
own mutex and waker: data, acks, close. `recv` takes bytes from the data buffer
and emits acks, which travel back to the sender's AckConsumer. `close` flushes,
marks the writer closed, numbers and sends the Fin and waits for the FinAck.

## The modules

**`OrderedBytes`** is the ring of `ordered_bytes.rs`. A payload is an interval of
the peer's byte stream, a slot holds a packet or nothing. `buffer_in_packet`
(fill, or refuse behind the window, beyond it, or into an occupied slot), `peek`,
`consume` and `consume_bytes` are its actions; every iteration of the consuming
loop is a step, because the loop may stop inside a payload and carry the rest
over. The peer is an environment: it cuts its stream into packets as it likes and
its packets arrive in any order and any number of times. `PeerFins` is a Fin that
the listening socket's reader puts into the ring as if it were data.
**`ByteStream`** is the abstract specification: bytes are received in order and
delivered in order, once. `OrderedBytes` instantiates it: the stream is the peer's,
what was accepted is in it, and what the last consume copied out is what it delivers;
slots, indices, loop state and carried-over bytes are hidden. `StreamSpec` states
that the ring implements it.

**`Packetizer`** is `consume_data_into`, one action per branch of its loop, on
queued payloads that are intervals too. **`Datagrams`** says in closed form how
many bytes and packets it takes from a queue; `Packetizer` checks that it does
(`PacksGreedily`), `Writer` builds on it.

**`Writer`** is the pipeline from the send calls to the socket: application tasks
(several clones), the packetising task, the sending task. Each access to a shared
atomic, channel or `Notify` is a step. Data are byte counts. Actions: `CallSend`,
`CountPending`, `Enqueue`, `ChannelFull`, `UndoPending`, `CancelSend` (the future of
`send_bytes_async` is dropped), `CallFlush` .. `FlushReturns`, `MarkClosed`,
`reserve_close_packet_num`, `send_fin`, the packetiser's `RecvFirst`, `RecvMore`,
`Packetise`, `PublishNumber`, the sender's `WriteDatagram`, `AccountBytes`,
`NotifyWaiters`. Three history variables record what excuses a property: `dropped`
(bytes of dropped sends), `raced` (a send overlapped `close`), `left_behind` (a
flush may wait for what nobody will do).

**`Close`** has both endpoints: `close()` with its attempts, registrations and
timeouts, the `CloseBuffer` state machine, conn_reader, the FinAck channel and the
task that drains it, and a network that reorders, loses and duplicates. A network
is chosen initially to be *prompt* (a timeout fires only when nothing is on its
way) or not. `net` is a set: a Fin sent again while the first copy is under way is
one packet that may be delivered twice.

**`Receive`** is the data buffer with its lock and waker, `peer_fin_observed`, the
reading tasks with the steps of `poll`, `read` and their cancellation, and
conn_reader. The ring appears as the set of buffered packets. Several tasks may receive
on clones of a connection. They share one waker, and one may empty the buffer that
another has polled (`ConsumeFails`): `read` then panics with the mutex locked, and every
later `lock().unwrap()`, conn_reader's included, panics as well (`LockPanics`,
`ConnReaderPanics`). The history variable `robbed` names the readers since whose poll
another one consumed.

**`Acks`** follows an ack from the read that emits it over the ack pump, a network
that loses, repeats and reorders, and `insert_range` into the `SlidingWindow`, to
the AckConsumer's cumulative number.

**`Handshake`** is connection establishment: `accept()` calls of one server, one
after the other, `connect()` calls of several clients, the reader of the listening
socket with `HelloState` (waiting accepts, queued hellos), the one-packet slot of
a `ConnectionBuffer`, the entries of the ConnectionManager, and the client's first
data packet, which may overtake its ack. Actions: `accept` (from the queue, or
waiting), `TakeClientHello`, `TakeClientAck`, `AcceptTimeout`, `DropAccept`;
`connect`, `TakeServerHello`, `ConnectTimeout`, `SendData`; `handle_hello_single`,
`BufferClientAck`, `BufferData`, `BufferServerHello`. The network is that of `Close`.
Drawn packet numbers may be 0, which either side refuses.

**`Codec`** is the wire format, byte by byte: `serialise` and `deserialise` of the
header, `serialise_packet`, and `from_bytes_into`, which walks a datagram and
returns the packets it pushed before it succeeded, failed or panicked (an unknown
packet type). It has no state of its own.

**`ConnReaders`** composes the codec with the tasks of conn_reader. The socket holds
byte strings. A task takes its spare buffer if nobody else holds a slice of it
(`Acquire`), receives and parses (`Recv`), and hands the packets to the channel
(`Send`), from where the buffering task takes them (`RxRecv`); with one task, parsing
and buffering are one step. Since payloads are slices, the contents of the receive
buffers are state, and a buffered packet is what its slice shows *now*. Datagrams
that do not parse (`StrayArrives`) and socket errors (`RecvError`) end tasks as they
do in the code. `Receive`, `Acks` and `Close` take over where a packet is buffered.

**`Tool`** is bluefintool: `main` with its two modes, the stdin reader and its channel,
`run_pipe` with its drain, flush, select, close and linger, Ctrl-C, and the drop of
the runtime at the end. The library appears as what the other modules establish: a
bounded queue that is written in order, a `flush` and a `close` that wait for it, and
data that may be left behind in the packetiser until the next send (`Stall`). `CtrlC` is
possible at any time: it kills the process if tokio's handler could not be installed, and is
otherwise passed on by main's task (`SendShutdown`) as long as that runs.

**`OrderedBytesProofs`**, **`ReceiveProofs`**, **`CloseProofs`**, **`PacketizerProofs`**,
**`WriterProofs`**, **`HandshakeProofs`**, **`AcksProofs`** and **`ConnReadersProofs`** hold
inductive invariants, lemmas and theorems. `MCPacketizer`, `MCClose` and `MCConnReaders` give values to
constants that are functions or byte strings, `MCHandshake` names the symmetries of
clients and accepts.

Definitions that begin with `\* Mutant` change one action the way a plausible bug
would. No specification uses them; each shows that the property it is listed for
in `PROJECT.json` fails when the code is wrong.

## The runs

Runs that pass:

| run | properties | what it shows |
| --- | --- | --- |
| `ordered_bytes` | `RingInvariant` `RefusedOnlyIfAccepted` `ResultCoversConsumed` `PeekPromisesBytes` `StreamSpec` `ReceivedIsDelivered` | every slot holds the packet of its index; nothing is refused that was not accepted before; what a consume reports, and so what is acknowledged, is what it took; peek promises bytes; the ring implements the byte stream and delivers what has arrived |
| `packetizer` | `StreamKept` `PacketsWellFormed` `PacksGreedily` `QueueDrained` | no byte lost, repeated or moved; no empty or oversized packet; datagrams as full as can be; the queue drains |
| `writer` | `PendingExact` `FlushMeansOnWire` `NumbersConsecutive` `NoDataAfterFin` `FlushCompletes` | `pending_bytes` is exact under every interleaving; a flush that returns has everything on the wire; numbering has no holes; the Fin is last unless a send overlaps `close`; a flush hangs in three named cases only |
| `close` | `OkMeansPeerSawFin` `EndsOnlyByClosing` `GivesUpOnlyOnClosed` `CloseReturns` | Ok means the peer took the Fin; a connection is Closed by its own `close` only, and for good; retransmission does its work; `close` ends |
| `receive` | `NoSleepingReader` `FailsOnlyRobbed` `RecvReturns` | with two reading tasks: a reader is left asleep only if the other replaced its waker or a panic poisoned the mutex; the `unwrap` in `read` fails only if the other reader consumed after the poll, and nothing else poisons the mutex; but for these, a `recv` that can return does |
| `acks` | `WindowExact` `LargestMeansAcked` `NoSleepingConsumer` `AcceptedIsCounted` | the window loses and invents nothing; the cumulative number covers acknowledged packets only and catches up; the consumer is always woken |
| `conn_reader` | `BufferedAsSent` `NothingLostOrRepeated` `EndsOnlyByStrays` `PipelineDrains` | a packet reaches the buffer of its type once, with the header and payload the peer wrote, although buffers are received into again; a task ends only by a datagram or an error of its own; what arrives is buffered while a task is left, and what was received before is buffered even after |
| `tool` | `LinesBeforeFin` `AbandonsOnlyWhenListening` `ProcessEnds` | lines go out once and in order, before the Fin, up to the first that cannot be read; in connect mode status 0 means that a Fin was sent or seen; after a Ctrl-C, and in connect mode with its pipe, the process ends, or hangs for ever in a flush or on an open stdin |
| `handshake` | `NoHelloPassedOver` `BothSidesAgree` `FirstDataExpected` `TimesOutOnlyUnaccepted` `NoHalfOpen` | a hello and an accept never miss each other; a returned connection is the same one at both ends; data is expected from the right number; unless something is lost, dropped or slow, a handshake times out only when nobody accepts and none stays half open |

`TypeOK` is an invariant of its own in `ordered_bytes` and `receive`, where it is also
a theorem; in `packetizer`, `writer`, `close`, `acks`, `handshake` and `tool` it is a
conjunct of one of the listed invariants.

Runs that end in a counterexample, each to a sentence of the repository that the
code does not keep:

| run | property | the behaviour |
| --- | --- | --- |
| `writer_fin_number` | `FinNumberAfterData` | the packetiser hands datagrams over before it publishes its counter; flush returns in between and the Fin gets a data packet's number |
| `receive_eof` | `EofIsFinal` | the Fin overtakes data; `recv` returns `Ok(0)` and later data |
| `handshake_queued` | `StartIsHelloPlusTwo` | a hello that waited in `hello_queue` is not buffered; the client ack sets the start number, one too high, and the first data packet is refused |

Other places where the code and its comments differ appear as the conditions of
properties that hold:

* `FlushCompletes` excuses a dropped send, a refused send whose undo brings the
  counter to zero, and bytes stranded in `data_queue` because more than one batch was
  queued and no further send comes.
* `GivesUpOnlyOnClosed` excuses a peer that has closed: it ignores the Fin, and the
  second of two closers may time out (bluefin-protocol SKILL.md:212 has a peer always
  answer).
* `raced` in `NoDataAfterFin`, `dropped` in `PendingExact`, `~fin` in
  `PeekPromisesBytes`, `from_queue` in `FirstDataExpected`.
* `EndsOnlyByClosing` says that a connection becomes Closed by its own `close()` and by
  nothing else. connection.rs:552-555 documents `is_closed()` as true also "because the
  peer's `Fin` arrived and the FIN/FIN-ACK exchange has been driven to completion"; a side
  that only answers the peer's Fin stays in PeerFinReceived. close_handler.rs:164-168 says
  of `record_local_fin_sent` that "from `PeerFinReceived` we go directly to `Closed`"; the
  code goes to LocalFinSent, as the comment in its body says.
* `FailsOnlyRobbed`, `NoSleepingReader` and `RecvReturns` excuse a second reader: it may
  empty the buffer between the poll and the consume of the first, which panics and takes
  conn_reader with it, and it may replace the waker of the first, which then sleeps through
  data and the end of the stream. `BluefinConnection` is `Clone` and nothing warns of
  receiving on two clones.
* `LinesBeforeFin` excuses a line that `read_line` fails on (main.rs:451, `Ok(0) | Err(_)`):
  the rest of the input is dropped, and the connection is closed and the process ends with
  status 0 as at the end of the input. bluefintool's SKILL.md:154-155 sends `payload.bin`
  that way, which stops at the first line that is not UTF-8.
* Packets read below the ack threshold are never acknowledged, so
  `AcceptedIsCounted` speaks of the acks that arrive.
* `EndsOnlyByStrays` allows `rx_impl` to spin once all receive tasks have ended, and
  one datagram with an unknown packet type to end the inline task.
* `AbandonsOnlyWhenListening` excuses listen mode: at Ctrl-C the accept loop returns
  and `exit(0)` abandons the pipes without a Fin, where main.rs:600-603 and
  bluefintool's SKILL.md:70-72 and 91 have them drain via `close()`. A failed send
  returns from `run_pipe` without `close()`, and neither does a peer's Fin lead to one
  (compare main.rs:183-187).
* `ProcessEnds` excuses a blocked read of stdin: after the peer's Fin the process lives
  until the next line or the end of stdin (SKILL.md:95 says that it exits), and a Ctrl-C that
  comes then is swallowed by tokio's handler, which outlives the task. The bypass of
  main.rs:623-628 covers a Ctrl-C that was passed on before. It also excuses a flush that
  never returns (`FlushCompletes`): `run_pipe` does not look at the watch while it waits
  there, so that Ctrl-C does not end it. The prompt of main.rs:441 offers Ctrl-D to quit; in
  interactive mode it only ends the sending half.

### Bounds

Bounds are constants or guards, named in the modules. They are chosen so that the
cases in question occur.

* `ordered_bytes`: a ring of two slots and a stream of five positions, so that
  the ring wraps twice and packets behind and beyond the window arrive; reads of 0,
  1 and 3 bytes against payloads of 1 and 2, so that a read ends inside a payload,
  inside a carried-over rest, and beyond it.
* `packetizer`: payload and datagram limits of a few bytes, so that payloads are
  shorter than, equal to and longer than a packet and a datagram.
* `writer`: two tasks, two sends of 5 bytes, two flushes or closes, a channel of
  one: sends are refused, wait and are dropped. A batch has 8 bytes: one send fits,
  two do not.
* `close`: both sides close, two attempts (3 in the code), one loss, one
  duplicate, a FinAck channel of one (8 in the code), so that it overflows.
* `receive`: two readers, four packets: one can replace, rob and poison the other. The
  proofs cover the rest.
* `acks`: six packets, threshold 2, window of five numbers, one loss, any number
  of repetitions: acks meet a full window, overlap it and leave gaps.
* `handshake`: two clients, two accepts, a queue of one (64 in the code), one lost,
  one repeated packet, one dropped accept: the queue overflows, a repeated hello takes
  the second accept, a dropped accept swallows a hello.
* `conn_reader`: the inline variant and two receive tasks, two datagrams of the peer
  and two other events, a channel of one (1024 in the code), and four receive
  buffers, as many as are needed at a time: two whose slices are held, one per task.
  Shapes and strays include datagrams of one and of two packets, shorter and longer ones, a
  header with bytes missing and one of unknown type; ids and numbers cross byte
  boundaries.
* `tool`: two connections, two lines of stdin, one received chunk per connection, both
  queues of one, so that the stdin channel fills and a send fails, any line the one that
  cannot be read.

Runs with `CHECK_DEADLOCK FALSE` are those in which the application may stop
calling, all tasks may have panicked, or the bounds end the behaviour.

### Fairness

Weak fairness of the tasks that the library spawns and of calls in progress: tokio
runs every runnable task. No fairness of the application (it need not call
anything) and of the peer's sending; in `Close` and `Acks` a packet that is not
lost is eventually taken by conn_reader. In `OrderedBytes`, delivery is claimed for
an application that keeps reading: strong fairness of its reads, because arrivals
may come between them. In `Receive` conn_reader obtains, in the end, a mutex that is free
again and again (strong fairness of `TakeWaker`); that matters only against a reader that
calls `recv` for ever after the end of the stream. Nothing else is strongly fair. In `ConnReaders` weak fairness is
of all tasks together: some task that can run does. In `Tool` each task of the process and
each pipe is weakly fair; the user, the peers and their input are not. `Handshake` assumes no
fairness: its properties say when a timeout may fire.

## The proofs

All theorems hold for every value of the constants that satisfies the module's
`ASSUME`s. These say that sizes and bounds are positive numbers and that the values
that stand for "nothing" are different from all others; besides, that the tasks of
`Writer` are finitely many, that the stream of `Acks` is not empty, and that the datagrams
of `ConnReaders` hold packets of one class, with ids, numbers and sizes that fit their fields.

**`OrderedBytesProofs`**, for every ring size, start and cutting of the stream:

* `TypeCorrect`, then `RingCorrect`: `RingInvariant` is inductive together with
  `TypeOK`. It ties the index and number of the next packet together, says which
  number every occupied slot must have, that accepted packets are in the ring or
  consumed, and that carried-over bytes continue where delivery stopped. The slot
  arithmetic (`wrap_index`) is in lemmas of its own: two numbers less than a ring
  apart have different slots.
* `RefusalCorrect` and `ResultCorrect` follow from that invariant and the bounds of
  the consuming loop.
* `PeekCorrect` needs to know in addition that without a Fin no packet in the ring
  is empty (`PeekInv`).
* `RingImplementsStream`: initial states map to initial states, and every step to a
  receive, a delivery or a stutter of `ByteStream`.

**`ReceiveProofs`**, for any number of packets and of readers: `TypeCorrect`, `WakeupCorrect`
and `ReadCorrect`. The inductive invariant says who holds the lock, that a reader between
its test and its parking excludes conn_reader from the buffer, that a parked reader has left
a waker that only another reader replaces, that what a poll has seen is still there unless
the reader was robbed, and that a poisoned mutex goes back to a reader that panicked.
Without the lock clause it is not inductive: a wake-up between `PollPeek` and `Park` would be
lost. `OneReaderSafe` draws the conclusion for a single reader, which nobody replaces or robs:
no lost wake-up and no panic.

**`PacketizerProofs`**, for all sizes of payload, header and datagram and every queue:
`PacketsCorrect` and `StreamCorrect`. The strengthening is `Budget`: as long as the
loop goes on, every packet so far is full, so the room left is a multiple of a full
packet. That is what the code relies on when it compares the room with zero only: if
some is left there is room for a header and a whole payload. `Tied` says of packets,
running payload and queue that each begins where the one before ends; `StreamKept`
follows by cases on where two neighbours lie. `GreedyCorrect` shows that the two loops
together compute what `Datagrams` states in closed form. `Greedy` says that what was
packed is the distance travelled in the stream, that no packet could have been saved,
and that the first loop is left only with the rest of the queue in hand or with enough
to fill the datagram. That the packets before the last are full makes their number a
quotient.

**`WriterProofs`**, for any finite number of tasks, any sends, flushes and closes, and any
bounds of channels and batches:

* `PendingCorrect`. The invariant (`PInv`) is the equation itself, with the types and the
  fact that a resting task and a resting sender hold nothing. Each step moves a count
  from one sum to another, and the work is in lemmas on the library's sums: what happens
  to them when a function changes at one argument, when a sequence gets an element and
  when it loses its first.
* `FlushCorrect` adds that accepted bytes are in the pipeline or on the wire
  (`Conserved`). A counter of zero empties every place between, so everything that was
  accepted before the flush is written. Dropped sends only make the counter larger.
* `NumbersCorrect`: the first number of a datagram is a sum over the datagrams before it,
  which goes on from the wire to the sender's queue; every queued datagram has at
  least one packet (`Loaded`).
* `FinLast`: a `mark_closed` that no send overlaps finds everything written and no
  send under way (`Over`), and `closed` keeps new ones out.

**`CloseProofs`**, for any number of attempts, losses and repetitions and any capacity
of the FinAck channel: `OkCorrect`, `EndsCorrect` and `GivesUpCorrect`. `OkMeansPeerSawFin` is not inductive,
since a FinAck passes through the peer's conn_reader, its channel, the network and
the `CloseBuffer` before `close` returns. `Evidence` says of each of these places that
what is there was caused by a Fin the peer has shown its readers; `Phases` ties the
place of `close` to the state of the `CloseBuffer`. `GivesUpCorrect` counts losses
against attempts (`Retries`): on a prompt network, and as long as the peer has not closed,
an attempt that goes by was paid for by a loss, or the Fin or its answer is still
somewhere. It needs in turn that all packets and requests carry the one number of
their Fin (`Numbered`) and that `close` waits exactly while the FinAck has not come
(`Wakes`).

**`HandshakeProofs`**, for any numbers of clients, accepts, losses, repetitions and
dropped futures and any size of the queue: `PairingCorrect`, `MeetingCorrect`,
`FirstDataCorrect`, `ConnectsInTime` and `NoneHalfOpen`. Pairing
rests on what a packet proves about its sender as long as it exists (`Legit`: whoever
sent a ClientAck or data to an accept is connected to it), on what the slot of a call
may hold at each place of the call (`Slots`), on the entries of the ConnectionManager
naming the peer that `accept` answered (`Entries`), and on connected calls naming each
other (`Peers`). That a hello and an accept do not miss each other is inductive with
the types alone, because `accept` and the reader look and register under one lock.
The start of the data (`DInv`): every packet carries the number that its sender drew, the
slot of a call is empty and has no start or holds the packet that fixed it, and the entry
of a connection starts at the client's number plus two unless `accept` answered a
queued hello. So data that arrives finds an entry that expects it, even before
the client ack. The two action properties are about a timeout, which on a prompt network
fires only when nothing is under way. `AInv` says that as long as nothing was lost, the
client ack of a connected client is in the network or in the slot of the accept that
waits for it; `HInv`, that the hello of a waiting client is in the network, in
`hello_queue`, in the slot of an accept, or answered. A timeout then leaves only
`hello_queue` (`ConnectsInTime`), and nothing (`NoneHalfOpen`).

**`AcksProofs`**: `ConsumerIsWoken`, by the invariant that a parked consumer has left its
waker in the AckBuffer. It does not depend on what the window computes. `WindowCorrect`
and `LargestCorrect` do. Their invariant (`WInv`) says that acks on their way cover
acknowledged packets, that two of them are equal or disjoint, and that each was accepted
whole or not at all: so an ack that arrives again is refused as a whole, and no
partial overlap occurs. What the search of `insert_range` and the loop of `consume` return
is in lemmas (`InsertRange`, `ConsumeKeeps`), and an ack datagram, which is a fold over
its acks, is followed ack by ack.

**`ConnReadersProofs`**, for any number of tasks, buffers, datagrams and packets in a
datagram:

* `HeaderRoundTrip`. A header whose fields fit their widths is read back from the bytes it
  is written as, wherever in a datagram they stand; the fields range over all 16, 32 and
  64-bit values, which TLC's integers do not reach. `DatagramRoundTrip` says the same of
  whole datagrams: the walk of `from_bytes_into` stops exactly between two packets.
* `EndsOnlyByStraysHolds`. What is in the socket is a datagram of the peer, which parses by
  the round trip, or a stray (`NetInv`); ended tasks and the datagrams that will end one
  are at most as many as the fatal strays (`EndInv`).
* `BufferedAsSentHolds`. The buffer a task receives into is held by nobody else (`Owned`), so
  every slice on its way goes on showing the packet that was sent (`GoodInv`).
* `NothingLostOrRepeatedHolds`. Every number sent is in one place, once, or consumed
  (`ExactInv`); that the places are told apart by numbers rests on the datagrams being
  numbered one after another.

Induction over data is done by hand: the library's induction theorems take an operator,
which the provers cannot instantiate, so a claim about all lengths or all finite sets is
stated of the set of naturals for which it fails, whose least element
(`SmallestOf`, from the well-foundedness of the naturals) is contradicted. That reaches
sums, folds and recursive functions over the naturals.

`ConnReadersProofs` is long, and the prover's time for a leaf grows with all that is
declared before it. So a lemma that only one proof needs is a named step of that proof
(`<1>RecvNet` in `NetKept`), and the library is an `INSTANCE` at the end of the
module: until then induction over the naturals and the facts used of finite sets are
hypotheses (`Inductive`, `Counting`), which `InductiveHolds` and `CountingHolds` then
discharge. The theorems, below these, have no hypotheses left.

Only model-checked:

* every liveness property (fairness is out of the prover's reach);
* the properties of `Tool`.

## What is not modelled

* In the handshake: failing sockets, colliding random ids, dropped `connect` futures,
  and a client that calls `connect` twice (`begin()` refuses it).
* Socket options, affinity, the system-call wrappers of `bluefin-io` (GSO, GRO,
  `sendmsg`), diagnostics, error types: no protocol state.
* The benchmarks in `bin/`: measuring loops over `send` and `recv`. The idle timer of
  the server (reset once in 4096 receives) is a matter of real time.
* In the tool: arguments, prompts and the printing of what is received. The error arm
  of its `recv` (main.rs:382-385) is never taken, `recv` having no error to return.
* `from_bytes`, which allocates and otherwise walks a datagram as `from_bytes_into` does.
* The lifetime of handles (what happens when all clones of a connection are
  dropped); the ack pump's `recv_many` would return 0 only then.
* `handshake/state_machine.rs` and `utils/ring_buffer.rs`: not used by the runtime
  beyond `begin()`.
* The overflow of packet numbers. They start from a random 64-bit draw, so that a
  stream meets 2^64 with a chance of its length in 2^64.
* Components are composed where they share state (codec and conn_reader, ring and
  stream, packetiser and writer); between the others the boundary is a promise that
  one module establishes and another assumes. A composition of `Handshake` with
  `Receive` and `Close`, in which late handshake packets meet a connection in use, is not
  written.
