-------------------------------- MODULE Acks --------------------------------
(***************************************************************************)
(* Acknowledgements, from the reader that emits them to the sender that    *)
(* counts them: read() (worker/reader.rs) acknowledges what it consumed,   *)
(* the ack pump (read_ack, worker/writer.rs) packs acks into datagrams,    *)
(* the network loses, repeats and reorders those, conn_reader buffers them *)
(* in the AckBuffer (net/ack_handler.rs), whose SlidingWindow              *)
(* (utils/window.rs) the AckConsumer task drains.                          *)
(*                                                                         *)
(* An ack is the range of packet numbers base .. base + num - 1.           *)
(***************************************************************************)
EXTENDS Integers, FiniteSets, Sequences, FiniteSetsExt, Folds, Functions

CONSTANTS
  Start, LastNumber,            \* bound: packets Start .. LastNumber
  Batches,                      \* how many packets one read consumes
  packets_consumed_before_ack,
  RecvLimit,                    \* acks the pump takes at a time
  MAX_SLIDING_WINDOW_SIZE,
  MaxLosses, Duplicates         \* bound: lost datagrams; may they repeat?

(* The acks of one recv_many (at most 20) fit into one datagram (760), so  *)
(* that ack_queue is empty whenever the pump receives.                     *)
ASSUME AcksAssumption ==
  /\ {Start, LastNumber} \subseteq Nat \ {0} /\ Start <= LastNumber
  /\ Batches \subseteq Nat \ {0}
  /\ {packets_consumed_before_ack, RecvLimit, MAX_SLIDING_WINDOW_SIZE} \subseteq Nat \ {0}
  /\ MaxLosses \in Nat /\ Duplicates \in BOOLEAN

VARIABLES
  next, packets_consumed,   \* the reader: next packet, packets since its last ack
  channel, pending_send,    \* the pump: AckData to pack, the datagram to send
  wire, losses,             \* datagrams under way, how many were lost
  window,                   \* the SlidingWindow
  waker, woken,             \* the AckBuffer has a waker; the consumer was woken
  conn_reader,              \* "recv", or "wake" when it holds a waker to wake
  pc, largest,              \* the AckConsumer, its largest_recv_acked_packet_num
  acked, accepted           \* history: numbers acked, numbers insert_range took

reader == <<next, packets_consumed, acked>>
pump == <<channel, pending_send>>
network == <<wire, losses>>
consumer == <<pc, largest>>
vars == <<reader, pump, network, window, waker, woken, conn_reader, consumer, accepted>>

Numbers(a) == a.base .. a.base + a.num - 1

Init ==
  /\ next = Start /\ packets_consumed = 0
  /\ channel = <<>> /\ pending_send = <<>>
  /\ wire = {} /\ losses = 0
  /\ window = [smallest |-> Start, numbers |-> <<>>]
  /\ waker = FALSE /\ woken = FALSE /\ conn_reader = "recv"
  /\ pc = "poll" /\ largest = 0
  /\ acked = {} /\ accepted = {}

-----------------------------------------------------------------------------
(* The SlidingWindow.                                                      *)

(* insert_packet_number, called for k consecutive numbers from n on, none  *)
(* of which the deque holds: binary_search finds them the same place.      *)
insert_packet_number(numbers, n, k) ==
  LET index == Cardinality({i \in DOMAIN numbers : numbers[i] < n})
  IN SubSeq(numbers, 1, index) \o [i \in 1 .. k |-> n + i - 1]
       \o SubSeq(numbers, index + 1, Len(numbers))

(* What insert_range leaves in the window and whether it reports Ok.  The  *)
(* slow path stops at the first number that the window holds already.      *)
insert_range(w, a) ==
  LET last == a.base + a.num - 1
      held == Range(w.numbers)
      extends_cleanly == \A n \in held : n < a.base
      new == IF extends_cleanly THEN Numbers(a)
             ELSE {n \in Numbers(a) : \A m \in a.base .. n : m \notin held}
      refused == a.base < w.smallest \/ last - w.smallest >= MAX_SLIDING_WINDOW_SIZE
  IN IF refused
     THEN [ok |-> FALSE, window |-> w]
     ELSE [ok |-> new = Numbers(a),
           window |-> [w EXCEPT !.numbers =
             insert_packet_number(@, a.base, Cardinality(new))]]

Consumable(w) == w.numbers # <<>> /\ w.numbers[1] <= w.smallest

\* Mutant: the number after the gap, already popped, is not pushed back.
ConsumeLosesJump(w) ==
  LET run == {i \in DOMAIN w.numbers : \A j \in 1 .. i : w.numbers[j] = w.numbers[1] + j - 1}
      k == Max(run)
  IN [smallest |-> w.numbers[k] + 1,
      numbers |-> SubSeq(w.numbers, k + 2, Len(w.numbers))]

(* consume() pops the run of consecutive numbers at the front.             *)
consume(w) ==
  LET run == {i \in DOMAIN w.numbers : \A j \in 1 .. i : w.numbers[j] = w.numbers[1] + j - 1}
      k == Max(run)
  IN [smallest |-> w.numbers[k] + 1,
      numbers |-> SubSeq(w.numbers, k + 1, Len(w.numbers))]

-----------------------------------------------------------------------------
(* read() or read_bytes() consumes num packets.  Once enough packets were  *)
(* consumed it acknowledges the packets of this call.                      *)
read(num) ==
  LET due == packets_consumed + num >= packets_consumed_before_ack
      ack == [base |-> next, num |-> num]
  IN /\ next + num - 1 <= LastNumber
     /\ next' = next + num
     /\ packets_consumed' = IF due THEN 0 ELSE packets_consumed + num
     /\ channel' = IF due THEN Append(channel, ack) ELSE channel
     /\ acked' = IF due THEN acked \cup Numbers(ack) ELSE acked
     /\ UNCHANGED <<pending_send, network, window, waker, woken, conn_reader, consumer, accepted>>

(* The pump takes what the channel holds, up to its limit, and packs it.   *)
RecvAcks ==
  LET size == Min({RecvLimit, Len(channel)})
  IN /\ pending_send = <<>> /\ channel # <<>>
     /\ pending_send' = SubSeq(channel, 1, size)
     /\ channel' = SubSeq(channel, size + 1, Len(channel))
     /\ UNCHANGED <<reader, network, window, waker, woken, conn_reader, consumer, accepted>>

(* try_send succeeds.  When it fails the datagram stays pending and the    *)
(* pump tries again once the socket is writable.                           *)
SendAcks ==
  /\ pending_send # <<>>
  /\ wire' = wire \cup {pending_send}
  /\ pending_send' = <<>>
  /\ UNCHANGED <<reader, channel, losses, window, waker, woken, conn_reader, consumer, accepted>>

Lose(d) ==
  /\ losses < MaxLosses
  /\ wire' = wire \ {d} /\ losses' = losses + 1
  /\ UNCHANGED <<reader, pump, window, waker, woken, conn_reader, consumer, accepted>>

-----------------------------------------------------------------------------
BufferAck(state, a) ==
  LET res == insert_range(state.window, a)
  IN [window |-> res.window,
      accepted |-> state.accepted \cup (IF res.ok THEN Numbers(a) ELSE {}),
      ok |-> state.ok /\ res.ok]

\* The acks of a datagram from the first to the last, each on what the ones before it left.
Buffered(d) ==
  MapThenFoldSet(LAMBDA a, state : BufferAck(state, a),
                 [window |-> window, accepted |-> accepted, ok |-> TRUE],
                 LAMBDA i : d[i], LAMBDA positions : Max(positions), DOMAIN d)

Arrive(d) ==
  /\ \/ wire' = wire \ {d}
     \/ Duplicates /\ wire' = wire
  /\ losses' = losses

\* Mutant: an error of the last ack returns before the waker is woken.
BufferNoWakeOnError(d) ==
  LET res == Buffered(d)
  IN /\ conn_reader = "recv" /\ Arrive(d)
     /\ window' = res.window /\ accepted' = res.accepted
     /\ conn_reader' = IF waker /\ res.ok THEN "wake" ELSE "recv"
     /\ UNCHANGED <<reader, pump, waker, woken, consumer>>

(* conn_reader buffers every ack of the datagram, errors or not, and takes *)
(* a clone of the waker, all under the AckBuffer's lock ...                *)
buffer_in_ack_packets(d) ==
  LET res == Buffered(d)
  IN /\ conn_reader = "recv" /\ Arrive(d)
     /\ window' = res.window /\ accepted' = res.accepted
     /\ conn_reader' = IF waker THEN "wake" ELSE "recv"
     /\ UNCHANGED <<reader, pump, waker, woken, consumer>>

(* ... and wakes the consumer after the unlock.                            *)
Wake ==
  /\ conn_reader = "wake"
  /\ conn_reader' = "recv" /\ woken' = TRUE
  /\ UNCHANGED <<reader, pump, network, window, waker, consumer, accepted>>

(* The AckConsumer: poll under the lock, then store outside of it.         *)
PollReady ==
  /\ pc = "poll" /\ Consumable(window)
  /\ window' = consume(window)
  /\ pc' = "store"
  /\ UNCHANGED <<reader, pump, network, waker, woken, conn_reader, largest, accepted>>

PollPending ==
  /\ pc = "poll" /\ ~Consumable(window)
  /\ waker' = TRUE /\ pc' = "parked"
  /\ UNCHANGED <<reader, pump, network, window, woken, conn_reader, largest, accepted>>

Repoll ==
  /\ pc = "parked" /\ woken
  /\ pc' = "poll" /\ woken' = FALSE
  /\ UNCHANGED <<reader, pump, network, window, waker, conn_reader, largest, accepted>>

\* Mutant: the next expected number is stored, not the largest counted.
StoreNextExpected ==
  /\ pc = "store"
  /\ largest' = window.smallest
  /\ pc' = "poll"
  /\ UNCHANGED <<reader, pump, network, window, waker, woken, conn_reader, accepted>>

\* Mutant: a poll that is already notified again drops its result.
StoreUnlessNotified ==
  /\ pc = "store"
  /\ largest' = IF woken THEN largest ELSE window.smallest - 1
  /\ pc' = "poll"
  /\ UNCHANGED <<reader, pump, network, window, waker, woken, conn_reader, accepted>>

(* The result of the poll: smallest has not moved since, for no other task *)
(* consumes.                                                               *)
Store ==
  /\ pc = "store"
  /\ largest' = window.smallest - 1
  /\ pc' = "poll"
  /\ UNCHANGED <<reader, pump, network, window, waker, woken, conn_reader, accepted>>

ConnReader == (\E d \in wire : buffer_in_ack_packets(d)) \/ Wake
AckConsumer == PollReady \/ PollPending \/ Repoll \/ Store

Next ==
  \/ \E num \in Batches : read(num)
  \/ RecvAcks \/ SendAcks
  \/ \E d \in wire : Lose(d)
  \/ ConnReader
  \/ AckConsumer

Spec == Init /\ [][Next]_vars

(* Every spawned task keeps running; the network delivers what it does not *)
(* lose.  Nobody is obliged to read.                                       *)
Fairness ==
  /\ WF_vars(RecvAcks) /\ WF_vars(SendAcks)
  /\ WF_vars(ConnReader) /\ WF_vars(AckConsumer)

FairSpec == Spec /\ Fairness

-----------------------------------------------------------------------------
Ack == [base : Start .. LastNumber, num : Batches]
PacketNumbers == Start .. LastNumber

(* Every variable keeps its type: the window only ever holds numbers of    *)
(* packets, and datagrams are non-empty sequences of at most RecvLimit     *)
(* acks.                                                                   *)
TypeOK ==
  /\ next \in Start .. LastNumber + 1
  /\ packets_consumed \in 0 .. packets_consumed_before_ack - 1
  /\ Range(channel) \subseteq Ack
  /\ \A d \in wire \cup {pending_send} : Range(d) \subseteq Ack /\ Len(d) <= RecvLimit
  /\ <<>> \notin wire /\ losses \in 0 .. MaxLosses
  /\ window.smallest \in Start .. LastNumber + 1
  /\ Range(window.numbers) \subseteq PacketNumbers
  /\ {waker, woken} \subseteq BOOLEAN /\ conn_reader \in {"recv", "wake"}
  /\ pc \in {"poll", "parked", "store"} /\ largest \in {0} \cup PacketNumbers
  /\ acked \subseteq PacketNumbers /\ accepted \subseteq PacketNumbers

(* The window holds exactly what insert_range took, in order, beyond what  *)
(* was counted: no number is lost at a gap, none comes in twice, and a     *)
(* repeated or reordered ack is never inserted in part.                    *)
WindowExact ==
  /\ TypeOK
  /\ Start .. window.smallest - 1 \cup Range(window.numbers) = accepted
  /\ \A i \in DOMAIN window.numbers :
        /\ window.numbers[i] >= window.smallest
        /\ \A j \in 1 .. i - 1 : window.numbers[j] < window.numbers[i]

(* "We have accounted for all packet numbers 10 and below"                 *)
(* (window.rs:135): all packets up to the largest acked number were        *)
(* consumed and acknowledged by the peer's reader, whatever the network    *)
(* did to the acks.                                                        *)
LargestMeansAcked == largest # 0 => Start .. largest \subseteq acked

(* The AckConsumer is not left parked in front of acks it could count: it  *)
(* has been woken, or conn_reader is about to wake it.                     *)
NoSleepingConsumer ==
  pc = "parked" /\ Consumable(window) => woken \/ conn_reader = "wake"

(* What was accepted without a gap is counted: the cumulative number       *)
(* catches up with the end of the run of packets whose acks arrived, even  *)
(* if acks were lost, repeated and reordered on the way.                   *)
AcceptedIsCounted ==
  []<>({n \in accepted : Start .. n \subseteq accepted} \subseteq Start .. largest)
=============================================================================
