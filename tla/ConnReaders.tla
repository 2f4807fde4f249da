---------------------------- MODULE ConnReaders -----------------------------
(***************************************************************************)
(* The tasks that receive a connection's datagrams (worker/conn_reader.rs):*)
(* n tasks share the socket, parse what they receive and hand the packets  *)
(* through an mpsc channel to one task that buffers them; with n = 1, one  *)
(* task does it all inline.                                                *)
(*                                                                         *)
(* Packets are parsed without copying: a payload is a slice of the receive *)
(* buffer, counted by reference.  A task keeps one reference to its last   *)
(* buffer and receives into it again if it is then the only holder.  So    *)
(* the buffers' contents are state, and the datagrams real bytes (module   *)
(* Codec).                                                                 *)
(***************************************************************************)
EXTENDS Codec, FiniteSets, FiniteSetsExt

CONSTANTS
  TaskCounts,     \* the values of get_number_of_tx_tasks() to check
  Peers,          \* connection ids and first packet number, chosen at the start
  Shapes,         \* bound: the datagrams of the peer, as types and sizes
  Strays,         \* bound: byte strings that are no datagram of the protocol
  MaxPackets,     \* bound: packets of a datagram
  MaxSent,        \* bound: datagrams sent by the peer
  MaxStrays,      \* bound: other datagrams and socket errors
  CHANNEL,        \* capacity of the mpsc channel (1024)
  Buffers         \* bound: receive buffers in use at a time

Class(type) ==
  IF type = "Ack" THEN "ack" ELSE IF type \in {"Fin", "FinAck"} THEN "close" ELSE "data"

NoBuffer == 0

(* "An udp datagram contains the same type of packets" (comment in         *)
(* buffer_in_packets), and a data packet is never empty (PacketsWellFormed *)
(* of module Packetizer).                                                  *)
ASSUME ReaderAssumption ==
  /\ TaskCounts \subseteq Nat \ {0} /\ CHANNEL \in Nat \ {0}
  /\ MaxSent \in Nat /\ MaxStrays \in Nat /\ MaxPackets \in Nat
  /\ NoBuffer \notin Buffers
  /\ Shapes \subseteq Seq([type : Range(PacketTypes), size : Nat])
  /\ \A d \in Shapes :
       /\ d # <<>> /\ Len(d) <= MaxPackets
       /\ \A i, j \in DOMAIN d : Class(d[i].type) = Class(d[j].type)
       /\ \A i \in DOMAIN d :
            fits16(d[i].size) /\ (d[i].type = "UnencryptedData" => d[i].size # 0)
  /\ \A p \in Peers : /\ fits32(p.src) /\ fits32(p.dst)
                      /\ p.first \in Nat /\ fits64(p.first + MaxPackets * MaxSent)
  /\ Strays \subseteq Seq(Nat)
  /\ \A b \in Strays : from_bytes_into(b).outcome # "Ok"

VARIABLES
  n,              \* number of receive tasks
  peer,
  socket,         \* datagrams in the socket's receive queue
  sent,           \* history: the packets the peer has sent
  strays,         \* history: what else the socket delivered, or failed with
  pc, buf, recycle, packets,   \* per task: place, receive buffer, spare reference
                               \* (NoBuffer: None), carrier vec
  memory,         \* contents of the receive buffers
  channel,
  rx,             \* the buffering task: "recv", "spinning"; "none" if n = 1
  conn_buff, ack_buff, close_buff,   \* packets handed to the three buffers
  consumed        \* history: numbers of the data packets the application has let go

network == <<n, peer, socket, sent>>
tasks == <<pc, buf, recycle, packets>>
buffered == <<conn_buff, ack_buff, close_buff>>
vars == <<network, strays, tasks, memory, channel, rx, buffered, consumed>>

Tasks == 1 .. n

-----------------------------------------------------------------------------
(* The peer's packets: a data packet holds bytes made from its number.     *)
PeerPacket(shape, number) ==
  [header  |-> [version |-> 0, type_field |-> shape.type,
                type_specific_payload |-> shape.size,
                security_fields |-> [header_encrypted |-> FALSE, mask |-> 0],
                source_connection_id |-> peer.src,
                destination_connection_id |-> peer.dst,
                packet_number |-> number],
   payload |-> IF shape.type = "UnencryptedData"
               THEN [i \in 1 .. shape.size |-> (number + 7 * i) % 256] ELSE <<>>]

\* Byte strings end to end.
Concat(ss) ==
  LET joined[i \in 1 .. Len(ss)] == IF i = 1 THEN ss[i] ELSE joined[i - 1] \o ss[i]
  IN  joined[Len(ss)]

\* Packets end to end.
serialise_datagram(ps) == Concat([i \in DOMAIN ps |-> serialise_packet(ps[i])])

PeerSends(shapes) ==
  /\ Len(sent) < MaxSent
  /\ LET number(i) == peer.first + MaxPackets * Len(sent) + i
         datagram  == [i \in DOMAIN shapes |-> PeerPacket(shapes[i], number(i))]
     IN  /\ socket' = Append(socket, serialise_datagram(datagram))
         /\ sent' = Append(sent, datagram)
  /\ UNCHANGED <<n, peer, strays, tasks, memory, channel, rx, buffered, consumed>>

\* Something else arrives, a packet type of a later version for example.
StrayArrives(bytes) ==
  /\ Len(strays) < MaxStrays
  /\ socket' = Append(socket, bytes)
  /\ strays' = Append(strays, from_bytes_into(bytes).outcome)
  /\ UNCHANGED <<n, peer, sent, tasks, memory, channel, rx, buffered, consumed>>

-----------------------------------------------------------------------------
Init ==
  /\ n \in TaskCounts /\ peer \in Peers
  /\ socket = <<>> /\ sent = <<>> /\ strays = <<>>
  /\ pc = [t \in Tasks |-> "acquire"]
  /\ buf = [t \in Tasks |-> NoBuffer]
  /\ recycle = [t \in Tasks |-> NoBuffer]
  /\ packets = [t \in Tasks |-> <<>>]
  /\ memory = [b \in Buffers |-> <<>>]
  /\ channel = <<>>
  /\ rx = IF n = 1 THEN "none" ELSE "recv"
  /\ conn_buff = <<>> /\ ack_buff = <<>> /\ close_buff = <<>>
  /\ consumed = {}

\* Every parsed packet alive: in a carrier vec, in the channel or buffered.
Live ==
  (UNION {Range(packets[t]) : t \in Tasks})
    \cup (UNION {Range(channel[i]) : i \in DOMAIN channel}) \cup Range(conn_buff)

\* The buffers that somebody other than task t holds a reference to.  An empty
\* payload of a control packet is Bytes::new(), a reference to nothing.
HeldByOthers(t) ==
  {p.buf : p \in {q \in Live : q.lo < q.hi}}
    \cup {recycle[u] : u \in Tasks \ {t}} \cup {buf[u] : u \in Tasks \ {t}}

Unused(t) == Buffers \ (HeldByOthers(t) \cup {recycle[t]})
Fresh(t) == CHOOSE b \in Unused(t) : TRUE

\* Mutant of Acquire: the spare buffer is used whoever else holds it.
AcquireAlways(t) ==
  /\ pc[t] = "acquire"
  /\ LET b == IF recycle[t] # NoBuffer THEN recycle[t] ELSE Fresh(t)
     IN  buf' = [buf EXCEPT ![t] = b]
  /\ recycle' = [recycle EXCEPT ![t] = NoBuffer]
  /\ pc' = [pc EXCEPT ![t] = "recv"]
  /\ UNCHANGED <<network, strays, packets, memory, channel, rx, buffered, consumed>>

\* recycle.take() and try_into_mut, which succeeds for the only holder.
\* Otherwise a new buffer is allocated, within the bound on Buffers.
Acquire(t) ==
  /\ pc[t] = "acquire"
  /\ LET again == recycle[t] # NoBuffer /\ recycle[t] \notin HeldByOthers(t)
     IN  /\ ~again => Unused(t) # {}
         /\ buf' = [buf EXCEPT ![t] = IF again THEN recycle[t] ELSE Fresh(t)]
  /\ recycle' = [recycle EXCEPT ![t] = NoBuffer]
  /\ pc' = [pc EXCEPT ![t] = "recv"]
  /\ UNCHANGED <<network, strays, packets, memory, channel, rx, buffered, consumed>>

\* Mutant of Filled: what is left of the last, longer datagram is not cut off.
FilledNoTruncate(b, bytes) == bytes \o SubSeq(memory[b], Len(bytes) + 1, Len(memory[b]))

\* recv and truncate(size)
Filled(b, bytes) == bytes

\* Mutant of Carrier: no packets.clear().
CarrierKept(t) == packets[t]

\* What the carrier vec holds when from_bytes_into starts to push.
Carrier(t) == IF n = 1 THEN <<>> ELSE packets[t]

Pushed(t, parsed) ==
  Carrier(t) \o [i \in DOMAIN parsed |->
                   [header |-> parsed[i].header, buf |-> buf[t],
                    lo |-> parsed[i].lo, hi |-> parsed[i].hi]]

\* The task is over; its references are dropped.
End(t) ==
  /\ pc' = [pc EXCEPT ![t] = "ended"]
  /\ recycle' = [recycle EXCEPT ![t] = NoBuffer]
  /\ packets' = [packets EXCEPT ![t] = <<>>]

\* The first packet of a datagram decides for all of them.
buffer_in_packets(ps) ==
  LET class == Class(ps[1].header.type_field)
  IN  /\ conn_buff' = IF class = "data" THEN conn_buff \o ps ELSE conn_buff
      /\ ack_buff' = IF class = "ack" THEN ack_buff \o ps ELSE ack_buff
      /\ close_buff' = IF class = "close" THEN close_buff \o ps ELSE close_buff

\* One iteration of tx_impl from the recv to the send, which may have to wait;
\* what does not parse ends the task.
TxParse(t, result) ==
  IF result.outcome = "Ok"
  THEN /\ packets' = [packets EXCEPT ![t] = Pushed(t, result.packets)]
       /\ recycle' = [recycle EXCEPT ![t] = buf[t]]
       /\ pc' = [pc EXCEPT ![t] = "send"]
  ELSE End(t)

\* recv_and_buffer_inline: packets that do not parse are skipped, an unknown
\* packet type panics.
InlineParse(t, result) ==
  \/ /\ result.outcome = "Ok"
     /\ buffer_in_packets(Pushed(t, result.packets))
     /\ packets' = [packets EXCEPT ![t] = <<>>]
     /\ recycle' = [recycle EXCEPT ![t] = buf[t]]
     /\ pc' = [pc EXCEPT ![t] = "acquire"]
  \/ /\ result.outcome = "Err"
     /\ packets' = [packets EXCEPT ![t] = Pushed(t, result.packets)]
     /\ recycle' = [recycle EXCEPT ![t] = buf[t]]
     /\ pc' = [pc EXCEPT ![t] = "acquire"]
     /\ UNCHANGED buffered
  \/ result.outcome = "panic" /\ End(t) /\ UNCHANGED buffered

Recv(t) ==
  /\ pc[t] = "recv" /\ socket # <<>>
  /\ socket' = Tail(socket)
  /\ memory' = [memory EXCEPT ![buf[t]] = Filled(buf[t], Head(socket))]
  /\ LET result == from_bytes_into(memory'[buf[t]])
     IN  \/ n > 1 /\ TxParse(t, result) /\ UNCHANGED buffered
         \/ n = 1 /\ InlineParse(t, result)
  /\ buf' = [buf EXCEPT ![t] = NoBuffer]
  /\ UNCHANGED <<n, peer, sent, strays, channel, rx, consumed>>

\* recv fails, the peer's port being closed for example: both variants end.
RecvError(t) ==
  /\ pc[t] = "recv" /\ Len(strays) < MaxStrays
  /\ strays' = Append(strays, "error")
  /\ End(t)
  /\ buf' = [buf EXCEPT ![t] = NoBuffer]
  /\ UNCHANGED <<network, memory, channel, rx, buffered, consumed>>

Send(t) ==
  /\ pc[t] = "send" /\ Len(channel) < CHANNEL
  /\ channel' = Append(channel, packets[t])
  /\ packets' = [packets EXCEPT ![t] = <<>>]
  /\ pc' = [pc EXCEPT ![t] = "acquire"]
  /\ UNCHANGED <<network, strays, buf, recycle, memory, rx, buffered, consumed>>

-----------------------------------------------------------------------------
\* Mutant of RxRecv: the error of a buffer nobody waits for (NoSuchWakerError)
\* ends the task.
RxRecvEnds ==
  /\ rx = "recv" /\ channel # <<>>
  /\ buffer_in_packets(Head(channel))
  /\ channel' = Tail(channel)
  /\ rx' \in {"recv", "none"}
  /\ UNCHANGED <<network, strays, tasks, memory, consumed>>

\* rx_impl; the result of buffer_in_packets is ignored.
RxRecv ==
  /\ rx = "recv" /\ channel # <<>>
  /\ buffer_in_packets(Head(channel))
  /\ channel' = Tail(channel)
  /\ UNCHANGED <<network, strays, tasks, memory, rx, consumed>>

\* Without senders rx.recv() returns None at once, and the loop goes on.
RxSpins ==
  /\ rx = "recv" /\ channel = <<>>
  /\ \A t \in Tasks : pc[t] = "ended"
  /\ rx' = "spinning"
  /\ UNCHANGED <<network, strays, tasks, memory, channel, buffered, consumed>>

DataSent == {p \in UNION {Range(d) : d \in Range(sent)} :
               p.header.type_field = "UnencryptedData"}
Number(p) == p.header.packet_number

\* A sequence without its element at i.
Without(s, i) == SubSeq(s, 1, i - 1) \o SubSeq(s, i + 1, Len(s))

\* The application reads on, in packet order, and lets go of a payload.
Consume(i) ==
  /\ \A p \in DataSent : Number(p) < Number(conn_buff[i]) => Number(p) \in consumed
  /\ conn_buff' = Without(conn_buff, i)
  /\ consumed' = consumed \cup {Number(conn_buff[i])}
  /\ UNCHANGED <<network, strays, tasks, memory, channel, rx, ack_buff, close_buff>>

-----------------------------------------------------------------------------
TaskStep(t) == Acquire(t) \/ Recv(t) \/ Send(t)
RxStep == RxRecv \/ RxSpins

Next ==
  \/ \E d \in Shapes : PeerSends(d)
  \/ \E b \in Strays : StrayArrives(b)
  \/ \E t \in Tasks : TaskStep(t) \/ RecvError(t)
  \/ RxStep
  \/ \E i \in DOMAIN conn_buff : Consume(i)

Spec == Init /\ [][Next]_vars

(* tokio keeps polling while a task can run; which one may be left open    *)
(* here.  Nothing obliges the peer to send or the application to read.     *)
Fairness == WF_vars(RxStep \/ \E t \in Tasks : TaskStep(t))

FairSpec == Spec /\ Fairness

-----------------------------------------------------------------------------
SentPackets == UNION {Range(d) : d \in Range(sent)}

\* A parsed packet with the payload its slice shows now.
View(p) ==
  [header  |-> p.header,
   payload |-> SubSeq(memory[p.buf], p.lo + 1, Min({p.hi, Len(memory[p.buf])}))]

Buffered == Range(conn_buff) \cup Range(ack_buff) \cup Range(close_buff)

(* Whatever reaches a buffer, waits in the channel or is in a task's hands *)
(* is a packet the peer sent, with all its header fields and its payload,  *)
(* for as long as anybody holds the slice, although the buffers it lies in *)
(* are received into again; and it is in the buffer of its type.           *)
BufferedAsSent ==
  /\ \A p \in Buffered \cup (UNION {Range(channel[i]) : i \in DOMAIN channel})
                \cup (UNION {Range(packets[t]) : t \in {u \in Tasks : pc[u] = "send"}}) :
       View(p) \in SentPackets
  /\ \A p \in Range(conn_buff) : Class(p.header.type_field) = "data"
  /\ \A p \in Range(ack_buff) : Class(p.header.type_field) = "ack"
  /\ \A p \in Range(close_buff) : Class(p.header.type_field) = "close"

\* The packets of a datagram in the socket.
Arriving(bytes) ==
  LET result == from_bytes_into(bytes)
  IN  IF result.outcome = "Ok" THEN result.packets ELSE <<>>

\* Where packets are on their way, and which packets are there.
Places ==
  ({"socket"} \X DOMAIN socket) \cup ({"task"} \X {t \in Tasks : pc[t] = "send"})
    \cup ({"channel"} \X DOMAIN channel) \cup ({"data", "ack", "close"} \X {0})

At(place) ==
  CASE place[1] = "socket"  -> Arriving(socket[place[2]])
    [] place[1] = "task"    -> packets[place[2]]
    [] place[1] = "channel" -> channel[place[2]]
    [] place[1] = "data"    -> conn_buff
    [] place[1] = "ack"     -> ack_buff
    [] place[1] = "close"   -> close_buff

\* A place and an index of what is there.
Slots == UNION {{place} \X DOMAIN At(place) : place \in Places}

(* No packet is lost or duplicated between the socket and the buffers,     *)
(* whichever tasks end in between: it is in exactly one place.             *)
NothingLostOrRepeated ==
  LET numbers == [s \in Slots |-> Number(At(s[1])[s[2]])]
  IN  /\ IsInjective(numbers)
      /\ Range(numbers) \cap consumed = {}
      /\ Range(numbers) \cup consumed = {Number(p) : p \in SentPackets}

Ended == {t \in Tasks : pc[t] = "ended"}
Fatal(event) == n > 1 \/ event \in {"panic", "error"}

(* Every task that ends was ended by a datagram or an error of its own:    *)
(* tx_impl ends at whatever does not parse, the inline variant only at an  *)
(* unknown packet type or a socket error.  The buffering task begins to    *)
(* spin only after n of them.                                              *)
EndsOnlyByStrays ==
  /\ Cardinality(Ended) <= Cardinality({i \in DOMAIN strays : Fatal(strays[i])})
  /\ rx = "spinning" => Len(strays) >= n

(* Every datagram that arrives is buffered in the end, unless all receive  *)
(* tasks have ended; what they received before is buffered even then.      *)
PipelineDrains ==
  []<>/\ socket = <<>> \/ Ended = Tasks
      /\ channel = <<>> /\ \A t \in Tasks : pc[t] # "send"
=============================================================================
