----------------------------- MODULE Packetizer -----------------------------
(***************************************************************************)
(* WriterHandler::consume_data_into (worker/writer.rs): packs the payloads *)
(* at the front of the writer's data_queue into one UDP datagram.  The     *)
(* writer calls it again and again on the same queue.                      *)
(*                                                                         *)
(* A payload is the interval [lo, hi) of the application's byte stream     *)
(* that it holds; merging two payloads joins their intervals, split_to     *)
(* cuts one.  The control flow is kept: one step per loop iteration.       *)
(***************************************************************************)
EXTENDS Datagrams, Sequences

CONSTANTS
  HEADER,        \* bytes of a packet header (20)
  Queues         \* bound: the queues of stream intervals to start from

ASSUME HeaderAssumption == HEADER \in Nat \ {0}

\* A queue holds consecutive intervals.
Intervals == {b \in [lo : Nat, hi : Nat] : b.lo <= b.hi}

ASSUME QueuesAssumption ==
  \A q \in Queues : /\ q \in Seq(Intervals)
                    /\ \A i \in 1 .. Len(q) - 1 : q[i].hi = q[i + 1].lo

MAX_BYTES == MAX_PACKETS * (HEADER + MAX_PAYLOAD)

VARIABLES
  queue,             \* data_queue
  running_payload,
  bytes_remaining,
  packets,           \* the payloads of the datagram being built, ans
  packed,            \* payload_bytes_packed
  end,               \* history: the bytes queued at the start
  pc                 \* Idle between calls; Merge, Fill: the two loops

vars == <<queue, running_payload, bytes_remaining, packets, packed, end, pc>>

Length(b) == b.hi - b.lo

-----------------------------------------------------------------------------
Init ==
  /\ queue \in Queues
  /\ end = IF queue = <<>> THEN 0 ELSE queue[Len(queue)].hi
  /\ running_payload = [lo |-> 0, hi |-> 0]
  /\ bytes_remaining = MAX_BYTES
  /\ packets = <<>>
  /\ packed = 0
  /\ pc = "Idle"

consume_data_into ==
  /\ pc = "Idle" /\ queue # <<>>
  /\ running_payload' = Head(queue)
  /\ queue' = Tail(queue)
  /\ bytes_remaining' = MAX_BYTES
  /\ packets' = <<>>
  /\ packed' = 0
  /\ pc' = "Merge"
  /\ UNCHANGED end

\* Writes one packet: the front of the payload, as much as fits.
Emit(payload) ==
  LET take == Least(Length(payload), Least(MAX_PAYLOAD, bytes_remaining - HEADER))
  IN  /\ packets' = Append(packets, [lo |-> payload.lo, hi |-> payload.lo + take])
      /\ running_payload' = [lo |-> payload.lo + take, hi |-> payload.hi]
      /\ bytes_remaining' = bytes_remaining - (take + HEADER)
      /\ packed' = packed + take

\* Mutant of Merging: stops when the next packet would fill the datagram.
MergingEarlyStop ==
  pc = "Merge" /\ queue # <<>> /\ bytes_remaining > HEADER + MAX_PAYLOAD

Merging == pc = "Merge" /\ queue # <<>> /\ bytes_remaining > HEADER
FillsDatagram == Length(running_payload) >= bytes_remaining - HEADER

EmitFull ==
  /\ Merging /\ ~FillsDatagram
  /\ Length(running_payload) >= MAX_PAYLOAD
  /\ Emit(running_payload)
  /\ UNCHANGED <<queue, end, pc>>

\* The next queued payload is joined to the running one.
MergeNext ==
  /\ Merging /\ ~FillsDatagram
  /\ Length(running_payload) < MAX_PAYLOAD
  /\ queue' = Tail(queue)
  /\ LET merged == [lo |-> running_payload.lo, hi |-> Head(queue).hi]
     IN  IF Length(merged) > MAX_PAYLOAD
         THEN Emit(merged)
         ELSE /\ running_payload' = merged
              /\ UNCHANGED <<bytes_remaining, packets, packed>>
  /\ UNCHANGED <<end, pc>>

\* Both ways out of the first loop end in the same inner loop.
LeaveMerge ==
  /\ pc = "Merge"
  /\ ~Merging \/ FillsDatagram
  /\ pc' = "Fill"
  /\ UNCHANGED <<queue, running_payload, bytes_remaining, packets, packed, end>>

\* Mutant of Filling: an empty payload is written too.
FillingEmpty == pc = "Fill" /\ bytes_remaining >= HEADER

Filling == pc = "Fill" /\ Length(running_payload) > 0 /\ bytes_remaining >= HEADER

EmitRest ==
  /\ Filling
  /\ Emit(running_payload)
  /\ UNCHANGED <<queue, end, pc>>

\* Mutants of Return: what is left of the payload is dropped; an empty rest is
\* put back.
ReturnDropsRest ==
  /\ pc = "Fill" /\ ~Filling
  /\ running_payload' = [lo |-> 0, hi |-> 0]
  /\ pc' = "Idle"
  /\ UNCHANGED <<queue, bytes_remaining, packets, packed, end>>

ReturnKeepsEmpty ==
  /\ pc = "Fill" /\ ~Filling
  /\ queue' = <<running_payload>> \o queue
  /\ running_payload' = [lo |-> 0, hi |-> 0]
  /\ pc' = "Idle"
  /\ UNCHANGED <<bytes_remaining, packets, packed, end>>

Return ==
  /\ pc = "Fill" /\ ~Filling
  /\ queue' = IF Length(running_payload) > 0 THEN <<running_payload>> \o queue ELSE queue
  /\ running_payload' = [lo |-> 0, hi |-> 0]
  /\ pc' = "Idle"
  /\ UNCHANGED <<bytes_remaining, packets, packed, end>>

Next == consume_data_into \/ EmitFull \/ MergeNext \/ LeaveMerge \/ EmitRest \/ Return

Spec == Init /\ [][Next]_vars /\ WF_vars(Next)

-----------------------------------------------------------------------------
(* The types; bytes_remaining never goes below zero, where the code's      *)
(* usize subtraction would wrap.                                           *)
TypeOK ==
  /\ \A i \in 1 .. Len(queue) : queue[i].lo \in Nat /\ queue[i].hi \in Nat
  /\ running_payload.lo \in Nat /\ running_payload.hi \in Nat
  /\ bytes_remaining \in 0 .. MAX_BYTES
  /\ packed \in 0 .. MAX_PACKETS * MAX_PAYLOAD
  /\ end \in Nat
  /\ pc \in {"Idle", "Merge", "Fill"}

(* No byte is lost, duplicated or moved: packets, running payload and      *)
(* queue lie end to end and reach the end of the stream.                   *)
Pieces ==
  packets \o (IF pc = "Idle" THEN <<>> ELSE <<running_payload>>) \o queue

StreamKept ==
  /\ TypeOK
  /\ \A i \in 1 .. Len(Pieces) - 1 : Pieces[i].hi = Pieces[i + 1].lo
  /\ Pieces # <<>> => Pieces[Len(Pieces)].hi = end

(* A data packet is never empty - the receiver would take it for the       *)
(* packet of a Fin - nor larger than the maximum, and only the last packet *)
(* of a datagram is smaller than that.                                     *)
PacketsWellFormed ==
  \A i \in 1 .. Len(packets) :
    /\ Length(packets[i]) \in 1 .. MAX_PAYLOAD
    /\ i < Len(packets) => Length(packets[i]) = MAX_PAYLOAD

(* A call packs as many bytes as a datagram can hold, however the          *)
(* application cut its stream into sends, in as few packets as possible.   *)
(* In particular it returns 0 (at which read_data stops) only if no byte   *)
(* is left in the queue.                                                   *)
PacksGreedily ==
  (pc = "Fill" /\ ~Filling) =>
    LET total == end - (packets \o <<running_payload>>)[1].lo
    IN  packed = Packed(total) /\ Len(packets) = NumPackets(packed)

(* Calling consume_data_into again and again drains the queue.             *)
QueueDrained == <>[](pc = "Idle" /\ queue = <<>>)
=============================================================================
