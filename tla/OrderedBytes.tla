---------------------------- MODULE OrderedBytes ----------------------------
(***************************************************************************)
(* The receive buffer of one connection: net/ordered_bytes.rs, struct      *)
(* OrderedBytes.  A ring of MAX_BUFFER_SIZE slots holds packets that may   *)
(* arrive in any order; consume() and consume_bytes() hand their payloads  *)
(* to the application in packet-number order.                              *)
(*                                                                         *)
(* Payloads are abstracted to the interval of the peer's byte stream that  *)
(* they carry: packet n holds the bytes at offsets cut[n] .. cut[n+1] - 1. *)
(* That is all the properties below can tell apart: loss, duplication and  *)
(* reordering of bytes show as intervals that do not meet.                 *)
(*                                                                         *)
(* Every operation runs under the mutex of the ConnectionBuffer that owns  *)
(* the ring.  A loop iteration of a consume call is one step; "call" is    *)
(* Idle exactly when the mutex is free, and no other operation starts      *)
(* while it is held.                                                       *)
(***************************************************************************)
EXTENDS Integers

CONSTANTS
  MAX_BUFFER_SIZE,  \* slots of the ring
  Start,            \* first data packet number of the peer
  Last,             \* bound: the highest packet number the peer uses
  PayloadSizes,     \* bound: payload lengths of the peer's data packets
  Lens,             \* bound: the len / max_packets arguments of the calls
  None,             \* Option::None
  Idle              \* no consume call holds the mutex

Interval == [lo : Nat, hi : Nat]

ASSUME RingAssumption ==
  /\ MAX_BUFFER_SIZE \in Nat \ {0}
  /\ Start \in Nat \ {0}
  /\ Last \in Nat /\ Start <= Last
  /\ PayloadSizes \subseteq Nat \ {0}
  /\ Lens \subseteq Nat
  /\ None \notin Nat \cup Interval

VARIABLES
  packets,                       \* slot -> number of the packet in it, or None
  smallest_packet_number_index,
  smallest_packet_number,
  carry_over_bytes,              \* None, or the interval left of a split payload
  call,                          \* Idle, or the locals of the consume call in progress
  result,                        \* what the last completed operation returned
  next,                          \* the peer's next packet number
  cut,                           \* the peer's stream: the offset at which each payload begins
  fin,                           \* the peer's Fin took the number next - 1
  accepted,                      \* history: numbers buffer_in_packet answered Ok(()) for
  copied                         \* history: last interval handed to the application

ring == <<packets, smallest_packet_number_index, smallest_packet_number,
          carry_over_bytes>>
peer == <<next, cut, fin>>
vars == <<ring, call, result, peer, accepted, copied>>

Slots == 0 .. MAX_BUFFER_SIZE - 1

Payload(n) == [lo |-> cut[n], hi |-> cut[n + 1]]
Length(b) == b.hi - b.lo

\* Bytes::split_off: the first k bytes stay, the rest is returned.
Front(b, k) == [lo |-> b.lo, hi |-> b.lo + k]
Rest(b, k) == [lo |-> b.lo + k, hi |-> b.hi]

wrap_index(base, offset) ==
  LET raw == base + offset
  IN  IF raw >= MAX_BUFFER_SIZE THEN raw - MAX_BUFFER_SIZE ELSE raw

\* What an operation returns: a packet number or count, and for the consume
\* calls the base packet number and the bytes of a ConsumeResult.
Result(op, ret, num, base, bytes) ==
  [op |-> op, ret |-> ret, num |-> num, base |-> base, bytes |-> bytes]

\* peek() answers Ok(()).
Peek == carry_over_bytes # None \/ packets[smallest_packet_number_index] # None

-----------------------------------------------------------------------------
(* new(), followed by set_start_packet_number() during the handshake.      *)
Init ==
  /\ packets = [i \in Slots |-> None]
  /\ smallest_packet_number_index = 0
  /\ smallest_packet_number = Start
  /\ carry_over_bytes = None
  /\ call = Idle
  /\ result = Result("new", "Ok", 0, 0, 0)
  /\ next = Start
  /\ cut = [n \in {Start} |-> 0]
  /\ fin = FALSE
  /\ accepted = {}
  /\ copied = [lo |-> 0, hi |-> 0]

(* The peer numbers its packets one by one.  Its Fin consumes a number and *)
(* carries no payload; it comes last.                                      *)
PeerAppends(size) ==
  /\ next <= Last /\ ~fin
  /\ next' = next + 1
  /\ cut' = [n \in Start .. next + 1 |->
               IF n = next + 1 THEN cut[next] + size ELSE cut[n]]
  /\ UNCHANGED <<ring, call, result, accepted, copied>>

PeerSends == fin' = fin /\ \E size \in PayloadSizes : PeerAppends(size)

PeerFins == fin' = TRUE /\ PeerAppends(0)

(* buffer_in_packet(n): the network delivers packets in any order and more *)
(* than once.                                                              *)
Reject(n, error) ==
  /\ result' = Result("buffer_in_packet", error, n, 0, 0)
  /\ UNCHANGED <<ring, call, peer, accepted, copied>>

\* Mutant of RejectBehind: refuses the expected packet too.
RejectBehindOrEqual(n) ==
  /\ n <= smallest_packet_number
  /\ Reject(n, "UnexpectedPacketNumberError")

RejectBehind(n) ==
  /\ n < smallest_packet_number
  /\ Reject(n, "UnexpectedPacketNumberError")

RejectFull(n) ==
  /\ n - smallest_packet_number >= MAX_BUFFER_SIZE
  /\ Reject(n, "BufferFullError")

\* Mutant of FillSlot: the offset is applied to slot 0.
FillSlotFromZero(n) ==
  LET offset == n - smallest_packet_number
  IN  /\ offset \in Slots
      /\ \/ /\ packets[offset] # None
            /\ Reject(n, "Unexpected")
         \/ /\ packets[offset] = None
            /\ packets' = [packets EXCEPT ![offset] = n]
            /\ accepted' = accepted \cup {n}
            /\ result' = Result("buffer_in_packet", "Ok", n, 0, 0)
            /\ UNCHANGED <<smallest_packet_number_index, smallest_packet_number,
                           carry_over_bytes, call, peer, copied>>

FillSlot(n) ==
  LET offset == n - smallest_packet_number
      index  == wrap_index(smallest_packet_number_index, offset)
  IN  /\ offset \in Slots
      /\ \/ /\ packets[index] # None
            /\ Reject(n, "Unexpected")
         \/ /\ packets[index] = None
            /\ packets' = [packets EXCEPT ![index] = n]
            /\ accepted' = accepted \cup {n}
            /\ result' = Result("buffer_in_packet", "Ok", n, 0, 0)
            /\ UNCHANGED <<smallest_packet_number_index, smallest_packet_number,
                           carry_over_bytes, call, peer, copied>>

buffer_in_packet(n) ==
  /\ call = Idle
  /\ RejectBehind(n) \/ RejectFull(n) \/ FillSlot(n)

-----------------------------------------------------------------------------
(* The two consume calls first deal with the carry-over, then loop over    *)
(* the slots from "base" on.  "used" counts what the call's limit bounds:  *)
(* bytes for consume(), pushed slices for consume_bytes().                 *)
EnterLoop(op, limit, used, bytes) ==
  call' = [op |-> op, limit |-> limit, used |-> used, bytes |-> bytes,
           base |-> smallest_packet_number_index, ix |-> 0,
           base_packet_number |->
             LET n == packets[smallest_packet_number_index]
             IN  IF n = None THEN 0 ELSE n,
           peeked |-> Peek, from |-> copied.hi]

\* The carry-over alone fills the caller's buffer: early return.
ConsumePartOfCarryOver(len) ==
  /\ call = Idle
  /\ carry_over_bytes # None /\ Length(carry_over_bytes) > len
  /\ copied' = Front(carry_over_bytes, len)
  /\ carry_over_bytes' = Rest(carry_over_bytes, len)
  /\ result' = Result("consume", "Ok", 0, 0, len)
  /\ UNCHANGED <<packets, smallest_packet_number_index, smallest_packet_number,
                 call, peer, accepted>>

TakeCarryOver(op, limit) ==
  /\ call = Idle
  /\ IF carry_over_bytes = None
     THEN EnterLoop(op, limit, 0, 0) /\ UNCHANGED copied
     ELSE LET bytes == Length(carry_over_bytes)
          IN  /\ EnterLoop(op, limit, IF op = "consume" THEN bytes ELSE 1, bytes)
              /\ copied' = carry_over_bytes
  /\ carry_over_bytes' = None
  /\ UNCHANGED <<packets, smallest_packet_number_index, smallest_packet_number,
                 result, peer, accepted>>

consume(len) ==
  \/ ConsumePartOfCarryOver(len)
  \/ /\ carry_over_bytes # None => Length(carry_over_bytes) <= len
     /\ TakeCarryOver("consume", len)

consume_bytes(max_packets) == TakeCarryOver("consume_bytes", max_packets)

Slot == wrap_index(call.base, call.ix)
\* Mutant of InLoop: a payload that does not fit is left in its slot.
InLoopWholePayloads ==
  /\ call # Idle
  /\ call.ix < MAX_BUFFER_SIZE
  /\ packets[Slot] # None
  /\ call.used + Length(Payload(packets[Slot])) <= call.limit

InLoop == /\ call # Idle
          /\ call.ix < MAX_BUFFER_SIZE
          /\ packets[Slot] # None
          /\ call.used < call.limit

\* Mutant of TakePacket: the index is not wrapped.
TakePacketNoWrap(used, bytes) ==
  /\ packets' = [packets EXCEPT ![Slot] = None]
  /\ smallest_packet_number' = packets[Slot] + 1
  /\ smallest_packet_number_index' = smallest_packet_number_index + 1
  /\ call' = [call EXCEPT !.ix = @ + 1, !.used = @ + used, !.bytes = @ + bytes]
  /\ UNCHANGED <<result, peer, accepted>>

\* One loop iteration takes the packet out of its slot.
TakePacket(used, bytes) ==
  /\ packets' = [packets EXCEPT ![Slot] = None]
  /\ smallest_packet_number' = packets[Slot] + 1
  /\ smallest_packet_number_index' = wrap_index(smallest_packet_number_index, 1)
  /\ call' = [call EXCEPT !.ix = @ + 1, !.used = @ + used, !.bytes = @ + bytes]
  /\ UNCHANGED <<result, peer, accepted>>

CopyPayload ==
  /\ InLoop
  /\ LET payload == Payload(packets[Slot])
     IN  /\ call.op = "consume" => Length(payload) <= call.limit - call.used
         /\ copied' = payload
         /\ carry_over_bytes' = carry_over_bytes
         /\ TakePacket(IF call.op = "consume" THEN Length(payload) ELSE 1, Length(payload))

\* Mutant of SplitPayload: the tail of the payload is forgotten.
SplitPayloadDropsTail ==
  /\ InLoop /\ call.op = "consume"
  /\ LET payload   == Payload(packets[Slot])
         remaining == call.limit - call.used
     IN  /\ Length(payload) > remaining
         /\ copied' = Front(payload, remaining)
         /\ carry_over_bytes' = carry_over_bytes
         /\ TakePacket(remaining, remaining)

SplitPayload ==
  /\ InLoop /\ call.op = "consume"
  /\ LET payload   == Payload(packets[Slot])
         remaining == call.limit - call.used
     IN  /\ Length(payload) > remaining
         /\ copied' = Front(payload, remaining)
         /\ carry_over_bytes' = Rest(payload, remaining)
         /\ TakePacket(remaining, remaining)

\* Mutants of ReturnFromLoop: the base is read after the loop has advanced it;
\* a call that only drained the carry-over counts as empty.
ReturnLateBase ==
  /\ call # Idle /\ ~InLoop
  /\ result' = IF call.used = 0
               THEN Result(call.op, "BufferEmptyError", 0, 0, 0)
               ELSE Result(call.op, "Ok", call.ix, smallest_packet_number, call.bytes)
  /\ call' = Idle
  /\ UNCHANGED <<ring, peer, accepted, copied>>

ReturnForgetsCarryOver ==
  /\ call # Idle /\ ~InLoop
  /\ result' = IF call.ix = 0
               THEN Result(call.op, "BufferEmptyError", 0, 0, 0)
               ELSE Result(call.op, "Ok", call.ix, call.base_packet_number, call.bytes)
  /\ call' = Idle
  /\ UNCHANGED <<ring, peer, accepted, copied>>

ReturnFromLoop ==
  /\ call # Idle /\ ~InLoop
  /\ result' = IF call.used = 0
               THEN Result(call.op, "BufferEmptyError", 0, 0, 0)
               ELSE Result(call.op, "Ok", call.ix, call.base_packet_number, call.bytes)
  /\ call' = Idle
  /\ UNCHANGED <<ring, peer, accepted, copied>>

-----------------------------------------------------------------------------
Next ==
  \/ PeerSends \/ PeerFins
  \/ \E n \in Start .. next - 1 : buffer_in_packet(n)
  \/ \E len \in Lens : consume(len) \/ consume_bytes(len)
  \/ CopyPayload \/ SplitPayload \/ ReturnFromLoop

Spec == Init /\ [][Next]_vars

(* The mutex is always released, and the application keeps reading with a  *)
(* non-empty buffer.  Nothing obliges the peer or the network.             *)
Fairness ==
  /\ WF_vars(CopyPayload \/ SplitPayload \/ ReturnFromLoop)
  /\ SF_vars(\E len \in Lens \ {0} : consume(len))

FairSpec == Spec /\ Fairness

-----------------------------------------------------------------------------
Calls ==
  [op : {"consume", "consume_bytes"}, limit : Nat, used : Nat, bytes : Nat,
   base : Slots, ix : 0 .. MAX_BUFFER_SIZE, base_packet_number : Nat,
   peeked : BOOLEAN, from : Nat]

ASSUME IdleAssumption == Idle \notin Calls

Results ==
  [op : {"new", "buffer_in_packet", "consume", "consume_bytes"},
   ret : {"Ok", "UnexpectedPacketNumberError", "BufferFullError", "Unexpected",
          "BufferEmptyError"},
   num : Nat, base : Nat, bytes : Nat]

(* The types, with the bounds that keep every index inside the ring.       *)
TypeOK ==
  /\ packets \in [Slots -> Nat \cup {None}]
  /\ smallest_packet_number_index \in Slots
  /\ smallest_packet_number \in Start .. next
  /\ carry_over_bytes \in Interval \cup {None}
  /\ call \in {Idle} \cup Calls
  /\ result \in Results
  /\ next \in Start .. Last + 1
  /\ cut \in [Start .. next -> Nat]
  /\ fin \in BOOLEAN
  /\ accepted \subseteq Start .. next - 1
  /\ copied \in Interval

(* The slot i places after smallest_packet_number_index holds the packet   *)
(* numbered smallest_packet_number + i or nothing, however often the index *)
(* has wrapped (the comment at ordered_bytes.rs:40 relies on it).          *)
SlotHoldsItsNumber ==
  \A i \in Slots :
    packets[wrap_index(smallest_packet_number_index, i)]
      \in {None, smallest_packet_number + i}

(* No accepted packet is lost: it has been consumed or is in its slot, and *)
(* nothing else is in the ring.                                            *)
NothingLost ==
  /\ accepted = {n \in Start .. next - 1 :
                   n < smallest_packet_number \/ \E i \in Slots : packets[i] = n}
  /\ \A i \in Slots : packets[i] \in accepted \cup {None}

(* The peer's stream never runs backwards.                                 *)
OffsetsGrow == \A n \in Start .. next - 1 : cut[n] <= cut[n + 1]

(* The bytes handed out, the carry-over and the first slot meet: no byte   *)
(* is skipped or kept twice when a payload is split over several reads.    *)
CarryOverMeetsStream ==
  IF carry_over_bytes = None
  THEN copied.hi = cut[smallest_packet_number]
  ELSE /\ copied.hi = carry_over_bytes.lo
       /\ carry_over_bytes.lo < carry_over_bytes.hi
       /\ carry_over_bytes.hi = cut[smallest_packet_number]

(* Within a consume call the slot computed from the base is the first one, *)
(* the base packet number is that of the first packet taken (0 if there    *)
(* was none), the bytes counted are the bytes handed out, and the loop     *)
(* ends once a payload has been split.                                     *)
LoopInvariant ==
  call # Idle =>
    /\ Slot = smallest_packet_number_index
    /\ IF call.ix > 0
       THEN call.base_packet_number >= Start
            /\ call.base_packet_number + call.ix = smallest_packet_number
       ELSE call.base_packet_number =
              IF packets[Slot] = None THEN 0 ELSE packets[Slot]
    /\ call.bytes = copied.hi - call.from
    /\ carry_over_bytes # None => call.used >= call.limit

(* The inductive invariant of the ring: whatever order packets arrive in   *)
(* and however reads split them, slots, history and stream agree.          *)
RingInvariant ==
  /\ SlotHoldsItsNumber
  /\ NothingLost
  /\ OffsetsGrow
  /\ CarryOverMeetsStream
  /\ LoopInvariant

(* buffer_in_packet refuses a packet as old or as a duplicate only if it   *)
(* has accepted that very packet before: wrapping never makes two packet   *)
(* numbers of the window compete for a slot.                               *)
RefusedOnlyIfAccepted ==
  result.ret \in {"UnexpectedPacketNumberError", "Unexpected"}
    => result.num \in accepted

(* The range an acknowledgement is built from (base packet number and      *)
(* packet count of a ConsumeResult) is exactly what the call took from the *)
(* ring, ends just before the next expected packet, and a count above 0    *)
(* never comes with the base 0 that the readers take for "nothing".        *)
ResultCoversConsumed ==
  (call = Idle /\ result.op \in {"consume", "consume_bytes"} /\ result.num > 0)
    => /\ result.base >= Start
       /\ result.base + result.num = smallest_packet_number
       /\ result.base .. smallest_packet_number - 1 \subseteq accepted

(* "Ok(()) indicates there are bytes to consume" (ordered_bytes.rs:178): a *)
(* call with room, made when peek() answered Ok(()), does not come back    *)
(* with BufferEmptyError, on which worker/reader.rs:142 would panic.  This *)
(* holds as long as no Fin is routed into the ring, whose empty payload    *)
(* peek() takes for bytes.                                                 *)
PeekPromisesBytes ==
  [][(~fin /\ call # Idle /\ call' = Idle /\ call.peeked /\ call.limit > 0)
       => result'.ret # "BufferEmptyError"]_vars

(* Once every packet up to n is in, an application that keeps reading gets *)
(* all of their bytes.                                                     *)
ReceivedIsDelivered ==
  \A n \in Start .. Last :
    (Start .. n \subseteq accepted) ~> (n < next /\ copied.hi >= cut[n + 1])

(* The ring implements the byte stream of module ByteStream: its stream is *)
(* the peer's, whatever was accepted is in it, and what the last consume   *)
(* copied out is what it delivers.                                         *)
Stream == INSTANCE ByteStream WITH Start <- Start, next <- next, cut <- cut,
                                   accepted <- accepted, copied <- copied
StreamSpec == Stream!Spec
=============================================================================
