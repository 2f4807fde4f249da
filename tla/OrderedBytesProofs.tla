------------------------- MODULE OrderedBytesProofs -------------------------
(***************************************************************************)
(* Proofs about OrderedBytes for every ring size, every stream of packets  *)
(* and every sequence of reads.                                            *)
(***************************************************************************)
EXTENDS OrderedBytes, TLAPS

\* The larger leaves take longer than the provers' default limits.
USE SMTT(30), ZenonT(30)

(* wrap_index stays inside the ring, and from any base the offsets         *)
(* 0 .. MAX_BUFFER_SIZE - 1 reach every slot.                              *)
LEMMA WrapInRing ==
  ASSUME NEW base \in Slots, NEW offset \in 0 .. MAX_BUFFER_SIZE
  PROVE  wrap_index(base, offset) \in Slots
BY RingAssumption DEF wrap_index, Slots

(* Every slot is some offset away from the base.                           *)
LEMMA WrapReaches ==
  ASSUME NEW base \in Slots, NEW j \in Slots
  PROVE  \E i \in Slots : wrap_index(base, i) = j
<1>1. CASE j >= base
  <2>1. j - base \in Slots /\ wrap_index(base, j - base) = j
    BY <1>1, RingAssumption DEF wrap_index, Slots
  <2> QED BY <2>1
<1>2. CASE j < base
  <2>1. /\ j - base + MAX_BUFFER_SIZE \in Slots
        /\ wrap_index(base, j - base + MAX_BUFFER_SIZE) = j
    BY <1>2, RingAssumption DEF wrap_index, Slots
  <2> QED BY <2>1
<1> QED BY <1>1, <1>2, RingAssumption DEF Slots

(* Two offsets below MAX_BUFFER_SIZE never meet in the same slot.          *)
LEMMA WrapInjective ==
  ASSUME NEW base \in Slots, NEW i \in Slots, NEW j \in Slots,
         wrap_index(base, i) = wrap_index(base, j)
  PROVE  i = j
BY RingAssumption DEF wrap_index, Slots

(* Advancing the base by one shifts every offset by one.                   *)
LEMMA WrapShift ==
  ASSUME NEW base \in Slots, NEW i \in Slots
  PROVE  /\ wrap_index(wrap_index(base, 1), i) = wrap_index(base, i + 1)
         /\ wrap_index(wrap_index(base, i), 1) = wrap_index(base, i + 1)
         /\ wrap_index(base, 0) = base
         /\ i + 1 = MAX_BUFFER_SIZE => wrap_index(base, i + 1) = base
BY RingAssumption DEF wrap_index, Slots

-----------------------------------------------------------------------------
(* RingInvariant is inductive together with the types.                     *)
Inv == TypeOK /\ RingInvariant

(* An empty ring that expects the start number.                            *)
LEMMA InitInv == Init => Inv
<1> SUFFICES ASSUME Init PROVE Inv
  OBVIOUS
<1> USE RingAssumption DEF Init
<1>1. TypeOK
  <2>1. cut \in [Start .. next -> Nat]
    <3>1. {Start} = Start .. Start
      OBVIOUS
    <3> QED BY <3>1
  <2>2. packets \in [Slots -> Nat \cup {None}] /\ 0 \in Slots
    BY DEF Slots
  <2>3. result \in Results
    BY DEF Results, Result
  <2>4. copied \in Interval
    BY DEF Interval
  <2>5. next \in Start .. Last + 1 /\ smallest_packet_number \in Start .. next
    OBVIOUS
  <2>6. fin \in BOOLEAN /\ accepted \subseteq Start .. next - 1
    BY Zenon
  <2> QED BY <2>1, <2>2, <2>3, <2>4, <2>5, <2>6 DEF TypeOK
<1>2. SlotHoldsItsNumber /\ NothingLost
  BY DEF SlotHoldsItsNumber, NothingLost, Slots, wrap_index
<1>3. OffsetsGrow /\ CarryOverMeetsStream /\ LoopInvariant
  BY DEF OffsetsGrow, CarryOverMeetsStream, LoopInvariant
<1> QED BY <1>1, <1>2, <1>3 DEF Inv, RingInvariant

(* Nothing happens.                                                        *)
LEMMA StutterInv == Inv /\ UNCHANGED vars => Inv'
BY DEF Inv, RingInvariant, TypeOK, SlotHoldsItsNumber, NothingLost, OffsetsGrow,
       CarryOverMeetsStream, LoopInvariant, Slot, vars, ring, peer

(* A new packet of the peer is not in the ring yet and leaves every older  *)
(* offset where it is.                                                     *)
LEMMA PeerAppendsInv ==
  ASSUME Inv, NEW size \in Nat, PeerAppends(size), fin' \in BOOLEAN
  PROVE  Inv'
<1> USE RingAssumption DEF Inv, RingInvariant, PeerAppends, ring
<1>1. /\ next' = next + 1 /\ next \in Start .. Last
      /\ \A n \in Start .. next : cut'[n] = cut[n]
      /\ cut'[next + 1] = cut[next] + size
      /\ cut' \in [Start .. next + 1 -> Nat]
  BY DEF TypeOK
<1>2. TypeOK'
  BY <1>1 DEF TypeOK
<1>3. SlotHoldsItsNumber'
  BY DEF SlotHoldsItsNumber
<1>4. NothingLost'
  <2>1. ~ (next < smallest_packet_number) /\ next \notin accepted
    BY DEF TypeOK
  <2>2. \A i \in Slots : packets[i] # next
    BY <2>1 DEF NothingLost, TypeOK
  <2> QED BY <1>1, <2>1, <2>2 DEF NothingLost, TypeOK
<1>5. OffsetsGrow'
  BY <1>1 DEF OffsetsGrow, TypeOK
<1>6. CarryOverMeetsStream'
  BY <1>1 DEF CarryOverMeetsStream, TypeOK
<1>7. LoopInvariant'
  BY DEF LoopInvariant, Slot
<1> QED BY <1>2, <1>3, <1>4, <1>5, <1>6, <1>7

(* Buffering a packet fills the one slot that is reserved for its number.  *)
LEMMA BufferInv ==
  ASSUME Inv, NEW n \in Start .. next - 1, buffer_in_packet(n)
  PROVE  Inv'
<1> USE RingAssumption DEF Inv, RingInvariant, ring, peer
<1>1. ASSUME NEW error \in {"UnexpectedPacketNumberError", "BufferFullError", "Unexpected"},
             Reject(n, error)
      PROVE  Inv'
  <2>1. TypeOK'
    BY <1>1 DEF Reject, TypeOK, Results, Result
  <2> QED BY <1>1, <2>1 DEF Reject, SlotHoldsItsNumber, NothingLost, OffsetsGrow,
                            CarryOverMeetsStream, LoopInvariant, Slot
<1> DEFINE offset == n - smallest_packet_number
           index == wrap_index(smallest_packet_number_index, offset)
<1>2. ASSUME offset \in Slots, packets[index] = None,
             packets' = [packets EXCEPT ![index] = n],
             accepted' = accepted \cup {n},
             result' = Result("buffer_in_packet", "Ok", n, 0, 0),
             UNCHANGED <<smallest_packet_number_index, smallest_packet_number,
                         carry_over_bytes, call, peer, copied>>,
             call = Idle
      PROVE  Inv'
  <2>1. index \in Slots
    BY <1>2, WrapInRing DEF TypeOK, Slots
  <2>2. TypeOK'
    BY <1>2, <2>1 DEF TypeOK, Results, Result
  <2>3. SlotHoldsItsNumber'
    <3> SUFFICES ASSUME NEW i \in Slots
                 PROVE  packets'[wrap_index(smallest_packet_number_index, i)]
                          \in {None, smallest_packet_number + i}
      BY <1>2 DEF SlotHoldsItsNumber
    <3>1. wrap_index(smallest_packet_number_index, i) \in Slots
      BY DEF TypeOK, Slots, wrap_index
    <3>2. CASE wrap_index(smallest_packet_number_index, i) = index
      <4>1. i = offset
        BY <1>2, <3>2, WrapInjective DEF TypeOK
      <4> QED BY <1>2, <2>1, <3>2, <4>1 DEF TypeOK, Slots
    <3>3. CASE wrap_index(smallest_packet_number_index, i) # index
      BY <1>2, <2>1, <3>1, <3>3 DEF TypeOK, SlotHoldsItsNumber
    <3> QED BY <3>2, <3>3
  <2>4. NothingLost'
    BY <1>2, <2>1 DEF NothingLost, TypeOK
  <2>5. (OffsetsGrow /\ CarryOverMeetsStream /\ LoopInvariant)'
    BY <1>2 DEF OffsetsGrow, CarryOverMeetsStream, LoopInvariant
  <2> QED BY <2>2, <2>3, <2>4, <2>5
<1> QED BY <1>1, <1>2 DEF buffer_in_packet, RejectBehind, RejectFull, FillSlot

-----------------------------------------------------------------------------
(* Entering a consume call moves at most the carry-over.                   *)
LEMMA ConsumePartInv ==
  ASSUME Inv, NEW len \in Nat, ConsumePartOfCarryOver(len)
  PROVE  Inv'
<1> USE RingAssumption DEF Inv, RingInvariant, peer, ConsumePartOfCarryOver
<1>1. /\ carry_over_bytes \in Interval
      /\ carry_over_bytes.hi - carry_over_bytes.lo > len
      /\ copied' = [lo |-> carry_over_bytes.lo, hi |-> carry_over_bytes.lo + len]
      /\ carry_over_bytes' =
           [lo |-> carry_over_bytes.lo + len, hi |-> carry_over_bytes.hi]
  BY DEF Front, Rest, Length, TypeOK
<1>2. copied' \in Interval /\ carry_over_bytes' \in Interval
  BY <1>1 DEF Interval
<1>3. TypeOK'
  BY <1>2 DEF TypeOK, Results, Result
<1>4. (SlotHoldsItsNumber /\ NothingLost /\ OffsetsGrow)'
  BY DEF SlotHoldsItsNumber, NothingLost, OffsetsGrow
<1>5. CarryOverMeetsStream'
  BY <1>1, <1>2 DEF CarryOverMeetsStream, Interval
<1>6. LoopInvariant'
  BY DEF LoopInvariant
<1> QED BY <1>3, <1>4, <1>5, <1>6

(* A consume call that has entered its loop keeps the mutex.               *)
LEMMA TakeCarryOverCalls ==
  ASSUME Inv, NEW op \in {"consume", "consume_bytes"}, NEW limit \in Nat,
         TakeCarryOver(op, limit)
  PROVE  call' \in Calls
<1> DEFINE first == packets[smallest_packet_number_index]
<1>1. (IF first = None THEN 0 ELSE first) \in Nat
  BY DEF Inv, TypeOK
<1>2. Peek \in BOOLEAN
  BY DEF Peek
<1>3. /\ smallest_packet_number_index \in Slots /\ copied.hi \in Nat
      /\ 0 \in 0 .. MAX_BUFFER_SIZE
  BY RingAssumption DEF Inv, TypeOK, Interval
<1>4. carry_over_bytes # None => Length(carry_over_bytes) \in Nat
  BY DEF Inv, RingInvariant, TypeOK, CarryOverMeetsStream, Interval, Length
<1>5. ASSUME NEW used \in Nat, NEW bytes \in Nat, EnterLoop(op, limit, used, bytes)
      PROVE  call' \in Calls
  BY <1>1, <1>2, <1>3, <1>5 DEF EnterLoop, Calls
<1>6. CASE carry_over_bytes = None
  BY <1>5, <1>6 DEF TakeCarryOver
<1>7. CASE carry_over_bytes # None
  <2>1. (IF op = "consume" THEN Length(carry_over_bytes) ELSE 1) \in Nat
    BY <1>4, <1>7
  <2> QED BY <1>4, <1>5, <1>7, <2>1 DEF TakeCarryOver
<1> QED BY <1>6, <1>7

(* A call takes all the carry-over and enters the loop over the slots.     *)
LEMMA TakeCarryOverInv ==
  ASSUME Inv, NEW op \in {"consume", "consume_bytes"}, NEW limit \in Nat,
         TakeCarryOver(op, limit)
  PROVE  Inv'
<1> USE RingAssumption DEF Inv, RingInvariant, peer, TakeCarryOver
<1>1. PICK used \in Nat, bytes \in Nat :
        /\ EnterLoop(op, limit, used, bytes)
        /\ copied' \in Interval
        /\ copied'.hi = cut[smallest_packet_number]
        /\ bytes = copied'.hi - copied.hi
  <2>1. CASE carry_over_bytes = None
    BY <2>1 DEF CarryOverMeetsStream, TypeOK, Interval
  <2>2. CASE carry_over_bytes # None
    <3> DEFINE b == Length(carry_over_bytes)
    <3>1. carry_over_bytes \in Interval /\ b \in Nat
      BY <2>2 DEF CarryOverMeetsStream, TypeOK, Interval, Length
    <3>2. b = copied'.hi - copied.hi
      BY <2>2, <3>1 DEF CarryOverMeetsStream, Length
    <3>3. (IF op = "consume" THEN b ELSE 1) \in Nat
      BY <3>1
    <3> QED BY <2>2, <3>1, <3>2, <3>3 DEF CarryOverMeetsStream
  <2> QED BY <2>1, <2>2
<1> DEFINE first == packets[smallest_packet_number_index]
<1>2. /\ call'.limit = limit /\ call'.used = used /\ call'.bytes = bytes
      /\ call'.base = smallest_packet_number_index /\ call'.ix = 0
      /\ call'.base_packet_number = IF first = None THEN 0 ELSE first
      /\ call'.from = copied.hi
  BY <1>1 DEF EnterLoop
<1>3. call' \in Calls
  BY Zenon, TakeCarryOverCalls
<1>4. TypeOK'
  BY <1>1, <1>3 DEF TypeOK
<1>5. (SlotHoldsItsNumber /\ NothingLost /\ OffsetsGrow)'
  BY DEF SlotHoldsItsNumber, NothingLost, OffsetsGrow
<1>6. CarryOverMeetsStream'
  BY <1>1 DEF CarryOverMeetsStream
<1>7. LoopInvariant'
  <2>1. Slot' = smallest_packet_number_index
    BY <1>2, WrapShift DEF Slot, TypeOK, wrap_index, Slots
  <2> QED BY <1>1, <1>2, <2>1 DEF LoopInvariant
<1> QED BY <1>4, <1>5, <1>6, <1>7

-----------------------------------------------------------------------------
(* What an iteration of the loop finds: no carry-over, and in the first    *)
(* slot the packet whose number is expected next.                          *)
LEMMA LoopFacts ==
  ASSUME Inv, InLoop
  PROVE  /\ call \in Calls
         /\ carry_over_bytes = None
         /\ Slot = smallest_packet_number_index
         /\ packets[Slot] = smallest_packet_number
         /\ smallest_packet_number \in accepted
         /\ smallest_packet_number \in Start .. next - 1
         /\ copied.hi = cut[smallest_packet_number]
         /\ Payload(packets[Slot]).lo \in Nat
         /\ Payload(packets[Slot]).hi \in Nat
         /\ Payload(packets[Slot]).lo = copied.hi
         /\ Payload(packets[Slot]).hi = cut[smallest_packet_number + 1]
         /\ Payload(packets[Slot]).lo <= Payload(packets[Slot]).hi
<1> USE RingAssumption DEF Inv, RingInvariant, InLoop
<1>1. call \in Calls
  BY DEF TypeOK
<1>2. carry_over_bytes = None /\ Slot = smallest_packet_number_index
  BY <1>1 DEF LoopInvariant, Calls
<1>3. packets[Slot] = smallest_packet_number
  <2>1. wrap_index(smallest_packet_number_index, 0) = smallest_packet_number_index
        /\ 0 \in Slots
    BY DEF wrap_index, Slots, TypeOK
  <2> QED BY <1>2, <2>1 DEF SlotHoldsItsNumber, TypeOK
<1>4. smallest_packet_number \in accepted
  BY <1>2, <1>3 DEF NothingLost, TypeOK
<1>5. smallest_packet_number \in Start .. next - 1
  BY <1>4 DEF TypeOK
<1>6. copied.hi = cut[smallest_packet_number]
  BY <1>2 DEF CarryOverMeetsStream
<1>7. /\ cut[smallest_packet_number] \in Nat
      /\ cut[smallest_packet_number + 1] \in Nat
      /\ cut[smallest_packet_number] <= cut[smallest_packet_number + 1]
  BY <1>5 DEF OffsetsGrow, TypeOK
<1> QED BY <1>1, <1>2, <1>3, <1>4, <1>5, <1>6, <1>7 DEF Payload

(* One more slot of the loop is taken.                                     *)
LEMMA TakePacketCall ==
  ASSUME Inv, InLoop, NEW used \in Nat, NEW bytes \in Nat, TakePacket(used, bytes)
  PROVE  /\ call' \in Calls
         /\ call'.ix = call.ix + 1 /\ call'.base = call.base
         /\ call'.used = call.used + used /\ call'.limit = call.limit
         /\ call'.bytes = call.bytes + bytes /\ call'.from = call.from
         /\ call'.base_packet_number = call.base_packet_number
         /\ call'.peeked = call.peeked
<1>1. call \in Calls /\ call.ix < MAX_BUFFER_SIZE
  BY LoopFacts DEF InLoop
<1>2. call' = [call EXCEPT !.ix = @ + 1, !.used = @ + used, !.bytes = @ + bytes]
  BY DEF TakePacket
<1>3. /\ call.ix + 1 \in 0 .. MAX_BUFFER_SIZE
      /\ call.used + used \in Nat /\ call.bytes + bytes \in Nat
  BY <1>1, RingAssumption DEF Calls
<1> QED BY Zenon, <1>1, <1>2, <1>3 DEF Calls

(* Taking the first packet keeps the slots and the history in step; the    *)
(* bytes taken decide where the stream continues.                          *)
LEMMA TakePacketInv ==
  ASSUME Inv, InLoop, NEW used \in Nat, NEW bytes \in Nat, TakePacket(used, bytes),
         copied' \in Interval, carry_over_bytes' \in Interval \cup {None},
         copied'.hi = copied.hi + bytes,
         CarryOverMeetsStream',
         carry_over_bytes' # None => call.used + used >= call.limit
  PROVE  Inv'
<1> USE RingAssumption DEF Inv, RingInvariant, TakePacket, peer
<1> DEFINE ix == smallest_packet_number_index
<1>1. /\ ix \in Slots
      /\ packets' = [packets EXCEPT ![ix] = None]
      /\ smallest_packet_number' = smallest_packet_number + 1
      /\ ix' = wrap_index(ix, 1)
      /\ packets[ix] = smallest_packet_number
      /\ smallest_packet_number \in accepted
      /\ smallest_packet_number \in Start .. next - 1
  BY Zenon, LoopFacts DEF TypeOK
<1>2. wrap_index(ix, 1) \in Slots
  BY <1>1 DEF wrap_index, Slots
<1>3. /\ call' \in Calls
      /\ call'.ix = call.ix + 1 /\ call'.base = call.base
      /\ call'.used = call.used + used /\ call'.limit = call.limit
      /\ call'.bytes = call.bytes + bytes /\ call'.from = call.from
      /\ call'.base_packet_number = call.base_packet_number
  BY Zenon, TakePacketCall
<1>4. TypeOK'
  BY <1>1, <1>2, <1>3 DEF TypeOK
<1>5. SlotHoldsItsNumber'
  <2> SUFFICES ASSUME NEW i \in Slots
               PROVE  packets'[wrap_index(ix', i)] \in {None, smallest_packet_number + 1 + i}
    BY <1>1 DEF SlotHoldsItsNumber
  <2>1. wrap_index(ix', i) = wrap_index(ix, i + 1)
    BY <1>1, WrapShift
  <2>2. CASE i + 1 = MAX_BUFFER_SIZE
    <3>1. wrap_index(ix, i + 1) = ix
      BY <1>1, <2>2, WrapShift
    <3> QED BY <1>1, <2>1, <3>1 DEF TypeOK
  <2>3. CASE i + 1 # MAX_BUFFER_SIZE
    <3>1. i + 1 \in Slots /\ wrap_index(ix, i + 1) \in Slots
          /\ wrap_index(ix, i + 1) # ix
      BY <1>1, <2>3 DEF wrap_index, Slots
    <3>2. packets[wrap_index(ix, i + 1)] \in {None, smallest_packet_number + (i + 1)}
      BY <3>1 DEF SlotHoldsItsNumber
    <3> QED BY <1>1, <2>1, <3>1, <3>2 DEF TypeOK, Slots
  <2> QED BY <2>2, <2>3
<1>6. NothingLost'
  <2>1. \A i \in Slots : packets'[i] = IF i = ix THEN None ELSE packets[i]
    BY <1>1 DEF TypeOK
  <2> QED BY <1>1, <2>1 DEF NothingLost, TypeOK
<1>7. OffsetsGrow'
  BY DEF OffsetsGrow
<1>8. LoopInvariant'
  <2>1. Slot' = ix'
    <3>1. call.base \in Slots /\ call.ix \in Slots
      BY LoopFacts DEF Calls, Slots, InLoop
    <3>2. wrap_index(wrap_index(call.base, call.ix), 1) = wrap_index(call.base, call.ix + 1)
      BY <3>1, WrapShift
    <3> QED BY <1>1, <1>3, <3>2, LoopFacts DEF Slot
  <2>2. /\ call'.base_packet_number >= Start
        /\ call'.base_packet_number + call'.ix = smallest_packet_number'
    BY <1>1, <1>3, LoopFacts DEF LoopInvariant, Calls, InLoop
  <2>3. call'.bytes = copied'.hi - call'.from
    <3>1. call.bytes = copied.hi - call.from
      BY DEF LoopInvariant, InLoop
    <3>2. call.from \in Nat /\ copied.hi \in Nat
      BY LoopFacts DEF Calls, Interval, TypeOK
    <3> QED BY <1>3, <3>1, <3>2
  <2> QED BY <1>3, <2>1, <2>2, <2>3, LoopFacts DEF LoopInvariant, Calls
<1> QED BY <1>4, <1>5, <1>6, <1>7, <1>8

(* The loop copies a whole payload.                                        *)
LEMMA CopyPayloadInv ==
  ASSUME Inv, CopyPayload
  PROVE  Inv'
<1> DEFINE payload == Payload(packets[Slot])
           size == payload.hi - payload.lo
           used == IF call.op = "consume" THEN size ELSE 1
<1>1. InLoop
  BY DEF CopyPayload
<1>2. /\ copied' = payload /\ carry_over_bytes' = None
      /\ TakePacket(used, size)
  BY <1>1, LoopFacts DEF CopyPayload, Length
<1>3. size \in Nat /\ used \in Nat
  BY <1>1, LoopFacts
<1>4. payload \in Interval
  BY <1>1, LoopFacts DEF Payload, Interval
<1>5. copied'.hi = copied.hi + size
  BY <1>1, <1>2, LoopFacts
<1>6. CarryOverMeetsStream'
  <2>1. smallest_packet_number' = smallest_packet_number + 1 /\ cut' = cut
    BY <1>1, <1>2, LoopFacts DEF TakePacket, peer
  <2> QED BY <1>1, <1>2, <2>1, LoopFacts DEF CarryOverMeetsStream
<1> HIDE DEF size, used, payload
<1> QED BY <1>1, <1>2, <1>3, <1>4, <1>5, <1>6, TakePacketInv

(* The buffer is full within a payload: the rest is carried over.          *)
LEMMA SplitPayloadInv ==
  ASSUME Inv, SplitPayload
  PROVE  Inv'
<1> DEFINE payload == Payload(packets[Slot])
           remaining == call.limit - call.used
<1>1. InLoop
  BY DEF SplitPayload
<1>2. /\ copied' = [lo |-> payload.lo, hi |-> payload.lo + remaining]
      /\ carry_over_bytes' = [lo |-> payload.lo + remaining, hi |-> payload.hi]
      /\ payload.hi - payload.lo > remaining
      /\ TakePacket(remaining, remaining)
  BY DEF SplitPayload, Front, Rest, Length
<1>3. remaining \in Nat /\ call.used + remaining >= call.limit
  BY <1>1, LoopFacts DEF InLoop, Calls
<1>4. copied' \in Interval /\ carry_over_bytes' \in Interval
  BY <1>1, <1>2, <1>3, LoopFacts DEF Interval
<1>5. copied'.hi = copied.hi + remaining
  BY <1>1, <1>2, LoopFacts
<1>6. CarryOverMeetsStream'
  <2>1. smallest_packet_number' = smallest_packet_number + 1 /\ cut' = cut
    BY <1>1, <1>2, LoopFacts DEF TakePacket, peer
  <2>2. carry_over_bytes'.lo < carry_over_bytes'.hi
    BY <1>1, <1>2, <1>3, LoopFacts
  <2>3. carry_over_bytes' # None
    BY <1>4, RingAssumption
  <2> QED BY <1>1, <1>2, <2>1, <2>2, <2>3, LoopFacts DEF CarryOverMeetsStream
<1> HIDE DEF remaining, payload
<1> QED BY <1>1, <1>2, <1>3, <1>4, <1>5, <1>6, TakePacketInv

(* Every iteration takes the first packet, and one that hands out bytes    *)
(* counts against the limit.                                               *)
LEMMA LoopStep ==
  ASSUME Inv, CopyPayload \/ SplitPayload
  PROVE  /\ InLoop
         /\ \E used, bytes \in Nat :
              /\ TakePacket(used, bytes)
              /\ copied'.hi = copied.hi + bytes
              /\ Payload(packets[Slot]).hi > copied.hi => used > 0
<1> DEFINE payload == Payload(packets[Slot])
           size == payload.hi - payload.lo
           used == IF call.op = "consume" THEN size ELSE 1
           remaining == call.limit - call.used
<1>1. InLoop
  BY DEF CopyPayload, SplitPayload
<1>2. CASE CopyPayload
  <2>1. size \in Nat /\ used \in Nat /\ (payload.hi > copied.hi => used > 0)
    BY <1>1, LoopFacts
  <2>2. TakePacket(used, size) /\ copied'.hi = copied.hi + size
    BY <1>1, <1>2, LoopFacts DEF CopyPayload, Length
  <2> QED BY <1>1, <2>1, <2>2
<1>3. CASE SplitPayload
  <2>1. remaining \in Nat /\ remaining > 0
    BY <1>1, LoopFacts DEF InLoop, Calls
  <2>2. TakePacket(remaining, remaining) /\ copied'.hi = copied.hi + remaining
    BY <1>1, <1>3, LoopFacts DEF SplitPayload, Front
  <2> QED BY <1>1, <2>1, <2>2
<1> QED BY <1>2, <1>3

(* The loop ends, and the call returns what it took.                       *)
LEMMA ReturnInv ==
  ASSUME Inv, ReturnFromLoop
  PROVE  Inv'
<1> USE RingAssumption DEF Inv, RingInvariant, ReturnFromLoop, ring, peer
<1>1. TypeOK'
  <2>1. call \in Calls
    BY DEF TypeOK
  <2>2. result' \in Results
    BY <2>1 DEF Calls, Results, Result
  <2> QED BY <2>2 DEF TypeOK
<1>2. (SlotHoldsItsNumber /\ NothingLost /\ OffsetsGrow /\ CarryOverMeetsStream)'
  BY DEF SlotHoldsItsNumber, NothingLost, OffsetsGrow, CarryOverMeetsStream
<1>3. LoopInvariant'
  BY DEF LoopInvariant
<1> QED BY <1>1, <1>2, <1>3

(* consume and consume_bytes, from the carry-over or from the slots.       *)
LEMMA ConsumeInv ==
  ASSUME Inv, NEW len \in Lens, consume(len) \/ consume_bytes(len)
  PROVE  Inv'
<1>1. len \in Nat
  BY RingAssumption
<1> QED BY <1>1, ConsumePartInv, TakeCarryOverInv DEF consume, consume_bytes

(* Every step of the peer, of buffer_in_packet and of the reads.           *)
LEMMA NextInv == Inv /\ [Next]_vars => Inv'
<1> SUFFICES ASSUME Inv, [Next]_vars PROVE Inv'
  OBVIOUS
<1>1. CASE PeerSends
  <2>1. fin' \in BOOLEAN
    BY <1>1 DEF PeerSends, Inv, TypeOK
  <2>2. PICK size \in PayloadSizes : PeerAppends(size)
    BY <1>1 DEF PeerSends
  <2>3. size \in Nat
    BY RingAssumption
  <2> QED BY <2>1, <2>2, <2>3, PeerAppendsInv
<1>2. CASE PeerFins
  BY <1>2, PeerAppendsInv DEF PeerFins
<1>3. CASE \E n \in Start .. next - 1 : buffer_in_packet(n)
  BY <1>3, BufferInv
<1>4. CASE \E len \in Lens : consume(len) \/ consume_bytes(len)
  BY <1>4, ConsumeInv
<1>5. CASE CopyPayload
  BY <1>5, CopyPayloadInv
<1>6. CASE SplitPayload
  BY <1>6, SplitPayloadInv
<1>7. CASE ReturnFromLoop
  BY <1>7, ReturnInv
<1>8. CASE UNCHANGED vars
  BY <1>8, StutterInv
<1> QED BY <1>1, <1>2, <1>3, <1>4, <1>5, <1>6, <1>7, <1>8 DEF Next

(* RingInvariant holds always.                                             *)
LEMMA Invariance == Spec => []Inv
BY InitInv, NextInv, PTL DEF Spec

(* Every index the ring computes stays inside the array, for every ring    *)
(* size and every interleaving of arrivals and reads.                      *)
THEOREM TypeCorrect == Spec => []TypeOK
<1>1. Inv => TypeOK
  BY DEF Inv
<1> QED BY <1>1, Invariance, PTL

(* buffer_in_packet, consume and consume_bytes keep every packet in the    *)
(* slot of its number, lose none they accepted, and hand out bytes that    *)
(* meet: the ring's central invariant.                                     *)
THEOREM RingCorrect == Spec => []RingInvariant
<1>1. Inv => RingInvariant
  BY DEF Inv
<1> QED BY <1>1, Invariance, PTL

-----------------------------------------------------------------------------
(* Everything below smallest_packet_number has been accepted.              *)
LEMMA Contiguous ==
  ASSUME Inv
  PROVE  Start .. smallest_packet_number - 1 \subseteq accepted
BY RingAssumption DEF Inv, RingInvariant, TypeOK, NothingLost

(* A step that starts a consume call, runs its loop or lets the peer send  *)
(* leaves the last result alone.                                           *)
LEMMA ResultKept ==
  ASSUME \/ PeerSends \/ PeerFins \/ CopyPayload \/ SplitPayload \/ UNCHANGED vars
         \/ \E op, limit : TakeCarryOver(op, limit)
  PROVE  result' = result /\ accepted' = accepted
BY DEF PeerSends, PeerFins, PeerAppends, CopyPayload, SplitPayload, TakePacket, vars,
       TakeCarryOver

(* What a refusal of buffer_in_packet means, on the step that makes it.    *)
LEMMA RefusalStep ==
  ASSUME Inv, NEW n \in Start .. next - 1, buffer_in_packet(n)
  PROVE  RefusedOnlyIfAccepted'
<1> USE RingAssumption DEF Reject, Result
<1>1. CASE RejectBehind(n)
  <2>1. n \in accepted
    BY <1>1, Contiguous DEF RejectBehind, Inv, TypeOK
  <2> QED BY <1>1, <2>1 DEF RejectBehind, RefusedOnlyIfAccepted
<1>2. CASE RejectFull(n)
  BY <1>2 DEF RejectFull, RefusedOnlyIfAccepted
<1>3. CASE FillSlot(n)
  <2> DEFINE offset == n - smallest_packet_number
             index == wrap_index(smallest_packet_number_index, offset)
  <2>1. CASE packets[index] # None /\ Reject(n, "Unexpected")
    <3>1. offset \in Slots
      BY <1>3 DEF FillSlot
    <3>2. index \in Slots
      BY <3>1 DEF wrap_index, Slots, Inv, TypeOK
    <3>3. packets[index] = smallest_packet_number + offset
      BY <2>1, <3>1 DEF Inv, RingInvariant, SlotHoldsItsNumber
    <3>4. packets[index] = n
      BY <3>3 DEF Inv, TypeOK
    <3>5. n \in accepted
      BY <2>1, <3>2, <3>4 DEF Inv, RingInvariant, NothingLost
    <3> QED BY <2>1, <3>5 DEF RefusedOnlyIfAccepted
  <2>2. CASE result'.ret = "Ok"
    BY <2>2 DEF RefusedOnlyIfAccepted
  <2> QED BY <1>3, <2>1, <2>2 DEF FillSlot
<1> QED BY <1>1, <1>2, <1>3 DEF buffer_in_packet

(* buffer_in_packet refuses only what it already has: no packet of the     *)
(* window is ever mistaken for a duplicate, for any ring size.             *)
THEOREM RefusalCorrect == Spec => []RefusedOnlyIfAccepted
<1>1. Init => RefusedOnlyIfAccepted
  BY DEF Init, RefusedOnlyIfAccepted, Result
<1>2. Inv /\ RefusedOnlyIfAccepted /\ [Next]_vars => RefusedOnlyIfAccepted'
  <2> SUFFICES ASSUME Inv, RefusedOnlyIfAccepted, [Next]_vars
               PROVE  RefusedOnlyIfAccepted'
    OBVIOUS
  <2>1. CASE PeerSends \/ PeerFins \/ CopyPayload \/ SplitPayload \/ UNCHANGED vars
    BY <2>1, ResultKept DEF RefusedOnlyIfAccepted
  <2>2. CASE \E n \in Start .. next - 1 : buffer_in_packet(n)
    BY <2>2, RefusalStep
  <2>3. ASSUME NEW len, consume(len) \/ consume_bytes(len)
        PROVE  RefusedOnlyIfAccepted'
    <3>1. CASE ConsumePartOfCarryOver(len)
      BY <3>1 DEF ConsumePartOfCarryOver, RefusedOnlyIfAccepted, Result
    <3>2. CASE \E op, limit : TakeCarryOver(op, limit)
      BY <3>2, ResultKept DEF RefusedOnlyIfAccepted
    <3> QED BY <2>3, <3>1, <3>2 DEF consume, consume_bytes
  <2>4. CASE ReturnFromLoop
    BY <2>4 DEF ReturnFromLoop, RefusedOnlyIfAccepted, Result
  <2> QED BY <2>1, <2>2, <2>3, <2>4 DEF Next
<1> QED BY <1>1, <1>2, Invariance, PTL DEF Spec

(* The acknowledgement range built from a ConsumeResult names exactly the  *)
(* packets the call took, all of them received.                            *)
THEOREM ResultCorrect == Spec => []ResultCoversConsumed
<1>1. Init => ResultCoversConsumed
  BY DEF Init, ResultCoversConsumed, Result
<1>2. Inv /\ ResultCoversConsumed /\ [Next]_vars => ResultCoversConsumed'
  <2> SUFFICES ASSUME Inv, ResultCoversConsumed, [Next]_vars
               PROVE  ResultCoversConsumed'
    OBVIOUS
  <2>1. CASE PeerSends \/ PeerFins \/ UNCHANGED vars
    BY <2>1 DEF PeerSends, PeerFins, PeerAppends, vars, ring, ResultCoversConsumed
  <2>2. ASSUME NEW n, buffer_in_packet(n)
        PROVE  ResultCoversConsumed'
    BY <2>2 DEF buffer_in_packet, RejectBehind, RejectFull, FillSlot, Reject, Result,
                ResultCoversConsumed
  <2>3. ASSUME NEW len, ConsumePartOfCarryOver(len)
        PROVE  ResultCoversConsumed'
    BY <2>3 DEF ConsumePartOfCarryOver, Result, ResultCoversConsumed
  <2>4. ASSUME NEW op \in {"consume", "consume_bytes"}, NEW limit \in Nat,
               TakeCarryOver(op, limit)
        PROVE  ResultCoversConsumed'
    BY <2>4, TakeCarryOverCalls, IdleAssumption DEF ResultCoversConsumed
  <2>5. CASE CopyPayload \/ SplitPayload
    BY <2>5, LoopStep, TakePacketCall, IdleAssumption DEF ResultCoversConsumed
  <2>6. CASE ReturnFromLoop
    <3> SUFFICES ASSUME result'.num > 0, call' = Idle
                 PROVE  /\ result'.base >= Start
                        /\ result'.base + result'.num = smallest_packet_number'
                        /\ result'.base .. smallest_packet_number' - 1 \subseteq accepted'
      BY DEF ResultCoversConsumed
    <3>1. /\ call \in Calls /\ smallest_packet_number' = smallest_packet_number
          /\ accepted' = accepted
      BY <2>6 DEF ReturnFromLoop, Inv, TypeOK, ring
    <3>2. result'.num = call.ix /\ result'.base = call.base_packet_number
      BY <2>6 DEF ReturnFromLoop, Result
    <3>3. /\ call.base_packet_number >= Start
          /\ call.base_packet_number + call.ix = smallest_packet_number
      BY <2>6, <3>2 DEF ReturnFromLoop, Inv, RingInvariant, LoopInvariant
    <3>4. /\ call.base_packet_number \in Nat
          /\ smallest_packet_number \in Nat /\ Start \in Nat
      BY <3>1, RingAssumption DEF Calls, Inv, TypeOK
    <3>5. call.base_packet_number .. smallest_packet_number - 1
            \subseteq Start .. smallest_packet_number - 1
      BY <3>3, <3>4
    <3>6. call.base_packet_number .. smallest_packet_number - 1 \subseteq accepted
      BY <3>5, Contiguous
    <3> QED BY <3>1, <3>2, <3>3, <3>6
  <2>7. ASSUME NEW len \in Lens, consume(len) \/ consume_bytes(len)
        PROVE  ResultCoversConsumed'
    <3>1. len \in Nat
      BY RingAssumption
    <3> QED BY <2>3, <2>4, <2>7, <3>1 DEF consume, consume_bytes
  <2> QED BY <2>1, <2>2, <2>5, <2>6, <2>7 DEF Next
<1> QED BY <1>1, <1>2, Invariance, PTL DEF Spec

-----------------------------------------------------------------------------
(* Why peek() can be trusted when every payload has a byte: until a call   *)
(* has bytes, the packet that peek() saw is still in the first slot.       *)
PayloadsNotEmpty == \A n \in Start .. next - 1 : cut[n] < cut[n + 1]

PeekInv ==
  /\ PayloadsNotEmpty
  /\ call # Idle =>
       /\ call.used = 0 => call.ix = 0
       /\ (call.peeked /\ call.limit > 0 /\ call.used = 0) => packets[Slot] # None

(* No call, no payload.                                                    *)
LEMMA PeekInvInit == Init => PeekInv
BY RingAssumption DEF Init, PeekInv, PayloadsNotEmpty

(* A peer that has sent its fin is done.                                   *)
LEMMA FinStays ==
  ASSUME [Next]_vars, fin
  PROVE  fin'
BY Zenon DEF Next, vars, peer, PeerSends, PeerFins, buffer_in_packet, RejectBehind, RejectFull,
       FillSlot, Reject, consume, consume_bytes, ConsumePartOfCarryOver, TakeCarryOver,
       CopyPayload, SplitPayload, TakePacket, ReturnFromLoop

(* Before the fin every payload has bytes, so that a call that peeked      *)
(* copies some.                                                            *)
LEMMA PeekInvNext ==
  ASSUME Inv, ~fin => PeekInv, [Next]_vars, ~fin'
  PROVE  PeekInv'
<1> USE RingAssumption
<1> PeekInv
  BY FinStays
<1>1. CASE PeerSends
  <2>1. PICK size \in PayloadSizes : PeerAppends(size)
    BY <1>1 DEF PeerSends
  <2>2. /\ next' = next + 1 /\ next \in Start .. Last
        /\ \A n \in Start .. next : cut'[n] = cut[n]
        /\ cut'[next + 1] = cut[next] + size /\ cut[next] \in Nat
        /\ size \in Nat /\ size > 0
    BY <2>1 DEF PeerAppends, Inv, TypeOK
  <2>3. PayloadsNotEmpty'
    BY <2>2 DEF PeekInv, PayloadsNotEmpty
  <2> QED BY <2>1, <2>3 DEF PeekInv, PeerAppends, ring, Slot
<1>2. CASE PeerFins
  BY <1>2 DEF PeerFins
<1>3. ASSUME NEW n \in Start .. next - 1, buffer_in_packet(n)
      PROVE  PeekInv'
  BY <1>3 DEF buffer_in_packet, RejectBehind, RejectFull, FillSlot, Reject, peer,
              PeekInv, PayloadsNotEmpty
<1>4. ASSUME NEW len \in Lens, ConsumePartOfCarryOver(len)
      PROVE  PeekInv'
  BY <1>4 DEF ConsumePartOfCarryOver, peer, PeekInv, PayloadsNotEmpty
<1>5. ASSUME NEW op \in {"consume", "consume_bytes"}, NEW limit \in Nat,
             TakeCarryOver(op, limit)
      PROVE  PeekInv'
  <2>1. PayloadsNotEmpty'
    BY <1>5 DEF TakeCarryOver, peer, PeekInv, PayloadsNotEmpty
  <2>2. CASE carry_over_bytes = None
    <3>1. /\ call'.ix = 0 /\ call'.base = smallest_packet_number_index
          /\ call'.peeked = Peek
      BY <1>5, <2>2 DEF TakeCarryOver, EnterLoop
    <3>2. Slot' = smallest_packet_number_index /\ packets' = packets
      BY <1>5, <3>1 DEF TakeCarryOver, Slot, wrap_index, Slots, Inv, TypeOK
    <3>3. call'.peeked => packets'[Slot'] # None
      BY Zenon, <2>2, <3>1, <3>2 DEF Peek
    <3> QED BY <2>1, <3>1, <3>3 DEF PeekInv
  <2>3. CASE carry_over_bytes # None
    <3>1. Length(carry_over_bytes) \in Nat /\ Length(carry_over_bytes) > 0
      BY <2>3 DEF Inv, RingInvariant, TypeOK, CarryOverMeetsStream, Interval, Length
    <3>2. call'.used = IF op = "consume" THEN Length(carry_over_bytes) ELSE 1
      BY <1>5, <2>3 DEF TakeCarryOver, EnterLoop
    <3>3. call'.used # 0
      BY <3>1, <3>2
    <3> QED BY <2>1, <3>3 DEF PeekInv
  <2> QED BY <2>2, <2>3
<1>6. ASSUME NEW len \in Lens, consume(len) \/ consume_bytes(len)
      PROVE  PeekInv'
  <2>1. len \in Nat
    OBVIOUS
  <2> QED BY <1>4, <1>5, <1>6, <2>1 DEF consume, consume_bytes
<1>7. CASE CopyPayload \/ SplitPayload
  <2>1. InLoop
    BY <1>7, LoopStep
  <2>2. PICK used, bytes \in Nat :
          /\ TakePacket(used, bytes)
          /\ Payload(packets[Slot]).hi > copied.hi => used > 0
    BY <1>7, LoopStep
  <2>3. Payload(packets[Slot]).hi > copied.hi
    BY <2>1, LoopFacts DEF PeekInv, PayloadsNotEmpty
  <2>4. call.used \in Nat /\ call'.used = call.used + used
    BY <2>1, <2>2, LoopFacts, TakePacketCall DEF Calls
  <2>5. call'.used # 0
    BY <2>2, <2>3, <2>4
  <2> QED BY <2>2, <2>5 DEF PeekInv, PayloadsNotEmpty, TakePacket, peer
<1>8. CASE ReturnFromLoop
  BY <1>8 DEF ReturnFromLoop, PeekInv, PayloadsNotEmpty, peer
<1>9. CASE UNCHANGED vars
  BY <1>9 DEF vars, ring, peer, PeekInv, PayloadsNotEmpty, Slot
<1> QED BY <1>1, <1>2, <1>3, <1>6, <1>7, <1>8, <1>9 DEF Next

(* As long as no Fin is routed into the ring, a consume call with room     *)
(* that follows an Ok(()) of peek() returns bytes: the unwrap in           *)
(* ReaderRxChannel::read cannot fail on this account.                      *)
THEOREM PeekCorrect == Spec => PeekPromisesBytes
<1> DEFINE PInv == ~fin => PeekInv
<1> DEFINE Kept == (~fin /\ call # Idle /\ call' = Idle /\ call.peeked /\ call.limit > 0)
                     => result'.ret # "BufferEmptyError"
<1>1. Inv /\ PInv /\ [Next]_vars => PInv'
  BY PeekInvNext
<1>2. Inv /\ PInv /\ [Next]_vars => [Kept]_vars
  <2> SUFFICES ASSUME Inv, PeekInv, Next, call # Idle, call' = Idle,
                      call.peeked, call.limit > 0
               PROVE  result'.ret # "BufferEmptyError"
    OBVIOUS
  <2>1. ReturnFromLoop
    <3>1. ~ (PeerSends \/ PeerFins)
      BY DEF PeerSends, PeerFins, PeerAppends
    <3>2. ~ (CopyPayload \/ SplitPayload)
      BY Zenon, LoopStep, TakePacketCall, IdleAssumption
    <3> QED BY <3>1, <3>2 DEF Next, buffer_in_packet, consume, consume_bytes,
                 ConsumePartOfCarryOver, TakeCarryOver
  <2>2. call \in Calls
    BY DEF Inv, TypeOK
  <2>3. call.used # 0
    <3> SUFFICES ASSUME call.used = 0 PROVE FALSE
      OBVIOUS
    <3>1. call.ix = 0 /\ packets[Slot] # None
      BY DEF PeekInv
    <3>2. InLoop
      BY <2>2, <3>1, RingAssumption DEF InLoop, Calls
    <3> QED BY <2>1, <3>2 DEF ReturnFromLoop
  <2> QED BY <2>1, <2>3 DEF ReturnFromLoop, Result
<1>3. Init => PInv
  BY PeekInvInit
<1> HIDE DEF PInv
<1> QED BY <1>1, <1>2, <1>3, Invariance, PTL DEF Spec, PeekPromisesBytes

-----------------------------------------------------------------------------
(* A delivery of the byte stream: it begins where the last one ended and   *)
(* stays within packets that have all been accepted.                       *)
LEMMA DeliverStep ==
  ASSUME Inv, NEW n \in Start .. next, Start .. n - 1 \subseteq accepted,
         NEW end \in copied.hi .. cut[n],
         copied' = [lo |-> copied.hi, hi |-> end],
         UNCHANGED <<next, cut, accepted>>
  PROVE  Stream!Next
BY DEF Stream!Next, Stream!Deliver

(* Every step of the ring is a step of the byte stream, or none.           *)
LEMMA StreamStep ==
  ASSUME Inv, [Next]_vars
  PROVE  [Stream!Next]_(Stream!svars)
<1> USE RingAssumption
<1>1. ASSUME NEW size \in Nat, PeerAppends(size)
      PROVE  Stream!Next
  <2>1. /\ next' = next + 1 /\ next \in Start .. Last
        /\ cut[next] \in Nat
        /\ cut' = [n \in Start .. next + 1 |->
                     IF n = next + 1 THEN cut[next] + size ELSE cut[n]]
    BY <1>1 DEF PeerAppends, Inv, TypeOK
  <2>2. cut'[next + 1] = cut[next] + size
    BY <2>1
  <2>3. cut' = [n \in Start .. next + 1 |->
                  IF n = next + 1 THEN cut'[n] ELSE cut[n]]
    BY <2>1, <2>2
  <2>4. cut'[next + 1] \in Nat /\ cut'[next + 1] >= cut[next]
    BY <2>1, <2>2
  <2>5. UNCHANGED <<accepted, copied>>
    BY <1>1 DEF PeerAppends
  <2> QED BY <2>1, <2>3, <2>4, <2>5 DEF Stream!Next, Stream!Append
<1>2. CASE PeerSends \/ PeerFins
  BY <1>1, <1>2 DEF PeerSends, PeerFins
<1>3. ASSUME NEW n \in Start .. next - 1, buffer_in_packet(n)
      PROVE  [Stream!Next]_(Stream!svars)
  <2>1. /\ accepted' = accepted \/ accepted' = accepted \cup {n}
        /\ UNCHANGED <<next, cut, copied>>
    BY <1>3 DEF buffer_in_packet, RejectBehind, RejectFull, FillSlot, Reject, peer
  <2> QED BY <2>1 DEF Stream!Next, Stream!Accept, Stream!svars
<1>4. ASSUME NEW len \in Nat, ConsumePartOfCarryOver(len)
      PROVE  Stream!Next
  <2> DEFINE end == carry_over_bytes.lo + len
  <2>1. /\ carry_over_bytes \in Interval
        /\ carry_over_bytes.hi - carry_over_bytes.lo > len
        /\ copied' = [lo |-> carry_over_bytes.lo, hi |-> end]
        /\ UNCHANGED <<next, cut, accepted>>
    BY <1>4 DEF ConsumePartOfCarryOver, Front, Length, Inv, TypeOK, peer
  <2>2. /\ copied.hi = carry_over_bytes.lo
        /\ carry_over_bytes.hi = cut[smallest_packet_number]
    BY <1>4 DEF ConsumePartOfCarryOver, Inv, RingInvariant, CarryOverMeetsStream
  <2>3. end \in copied.hi .. cut[smallest_packet_number]
    BY <2>1, <2>2 DEF Interval
  <2>4. smallest_packet_number \in Start .. next
    BY DEF Inv, TypeOK
  <2> HIDE DEF end
  <2> QED BY <2>1, <2>2, <2>3, <2>4, Contiguous, DeliverStep
<1>5. ASSUME NEW op, NEW limit, TakeCarryOver(op, limit)
      PROVE  [Stream!Next]_(Stream!svars)
  <2>1. UNCHANGED <<next, cut, accepted>>
    BY <1>5 DEF TakeCarryOver, peer
  <2>2. CASE carry_over_bytes = None
    BY <1>5, <2>1, <2>2 DEF TakeCarryOver, Stream!svars
  <2>3. CASE carry_over_bytes # None
    <3>1. /\ copied' = carry_over_bytes /\ carry_over_bytes \in Interval
          /\ copied.hi = carry_over_bytes.lo
          /\ carry_over_bytes.lo < carry_over_bytes.hi
          /\ carry_over_bytes.hi = cut[smallest_packet_number]
      BY <1>5, <2>3 DEF TakeCarryOver, Inv, RingInvariant, CarryOverMeetsStream, TypeOK
    <3>2. copied' = [lo |-> copied.hi, hi |-> carry_over_bytes.hi]
      BY <3>1 DEF Interval
    <3>3. /\ carry_over_bytes.hi \in copied.hi .. cut[smallest_packet_number]
          /\ smallest_packet_number \in Start .. next
      BY <3>1 DEF Interval, Inv, TypeOK
    <3> QED BY <2>1, <3>2, <3>3, Contiguous, DeliverStep
  <2> QED BY <2>2, <2>3
<1>6. ASSUME NEW len \in Lens, consume(len) \/ consume_bytes(len)
      PROVE  [Stream!Next]_(Stream!svars)
  <2>1. len \in Nat
    OBVIOUS
  <2> QED BY <1>4, <1>5, <1>6, <2>1 DEF consume, consume_bytes
<1>7. CASE CopyPayload \/ SplitPayload
  <2>1. InLoop
    BY <1>7, LoopStep
  <2>2. UNCHANGED <<next, cut, accepted>>
    BY <1>7 DEF CopyPayload, SplitPayload, TakePacket, peer
  <2>3. /\ smallest_packet_number + 1 \in Start .. next
        /\ Start .. (smallest_packet_number + 1) - 1 \subseteq accepted
    BY <2>1, LoopFacts, Contiguous DEF Inv, TypeOK
  <2>4. \E end \in copied.hi .. cut[smallest_packet_number + 1] :
          copied' = [lo |-> copied.hi, hi |-> end]
    <3>1. CASE CopyPayload
      BY <2>1, <3>1, LoopFacts DEF CopyPayload, Payload
    <3>2. CASE SplitPayload
      <4> DEFINE end == copied.hi + (call.limit - call.used)
      <4>1. copied' = [lo |-> copied.hi, hi |-> end]
        BY <2>1, <3>2, LoopFacts DEF SplitPayload, Front
      <4>2. end \in copied.hi .. cut[smallest_packet_number + 1]
        BY <2>1, <3>2, LoopFacts DEF SplitPayload, Length, InLoop, Calls
      <4> QED BY <4>1, <4>2
    <3> QED BY <1>7, <3>1, <3>2
  <2> QED BY <2>2, <2>3, <2>4, DeliverStep
<1>8. CASE ReturnFromLoop \/ UNCHANGED vars
  BY <1>8 DEF ReturnFromLoop, vars, peer, Stream!svars
<1> QED BY <1>2, <1>3, <1>6, <1>7, <1>8 DEF Next

(* The ring implements the reliable byte stream: bytes reach the           *)
(* application in order, each once, and never before a gap is filled.      *)
THEOREM RingImplementsStream == Spec => StreamSpec
<1>1. Init => Stream!Init
  BY DEF Init, Stream!Init
<1>2. Inv /\ [Next]_vars => [Stream!Next]_(Stream!svars)
  BY StreamStep
<1> QED BY <1>1, <1>2, Invariance, PTL DEF Spec, StreamSpec, Stream!Spec
=============================================================================
