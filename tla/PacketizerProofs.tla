-------------------------- MODULE PacketizerProofs --------------------------
(***************************************************************************)
(* consume_data_into for every payload size, every number of packets in a  *)
(* datagram and every way the stream was cut into sends.                   *)
(*                                                                         *)
(* What the code relies on without saying so is Budget: up to the last     *)
(* packet of a datagram every packet is full, so that bytes_remaining is a *)
(* multiple of a full packet.  If it is above zero there is room for a     *)
(* header and a whole payload; so no packet comes out empty and no         *)
(* subtraction wraps.                                                      *)
(*                                                                         *)
(* The two loops together take what module Datagrams states in closed      *)
(* form: Greedy relates what was packed, the packets and what is left in   *)
(* hand at each place of the call.                                         *)
(***************************************************************************)
EXTENDS Packetizer, WellFoundedInduction, TLAPS

\* The larger leaves take longer than the provers' default limits.
USE SMTT(30), ZenonT(30)

\* The room after n full packets, and what they carry.
Room(n) == (MAX_PACKETS - n) * (HEADER + MAX_PAYLOAD)
Load(n) == n * MAX_PAYLOAD

Types ==
  /\ queue \in Seq(Intervals) /\ packets \in Seq(Intervals)
  /\ running_payload \in Intervals
  /\ end \in Nat /\ pc \in {"Idle", "Merge", "Fill"}

Joined(s) == \A i \in 1 .. Len(s) - 1 : s[i].hi = s[i + 1].lo

\* Where the queue begins.
From == IF queue = <<>> THEN end ELSE queue[1].lo

\* Packets, running payload and queue, taken one by one.
Tied ==
  /\ Joined(queue) /\ Joined(packets)
  /\ queue # <<>> => queue[Len(queue)].hi = end
  /\ pc # "Idle" => running_payload.hi = From
  /\ packets # <<>> =>
       packets[Len(packets)].hi = IF pc = "Idle" THEN From ELSE running_payload.lo

FullSoFar ==
  /\ \A i \in 1 .. Len(packets) : Length(packets[i]) = MAX_PAYLOAD
  /\ bytes_remaining = Room(Len(packets))
  /\ packed = Load(Len(packets))

Budget ==
  /\ Len(packets) <= MAX_PACKETS
  /\ bytes_remaining \in 0 .. MAX_BYTES
  /\ packed \in 0 .. MAX_PACKETS * MAX_PAYLOAD
  /\ FullSoFar \/ (pc # "Merge" /\ Length(running_payload) = 0)

IInv == Types /\ Tied /\ PacketsWellFormed /\ Budget

-----------------------------------------------------------------------------
(* The sizes are positive.                                                 *)
LEMMA Sizes ==
  /\ MAX_PAYLOAD \in Nat /\ MAX_PAYLOAD > 0
  /\ MAX_PACKETS \in Nat /\ MAX_PACKETS > 0
  /\ HEADER \in Nat /\ HEADER > 0
BY DatagramAssumption, HeaderAssumption

(* Room and load of n packets.                                             *)
LEMMA RoomFacts ==
  ASSUME NEW n \in Nat, n <= MAX_PACKETS
  PROVE  /\ Room(n) \in 0 .. MAX_BYTES /\ Load(n) \in 0 .. MAX_PACKETS * MAX_PAYLOAD
         /\ n = MAX_PACKETS => Room(n) = 0
         /\ n < MAX_PACKETS => /\ Room(n) >= HEADER + MAX_PAYLOAD
                               /\ Room(n + 1) = Room(n) - (HEADER + MAX_PAYLOAD)
                               /\ Load(n + 1) = Load(n) + MAX_PAYLOAD
                               /\ Load(n) + MAX_PAYLOAD <= MAX_PACKETS * MAX_PAYLOAD
<1> DEFINE U == HEADER + MAX_PAYLOAD
<1> DEFINE k == MAX_PACKETS - n
<1>1. U \in Nat /\ k \in Nat /\ MAX_PACKETS = k + n
  BY Sizes
<1>2. Room(n) = k * U /\ MAX_BYTES = MAX_PACKETS * U /\ Room(n + 1) = (k - 1) * U
  BY Sizes DEF Room, MAX_BYTES
<1>3. /\ MAX_PACKETS * U = k * U + n * U /\ (k - 1) * U = k * U - U
      /\ k * U \in Nat /\ n * U \in Nat
      /\ k = 0 => k * U = 0
      /\ k > 0 => k * U >= U
  <2> HIDE DEF U, k
  <2> QED BY <1>1, Sizes
<1>4. /\ MAX_PACKETS * MAX_PAYLOAD = k * MAX_PAYLOAD + n * MAX_PAYLOAD
      /\ (n + 1) * MAX_PAYLOAD = n * MAX_PAYLOAD + MAX_PAYLOAD
      /\ k * MAX_PAYLOAD \in Nat /\ n * MAX_PAYLOAD \in Nat
      /\ k > 0 => k * MAX_PAYLOAD >= MAX_PAYLOAD
  <2> HIDE DEF k
  <2> QED BY <1>1, Sizes
<1>5. n = MAX_PACKETS <=> k = 0
  BY Sizes
<1>6. n < MAX_PACKETS <=> k > 0
  BY Sizes
<1>7. U = HEADER + MAX_PAYLOAD
  OBVIOUS
<1> HIDE DEF U, k
<1>8. Room(n) \in 0 .. MAX_BYTES
  BY <1>2, <1>3
<1>9. Load(n) \in 0 .. MAX_PACKETS * MAX_PAYLOAD
  BY <1>4 DEF Load
<1>10. n < MAX_PACKETS => /\ Room(n) >= HEADER + MAX_PAYLOAD
                          /\ Room(n + 1) = Room(n) - (HEADER + MAX_PAYLOAD)
  BY <1>2, <1>3, <1>6, <1>7
<1>11. n < MAX_PACKETS => /\ Load(n + 1) = Load(n) + MAX_PAYLOAD
                          /\ Load(n) + MAX_PAYLOAD <= MAX_PACKETS * MAX_PAYLOAD
  <2>1. Load(n) = n * MAX_PAYLOAD /\ Load(n + 1) = (n + 1) * MAX_PAYLOAD
    BY DEF Load
  <2> QED BY <1>4, <1>6, <2>1, Sizes
<1>12. n = MAX_PACKETS => Room(n) = 0
  BY <1>2, <1>3, <1>5
<1> QED BY <1>8, <1>9, <1>10, <1>11, <1>12

(* How much of a payload goes into one packet: all of it, or a full one.   *)
LEMMA EmitTakes ==
  ASSUME Types, Budget, FullSoFar, NEW payload \in Intervals, Length(payload) > 0,
         bytes_remaining >= HEADER, Emit(payload)
  PROVE  /\ Len(packets) < MAX_PACKETS
         /\ bytes_remaining = Room(Len(packets))
         /\ bytes_remaining >= HEADER + MAX_PAYLOAD
         /\ \E take \in Nat :
              /\ take > 0 /\ take <= MAX_PAYLOAD /\ take <= Length(payload)
              /\ Length(payload) >= MAX_PAYLOAD => take = MAX_PAYLOAD
              /\ Length(payload) < MAX_PAYLOAD => take = Length(payload)
              /\ packets' = Append(packets, [lo |-> payload.lo, hi |-> payload.lo + take])
              /\ running_payload' = [lo |-> payload.lo + take, hi |-> payload.hi]
              /\ bytes_remaining' = bytes_remaining - (take + HEADER)
              /\ packed' = packed + take
<1> DEFINE n == Len(packets)
<1> DEFINE take == IF Length(payload) <= MAX_PAYLOAD THEN Length(payload) ELSE MAX_PAYLOAD
<1>1. n \in Nat /\ n <= MAX_PACKETS /\ packets \in Seq(Intervals)
  BY DEF Types, Budget
<1>2. payload.lo \in Nat /\ payload.hi \in Nat /\ Length(payload) = payload.hi - payload.lo
  BY DEF Intervals, Length
<1>3. n < MAX_PACKETS
  BY <1>1, RoomFacts, Sizes DEF FullSoFar
<1>4. /\ bytes_remaining = Room(n) /\ bytes_remaining >= HEADER + MAX_PAYLOAD
      /\ bytes_remaining \in Nat
  BY <1>1, <1>3, RoomFacts, Sizes DEF FullSoFar, Budget
<1>5. Least(Length(payload), Least(MAX_PAYLOAD, bytes_remaining - HEADER)) = take
  BY <1>2, <1>4, Sizes DEF Least
<1>6. /\ take \in Nat /\ take > 0 /\ take <= MAX_PAYLOAD /\ take <= Length(payload)
      /\ Length(payload) >= MAX_PAYLOAD => take = MAX_PAYLOAD
      /\ Length(payload) < MAX_PAYLOAD => take = Length(payload)
  BY <1>2, Sizes
<1> HIDE DEF take
<1>7. /\ packets' = Append(packets, [lo |-> payload.lo, hi |-> payload.lo + take])
      /\ running_payload' = [lo |-> payload.lo + take, hi |-> payload.hi]
      /\ bytes_remaining' = bytes_remaining - (take + HEADER)
      /\ packed' = packed + take
  BY <1>5 DEF Emit
<1> QED BY <1>3, <1>4, <1>6, <1>7

(* One packet more: written from a payload that follows the packets before *)
(* it, it is full, or it is the last one and holds the whole payload.      *)
LEMMA EmitStep ==
  ASSUME Types, Budget, PacketsWellFormed, Joined(packets), FullSoFar,
         NEW payload \in Intervals, Length(payload) > 0, bytes_remaining >= HEADER,
         packets # <<>> => packets[Len(packets)].hi = payload.lo,
         Emit(payload)
  PROVE  /\ packets' \in Seq(Intervals) /\ packets' # <<>>
         /\ running_payload' \in Intervals /\ running_payload'.hi = payload.hi
         /\ Joined(packets)' /\ packets'[Len(packets')].hi = running_payload'.lo
         /\ PacketsWellFormed'
         /\ Len(packets') <= MAX_PACKETS
         /\ bytes_remaining' \in 0 .. MAX_BYTES
         /\ packed' \in 0 .. MAX_PACKETS * MAX_PAYLOAD
         /\ FullSoFar' \/ (Length(payload) < MAX_PAYLOAD /\ Length(running_payload)' = 0)
<1> DEFINE n == Len(packets)
<1>1. n \in Nat /\ n <= MAX_PACKETS /\ packets \in Seq(Intervals) /\ bytes_remaining \in Nat
  BY DEF Types, Budget
<1>2. payload.lo \in Nat /\ payload.hi \in Nat /\ Length(payload) = payload.hi - payload.lo
  BY DEF Intervals, Length
<1>3. n < MAX_PACKETS
  BY EmitTakes
<1>4. bytes_remaining = Room(n) /\ bytes_remaining >= HEADER + MAX_PAYLOAD /\ bytes_remaining \in Nat
  BY <1>1, EmitTakes
<1>5. PICK take \in Nat :
        /\ take > 0 /\ take <= MAX_PAYLOAD /\ take <= Length(payload)
        /\ Length(payload) >= MAX_PAYLOAD => take = MAX_PAYLOAD
        /\ Length(payload) < MAX_PAYLOAD => take = Length(payload)
        /\ packets' = Append(packets, [lo |-> payload.lo, hi |-> payload.lo + take])
        /\ running_payload' = [lo |-> payload.lo + take, hi |-> payload.hi]
        /\ bytes_remaining' = bytes_remaining - (take + HEADER)
        /\ packed' = packed + take
  BY EmitTakes
<1> DEFINE new == [lo |-> payload.lo, hi |-> payload.lo + take]
<1>6. /\ take \in Nat /\ take > 0 /\ take <= MAX_PAYLOAD /\ take <= Length(payload)
      /\ Length(payload) >= MAX_PAYLOAD => take = MAX_PAYLOAD
      /\ Length(payload) < MAX_PAYLOAD => take = Length(payload)
  BY <1>5
<1>7. /\ packets' = Append(packets, new)
      /\ running_payload' = [lo |-> payload.lo + take, hi |-> payload.hi]
      /\ bytes_remaining' = bytes_remaining - (take + HEADER)
      /\ packed' = packed + take
  BY <1>5
<1>8. new \in Intervals /\ new.lo = payload.lo /\ new.hi = payload.lo + take /\ Length(new) = take
  BY <1>2, <1>6 DEF Intervals, Length
<1>9. /\ running_payload' \in Intervals /\ running_payload'.hi = payload.hi
      /\ running_payload'.lo = payload.lo + take
      /\ Length(running_payload)' = Length(payload) - take
  BY <1>2, <1>6, <1>7 DEF Intervals, Length
<1> HIDE DEF new
<1>10. /\ packets' \in Seq(Intervals) /\ Len(packets') = n + 1 /\ packets'[n + 1] = new
       /\ \A i \in 1 .. n : packets'[i] = packets[i]
  BY <1>1, <1>7, <1>8
<1>11. Joined(packets)'
  BY <1>1, <1>8, <1>10 DEF Joined
<1>12. PacketsWellFormed'
  BY <1>1, <1>6, <1>8, <1>10, Sizes DEF PacketsWellFormed, FullSoFar, Length
<1>13. bytes_remaining' \in 0 .. MAX_BYTES
  <2>1. bytes_remaining <= MAX_BYTES /\ MAX_BYTES \in Int
    BY <1>4, Sizes DEF Budget, MAX_BYTES
  <2> QED BY <1>4, <1>6, <1>7, <2>1, Sizes
<1>14. packed' \in 0 .. MAX_PACKETS * MAX_PAYLOAD
  <2>1. packed = Load(n) /\ packed \in Nat /\ Load(n) + MAX_PAYLOAD <= MAX_PACKETS * MAX_PAYLOAD
    BY <1>1, <1>3, RoomFacts, Sizes DEF FullSoFar, Budget
  <2>2. MAX_PACKETS * MAX_PAYLOAD \in Nat
    BY Sizes
  <2> QED BY <1>6, <1>7, <2>1, <2>2, Sizes
<1>15. CASE Length(payload) >= MAX_PAYLOAD
  <2>1. Room(n + 1) = Room(n) - (HEADER + MAX_PAYLOAD) /\ Load(n + 1) = Load(n) + MAX_PAYLOAD
    BY <1>1, <1>3, RoomFacts
  <2>2. bytes_remaining' = Room(n + 1) /\ packed' = Load(n + 1)
    BY <1>4, <1>6, <1>7, <1>15, <2>1, Sizes DEF FullSoFar
  <2>3. \A i \in 1 .. n + 1 : Length(packets[i])' = MAX_PAYLOAD
    BY <1>1, <1>6, <1>8, <1>10, <1>15 DEF FullSoFar, Length
  <2>4. FullSoFar'
    BY <1>10, <2>2, <2>3 DEF FullSoFar, Length
  <2> QED BY <1>1, <1>3, <1>8, <1>9, <1>10, <1>11, <1>12, <1>13, <1>14, <2>4, Sizes
<1>16. CASE Length(payload) < MAX_PAYLOAD
  <2>1. Length(running_payload)' = 0
    BY <1>2, <1>6, <1>9, <1>16
  <2> QED BY <1>1, <1>3, <1>8, <1>9, <1>10, <1>11, <1>12, <1>13, <1>14, <1>16, <2>1, Sizes
<1> QED BY <1>2, <1>15, <1>16, Sizes

-----------------------------------------------------------------------------
(* The empty sequence is the one of length 0.                              *)
LEMMA NoLength == ASSUME NEW S, NEW s \in Seq(S) PROVE s = <<>> <=> Len(s) = 0
OBVIOUS

(* Head and tail of the queue.                                             *)
LEMMA QueueFacts ==
  ASSUME Types, Joined(queue), queue # <<>>, queue[Len(queue)].hi = end
  PROVE  /\ Head(queue) \in Intervals /\ Head(queue) = queue[1]
         /\ Tail(queue) \in Seq(Intervals) /\ Joined(Tail(queue))
         /\ Tail(queue) = <<>> => Head(queue).hi = end
         /\ Tail(queue) # <<>> => /\ Head(queue).hi = Tail(queue)[1].lo
                                  /\ Tail(queue)[Len(Tail(queue))].hi = end
<1>1. queue \in Seq(Intervals) /\ Len(queue) \in Nat /\ Len(queue) > 0
  BY DEF Types
<1>2. /\ Head(queue) = queue[1] /\ queue[1] \in Intervals
      /\ Tail(queue) \in Seq(Intervals) /\ Len(Tail(queue)) = Len(queue) - 1
      /\ \A i \in 1 .. Len(queue) - 1 : Tail(queue)[i] = queue[i + 1]
  BY <1>1
<1>3. Joined(Tail(queue))
  BY <1>1, <1>2 DEF Joined
<1>4. Tail(queue) = <<>> <=> Len(queue) = 1
  <2> DEFINE t == Tail(queue)
  <2>1. t \in Seq(Intervals) /\ Len(t) = Len(queue) - 1
    BY <1>2
  <2> HIDE DEF t
  <2>2. t = <<>> <=> Len(queue) = 1
    BY <1>1, <2>1, NoLength
  <2> QED BY <2>2 DEF t
<1> QED BY <1>1, <1>2, <1>3, <1>4 DEF Joined

(* A datagram begins with no packets and all of the room.                  *)
LEMMA FreshDatagram ==
  /\ Room(0) = MAX_BYTES /\ Load(0) = 0
  /\ 0 \in 0 .. MAX_PACKETS * MAX_PAYLOAD /\ MAX_BYTES \in 0 .. MAX_BYTES
BY Sizes DEF Room, Load, MAX_BYTES

(* The invariant holds at the start, whatever is queued.                   *)
LEMMA InitIInv == Init => IInv
<1> SUFFICES ASSUME Init
             PROVE  IInv
  OBVIOUS
<1>1. /\ queue \in Seq(Intervals) /\ Joined(queue) /\ packets = <<>> /\ pc = "Idle"
      /\ end = IF queue = <<>> THEN 0 ELSE queue[Len(queue)].hi
  BY QueuesAssumption DEF Init, Joined
<1>2. running_payload \in Intervals /\ Length(running_payload) = 0
  BY DEF Init, Intervals, Length
<1>3. queue # <<>> => queue[Len(queue)] \in Intervals /\ queue[Len(queue)].hi \in Nat
  BY <1>1 DEF Intervals
<1>4. Types
  BY <1>1, <1>2, <1>3 DEF Types
<1>5. Tied
  BY <1>1 DEF Tied, Joined
<1>6. PacketsWellFormed
  BY <1>1 DEF PacketsWellFormed
<1>7. Budget
  BY <1>1, <1>2, FreshDatagram, Sizes DEF Init, Budget
<1> QED BY <1>4, <1>5, <1>6, <1>7 DEF IInv

(* Every iteration of the two loops, and the return, preserves it.         *)
LEMMA StepIInv == IInv /\ [Next]_vars => IInv'
<1> SUFFICES ASSUME IInv, [Next]_vars
             PROVE  IInv'
  OBVIOUS
<1> Types /\ Tied /\ PacketsWellFormed /\ Budget
  BY DEF IInv
<1>1. CASE consume_data_into
  <2>1. /\ queue # <<>> /\ queue' = Tail(queue) /\ running_payload' = Head(queue)
        /\ packets' = <<>> /\ pc' = "Merge" /\ end' = end
        /\ bytes_remaining' = MAX_BYTES /\ packed' = 0
    BY <1>1 DEF consume_data_into
  <2>2. /\ Head(queue) \in Intervals /\ Head(queue) = queue[1]
        /\ Tail(queue) \in Seq(Intervals) /\ Joined(Tail(queue))
        /\ Tail(queue) = <<>> => Head(queue).hi = end
        /\ Tail(queue) # <<>> => /\ Head(queue).hi = Tail(queue)[1].lo
                                 /\ Tail(queue)[Len(Tail(queue))].hi = end
    BY <2>1, QueueFacts DEF Tied
  <2>3. Types'
    BY <2>1, <2>2 DEF Types
  <2>4. Tied'
    BY <2>1, <2>2 DEF Tied, Joined, From
  <2>5. PacketsWellFormed'
    BY <2>1 DEF PacketsWellFormed
  <2>6. Budget'
    BY <2>1, FreshDatagram, Sizes DEF Budget, FullSoFar
  <2> QED BY <2>3, <2>4, <2>5, <2>6 DEF IInv
<1>2. ASSUME NEW payload \in Intervals, Length(payload) > 0, Emit(payload),
             pc # "Idle", pc' = pc, end' = end, queue' \in Seq(Intervals),
             bytes_remaining >= HEADER, FullSoFar,
             payload.lo = running_payload.lo, payload.hi = From',
             Joined(queue)', queue' # <<>> => queue'[Len(queue')].hi = end,
             pc = "Merge" => Length(payload) >= MAX_PAYLOAD
      PROVE  IInv'
  <2>1. packets # <<>> => packets[Len(packets)].hi = payload.lo
    BY <1>2 DEF Tied
  <2>2. /\ packets' \in Seq(Intervals) /\ packets' # <<>>
        /\ running_payload' \in Intervals /\ running_payload'.hi = payload.hi
        /\ Joined(packets)' /\ packets'[Len(packets')].hi = running_payload'.lo
        /\ PacketsWellFormed'
        /\ Len(packets') <= MAX_PACKETS
        /\ bytes_remaining' \in 0 .. MAX_BYTES
        /\ packed' \in 0 .. MAX_PACKETS * MAX_PAYLOAD
        /\ FullSoFar' \/ (Length(payload) < MAX_PAYLOAD /\ Length(running_payload)' = 0)
    BY <1>2, <2>1, EmitStep DEF Tied
  <2>3. Types'
    BY <1>2, <2>2 DEF Types
  <2>4. Tied'
    BY <1>2, <2>2 DEF Tied
  <2>5. Length(payload) \in Nat
    BY <1>2 DEF Intervals, Length
  <2>6. Budget'
    BY <1>2, <2>2, <2>5, Sizes DEF Budget
  <2> QED BY <2>2, <2>3, <2>4, <2>6 DEF IInv
<1>3. CASE EmitFull
  <2>1. /\ pc = "Merge" /\ bytes_remaining > HEADER /\ Length(running_payload) >= MAX_PAYLOAD
        /\ Emit(running_payload) /\ UNCHANGED <<queue, end, pc>>
    BY <1>3 DEF EmitFull, Merging
  <2>2. /\ FullSoFar /\ running_payload \in Intervals /\ queue \in Seq(Intervals)
        /\ bytes_remaining \in Int /\ Length(running_payload) \in Int
    BY <2>1 DEF Budget, Types, Intervals, Length
  <2>3. From' = From /\ Joined(queue)' = Joined(queue)
    BY <2>1 DEF From, Joined
  <2> QED BY <1>2, <2>1, <2>2, <2>3, Sizes DEF Tied
<1>4. CASE MergeNext
  <2> DEFINE merged == [lo |-> running_payload.lo, hi |-> Head(queue).hi]
  <2>1. /\ pc = "Merge" /\ queue # <<>> /\ bytes_remaining > HEADER
        /\ queue' = Tail(queue) /\ UNCHANGED <<end, pc>>
        /\ \/ Length(merged) > MAX_PAYLOAD /\ Emit(merged)
           \/ running_payload' = merged /\ UNCHANGED <<bytes_remaining, packets, packed>>
    BY <1>4 DEF MergeNext, Merging
  <2>2. /\ Head(queue) \in Intervals /\ Head(queue) = queue[1]
        /\ Tail(queue) \in Seq(Intervals) /\ Joined(Tail(queue))
        /\ Tail(queue) = <<>> => Head(queue).hi = end
        /\ Tail(queue) # <<>> => /\ Head(queue).hi = Tail(queue)[1].lo
                                 /\ Tail(queue)[Len(Tail(queue))].hi = end
    BY <2>1, QueueFacts DEF Tied
  <2>3. /\ merged \in Intervals /\ merged.lo = running_payload.lo /\ merged.hi = Head(queue).hi
        /\ Length(merged) \in Nat
    <3>1. /\ running_payload.lo \in Nat /\ running_payload.hi \in Nat
          /\ running_payload.lo <= running_payload.hi
      BY DEF Types, Intervals
    <3>2. /\ Head(queue).lo \in Nat /\ Head(queue).hi \in Nat /\ Head(queue).lo <= Head(queue).hi
      BY <2>2 DEF Intervals
    <3>3. running_payload.hi = Head(queue).lo
      BY <2>1, <2>2 DEF Tied, From
    <3> QED BY <3>1, <3>2, <3>3 DEF Intervals, Length
  <2>4. merged.hi = From' /\ Joined(queue)' /\ queue' \in Seq(Intervals)
        /\ (queue' # <<>> => queue'[Len(queue')].hi = end)
    BY <2>1, <2>2, <2>3 DEF From, Joined
  <2>5. FullSoFar /\ bytes_remaining \in Int
    BY <2>1 DEF Budget
  <2> HIDE DEF merged
  <2>6. CASE Length(merged) > MAX_PAYLOAD /\ Emit(merged)
    BY <1>2, <2>1, <2>3, <2>4, <2>5, <2>6, Sizes
  <2>7. CASE running_payload' = merged /\ UNCHANGED <<bytes_remaining, packets, packed>>
    <3>1. Types'
      BY <2>1, <2>3, <2>4, <2>7 DEF Types
    <3>2. Tied'
      BY <2>1, <2>3, <2>4, <2>7 DEF Tied, Joined
    <3>3. PacketsWellFormed'
      BY <2>7 DEF PacketsWellFormed, Length
    <3>4. Budget'
      BY <2>5, <2>7 DEF Budget, FullSoFar, Length
    <3> QED BY <3>1, <3>2, <3>3, <3>4 DEF IInv
  <2> QED BY <2>1, <2>6, <2>7
<1>5. CASE LeaveMerge
  <2>1. /\ pc = "Merge" /\ pc' = "Fill"
        /\ UNCHANGED <<queue, running_payload, bytes_remaining, packets, packed, end>>
    BY <1>5 DEF LeaveMerge
  <2>2. Types' /\ PacketsWellFormed'
    BY <2>1 DEF Types, PacketsWellFormed, Length
  <2>3. Tied'
    BY <2>1 DEF Tied, Joined, From
  <2>4. Budget'
    BY <2>1 DEF Budget, FullSoFar, Length
  <2> QED BY <2>2, <2>3, <2>4 DEF IInv
<1>6. CASE EmitRest
  <2>1. /\ pc = "Fill" /\ Length(running_payload) > 0 /\ bytes_remaining >= HEADER
        /\ Emit(running_payload) /\ UNCHANGED <<queue, end, pc>>
    BY <1>6 DEF EmitRest, Filling
  <2>2. /\ FullSoFar /\ running_payload \in Intervals /\ queue \in Seq(Intervals)
    BY <2>1 DEF Budget, Types
  <2>3. From' = From /\ Joined(queue)' = Joined(queue)
    BY <2>1 DEF From, Joined
  <2> QED BY <1>2, <2>1, <2>2, <2>3 DEF Tied
<1>7. CASE Return
  <2>1. /\ pc = "Fill" /\ pc' = "Idle" /\ running_payload' = [lo |-> 0, hi |-> 0]
        /\ queue' = IF Length(running_payload) > 0 THEN <<running_payload>> \o queue ELSE queue
        /\ UNCHANGED <<bytes_remaining, packets, packed, end>>
    BY <1>7 DEF Return
  <2>2. running_payload' \in Intervals /\ Length(running_payload)' = 0
    BY <2>1 DEF Intervals, Length
  <2>3. /\ queue' \in Seq(Intervals) /\ Joined(queue)' /\ From' = running_payload.lo
        /\ queue' # <<>> => queue'[Len(queue')].hi = end
    <3>1. CASE Length(running_payload) > 0
      <4>1. /\ queue' \in Seq(Intervals) /\ Len(queue') = Len(queue) + 1
            /\ Len(queue) \in Nat /\ queue'[1] = running_payload
            /\ \A i \in 1 .. Len(queue) : queue'[i + 1] = queue[i]
        BY <2>1, <3>1 DEF Types
      <4>2. Joined(queue)'
        BY <2>1, <4>1 DEF Tied, Joined, From
      <4>3. queue' # <<>> /\ From' = running_payload.lo
        BY <4>1 DEF From
      <4>4. queue'[Len(queue')].hi = end
        BY <2>1, <4>1 DEF Tied, From
      <4> QED BY <4>1, <4>2, <4>3, <4>4
    <3>2. CASE ~(Length(running_payload) > 0)
      <4>1. running_payload.lo = running_payload.hi
        BY <3>2 DEF Types, Intervals, Length
      <4> QED BY <2>1, <3>2, <4>1 DEF Types, Tied, From, Joined
    <3> QED BY <3>1, <3>2
  <2>4. Types'
    BY <2>1, <2>2, <2>3 DEF Types
  <2>5. Tied'
    BY <2>1, <2>3 DEF Tied, Joined
  <2>6. PacketsWellFormed'
    BY <2>1 DEF PacketsWellFormed, Length
  <2>7. Budget'
    BY <2>1, <2>2 DEF Budget, FullSoFar, Length
  <2> QED BY <2>4, <2>5, <2>6, <2>7 DEF IInv
<1>8. CASE UNCHANGED vars
  BY <1>8 DEF IInv, Types, Tied, PacketsWellFormed, Budget, FullSoFar, Joined, From, Length, vars
<1> QED BY <1>1, <1>3, <1>4, <1>5, <1>6, <1>7, <1>8 DEF Next

-----------------------------------------------------------------------------
(* What the parts say together.                                            *)
LEMMA PiecesJoined == IInv => StreamKept
<1> SUFFICES ASSUME IInv
             PROVE  StreamKept
  OBVIOUS
<1> Types /\ Tied /\ PacketsWellFormed /\ Budget
  BY DEF IInv
<1> DEFINE mid == IF pc = "Idle" THEN <<>> ELSE <<running_payload>>
<1> DEFINE n == Len(packets)
<1> DEFINE m == Len(mid)
<1> DEFINE k == Len(queue)
<1>1. packets \in Seq(Intervals) /\ mid \in Seq(Intervals) /\ queue \in Seq(Intervals)
  BY DEF Types
<1>2. /\ n \in Nat /\ k \in Nat
      /\ pc = "Idle" => m = 0
      /\ pc # "Idle" => m = 1 /\ mid[1] = running_payload
  BY <1>1
<1>3. Pieces = packets \o mid \o queue
  BY DEF Pieces
<1> HIDE DEF mid
<1>4. /\ Len(Pieces) = n + m + k
      /\ \A i \in 1 .. n : Pieces[i] = packets[i]
      /\ \A i \in n + 1 .. n + m : Pieces[i] = mid[i - n]
      /\ \A i \in n + m + 1 .. n + m + k : Pieces[i] = queue[i - n - m]
  BY <1>1, <1>3
<1>5. n = Len(packets) /\ k = Len(queue)
  OBVIOUS
<1> HIDE DEF n, m, k
<1>6. \A j \in 1 .. k : Pieces[n + m + j] = queue[j]
  <2> TAKE j \in 1 .. k
  <2>1. n + m + j \in n + m + 1 .. n + m + k /\ (n + m + j) - n - m = j
    BY <1>2
  <2>2. Pieces[n + m + j] = queue[(n + m + j) - n - m]
    BY <1>4, <2>1
  <2> QED BY <2>1, <2>2
<1>7. queue # <<>> <=> k > 0
  BY <1>1, <1>2, <1>5, NoLength
<1>8. pc # "Idle" => Pieces[n + 1] = running_payload /\ m = 1
  <2>1. ASSUME pc # "Idle"
        PROVE  Pieces[n + 1] = mid[(n + 1) - n] /\ m = 1
    BY <1>2, <1>4, <2>1
  <2>2. (n + 1) - n = 1
    BY <1>2
  <2> QED BY <1>2, <2>1, <2>2
<1>9. TypeOK
  <2>1. /\ \A i \in 1 .. Len(queue) : queue[i].lo \in Nat /\ queue[i].hi \in Nat
        /\ running_payload.lo \in Nat /\ running_payload.hi \in Nat
    BY <1>1 DEF Types, Intervals
  <2> QED BY <2>1 DEF Types, Budget, TypeOK
<1>10. ASSUME NEW i \in 1 .. Len(Pieces) - 1
      PROVE  Pieces[i].hi = Pieces[i + 1].lo
  <2>1. CASE i < n
    BY <1>2, <1>5, <1>4, <2>1 DEF Tied, Joined
  <2>2. CASE i = n /\ pc # "Idle"
    <3>1. Pieces[i] = packets[n] /\ Pieces[i + 1] = running_payload /\ packets # <<>>
      BY <1>1, <1>2, <1>5, <1>4, <1>8, <2>2, NoLength
    <3> QED BY <1>5, <2>2, <3>1 DEF Tied
  <2>3. CASE i = n /\ pc = "Idle"
    <3>1. Pieces[i] = packets[n] /\ Pieces[i + 1] = queue[1] /\ packets # <<>> /\ queue # <<>>
      BY <1>1, <1>2, <1>5, <1>4, <1>6, <1>7, <2>3, NoLength
    <3> QED BY <1>5, <2>3, <3>1 DEF Tied, From
  <2>4. CASE i = n + 1 /\ pc # "Idle"
    <3>1. Pieces[i] = running_payload /\ Pieces[i + 1] = queue[1] /\ queue # <<>>
      BY <1>2, <1>4, <1>8, <1>6, <1>7, <2>4
    <3> QED BY <2>4, <3>1 DEF Tied, From
  <2>5. CASE i > n + m
    <3> DEFINE j == i - n - m
    <3>1. j \in 1 .. k - 1 /\ j + 1 \in 1 .. k /\ i = n + m + j /\ i + 1 = n + m + (j + 1)
      <4>1. n \in Nat /\ m \in Nat /\ k \in Nat /\ i \in 1 .. n + m + k - 1
        BY <1>2, <1>4
      <4> QED BY <4>1, <2>5
    <3> HIDE DEF j
    <3>2. Pieces[i] = queue[j] /\ Pieces[i + 1] = queue[j + 1]
      BY <1>2, <1>6, <3>1
    <3> QED BY <1>5, <3>1, <3>2 DEF Tied, Joined
  <2> QED BY <1>2, <1>4, <2>1, <2>2, <2>3, <2>4, <2>5
<1>11. ASSUME Pieces # <<>>
      PROVE  Pieces[Len(Pieces)].hi = end
  <2>1. CASE queue # <<>>
    <3>1. Pieces[Len(Pieces)] = queue[k]
      BY <1>2, <1>4, <1>6, <1>7, <2>1
    <3> QED BY <1>5, <2>1, <3>1 DEF Tied
  <2>2. CASE queue = <<>> /\ pc # "Idle"
    <3>1. Pieces[Len(Pieces)] = running_payload
      BY <1>1, <1>2, <1>5, <1>4, <1>8, <2>2, NoLength
    <3> QED BY <1>5, <2>2, <3>1 DEF Tied, From
  <2>3. CASE queue = <<>> /\ pc = "Idle"
    <3>1. Pieces \in Seq(Intervals)
      BY <1>1, <1>3
    <3>2. Len(Pieces) # 0
      BY <1>11, <3>1, NoLength
    <3>3. Len(Pieces) = n /\ packets # <<>> /\ Pieces[n] = packets[n]
      BY <1>1, <1>2, <1>5, <1>4, <2>3, <3>2, NoLength
    <3> QED BY <1>5, <2>3, <3>3 DEF Tied, From
  <2> QED BY <2>1, <2>2, <2>3
<1> QED BY <1>9, <1>10, <1>11 DEF StreamKept

(* The inductive invariant holds throughout.                               *)
THEOREM Invariance == Spec => []IInv
BY InitIInv, StepIInv, PTL DEF Spec

(* consume_data_into neither loses nor repeats nor moves a byte, and its   *)
(* usize subtractions never go below zero.                                 *)
THEOREM StreamCorrect == Spec => []StreamKept
BY Invariance, PiecesJoined, PTL

(* No packet is empty or over the maximum, and all but the last of a       *)
(* datagram are full.                                                      *)
THEOREM PacketsCorrect == Spec => []PacketsWellFormed
<1>1. IInv => PacketsWellFormed
  BY DEF IInv
<1> QED BY <1>1, Invariance, PTL

-----------------------------------------------------------------------------
\* The first byte of the datagram being built.
DatagramStart == IF packets = <<>> THEN running_payload.lo ELSE packets[1].lo

(* During a call packed is the distance travelled in the stream, no packet *)
(* could have been saved, and the first loop is left only with the rest of *)
(* the queue in hand or with enough to fill the datagram.                  *)
Greedy ==
  pc # "Idle" =>
    /\ packed = running_payload.lo - DatagramStart
    /\ packed <= Load(Len(packets)) /\ Load(Len(packets)) < packed + MAX_PAYLOAD
    /\ pc = "Fill" =>
         queue = <<>> \/ MAX_PACKETS * MAX_PAYLOAD <= packed + Length(running_payload)

(* The least element of a non-empty set of naturals.                       *)
LEMMA SmallestOf ==
  ASSUME NEW T \in SUBSET Nat, T # {}
  PROVE  \E n \in T : \A m \in T : n <= m
<1>1. PICK x \in T : \A y \in T : ~(<<y, x>> \in OpToRel(<, Nat))
  BY NatLessThanWellFounded, WFMin, Zenon
<1>2. ASSUME NEW y \in T
      PROVE  x <= y
  <2>1. ~(<<y, x>> \in {ss \in Nat \X Nat : ss[1] < ss[2]})
    BY <1>1 DEF OpToRel
  <2> QED BY <2>1
<1> QED BY <1>2

(* Intervals laid end to end: the last ends no earlier than the first      *)
(* begins.                                                                 *)
LEMMA JoinedGrows ==
  ASSUME NEW s \in Seq(Intervals), Joined(s), s # <<>>
  PROVE  s[1].lo <= s[Len(s)].hi
<1> DEFINE T == {k \in Nat : k + 1 <= Len(s) /\ ~(s[1].lo <= s[k + 1].hi)}
<1>1. /\ Len(s) \in Nat /\ Len(s) > 0
      /\ \A i \in 1 .. Len(s) : s[i].lo \in Nat /\ s[i].hi \in Nat /\ s[i].lo <= s[i].hi
  BY DEF Intervals
<1>2. ASSUME T # {}
      PROVE  FALSE
  <2>1. PICK k \in T : \A m \in T : k <= m
    BY Zenon, <1>2, SmallestOf
  <2>2. k \in Nat /\ k + 1 <= Len(s) /\ ~(s[1].lo <= s[k + 1].hi)
    BY <2>1
  <2>3. k # 0
    BY <1>1, <2>2
  <2>4. k - 1 \in Nat /\ ~(k <= k - 1)
    BY <2>2, <2>3
  <2>5. k - 1 \notin T
    BY <2>1, <2>4, Zenon
  <2>6. s[1].lo <= s[k].hi
    BY <1>1, <2>2, <2>4, <2>5
  <2>7. s[k].hi = s[k + 1].lo
    BY <1>1, <2>2, <2>3 DEF Joined
  <2> QED BY <1>1, <2>2, <2>3, <2>6, <2>7
<1>3. T = {}
  BY <1>2, Zenon
<1>4. PICK k \in Nat : Len(s) = k + 1
  BY <1>1
<1>5. k \notin T
  BY <1>3, Zenon
<1> QED BY <1>4, <1>5

(* Between calls there is nothing to show.                                 *)
LEMMA InitGreedy == Init => Greedy
BY DEF Init, Greedy

(* One packet more moves the distance on and needs its place.              *)
LEMMA EmitGreedy ==
  ASSUME Types, Budget, FullSoFar, pc # "Idle", pc' = pc, Greedy,
         NEW payload \in Intervals, Length(payload) > 0, bytes_remaining >= HEADER,
         payload.lo = running_payload.lo, Emit(payload),
         pc = "Fill" => payload = running_payload /\ queue' = queue
  PROVE  Greedy'
<1> DEFINE n == Len(packets)
<1>1. n \in Nat /\ packets \in Seq(Intervals) /\ packed \in Nat
  BY DEF Types, Budget
<1>2. payload.lo \in Nat /\ payload.hi \in Nat /\ Length(payload) = payload.hi - payload.lo
  BY DEF Intervals, Length
<1>3. n < MAX_PACKETS /\ n <= MAX_PACKETS
  BY <1>1, EmitTakes, Sizes
<1>4. PICK take \in Nat :
        /\ take > 0 /\ take <= MAX_PAYLOAD /\ take <= Length(payload)
        /\ packets' = Append(packets, [lo |-> payload.lo, hi |-> payload.lo + take])
        /\ running_payload' = [lo |-> payload.lo + take, hi |-> payload.hi]
        /\ packed' = packed + take
  BY EmitTakes
<1>5. /\ Len(packets') = n + 1 /\ packets' # <<>>
      /\ packets'[1].lo = IF packets = <<>> THEN payload.lo ELSE packets[1].lo
  <2>1. PICK new : new = [lo |-> payload.lo, hi |-> payload.lo + take]
    BY Zenon
  <2>2. new.lo = payload.lo /\ new \in Intervals /\ packets' = Append(packets, new)
    BY <1>2, <1>4, <2>1 DEF Intervals, Length
  <2> QED BY <1>1, <2>2, SMTT(30)
<1>6. running_payload'.lo = payload.lo + take
  BY <1>4
<1>7. Length(running_payload)' = Length(payload) - take
  BY <1>2, <1>4 DEF Length
<1>8. DatagramStart' = DatagramStart
  BY <1>5 DEF DatagramStart
<1>9. packed = running_payload.lo - DatagramStart /\ DatagramStart \in Int
  <2>1. packets # <<>> => packets[1] \in Intervals /\ packets[1].lo \in Nat
    BY <1>1 DEF Intervals
  <2> QED BY <1>2, <2>1 DEF Greedy, DatagramStart
<1>10. packed' = running_payload'.lo - DatagramStart'
  BY <1>2, <1>4, <1>6, <1>8, <1>9
<1>11. Load(n + 1) = Load(n) + MAX_PAYLOAD /\ Load(n) \in Nat /\ packed = Load(n)
  BY <1>1, <1>3, RoomFacts, Sizes DEF FullSoFar
<1>12. packed' <= Load(n + 1) /\ Load(n + 1) < packed' + MAX_PAYLOAD
  BY <1>1, <1>4, <1>11, Sizes
<1>13. pc' = "Fill" =>
         queue' = <<>> \/ MAX_PACKETS * MAX_PAYLOAD <= packed' + Length(running_payload)'
  <2> SUFFICES ASSUME pc = "Fill", MAX_PACKETS * MAX_PAYLOAD <= packed + Length(running_payload)
               PROVE  MAX_PACKETS * MAX_PAYLOAD <= packed' + Length(running_payload)'
    BY DEF Greedy
  <2>1. packed' + Length(running_payload)' = packed + Length(running_payload)
    BY <1>1, <1>2, <1>4, <1>7
  <2> QED BY <2>1
<1> QED BY <1>5, <1>10, <1>12, <1>13 DEF Greedy

(* A full datagram's worth: what leaving the first loop guarantees.        *)
LEMMA EnoughToFill ==
  ASSUME NEW n \in Nat, n <= MAX_PACKETS, NEW len \in Nat,
         Room(n) <= HEADER \/ len >= Room(n) - HEADER
  PROVE  MAX_PACKETS * MAX_PAYLOAD <= Load(n) + len
<1>1. CASE n = MAX_PACKETS
  <2>1. Load(n) = MAX_PACKETS * MAX_PAYLOAD /\ MAX_PACKETS * MAX_PAYLOAD \in Nat
    BY <1>1, Sizes DEF Load
  <2> QED BY <2>1
<1>2. CASE n < MAX_PACKETS
  <2> DEFINE k == MAX_PACKETS - n
  <2>1. k \in Nat /\ k > 0 /\ MAX_PACKETS = k + n
    BY <1>2, Sizes
  <2>2. Room(n) = k * (HEADER + MAX_PAYLOAD) /\ Load(n) = n * MAX_PAYLOAD
    BY DEF Room, Load
  <2> HIDE DEF k
  <2>3. /\ k * (HEADER + MAX_PAYLOAD) = k * HEADER + k * MAX_PAYLOAD
        /\ MAX_PACKETS * MAX_PAYLOAD = k * MAX_PAYLOAD + n * MAX_PAYLOAD
        /\ k * HEADER >= HEADER /\ k * HEADER \in Nat /\ k * MAX_PAYLOAD \in Nat
        /\ k * MAX_PAYLOAD >= MAX_PAYLOAD /\ n * MAX_PAYLOAD \in Nat
    BY <2>1, Sizes
  <2> QED BY <2>2, <2>3, Sizes
<1> QED BY <1>1, <1>2, Sizes

(* Every step of a call keeps the account.                                 *)
LEMMA StepGreedy == IInv /\ Greedy /\ [Next]_vars => Greedy'
<1> SUFFICES ASSUME IInv, Greedy, [Next]_vars
             PROVE  Greedy'
  OBVIOUS
<1> Types /\ Tied /\ PacketsWellFormed /\ Budget
  BY DEF IInv
<1>1. CASE consume_data_into
  <2>1. /\ packets' = <<>> /\ pc' = "Merge" /\ packed' = 0 /\ running_payload' = Head(queue)
        /\ Head(queue) \in Intervals
    BY <1>1, QueueFacts DEF consume_data_into, Tied
  <2>2. running_payload'.lo \in Nat
    BY <2>1 DEF Intervals
  <2> QED BY <2>1, <2>2, FreshDatagram, Sizes DEF Greedy, DatagramStart
<1>2. CASE EmitFull
  <2>1. /\ pc = "Merge" /\ bytes_remaining > HEADER /\ Length(running_payload) >= MAX_PAYLOAD
        /\ Emit(running_payload) /\ UNCHANGED <<queue, end, pc>>
    BY <1>2 DEF EmitFull, Merging
  <2>2. /\ FullSoFar /\ running_payload \in Intervals
        /\ bytes_remaining \in Int /\ Length(running_payload) \in Int
    BY <2>1 DEF Budget, Types, Intervals, Length
  <2> QED BY <2>1, <2>2, EmitGreedy, Sizes
<1>3. CASE MergeNext
  <2> DEFINE merged == [lo |-> running_payload.lo, hi |-> Head(queue).hi]
  <2>1. /\ pc = "Merge" /\ queue # <<>> /\ bytes_remaining > HEADER /\ pc' = pc
        /\ \/ Length(merged) > MAX_PAYLOAD /\ Emit(merged)
           \/ running_payload' = merged /\ UNCHANGED <<bytes_remaining, packets, packed>>
    BY <1>3 DEF MergeNext, Merging
  <2>2. Head(queue) \in Intervals /\ Head(queue) = queue[1]
    BY <2>1, QueueFacts DEF Tied
  <2>3. merged \in Intervals /\ merged.lo = running_payload.lo /\ Length(merged) \in Nat
    <3>1. /\ running_payload.lo \in Nat /\ running_payload.hi \in Nat
          /\ running_payload.lo <= running_payload.hi
      BY DEF Types, Intervals
    <3>2. /\ Head(queue).lo \in Nat /\ Head(queue).hi \in Nat /\ Head(queue).lo <= Head(queue).hi
      BY <2>2 DEF Intervals
    <3>3. running_payload.hi = Head(queue).lo
      BY <2>1, <2>2 DEF Tied, From
    <3> QED BY <3>1, <3>2, <3>3 DEF Intervals, Length
  <2>4. FullSoFar /\ bytes_remaining \in Int
    BY <2>1 DEF Budget
  <2> HIDE DEF merged
  <2>5. CASE Length(merged) > MAX_PAYLOAD /\ Emit(merged)
    BY <2>1, <2>3, <2>4, <2>5, EmitGreedy, Sizes
  <2>6. CASE running_payload' = merged /\ UNCHANGED <<bytes_remaining, packets, packed>>
    BY <2>1, <2>3, <2>6 DEF Greedy, DatagramStart
  <2> QED BY <2>1, <2>5, <2>6
<1>4. CASE LeaveMerge
  <2>1. /\ pc = "Merge" /\ pc' = "Fill"
        /\ UNCHANGED <<queue, running_payload, bytes_remaining, packets, packed, end>>
        /\ \/ queue = <<>> \/ ~(bytes_remaining > HEADER)
           \/ Length(running_payload) >= bytes_remaining - HEADER
    BY <1>4 DEF LeaveMerge, Merging, FillsDatagram
  <2>2. FullSoFar /\ bytes_remaining \in Int
    BY <2>1 DEF Budget
  <2>3. Length(running_payload) \in Nat
    BY DEF Types, Intervals, Length
  <2>4. Len(packets) \in Nat /\ Len(packets) <= MAX_PACKETS
    BY DEF Types, Budget
  <2>5. queue = <<>> \/ MAX_PACKETS * MAX_PAYLOAD <= packed + Length(running_payload)
    BY <2>1, <2>2, <2>3, <2>4, EnoughToFill, Sizes DEF FullSoFar
  <2>6. Length(running_payload)' = Length(running_payload) /\ DatagramStart' = DatagramStart
    BY <2>1 DEF Length, DatagramStart
  <2> QED BY <2>1, <2>5, <2>6 DEF Greedy
<1>5. CASE EmitRest
  <2>1. /\ pc = "Fill" /\ Length(running_payload) > 0 /\ bytes_remaining >= HEADER
        /\ Emit(running_payload) /\ UNCHANGED <<queue, end, pc>>
    BY <1>5 DEF EmitRest, Filling
  <2>2. FullSoFar /\ running_payload \in Intervals
    BY <2>1 DEF Budget, Types
  <2> QED BY <2>1, <2>2, EmitGreedy
<1>6. CASE Return
  BY <1>6 DEF Return, Greedy
<1>7. CASE UNCHANGED vars
  BY <1>7 DEF Greedy, DatagramStart, Length, vars
<1> QED BY <1>1, <1>2, <1>3, <1>4, <1>5, <1>6, <1>7 DEF Next

(* n packets carry more bytes than n - 1 could and no more than n can.     *)
LEMMA PacketsNeeded ==
  ASSUME NEW n \in Nat, NEW bytes \in Nat,
         bytes <= Load(n), Load(n) < bytes + MAX_PAYLOAD
  PROVE  NumPackets(bytes) = n
<1>1. PICK r \in Int : r = bytes + MAX_PAYLOAD - 1 - n * MAX_PAYLOAD
  BY Sizes
<1>2. 0 <= r /\ r < MAX_PAYLOAD /\ bytes + MAX_PAYLOAD - 1 = n * MAX_PAYLOAD + r
  BY <1>1, Sizes DEF Load
<1>3. (n * MAX_PAYLOAD + r) \div MAX_PAYLOAD = n
  BY <1>2, Sizes
<1> QED BY <1>2, <1>3 DEF NumPackets

(* When the call returns it has packed all it could.                       *)
LEMMA GreedyAtReturn == IInv /\ Greedy => PacksGreedily
<1> SUFFICES ASSUME IInv, Greedy, pc = "Fill", ~Filling
             PROVE  LET total == end - (packets \o <<running_payload>>)[1].lo
                    IN  packed = Packed(total) /\ Len(packets) = NumPackets(packed)
  BY DEF PacksGreedily
<1> Types /\ Tied /\ PacketsWellFormed /\ Budget
  BY DEF IInv
<1> DEFINE n == Len(packets)
<1> DEFINE total == end - DatagramStart
<1>1. /\ n \in Nat /\ n <= MAX_PACKETS /\ packed \in Nat /\ packed <= MAX_PACKETS * MAX_PAYLOAD
      /\ MAX_PACKETS * MAX_PAYLOAD \in Nat
  BY Sizes DEF Types, Budget
<1>2. /\ running_payload.lo \in Nat /\ running_payload.hi \in Nat
      /\ running_payload.lo <= running_payload.hi
      /\ Length(running_payload) = running_payload.hi - running_payload.lo
  BY DEF Types, Intervals, Length
<1>3. (packets \o <<running_payload>>)[1].lo = DatagramStart
  <2>1. packets \in Seq(Intervals) /\ running_payload \in Intervals
    BY DEF Types
  <2>2. (packets \o <<running_payload>>)[1] = IF packets = <<>> THEN running_payload ELSE packets[1]
    BY <2>1
  <2> QED BY <2>2 DEF DatagramStart
<1>4. From <= end /\ From \in Nat /\ end \in Nat /\ (queue = <<>> => From = end)
  <2>1. queue \in Seq(Intervals) /\ Joined(queue) /\ end \in Nat
        /\ (queue # <<>> => queue[Len(queue)].hi = end)
    BY DEF Types, Tied
  <2>2. queue # <<>> => queue[1] \in Intervals /\ queue[1].lo \in Nat
    BY <2>1 DEF Intervals
  <2> QED BY <2>1, <2>2, JoinedGrows DEF From
<1>5. running_payload.hi = From
  BY DEF Tied
<1>6. DatagramStart \in Int /\ packed = running_payload.lo - DatagramStart
  <2>1. packets # <<>> => packets[1] \in Intervals /\ packets[1].lo \in Nat
    BY DEF Types, Intervals
  <2> QED BY <1>2, <2>1 DEF Greedy, DatagramStart
<1>7. total \in Int /\ total = packed + Length(running_payload) + (end - From)
  BY <1>1, <1>2, <1>4, <1>5, <1>6
<1>8. packed <= total
  BY <1>1, <1>2, <1>4, <1>7
<1>9. packed = MAX_PACKETS * MAX_PAYLOAD \/ packed = total
  <2>1. CASE Length(running_payload) = 0
    <3>1. queue = <<>> \/ MAX_PACKETS * MAX_PAYLOAD <= packed
      BY <1>1, <2>1 DEF Greedy
    <3> QED BY <1>1, <1>4, <1>7, <2>1, <3>1
  <2>2. CASE Length(running_payload) > 0
    <3>1. bytes_remaining < HEADER /\ FullSoFar
      BY <2>2, Sizes DEF Filling, Budget
    <3>2. ~(n < MAX_PACKETS)
      BY <1>1, <3>1, RoomFacts, Sizes DEF FullSoFar
    <3>3. n = MAX_PACKETS
      BY <1>1, <3>2, Sizes
    <3> QED BY <3>1, <3>3 DEF FullSoFar, Load
  <2> QED BY <1>2, <2>1, <2>2
<1>10. packed = Packed(total)
  <2> HIDE DEF total
  <2> QED BY <1>1, <1>7, <1>8, <1>9 DEF Packed, Least
<1>11. n = NumPackets(packed)
  BY <1>1, PacketsNeeded DEF Greedy
<1> QED BY <1>3, <1>10, <1>11

(* Each call fills its datagram as far as the queue allows, in as few      *)
(* packets as possible, for every size of a payload, number of packets and *)
(* way of cutting the stream into sends; so a call that packs nothing      *)
(* found no byte in the queue.                                             *)
THEOREM GreedyCorrect == Spec => []PacksGreedily
<1>1. Init => IInv /\ Greedy
  BY InitIInv, InitGreedy
<1>2. (IInv /\ Greedy) /\ [Next]_vars => (IInv /\ Greedy)'
  BY StepIInv, StepGreedy
<1> QED BY <1>1, <1>2, GreedyAtReturn, PTL DEF Spec
=============================================================================
