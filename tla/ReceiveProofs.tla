--------------------------- MODULE ReceiveProofs ----------------------------
(***************************************************************************)
(* Proofs about module Receive, for any number of packets and of tasks     *)
(* that receive on the connection: a wake-up is lost only to a reader that *)
(* parked later or to a poisoned mutex, and a read fails only if another   *)
(* reader consumed between its poll and its consume.                       *)
(***************************************************************************)
EXTENDS Receive, TLAPS

(* The inductive invariant.  The mutex is held from the failed peek to the *)
(* registration of the waker, so no packet can arrive in between; a Fin    *)
(* can, and then conn_reader waits for the mutex in its "fin" step.  What  *)
(* a reader was told is there stays there until another one consumes.      *)
ReaderInv ==
  \A r \in Readers :
    /\ lock = r <=> pc[r] \in {"peeked", "parking"}
    /\ lock = r => ~peek
    /\ pc[r] = "parking" /\ peer_fin_observed => conn_reader = "fin"
    /\ pc[r] = "parked" => waker \in Readers
    /\ pc[r] = "ready" => Readable \/ r \in robbed
    /\ pc[r] = "eof" => peer_fin_observed
    /\ pc[r] = "consume" => peek \/ r \in robbed

(* The mutex is poisoned by a reader that panicked and is then free; only  *)
(* a poisoned mutex ends conn_reader or another reader.                    *)
PoisonInv ==
  /\ poisoned => lock = None /\ \E r \in Readers : pc[r] = "panicked"
  /\ conn_reader = "dead" => poisoned
  /\ \A r \in Readers : pc[r] = "poisoned" => poisoned

(* At most one task receives on the connection.                            *)
OneReader == \A r, s \in Readers : r = s

(* What a connection with one reader is promised: no wake-up is lost and   *)
(* nothing panics.                                                         *)
NeverFails ==
  /\ ~poisoned /\ conn_reader # "dead"
  /\ \A r \in Readers :
       /\ pc[r] \notin {"error", "panicked", "poisoned"}
       /\ pc[r] = "parked" /\ Readable =>
            woken[r] \/ conn_reader = "fin" \/ (conn_reader = "wake" /\ clone = r)

Inv == TypeOK /\ ReaderInv /\ PoisonInv /\ NoSleepingReader /\ FailsOnlyRobbed

-----------------------------------------------------------------------------
(* The type invariant is inductive by itself, for any number of readers.   *)
LEMMA TypeInit == Init => TypeOK
<1> SUFFICES ASSUME Init PROVE TypeOK
  OBVIOUS
<1> USE DEF Init
<1>1. buffered \subseteq next .. Packets  BY Zenon
<1>2. next \in 1 .. Packets + 1  BY ReceiveAssumption
<1>3. woken \in [Readers -> BOOLEAN]  BY Zenon
<1> QED  BY <1>1, <1>2, <1>3 DEF TypeOK

(* Consuming keeps the buffered packets ahead of the next one to deliver.  *)
LEMMA ConsumeType ==
  ASSUME TypeOK, NEW r \in Readers, Consume(r)
  PROVE  TypeOK'
<1> USE ReceiveAssumption DEF TypeOK, Consume, Goto, producer, mutex
<1>1. PICK last \in next .. Packets :
         next' = last + 1 /\ buffered' = buffered \ (next .. last)
  OBVIOUS
<1>2. next' \in 1 .. Packets + 1  BY <1>1
<1>3. buffered' \subseteq next' .. Packets  BY <1>1
<1> QED  BY <1>2, <1>3

(* Every step keeps the type invariant.                                    *)
LEMMA TypeNext ==
  ASSUME TypeOK, [Next]_vars
  PROVE  TypeOK'
<1> USE ReceiveAssumption DEF TypeOK, Goto, ring, mutex, producer, history
<1>1. ASSUME NEW p \in 1 .. Packets, buffer_in_data_packets(p)
      PROVE  TypeOK'
  BY <1>1 DEF buffer_in_data_packets
<1>2. CASE ObserveFin  BY <1>2 DEF ObserveFin
<1>3. CASE TakeWaker  BY <1>3 DEF TakeWaker
<1>4. CASE Wake  BY <1>4 DEF Wake
<1>5. ASSUME NEW r \in Readers, CallRecv(r) \/ Recv(r) \/ Cancel(r)
      PROVE  TypeOK'
  <2>1. CASE CallRecv(r)  BY <2>1 DEF CallRecv
  <2>2. CASE PollPeek(r)  BY <2>2 DEF PollPeek
  <2>3. CASE PollFin(r)  BY <2>3 DEF PollFin
  <2>4. CASE Park(r)  BY <2>4 DEF Park
  <2>5. CASE Repoll(r)  BY <2>5 DEF Repoll
  <2>6. CASE Cancel(r)  BY <2>6 DEF Cancel
  <2>7. CASE LoadFin(r)  BY <2>7 DEF LoadFin
  <2>8. CASE ReturnEof(r)  BY <2>8 DEF ReturnEof
  <2>9. CASE Consume(r)  BY <2>9, ConsumeType
  <2>10. CASE ConsumeFails(r)  BY <2>10 DEF ConsumeFails
  <2>11. CASE LockPanics(r)  BY <2>11 DEF LockPanics
  <2> QED
    BY <1>5, <2>1, <2>2, <2>3, <2>4, <2>5, <2>6, <2>7, <2>8, <2>9, <2>10, <2>11 DEF Recv
<1>6. CASE ConnReaderPanics  BY <1>6 DEF ConnReaderPanics
<1>7. CASE UNCHANGED vars  BY <1>7 DEF vars
<1> QED  BY <1>1, <1>2, <1>3, <1>4, <1>5, <1>6, <1>7 DEF Next, ConnReader

(* The state of Receive keeps its type, whatever the number of readers.    *)
THEOREM TypeCorrect == Spec => []TypeOK
  BY TypeInit, TypeNext, PTL DEF Spec

-----------------------------------------------------------------------------
(* Initially nobody waits.                                                 *)
LEMMA InvInit == Init => Inv
  BY TypeInit, ReceiveAssumption
  DEF Init, Inv, ReaderInv, PoisonInv, NoSleepingReader, FailsOnlyRobbed

(* The steps of conn_reader.                                               *)
LEMMA ConnReaderInv ==
  ASSUME Inv, ConnReader
  PROVE  (ReaderInv /\ PoisonInv /\ NoSleepingReader /\ FailsOnlyRobbed)'
<1> USE ReceiveAssumption
    DEF Inv, TypeOK, ReaderInv, PoisonInv, NoSleepingReader, FailsOnlyRobbed, Readable, Replaced,
        peek, Lockable, ring, mutex, producer, history
<1>1. ASSUME NEW p \in 1 .. Packets, buffer_in_data_packets(p)
      PROVE  (ReaderInv /\ PoisonInv /\ NoSleepingReader /\ FailsOnlyRobbed)'
  BY <1>1 DEF buffer_in_data_packets
<1>2. CASE ObserveFin  BY <1>2 DEF ObserveFin
<1>3. CASE TakeWaker  BY <1>3 DEF TakeWaker
<1>4. CASE Wake  BY <1>4 DEF Wake
<1>5. CASE ConnReaderPanics  BY <1>5 DEF ConnReaderPanics
<1> QED  BY <1>1, <1>2, <1>3, <1>4, <1>5 DEF ConnReader

(* The steps of a reader.                                                  *)
LEMMA RecvInv ==
  ASSUME Inv, NEW r \in Readers, CallRecv(r) \/ Recv(r) \/ Cancel(r)
  PROVE  (ReaderInv /\ PoisonInv /\ NoSleepingReader /\ FailsOnlyRobbed)'
<1> USE ReceiveAssumption
    DEF Inv, TypeOK, ReaderInv, PoisonInv, NoSleepingReader, FailsOnlyRobbed, Readable, Replaced,
        peek, Lockable, ring, mutex, producer, history, Goto
<1>1. CASE CallRecv(r)  BY <1>1 DEF CallRecv
<1>2. CASE PollPeek(r)  BY <1>2 DEF PollPeek
<1>3. CASE PollFin(r)  BY <1>3 DEF PollFin
<1>4. CASE Park(r)  BY <1>4 DEF Park
<1>5. CASE Repoll(r)  BY <1>5 DEF Repoll
<1>6. CASE Cancel(r)  BY <1>6 DEF Cancel
<1>7. CASE LoadFin(r)  BY <1>7 DEF LoadFin
<1>8. CASE ReturnEof(r)  BY <1>8 DEF ReturnEof
<1>9. CASE Consume(r)  BY <1>9 DEF Consume
<1>10. CASE ConsumeFails(r)  BY <1>10 DEF ConsumeFails
<1>11. CASE LockPanics(r)  BY <1>11 DEF LockPanics
<1> QED  BY <1>1, <1>2, <1>3, <1>4, <1>5, <1>6, <1>7, <1>8, <1>9, <1>10, <1>11 DEF Recv

(* Every step of Receive keeps the inductive invariant.                    *)
LEMMA InvNext ==
  ASSUME Inv, [Next]_vars
  PROVE  Inv'
<1>1. TypeOK'  BY TypeNext DEF Inv
<1>2. CASE ConnReader  BY <1>1, <1>2, ConnReaderInv DEF Inv
<1>3. ASSUME NEW r \in Readers, CallRecv(r) \/ Recv(r) \/ Cancel(r)
      PROVE  Inv'
  BY <1>1, <1>3, RecvInv DEF Inv
<1>4. CASE UNCHANGED vars
  BY <1>1, <1>4 DEF vars, ring, mutex, producer, history, Inv, ReaderInv, PoisonInv,
     NoSleepingReader, FailsOnlyRobbed, Readable, Replaced, peek
<1> QED  BY <1>2, <1>3, <1>4 DEF Next

(* However many tasks receive, poll, park and are cancelled, and whenever  *)
(* packets and the Fin arrive, a reader in front of something to read is   *)
(* left asleep only by another one that parked later or by a poisoned      *)
(* mutex.  For a single reader that is: no wake-up is lost.                *)
THEOREM WakeupCorrect == Spec => []NoSleepingReader
<1>1. Inv /\ [Next]_vars => Inv'  BY InvNext
<1>2. Inv => NoSleepingReader  BY DEF Inv
<1> QED  BY InvInit, <1>1, <1>2, PTL DEF Spec

(* However many tasks receive, the unwrap() of read meets an error only if *)
(* another reader consumed since the poll, and only such a panic poisons   *)
(* the mutex under conn_reader and the other readers.                      *)
THEOREM ReadCorrect == Spec => []FailsOnlyRobbed
<1>1. Inv /\ [Next]_vars => Inv'  BY InvNext
<1>2. Inv => FailsOnlyRobbed  BY DEF Inv
<1> QED  BY InvInit, <1>1, <1>2, PTL DEF Spec

(* A single reader is not robbed.                                          *)
LEMMA AloneNext ==
  ASSUME OneReader, robbed = {}, [Next]_vars
  PROVE  robbed' = {}
<1> USE DEF history
<1>1. ASSUME NEW r \in Readers, PollPeek(r) \/ Consume(r)
      PROVE  robbed' = {}
  BY <1>1 DEF PollPeek, Consume, OneReader
<1>2. ASSUME ConnReader \/ UNCHANGED vars
      PROVE  robbed' = {}
  BY <1>2 DEF vars, ConnReader, ObserveFin, TakeWaker, Wake, ConnReaderPanics,
     buffer_in_data_packets
<1>3. ASSUME NEW r \in Readers, CallRecv(r) \/ Recv(r) \/ Cancel(r)
      PROVE  robbed' = {}
  BY <1>1, <1>3 DEF CallRecv, Cancel, Recv, PollFin, Park, Repoll, LoadFin, ReturnEof,
     ConsumeFails, LockPanics
<1> QED  BY <1>2, <1>3 DEF Next

(* Consequently a connection on which one task receives loses no wake-up   *)
(* and never panics, neither in recv() nor in conn_reader.                 *)
THEOREM OneReaderSafe == ASSUME OneReader PROVE Spec => []NeverFails
<1> DEFINE J == Inv /\ robbed = {}
<1>1. Init => J  BY InvInit DEF Init
<1>2. J /\ [Next]_vars => J'  BY InvNext, AloneNext
<1>3. J => NeverFails
  BY DEF OneReader, Inv, PoisonInv, FailsOnlyRobbed, NoSleepingReader, Replaced, NeverFails
<1> HIDE DEF J
<1> QED  BY <1>1, <1>2, <1>3, PTL DEF Spec
=============================================================================
