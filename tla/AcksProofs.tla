----------------------------- MODULE AcksProofs -----------------------------
(***************************************************************************)
(* The AckConsumer misses no wake-up, for every length of the stream, size *)
(* of the window and loss or repetition of acks.  That argument is about   *)
(* the two waking steps and the lock alone; it does not depend on what     *)
(* insert_range and consume compute.                                       *)
(*                                                                         *)
(* And the window counts exactly what it accepted: for that the loops of   *)
(* insert_range and consume are followed to their ends (InsertRange,       *)
(* ConsumeKeeps), and the acks on the way are shown to be disjoint, each   *)
(* accepted whole or not at all (WInv).                                    *)
(***************************************************************************)
EXTENDS Acks, FiniteSetTheorems, SequenceTheorems, WellFoundedInduction, TLAPS

\* The larger leaves take longer than the provers' default limits.
USE SMTT(30), ZenonT(30)

(* A consumer that parked left its waker behind under the lock, and the    *)
(* AckBuffer keeps it (only clones are woken).  Without this the next      *)
(* datagram could fill the window and find nobody to wake.                 *)
WakerKept == pc = "parked" => waker = TRUE

WakeIInv == WakerKept /\ NoSleepingConsumer

(* Buffering a datagram, with the waker cloned under the lock that fills   *)
(* the window: a parked consumer is going to be woken.                     *)
LEMMA BufferKeepsWake ==
  ASSUME WakeIInv, NEW d, buffer_in_ack_packets(d)
  PROVE  WakeIInv'
<1>1. /\ conn_reader' = IF waker THEN "wake" ELSE "recv"
      /\ UNCHANGED <<waker, woken, pc>>
  BY DEF buffer_in_ack_packets, consumer
<1> QED BY <1>1 DEF WakeIInv, WakerKept, NoSleepingConsumer

(* A step that leaves the window and the wake-up state alone.              *)
LEMMA ElsewhereKeepsWake ==
  ASSUME WakeIInv, UNCHANGED <<window, waker, woken, conn_reader, pc>>
  PROVE  WakeIInv'
BY DEF WakeIInv, WakerKept, NoSleepingConsumer, Consumable

(* Every step of the reader, the pump, the network, conn_reader and the   *)
(* AckConsumer keeps the inductive invariant.                              *)
LEMMA NextKeepsWake == WakeIInv /\ [Next]_vars => WakeIInv'
<1> SUFFICES ASSUME WakeIInv, [Next]_vars
             PROVE  WakeIInv'
  OBVIOUS
<1>1. CASE \E num \in Batches : read(num)
  BY <1>1, ElsewhereKeepsWake DEF read, consumer
<1>2. CASE RecvAcks
  BY <1>2, ElsewhereKeepsWake DEF RecvAcks, consumer
<1>3. CASE SendAcks
  BY <1>3, ElsewhereKeepsWake DEF SendAcks, consumer
<1>4. CASE \E d \in wire : Lose(d)
  BY <1>4, ElsewhereKeepsWake DEF Lose, consumer
<1>5. CASE \E d \in wire : buffer_in_ack_packets(d)
  BY <1>5, BufferKeepsWake
<1>6. CASE Wake
  BY <1>6 DEF Wake, consumer, WakeIInv, WakerKept, NoSleepingConsumer
<1>7. CASE PollReady
  BY <1>7 DEF PollReady, WakeIInv, WakerKept, NoSleepingConsumer
<1>8. CASE PollPending
  BY <1>8 DEF PollPending, Consumable, WakeIInv, WakerKept, NoSleepingConsumer
<1>9. CASE Repoll
  BY <1>9 DEF Repoll, WakeIInv, WakerKept, NoSleepingConsumer
<1>10. CASE Store
  BY <1>10 DEF Store, WakeIInv, WakerKept, NoSleepingConsumer
<1>11. CASE UNCHANGED vars
  BY <1>11, ElsewhereKeepsWake DEF vars, consumer
<1> QED
  BY <1>1, <1>2, <1>3, <1>4, <1>5, <1>6, <1>7, <1>8, <1>9, <1>10, <1>11
  DEF Next, ConnReader, AckConsumer

(* The AckConsumer is never left parked in front of acks it could count,   *)
(* although the waker is woken only after the AckBuffer's lock is released *)
(* (conn_reader.rs: buffer_in_ack_packets), in between which the consumer  *)
(* may poll, store and park again.                                         *)
THEOREM ConsumerIsWoken == Spec => []NoSleepingConsumer
<1>1. Init => WakeIInv
  BY DEF Init, WakeIInv, WakerKept, NoSleepingConsumer
<1>2. WakeIInv /\ [Next]_vars => WakeIInv'
  BY NextKeepsWake
<1>3. WakeIInv => NoSleepingConsumer
  BY DEF WakeIInv
<1> QED BY <1>1, <1>2, <1>3, PTL DEF Spec

-----------------------------------------------------------------------------
(* The inductive invariant of the window.  Every ack on its way covers     *)
(* packets that were acknowledged, two acks are equal or have no packet in *)
(* common, and an ack has been counted as a whole or not at all.           *)
OnWay == Range(channel) \cup Range(pending_send) \cup UNION {Range(d) : d \in wire}

Types ==
  /\ next \in Start .. LastNumber + 1
  /\ packets_consumed \in 0 .. packets_consumed_before_ack - 1
  /\ channel \in Seq(Ack) /\ pending_send \in Seq(Ack) /\ wire \subseteq Seq(Ack)
  /\ \A d \in wire \cup {pending_send} : Len(d) <= RecvLimit
  /\ <<>> \notin wire /\ losses \in 0 .. MaxLosses
  /\ waker \in BOOLEAN /\ woken \in BOOLEAN /\ conn_reader \in {"recv", "wake"}
  /\ pc \in {"poll", "parked", "store"} /\ largest \in {0} \cup PacketNumbers

Issued ==
  /\ acked \subseteq Start .. next - 1
  /\ \A a \in OnWay : Numbers(a) \subseteq acked
  /\ \A a, b \in OnWay : a = b \/ Numbers(a) \cap Numbers(b) = {}

\* The window w stands for the set "taken" of numbers.
Holds(w, taken) ==
  /\ w \in [smallest : Start .. LastNumber + 1, numbers : Seq(PacketNumbers)]
  /\ Start .. w.smallest - 1 \cup Range(w.numbers) = taken
  /\ \A i \in DOMAIN w.numbers :
       /\ w.numbers[i] >= w.smallest
       /\ \A j \in 1 .. i - 1 : w.numbers[j] < w.numbers[i]

Whole(taken) ==
  /\ taken \subseteq acked
  /\ \A a \in OnWay : Numbers(a) \subseteq taken \/ Numbers(a) \cap taken = {}

\* What the AckConsumer has stored, or is about to store, is counted.
Counted ==
  /\ largest # 0 => largest < window.smallest
  /\ pc = "store" => window.smallest > Start

WInv == Types /\ Issued /\ Holds(window, accepted) /\ Whole(accepted) /\ Counted

-----------------------------------------------------------------------------
(* The least element of a non-empty set of naturals.                       *)
LEMMA SmallestOf ==
  ASSUME NEW T \in SUBSET Nat, T # {}
  PROVE  \E n \in T : \A m \in T : n <= m
<1>1. PICK x \in T : \A y \in T : ~(<<y, x>> \in OpToRel(<, Nat))
  BY NatLessThanWellFounded, WFMin, Zenon
<1>2. ASSUME NEW y \in T
      PROVE  x <= y
  <2>1. ~(<<y, x>> \in {ss \in Nat \X Nat : ss[1] < ss[2]})
    BY <1>1 DEF OpToRel
  <2> QED BY <2>1
<1> QED BY <1>2

(* Induction, for a set of naturals.                                       *)
LEMMA NatSetInduction ==
  ASSUME NEW T \in SUBSET Nat, 0 \in T, \A n \in T : n + 1 \in T
  PROVE  T = Nat
<1> SUFFICES ASSUME Nat \ T # {}
             PROVE  FALSE
  BY Zenon
<1>1. PICK n \in Nat \ T : \A m \in Nat \ T : n <= m
  BY Zenon, SmallestOf
<1>2. n # 0 /\ n - 1 \in Nat /\ n - 1 \in T
  BY <1>1
<1> QED BY <1>1, <1>2

(* The greatest element of a bounded set of naturals.                      *)
LEMMA MaxOf ==
  ASSUME NEW T \in SUBSET Nat, T # {}, NEW n \in Nat, \A y \in T : y <= n
  PROVE  Max(T) \in T /\ \A y \in T : y <= Max(T)
<1> DEFINE U == {m \in Nat : \E y \in T : m = n - y}
<1>1. PICK t : t \in T
  OBVIOUS
<1>2. n - t \in U
  BY <1>1
<1>3. PICK m \in U : \A o \in U : m <= o
  BY Zenon, <1>2, SmallestOf
<1>4. PICK x \in T : m = n - x
  BY <1>3
<1>5. ASSUME NEW y \in T
      PROVE  y <= x
  <2>1. n - y \in U
    OBVIOUS
  <2>2. m <= n - y
    BY <1>3, <2>1
  <2> QED BY <1>4, <2>2
<1>6. \A y \in T : x >= y
  BY <1>5
<1>7. Max(T) \in T /\ \A y \in T : Max(T) >= y
  BY <1>6, Zenon DEF Max
<1> QED BY <1>7

(* A set of positions that is closed downwards is an initial segment.      *)
LEMMA Segment ==
  ASSUME NEW n \in Nat, NEW D \in SUBSET (1 .. n), \A i \in D : \A j \in 1 .. i : j \in D
  PROVE  Cardinality(D) \in 0 .. n /\ D = 1 .. Cardinality(D)
<1>1. CASE D = {}
  BY <1>1, FS_EmptySet
<1>2. CASE D # {}
  <2>1. D \in SUBSET Nat /\ \A y \in D : y <= n
    OBVIOUS
  <2>2. PICK k : k = Max(D)
    OBVIOUS
  <2>3. k \in D /\ \A y \in D : y <= k
    BY <1>2, <2>1, <2>2, MaxOf
  <2>4. k \in 1 .. n
    BY <2>3
  <2>5. \A y \in 1 .. k : y \in D
    BY <2>3
  <2>6. \A y \in D : y \in 1 .. k
    BY <2>1, <2>3, <2>4
  <2>7. D = 1 .. k
    BY <2>5, <2>6, Zenon
  <2>8. Cardinality(1 .. k) = k
    BY <2>4, FS_Interval
  <2> QED BY <2>4, <2>7, <2>8
<1> QED BY <1>1, <1>2

-----------------------------------------------------------------------------
(* insert_packet_number.  Numbers in increasing order, as in Holds:        *)
Increasing(s) == \A i \in DOMAIN s : \A j \in 1 .. i - 1 : s[j] < s[i]

(* The place binary_search finds in an increasing deque.                   *)
LEMMA Place ==
  ASSUME NEW s \in Seq(Nat), Increasing(s), NEW n \in Nat
  PROVE  \E index \in 0 .. Len(s) :
           /\ index = Cardinality({i \in DOMAIN s : s[i] < n})
           /\ \A i \in 1 .. index : s[i] < n
           /\ \A i \in index + 1 .. Len(s) : s[i] >= n
<1>1. PICK D : D = {i \in DOMAIN s : s[i] < n}
  BY Zenon
<1>2. Len(s) \in Nat /\ DOMAIN s = 1 .. Len(s) /\ \A i \in 1 .. Len(s) : s[i] \in Nat
  BY LenProperties
<1>3. D \in SUBSET (1 .. Len(s))
  BY <1>1, <1>2
<1>4. ASSUME NEW i \in D, NEW j \in 1 .. i
      PROVE  j \in D
  <2>1. i \in 1 .. Len(s) /\ s[i] < n /\ j \in 1 .. Len(s)
    BY <1>1, <1>2
  <2>2. j = i \/ s[j] < s[i]
    BY <1>2, <2>1 DEF Increasing
  <2>3. s[j] < n
    BY <1>2, <2>1, <2>2
  <2> QED BY <1>1, <1>2, <2>1, <2>3
<1>5. PICK index : index = Cardinality(D)
  OBVIOUS
<1>6. index \in 0 .. Len(s) /\ D = 1 .. index
  BY <1>2, <1>3, <1>4, <1>5, Segment
<1>7. \A i \in 1 .. index : s[i] < n
  BY <1>1, <1>6
<1>8. \A i \in index + 1 .. Len(s) : s[i] >= n
  BY <1>1, <1>2, <1>6
<1> QED BY Zenon, <1>1, <1>5, <1>6, <1>7, <1>8

(* The deque s with k numbers, from n on, put in at "index".               *)
Spliced(s, index, n, k) ==
  SubSeq(s, 1, index) \o [i \in 1 .. k |-> n + i - 1] \o SubSeq(s, index + 1, Len(s))

(* Where the numbers are after k of them, from n on, went in at "index".   *)
Laid(r, s, index, n, k) ==
  /\ r \in Seq(Nat) /\ Len(r) = Len(s) + k
  /\ \A i \in 1 .. index : r[i] = s[i]
  /\ \A i \in index + 1 .. index + k : r[i] = n + (i - index) - 1
  /\ \A i \in index + k + 1 .. Len(s) + k : r[i] = s[i - k]

(* A splice puts them there.                                               *)
LEMMA Layout ==
  ASSUME NEW s \in Seq(Nat), NEW index \in 0 .. Len(s), NEW n \in Nat, NEW k \in Nat,
         NEW r, r = Spliced(s, index, n, k)
  PROVE  Laid(r, s, index, n, k)
<1>1. Len(s) \in Nat /\ index \in Nat /\ index <= Len(s)
  BY LenProperties
<1>2. PICK A : A = SubSeq(s, 1, index)
  BY Zenon
<1>3. PICK B : B = [i \in 1 .. k |-> n + i - 1]
  BY Zenon
<1>4. PICK C : C = SubSeq(s, index + 1, Len(s))
  BY Zenon
<1>5. A \in Seq(Nat) /\ Len(A) = index /\ \A i \in 1 .. index : A[i] = s[i]
  <2>1. A = [i \in 1 .. index |-> s[i]] /\ \A i \in 1 .. index : s[i] \in Nat
    BY <1>1, <1>2
  <2> QED BY <1>1, <2>1
<1>6. B \in Seq(Nat) /\ Len(B) = k /\ \A i \in 1 .. k : B[i] = n + i - 1
  BY <1>3
<1>7. PICK c \in Nat : Len(s) = index + c
  <2>1. Len(s) - index \in Nat /\ Len(s) = index + (Len(s) - index)
    BY <1>1
  <2> QED BY Zenon, <2>1
<1>8. C \in Seq(Nat) /\ Len(C) = c /\ \A i \in 1 .. c : C[i] = s[index + i]
  <2>1. C = [i \in 1 .. c |-> s[index + i]]
    BY <1>1, <1>4, <1>7
  <2>2. \A i \in 1 .. c : s[index + i] \in Nat
    BY <1>1, <1>7
  <2> QED BY <1>7, <2>1, <2>2
<1>9. PICK P : P = A \o B
  BY Zenon
<1>10. /\ P \in Seq(Nat) /\ Len(P) = index + k
       /\ \A i \in 1 .. index + k : P[i] = IF i <= index THEN A[i] ELSE B[i - index]
  <2>1. /\ P \in Seq(Nat) /\ Len(P) = Len(A) + Len(B)
        /\ \A i \in 1 .. Len(A) + Len(B) : P[i] = IF i <= Len(A) THEN A[i] ELSE B[i - Len(A)]
    BY <1>5, <1>6, <1>9, ConcatProperties, Zenon
  <2> QED BY <1>5, <1>6, <2>1, Zenon
<1>11. ASSUME NEW i \in 1 .. index
       PROVE  P[i] = s[i]
  <2>1. i \in 1 .. index + k /\ i <= index
    BY <1>1
  <2> QED BY <1>5, <1>10, <2>1, Zenon
<1>12. ASSUME NEW i \in index + 1 .. index + k
       PROVE  P[i] = n + (i - index) - 1
  <2>1. i \in 1 .. index + k /\ ~(i <= index) /\ i - index \in 1 .. k
    BY <1>1
  <2> QED BY <1>6, <1>10, <2>1, Zenon
<1>13. r = P \o C
  BY <1>2, <1>3, <1>4, <1>9, Zenon DEF Spliced
<1>14. /\ r \in Seq(Nat) /\ Len(r) = (index + k) + c
       /\ \A i \in 1 .. (index + k) + c :
            r[i] = IF i <= index + k THEN P[i] ELSE C[i - (index + k)]
  <2>1. /\ r \in Seq(Nat) /\ Len(r) = Len(P) + Len(C)
        /\ \A i \in 1 .. Len(P) + Len(C) : r[i] = IF i <= Len(P) THEN P[i] ELSE C[i - Len(P)]
    <3>1. P \in Seq(Nat) /\ C \in Seq(Nat)
      BY <1>8, <1>10
    <3>2. /\ P \o C \in Seq(Nat) /\ Len(P \o C) = Len(P) + Len(C)
          /\ \A i \in 1 .. Len(P) + Len(C) :
               (P \o C)[i] = IF i <= Len(P) THEN P[i] ELSE C[i - Len(P)]
      BY <3>1, ConcatProperties, Zenon
    <3> QED BY <1>13, <3>2, Zenon
  <2> QED BY <1>8, <1>10, <2>1, Zenon
<1>15. ASSUME NEW i \in 1 .. index + k
       PROVE  r[i] = P[i]
  <2>1. i \in 1 .. (index + k) + c /\ i <= index + k
    BY <1>1, <1>7
  <2> QED BY <1>14, <2>1, Zenon
<1>16. ASSUME NEW i \in index + k + 1 .. Len(s) + k
       PROVE  r[i] = s[i - k]
  <2>1. /\ i \in 1 .. (index + k) + c /\ ~(i <= index + k)
        /\ i - (index + k) \in 1 .. c /\ index + (i - (index + k)) = i - k
    BY <1>1, <1>7
  <2> QED BY <1>8, <1>14, <2>1, Zenon
<1>17. ASSUME NEW i \in 1 .. index
       PROVE  r[i] = s[i]
  <2>1. i \in 1 .. index + k
    BY <1>1
  <2> QED BY <1>11, <1>15, <2>1, Zenon
<1>18. ASSUME NEW i \in index + 1 .. index + k
       PROVE  r[i] = n + (i - index) - 1
  <2>1. i \in 1 .. index + k
    BY <1>1
  <2> QED BY <1>12, <1>15, <2>1, Zenon
<1>19. Len(s) + k = (index + k) + c
  BY <1>1, <1>7
<1> QED BY <1>14, <1>16, <1>17, <1>18, <1>19, Zenon DEF Laid

(* Inserting no number changes nothing.                                    *)
LEMMA InsertNone ==
  ASSUME NEW s \in Seq(Nat), Increasing(s), NEW n \in Nat
  PROVE  insert_packet_number(s, n, 0) = s
<1>1. PICK index \in 0 .. Len(s) : index = Cardinality({i \in DOMAIN s : s[i] < n})
  BY Place
<1>2. PICK r : r = Spliced(s, index, n, 0)
  OBVIOUS
<1>3. insert_packet_number(s, n, 0) = r
  BY <1>1, <1>2, Zenon DEF insert_packet_number, Spliced
<1>4. Laid(r, s, index, n, 0)
  <2>1. 0 \in Nat
    OBVIOUS
  <2> QED BY <1>1, <1>2, <2>1, Layout, Zenon
<1>5. Len(s) \in Nat /\ index \in Nat /\ index <= Len(s)
  BY <1>1, LenProperties
<1>6. r \in Seq(Nat) /\ Len(r) = Len(s) + 0
  BY <1>4, Zenon DEF Laid
<1>7. ASSUME NEW i \in 1 .. Len(s)
      PROVE  r[i] = s[i]
  <2>1. \/ i \in 1 .. index
        \/ i \in index + 0 + 1 .. Len(s) + 0 /\ i - 0 = i
    BY <1>5
  <2> QED BY <1>4, <2>1, Zenon DEF Laid
<1>8. Len(r) = Len(s)
  BY <1>5, <1>6
<1>9. r = s
  BY <1>6, <1>7, <1>8, SeqEqual
<1> QED BY <1>3, <1>9

(* A splice at the right place keeps the deque increasing.                 *)
LEMMA SpliceIncreases ==
  ASSUME NEW s \in Seq(Nat), Increasing(s), NEW index \in Nat, index <= Len(s),
         NEW n \in Nat, NEW k \in Nat, NEW r, Laid(r, s, index, n, k),
         \A i \in 1 .. index : s[i] < n,
         \A i \in index + 1 .. Len(s) : s[i] > n + k - 1
  PROVE  Increasing(r)
<1>1. PICK l \in Nat : l = Len(s)
  BY LenProperties
<1>2. DOMAIN s = 1 .. l /\ \A i \in 1 .. l : s[i] \in Nat
  BY <1>1, LenProperties
<1>3. DOMAIN r = 1 .. (l + k)
  <2>1. r \in Seq(Nat) /\ Len(r) = Len(s) + k
    BY Zenon DEF Laid
  <2> QED BY <1>1, <2>1, LenProperties
<1>4. \A x \in 1 .. l : \A y \in 1 .. x - 1 : s[y] < s[x]
  BY <1>2, Zenon DEF Increasing
<1>5. \A i \in 1 .. index : r[i] = s[i]
  BY Zenon DEF Laid
<1>6. \A i \in index + 1 .. index + k : r[i] = n + (i - index) - 1
  BY Zenon DEF Laid
<1>7. \A i \in index + k + 1 .. l + k : r[i] = s[i - k]
  BY <1>1, Zenon DEF Laid
<1>8. index <= l /\ (\A i \in 1 .. index : s[i] < n) /\ \A i \in index + 1 .. l : s[i] > n + k - 1
  BY <1>1
<1>9. ASSUME NEW i \in 1 .. (l + k), NEW j \in 1 .. i - 1
      PROVE  r[j] < r[i]
  <2>1. CASE i \in 1 .. index
    <3>1. j \in 1 .. index /\ i \in 1 .. l
      BY <1>8, <2>1
    <3>2. r[i] = s[i] /\ r[j] = s[j] /\ s[j] < s[i]
      BY <1>4, <1>5, <2>1, <3>1, Zenon
    <3> QED BY <3>2, Zenon
  <2>2. CASE i \in index + 1 .. index + k
    <3>1. r[i] = n + (i - index) - 1
      BY <1>6, <2>2, Zenon
    <3>2. CASE j \in 1 .. index
      <4>1. j \in 1 .. l
        BY <1>8, <3>2
      <4>2. r[j] = s[j] /\ s[j] < n /\ s[j] \in Nat
        BY <1>2, <1>5, <1>8, <3>2, <4>1, Zenon
      <4>3. PICK x \in Nat : x = s[j]
        BY <4>2
      <4>4. x < n + (i - index) - 1
        BY <2>2, <4>2, <4>3
      <4> QED BY <3>1, <4>2, <4>3, <4>4, Zenon
    <3>3. CASE j \in index + 1 .. index + k
      <4>1. r[j] = n + (j - index) - 1
        BY <1>6, <3>3, Zenon
      <4>2. n + (j - index) - 1 < n + (i - index) - 1
        BY <2>2, <3>3
      <4> QED BY <3>1, <4>1, <4>2, Zenon
    <3> QED BY <2>2, <3>2, <3>3
  <2>3. CASE i \in index + k + 1 .. l + k
    <3>1. i - k \in index + 1 .. l /\ i - k \in 1 .. l
      BY <1>8, <2>3
    <3>2. r[i] = s[i - k]
      BY <1>7, <2>3, Zenon
    <3>3. CASE j \in 1 .. index
      <4>1. j \in 1 .. (i - k) - 1
        BY <2>3, <3>3
      <4> QED BY <1>4, <1>5, <3>1, <3>2, <3>3, <4>1, Zenon
    <3>4. CASE j \in index + 1 .. index + k
      <4>1. r[j] = n + (j - index) - 1
        BY <1>6, <3>4, Zenon
      <4>2. s[i - k] > n + k - 1 /\ s[i - k] \in Nat
        BY <1>2, <1>8, <3>1, Zenon
      <4>3. PICK x \in Nat : x = s[i - k]
        BY <4>2
      <4>4. n + (j - index) - 1 < x
        BY <3>4, <4>2, <4>3
      <4> QED BY <3>2, <4>1, <4>3, <4>4, Zenon
    <3>5. CASE j \in index + k + 1 .. l + k
      <4>1. j - k \in 1 .. (i - k) - 1
        BY <2>3, <3>5
      <4>2. r[j] = s[j - k]
        BY <1>7, <3>5, Zenon
      <4> QED BY <1>4, <3>1, <3>2, <4>1, <4>2, Zenon
    <3> QED BY <2>3, <3>3, <3>4, <3>5
  <2> QED BY <1>8, <2>1, <2>2, <2>3
<1> QED BY <1>3, <1>9, Zenon DEF Increasing

(* A splice adds the k numbers, and drops none.                            *)
LEMMA SpliceAdds ==
  ASSUME NEW s \in Seq(Nat), NEW index \in Nat, index <= Len(s),
         NEW n \in Nat, NEW k \in Nat, NEW r, Laid(r, s, index, n, k)
  PROVE  Range(r) = Range(s) \cup (n .. n + k - 1)
<1>1. PICK l \in Nat : l = Len(s)
  BY LenProperties
<1>2. DOMAIN s = 1 .. l
  BY <1>1, LenProperties
<1>3. DOMAIN r = 1 .. (l + k)
  <2>1. r \in Seq(Nat) /\ Len(r) = Len(s) + k
    BY Zenon DEF Laid
  <2> QED BY <1>1, <2>1, LenProperties
<1>4. \A i \in 1 .. index : r[i] = s[i]
  BY Zenon DEF Laid
<1>5. \A i \in index + 1 .. index + k : r[i] = n + (i - index) - 1
  BY Zenon DEF Laid
<1>6. \A i \in index + k + 1 .. l + k : r[i] = s[i - k]
  BY <1>1, Zenon DEF Laid
<1>7. Range(r) = {r[i] : i \in 1 .. (l + k)} /\ Range(s) = {s[i] : i \in 1 .. l}
  BY <1>2, <1>3, Zenon DEF Range
<1>8. index <= l
  BY <1>1
<1>9. ASSUME NEW i \in 1 .. (l + k)
      PROVE  r[i] \in Range(s) \cup (n .. n + k - 1)
  <2>1. CASE i \in 1 .. index
    <3>1. i \in 1 .. l
      BY <1>8, <2>1
    <3> QED BY <1>4, <1>7, <2>1, <3>1, Zenon
  <2>2. CASE i \in index + 1 .. index + k
    <3>1. n + (i - index) - 1 \in n .. n + k - 1
      BY <2>2
    <3> QED BY <1>5, <2>2, <3>1, Zenon
  <2>3. CASE i \in index + k + 1 .. l + k
    <3>1. i - k \in 1 .. l
      BY <1>8, <2>3
    <3> QED BY <1>6, <1>7, <2>3, <3>1, Zenon
  <2> QED BY <1>8, <2>1, <2>2, <2>3
<1>10. ASSUME NEW i \in 1 .. l
       PROVE  s[i] \in Range(r)
  <2>1. CASE i \in 1 .. index
    <3>1. i \in 1 .. (l + k)
      BY <1>8, <2>1
    <3> QED BY <1>4, <1>7, <2>1, <3>1, Zenon
  <2>2. CASE i \in index + 1 .. l
    <3>1. i + k \in index + k + 1 .. l + k /\ i + k \in 1 .. (l + k) /\ (i + k) - k = i
      BY <1>8, <2>2
    <3> QED BY <1>6, <1>7, <3>1, Zenon
  <2> QED BY <1>8, <2>1, <2>2
<1>11. ASSUME NEW m \in n .. n + k - 1
       PROVE  m \in Range(r)
  <2>1. PICK i \in index + 1 .. index + k : i \in 1 .. (l + k) /\ n + (i - index) - 1 = m
    <3>1. /\ m - n + index + 1 \in index + 1 .. index + k
          /\ m - n + index + 1 \in 1 .. (l + k)
          /\ n + ((m - n + index + 1) - index) - 1 = m
      BY <1>8
    <3> QED BY <3>1, Zenon
  <2> QED BY <1>5, <1>7, <2>1, Zenon
<1> QED BY <1>7, <1>9, <1>10, <1>11, Zenon

(* Inserting k numbers from n on, none of which is there: they are added,  *)
(* and the deque stays increasing.                                         *)
LEMMA InsertBlock ==
  ASSUME NEW s \in Seq(Nat), Increasing(s), NEW n \in Nat, NEW k \in Nat,
         (n .. n + k - 1) \cap Range(s) = {}
  PROVE  /\ insert_packet_number(s, n, k) \in Seq(Nat)
         /\ Increasing(insert_packet_number(s, n, k))
         /\ Range(insert_packet_number(s, n, k)) = Range(s) \cup (n .. n + k - 1)
<1>1. PICK index \in 0 .. Len(s) :
        /\ index = Cardinality({i \in DOMAIN s : s[i] < n})
        /\ \A i \in 1 .. index : s[i] < n
        /\ \A i \in index + 1 .. Len(s) : s[i] >= n
  BY Zenon, Place
<1>2. PICK r : r = Spliced(s, index, n, k) /\ r = insert_packet_number(s, n, k)
  BY <1>1, Zenon DEF insert_packet_number, Spliced
<1>3. Laid(r, s, index, n, k)
  BY <1>1, <1>2, Layout, Zenon
<1>4. index \in Nat /\ index <= Len(s) /\ Len(s) \in Nat
  BY <1>1, LenProperties
<1>5. ASSUME NEW i \in index + 1 .. Len(s)
      PROVE  s[i] > n + k - 1
  <2>1. i \in DOMAIN s /\ s[i] \in Nat
    BY <1>4, LenProperties
  <2>2. s[i] >= n
    BY <1>1, Zenon
  <2>3. s[i] \in Range(s)
    BY <2>1, Zenon DEF Range
  <2>4. s[i] \notin n .. n + k - 1
    BY <2>3, Zenon
  <2>5. PICK x \in Nat : x = s[i]
    BY <2>1
  <2>6. x > n + k - 1
    BY <2>2, <2>4, <2>5
  <2> QED BY <2>5, <2>6, Zenon
<1>6. Increasing(r)
  BY <1>1, <1>3, <1>4, <1>5, SpliceIncreases, Zenon
<1>7. Range(r) = Range(s) \cup (n .. n + k - 1)
  BY <1>3, <1>4, SpliceAdds, SMTT(20)
<1>8. r \in Seq(Nat)
  BY <1>3, Zenon DEF Laid
<1> QED BY <1>2, <1>6, <1>7, <1>8, Zenon

-----------------------------------------------------------------------------
(* The conjuncts of Holds, with the deque as a sequence of naturals.       *)
LEMMA HoldsMeans ==
  ASSUME NEW w, NEW taken
  PROVE  Holds(w, taken) <=>
           /\ w \in [smallest : Start .. LastNumber + 1, numbers : Seq(PacketNumbers)]
           /\ Start .. w.smallest - 1 \cup Range(w.numbers) = taken
           /\ \A i \in DOMAIN w.numbers : w.numbers[i] >= w.smallest
           /\ Increasing(w.numbers)
BY Zenon DEF Holds, Increasing

(* Packet numbers are naturals, and so is what an ack is made of.          *)
LEMMA Naturals ==
  /\ Start \in Nat /\ LastNumber \in Nat /\ Start <= LastNumber /\ Start >= 1
  /\ PacketNumbers \subseteq Nat /\ Seq(PacketNumbers) \subseteq Seq(Nat)
  /\ \A a \in Ack : /\ a.base \in Nat /\ a.num \in Nat /\ a.num >= 1
                    /\ a.base \in Numbers(a) /\ Numbers(a) \subseteq Nat
                    /\ Cardinality(Numbers(a)) = a.num
<1>1. /\ Start \in Nat /\ LastNumber \in Nat /\ Start <= LastNumber /\ Start >= 1
      /\ Batches \subseteq Nat \ {0}
  BY AcksAssumption
<1>2. PacketNumbers \subseteq Nat
  BY <1>1 DEF PacketNumbers
<1>3. ASSUME NEW s \in Seq(PacketNumbers)
      PROVE  s \in Seq(Nat)
  <2>1. Len(s) \in Nat /\ s \in [1 .. Len(s) -> Nat]
    BY Zenon, <1>2, LenProperties
  <2> QED BY <2>1
<1>4. ASSUME NEW a \in Ack
      PROVE  /\ a.base \in Nat /\ a.num \in Nat /\ a.num >= 1
             /\ a.base \in Numbers(a) /\ Numbers(a) \subseteq Nat
             /\ Cardinality(Numbers(a)) = a.num
  <2>1. a.base \in Start .. LastNumber /\ a.num \in Batches
    BY DEF Ack
  <2>2. PICK b \in Nat, n \in Nat : a.base = b /\ a.num = n /\ n >= 1
    <3>1. a.base \in Nat
      BY <1>1, <2>1
    <3>2. PICK n \in Nat \ {0} : n = a.num
      BY <1>1, <2>1, Zenon
    <3>3. n \in Nat /\ n >= 1
      BY <3>2
    <3> QED BY <3>1, <3>2, <3>3, Zenon
  <2>3. Numbers(a) = b .. b + n - 1
    BY <2>2, Zenon DEF Numbers
  <2>4. Cardinality(b .. b + n - 1) = n
    <3>1. b \in Int /\ b + n - 1 \in Int /\ b <= b + n - 1 /\ (b + n - 1) - b + 1 = n
      BY <2>2
    <3> QED BY <3>1, FS_Interval
  <2> QED BY <2>2, <2>3, <2>4
<1> QED BY <1>1, <1>2, <1>3, <1>4

(* The numbers that insert_range puts into the window, unless it refuses.  *)
NewNumbers(w, a) ==
  IF \A n \in Range(w.numbers) : n < a.base THEN Numbers(a)
  ELSE {n \in Numbers(a) : \A m \in a.base .. n : m \notin Range(w.numbers)}

(* insert_range in terms of them.                                          *)
LEMMA InsertRange ==
  ASSUME NEW w, NEW a
  PROVE  insert_range(w, a) =
           IF a.base < w.smallest \/ (a.base + a.num - 1) - w.smallest >= MAX_SLIDING_WINDOW_SIZE
           THEN [ok |-> FALSE, window |-> w]
           ELSE [ok |-> NewNumbers(w, a) = Numbers(a),
                 window |-> [w EXCEPT !.numbers =
                   insert_packet_number(@, a.base, Cardinality(NewNumbers(w, a)))]]
BY DEF insert_range, NewNumbers

(* insert_range, where the range is refused or its first number is held:   *)
(* nothing happens.                                                        *)
LEMMA RangeRejected ==
  ASSUME NEW w, NEW taken, Holds(w, taken), NEW a \in Ack,
         a.base < w.smallest \/ a.base \in Range(w.numbers)
         \/ (a.base + a.num - 1) - w.smallest >= MAX_SLIDING_WINDOW_SIZE
  PROVE  insert_range(w, a) = [ok |-> FALSE, window |-> w]
<1>1. PICK new : new = NewNumbers(w, a)
  OBVIOUS
<1>2. insert_range(w, a) =
        IF a.base < w.smallest \/ (a.base + a.num - 1) - w.smallest >= MAX_SLIDING_WINDOW_SIZE
        THEN [ok |-> FALSE, window |-> w]
        ELSE [ok |-> new = Numbers(a),
              window |-> [w EXCEPT !.numbers =
                insert_packet_number(w.numbers, a.base, Cardinality(new))]]
  BY <1>1, InsertRange, Zenon
<1>3. CASE a.base < w.smallest \/ (a.base + a.num - 1) - w.smallest >= MAX_SLIDING_WINDOW_SIZE
  BY <1>2, <1>3, Zenon
<1>4. CASE ~(a.base < w.smallest \/ (a.base + a.num - 1) - w.smallest >= MAX_SLIDING_WINDOW_SIZE)
  <2>1. a.base \in Range(w.numbers)
    BY <1>4, Zenon
  <2>2. a.base \in Nat /\ Numbers(a) \subseteq Nat /\ a.base \in Numbers(a)
    BY Naturals
  <2>3. ~\A n \in Range(w.numbers) : n < a.base
    BY <2>1, <2>2
  <2>4. \A n \in Numbers(a) : a.base \in a.base .. n
    <3>1. \A n \in Numbers(a) : n \in Nat /\ n >= a.base
      BY <2>2, Naturals DEF Numbers
    <3> QED BY <2>2, <3>1
  <2>5. new = {}
    BY <1>1, <2>1, <2>3, <2>4, Zenon DEF NewNumbers
  <2>6. Cardinality(new) = 0 /\ new # Numbers(a)
    BY <2>2, <2>5, FS_EmptySet
  <2>7. w \in [smallest : Start .. LastNumber + 1, numbers : Seq(PacketNumbers)]
        /\ Increasing(w.numbers)
    BY HoldsMeans, Zenon
  <2>8. w.numbers \in Seq(Nat)
    BY <2>7, Naturals
  <2>9. insert_packet_number(w.numbers, a.base, 0) = w.numbers
    BY <2>2, <2>7, <2>8, InsertNone, Zenon
  <2>10. [w EXCEPT !.numbers = w.numbers] = w
    BY <2>7
  <2>11. insert_range(w, a) = [ok |-> FALSE, window |-> [w EXCEPT !.numbers = w.numbers]]
    BY <1>2, <1>4, <2>6, <2>9, Zenon
  <2> QED BY <2>10, <2>11, Zenon
<1> QED BY <1>3, <1>4, Zenon

(* insert_range, where the range is not refused and none of its numbers is *)
(* held: all of them go in.                                                *)
LEMMA RangeTaken ==
  ASSUME NEW w, NEW taken, Holds(w, taken), NEW a \in Ack, Numbers(a) \subseteq PacketNumbers,
         ~(a.base < w.smallest),
         ~((a.base + a.num - 1) - w.smallest >= MAX_SLIDING_WINDOW_SIZE),
         Numbers(a) \cap Range(w.numbers) = {}
  PROVE  /\ insert_range(w, a).ok = TRUE
         /\ Holds(insert_range(w, a).window, taken \cup Numbers(a))
         /\ insert_range(w, a).window.smallest = w.smallest
<1>1. PICK new : new = NewNumbers(w, a)
  OBVIOUS
<1>2. insert_range(w, a) =
        [ok |-> new = Numbers(a),
         window |-> [w EXCEPT !.numbers =
           insert_packet_number(w.numbers, a.base, Cardinality(new))]]
  BY <1>1, InsertRange, Zenon
<1>3. /\ a.base \in Nat /\ a.num \in Nat /\ a.num >= 1 /\ Numbers(a) \subseteq Nat
      /\ Cardinality(Numbers(a)) = a.num
  BY Naturals
<1>4. new = Numbers(a)
  <2>1. ASSUME NEW n \in Numbers(a), NEW m \in a.base .. n
        PROVE  m \notin Range(w.numbers)
    <3>1. m \in Numbers(a)
      BY <1>3 DEF Numbers
    <3> QED BY <3>1
  <2> QED BY <1>1, <2>1, Zenon DEF NewNumbers
<1>5. PICK r : r = insert_packet_number(w.numbers, a.base, a.num)
  OBVIOUS
<1>6. /\ w \in [smallest : Start .. LastNumber + 1, numbers : Seq(PacketNumbers)]
      /\ Start .. w.smallest - 1 \cup Range(w.numbers) = taken
      /\ \A i \in DOMAIN w.numbers : w.numbers[i] >= w.smallest
      /\ Increasing(w.numbers)
  BY HoldsMeans, Zenon
<1>7. w.numbers \in Seq(Nat) /\ w.numbers \in Seq(PacketNumbers) /\ w.smallest \in Nat
  BY <1>6, Naturals
<1>8. \A m \in a.base .. a.base + a.num - 1 : m \notin Range(w.numbers)
  BY Zenon DEF Numbers
<1>9. r \in Seq(Nat) /\ Increasing(r) /\ Range(r) = Range(w.numbers) \cup Numbers(a)
  <2>1. /\ r \in Seq(Nat) /\ Increasing(r)
        /\ Range(r) = Range(w.numbers) \cup (a.base .. a.base + a.num - 1)
    <3>1. PICK s \in Seq(Nat), b \in Nat, k \in Nat : s = w.numbers /\ b = a.base /\ k = a.num
      BY <1>3, <1>7, Zenon
    <3>2. /\ Increasing(s) /\ r = insert_packet_number(s, b, k)
          /\ (b .. b + k - 1) \cap Range(s) = {}
      BY <1>5, <1>6, <1>8, <3>1, Zenon
    <3>3. r \in Seq(Nat) /\ Increasing(r) /\ Range(r) = Range(s) \cup (b .. b + k - 1)
      BY <3>2, InsertBlock, Zenon
    <3> QED BY <3>1, <3>3, Zenon
  <2> QED BY <2>1, Zenon DEF Numbers
<1>10. PICK v : v = [w EXCEPT !.numbers = r]
  BY Zenon
<1>11. insert_range(w, a) = [ok |-> TRUE, window |-> v]
  BY <1>2, <1>3, <1>4, <1>5, <1>10, Zenon
<1>12. v = [smallest |-> w.smallest, numbers |-> r]
  BY <1>6, <1>10
<1>13. ASSUME NEW i \in DOMAIN r
       PROVE  r[i] \in PacketNumbers /\ r[i] >= w.smallest
  <2>1. r[i] \in Range(r)
    BY Zenon DEF Range
  <2>2. CASE r[i] \in Numbers(a)
    BY <1>3, <1>7, <2>2 DEF Numbers
  <2>3. CASE r[i] \in Range(w.numbers)
    <3>1. PICK j \in DOMAIN w.numbers : r[i] = w.numbers[j]
      BY <2>3, Zenon DEF Range
    <3>2. w.numbers[j] \in PacketNumbers
      BY <1>7, LenProperties
    <3> QED BY <1>6, <3>1, <3>2, Zenon
  <2> QED BY <1>9, <2>1, <2>2, <2>3, Zenon
<1>14. r \in Seq(PacketNumbers)
  BY <1>9, <1>13
<1>15. v.smallest = w.smallest /\ v.numbers = r
       /\ v \in [smallest : Start .. LastNumber + 1, numbers : Seq(PacketNumbers)]
  BY <1>6, <1>12, <1>14
<1>16. Start .. v.smallest - 1 \cup Range(v.numbers) = taken \cup Numbers(a)
  BY <1>6, <1>9, <1>15, Zenon
<1>17. Holds(v, taken \cup Numbers(a))
  BY <1>9, <1>13, <1>15, <1>16, HoldsMeans, Zenon
<1>18. insert_range(w, a).ok = TRUE /\ insert_range(w, a).window = v
  BY <1>11
<1> QED BY <1>15, <1>17, <1>18, Zenon

(* The window and the numbers taken, as buffering one ack after the other  *)
(* carries them along.                                                     *)
Sound(state) ==
  /\ Holds(state.window, state.accepted) /\ Whole(state.accepted)
  /\ state.window.smallest = window.smallest

(* buffer_ack_packet: an ack goes in as a whole, or is already counted, or *)
(* is refused.                                                             *)
LEMMA BufferAckKeeps ==
  ASSUME Issued, acked \subseteq PacketNumbers, NEW a \in OnWay, a \in Ack,
         NEW state, Sound(state)
  PROVE  Sound(BufferAck(state, a))
<1>1. PICK w, taken : w = state.window /\ taken = state.accepted
  OBVIOUS
<1>2. Holds(w, taken) /\ Whole(taken) /\ w.smallest = window.smallest
  BY <1>1, Zenon DEF Sound
<1>3. PICK res : res = insert_range(w, a)
  OBVIOUS
<1>4. BufferAck(state, a) =
        [window |-> res.window, accepted |-> taken \cup (IF res.ok THEN Numbers(a) ELSE {}),
         ok |-> state.ok /\ res.ok]
  BY <1>1, <1>3 DEF BufferAck
<1>5. BufferAck(state, a).window = res.window
      /\ BufferAck(state, a).accepted = taken \cup (IF res.ok THEN Numbers(a) ELSE {})
  BY <1>4
<1>6. Numbers(a) \subseteq acked /\ Numbers(a) \subseteq PacketNumbers
  BY Zenon DEF Issued
<1>7. CASE \/ a.base < w.smallest \/ a.base \in Range(w.numbers)
           \/ (a.base + a.num - 1) - w.smallest >= MAX_SLIDING_WINDOW_SIZE
  <2>1. res = [ok |-> FALSE, window |-> w]
    BY <1>2, <1>3, <1>7, RangeRejected
  <2>2. res.ok = FALSE /\ res.window = w
    BY <2>1
  <2>3. BufferAck(state, a).window = w /\ BufferAck(state, a).accepted = taken
    BY <1>5, <2>2, Zenon
  <2> QED BY <1>2, <2>3, Zenon DEF Sound
<1>8. CASE /\ ~(a.base < w.smallest) /\ a.base \notin Range(w.numbers)
           /\ ~((a.base + a.num - 1) - w.smallest >= MAX_SLIDING_WINDOW_SIZE)
  <2>1. /\ w \in [smallest : Start .. LastNumber + 1, numbers : Seq(PacketNumbers)]
        /\ Start .. w.smallest - 1 \cup Range(w.numbers) = taken
    BY <1>2, Zenon DEF Holds
  <2>2. w.smallest \in Nat /\ a.base \in Nat /\ a.base \in Numbers(a)
    BY <2>1, Naturals
  <2>3. a.base \notin Start .. w.smallest - 1
    BY <1>8, <2>2, Naturals
  <2>4. a.base \notin taken
    BY <1>8, <2>1, <2>3, Zenon
  <2>5. Numbers(a) \cap taken = {}
    BY <1>2, <2>2, <2>4, Zenon DEF Whole
  <2>6. Numbers(a) \cap Range(w.numbers) = {}
    BY <2>1, <2>5, Zenon
  <2>7. /\ res.ok = TRUE /\ Holds(res.window, taken \cup Numbers(a))
        /\ res.window.smallest = window.smallest
    <3>1. ~(a.base < w.smallest)
      BY <1>8
    <3>2. ~((a.base + a.num - 1) - w.smallest >= MAX_SLIDING_WINDOW_SIZE)
      BY <1>8
    <3>3. /\ insert_range(w, a).ok = TRUE
          /\ Holds(insert_range(w, a).window, taken \cup Numbers(a))
          /\ insert_range(w, a).window.smallest = w.smallest
      BY <1>2, <1>6, <2>6, <3>1, <3>2, RangeTaken, Zenon
    <3> QED BY <1>2, <1>3, <3>3, Zenon
  <2>8. Whole(taken \cup Numbers(a))
    <3>1. taken \cup Numbers(a) \subseteq acked
      BY <1>2, <1>6, Zenon DEF Whole
    <3>2. ASSUME NEW b \in OnWay
          PROVE  \/ Numbers(b) \subseteq taken \cup Numbers(a)
                 \/ Numbers(b) \cap (taken \cup Numbers(a)) = {}
      <4>1. Numbers(b) \subseteq taken \/ Numbers(b) \cap taken = {}
        BY <1>2, Zenon DEF Whole
      <4>2. a = b \/ Numbers(a) \cap Numbers(b) = {}
        BY Zenon DEF Issued
      <4> QED BY <4>1, <4>2
    <3> QED BY <3>1, <3>2, Zenon DEF Whole
  <2>9. BufferAck(state, a).accepted = taken \cup Numbers(a)
    BY <1>5, <2>7, Zenon
  <2> QED BY <1>5, <2>7, <2>8, <2>9, Zenon DEF Sound
<1> QED BY <1>7, <1>8, Zenon

-----------------------------------------------------------------------------
(* The fold over a datagram.  The library defines it by recursion over the *)
(* sets of positions, the last position first; Folds(d, base, g) says that *)
(* g is the function that this recursion defines.                          *)
Folds(d, base, g) ==
  g = [s \in SUBSET (DOMAIN d) |->
         IF s = {} THEN base ELSE BufferAck(g[s \ {Max(s)}], d[Max(s)])]

(* There is such a function, since a datagram is finite.                   *)
LEMMA FoldsExist ==
  ASSUME NEW d \in Seq(Ack), NEW base
  PROVE  \E g : Folds(d, base, g)
<1>1. PICK S : S = DOMAIN d /\ IsFiniteSet(S) /\ \E n \in Nat : S = 1 .. n
  <2>1. DOMAIN d = 1 .. Len(d) /\ Len(d) \in Nat /\ IsFiniteSet(1 .. Len(d))
    BY LenProperties, FS_Interval
  <2>2. PICK n \in Nat : n = Len(d)
    BY Zenon, <2>1
  <2>3. DOMAIN d = 1 .. n /\ IsFiniteSet(DOMAIN d)
    BY <2>1, <2>2, Zenon
  <2> QED BY <2>3, Zenon
<1> DEFINE UpTo(g, k) ==
      \A s \in SUBSET S :
        Cardinality(s) <= k =>
          g[s] = IF s = {} THEN base ELSE BufferAck(g[s \ {Max(s)}], d[Max(s)])
<1> DEFINE T == {k \in Nat : \E g : UpTo(g, k)}
<1>2. \A s \in SUBSET S : /\ IsFiniteSet(s) /\ Cardinality(s) \in Nat
                          /\ Cardinality(s) <= Cardinality(S) /\ Cardinality(S) \in Nat
                          /\ Cardinality(s) = 0 <=> s = {}
  BY Zenon, <1>1, FS_Subset, FS_CardinalityType, FS_EmptySet
<1>3. ASSUME NEW s \in SUBSET S, s # {}
      PROVE  /\ Max(s) \in s /\ s \ {Max(s)} \in SUBSET S
             /\ Cardinality(s \ {Max(s)}) = Cardinality(s) - 1
  <2>1. PICK n \in Nat : s \in SUBSET Nat /\ \A y \in s : y <= n
    <3>1. PICK n \in Nat : S = 1 .. n
      BY <1>1
    <3>2. s \in SUBSET Nat /\ \A y \in s : y <= n
      BY <3>1
    <3> QED BY <3>2, Zenon
  <2>2. Max(s) \in s
    BY <1>3, <2>1, MaxOf, Zenon
  <2>3. Cardinality(s \ {Max(s)}) = Cardinality(s) - 1
    BY <1>2, <2>2, FS_RemoveElement
  <2> QED BY <2>2, <2>3
<1>4. 0 \in T
  <2>1. PICK g : g = [s \in SUBSET S |-> base]
    BY Zenon
  <2>2. ASSUME NEW s \in SUBSET S, Cardinality(s) <= 0
        PROVE  s = {} /\ g[s] = base
    BY <1>2, <2>1, <2>2
  <2>3. UpTo(g, 0)
    BY <2>2, Zenon
  <2> QED BY Zenon, <2>3
<1>5. ASSUME NEW k \in T
      PROVE  k + 1 \in T
  <2>1. PICK g : UpTo(g, k)
    BY Zenon
  <2>2. PICK h : h = [s \in SUBSET S |-> IF Cardinality(s) = k + 1
                                         THEN BufferAck(g[s \ {Max(s)}], d[Max(s)]) ELSE g[s]]
    BY Zenon
  <2>3. k \in Nat /\ k + 1 \in Nat
    OBVIOUS
  <2>4. ASSUME NEW s \in SUBSET S, Cardinality(s) <= k + 1
        PROVE  h[s] = IF s = {} THEN base ELSE BufferAck(h[s \ {Max(s)}], d[Max(s)])
    <3>1. CASE s = {}
      <4>1. Cardinality(s) = 0 /\ Cardinality(s) # k + 1 /\ Cardinality(s) <= k
        BY <1>2, <2>3, <3>1
      <4>2. h[s] = g[s]
        BY <2>2, <4>1, Zenon
      <4>3. g[s] = base
        BY <2>1, <3>1, <4>1, Zenon
      <4> QED BY <3>1, <4>2, <4>3, Zenon
    <3>2. CASE s # {}
      <4>1. /\ s \ {Max(s)} \in SUBSET S
            /\ Cardinality(s \ {Max(s)}) = Cardinality(s) - 1
        BY <1>3, <3>2
      <4>2. Cardinality(s \ {Max(s)}) # k + 1 /\ Cardinality(s) \in Nat
        BY <1>2, <2>3, <2>4, <4>1
      <4>3. h[s \ {Max(s)}] = g[s \ {Max(s)}]
        BY <2>2, <4>1, <4>2, Zenon
      <4>4. CASE Cardinality(s) = k + 1
        BY <2>2, <3>2, <4>3, <4>4, Zenon
      <4>5. CASE Cardinality(s) # k + 1
        <5>1. Cardinality(s) <= k
          BY <2>3, <2>4, <4>2, <4>5
        <5>2. h[s] = g[s]
          BY <2>2, <4>5, Zenon
        <5>3. g[s] = BufferAck(g[s \ {Max(s)}], d[Max(s)])
          BY <2>1, <3>2, <5>1, Zenon
        <5> QED BY <3>2, <4>3, <5>2, <5>3, Zenon
      <4> QED BY <4>4, <4>5
    <3> QED BY <3>1, <3>2
  <2>5. UpTo(h, k + 1)
    BY <2>4, Zenon
  <2> QED BY Zenon, <2>3, <2>5
<1>6. T = Nat
  <2> HIDE DEF T
  <2>1. T \in SUBSET Nat
    BY DEF T
  <2> QED BY <1>4, <1>5, <2>1, NatSetInduction
<1>7. PICK f : UpTo(f, Cardinality(S))
  <2>1. Cardinality(S) \in T
    BY Zenon, <1>2, <1>6
  <2> QED BY Zenon, <2>1
<1>8. PICK g : g = [s \in SUBSET S |-> f[s]]
  BY Zenon
<1>9. ASSUME NEW s \in SUBSET S
      PROVE  f[s] = IF s = {} THEN base ELSE BufferAck(g[s \ {Max(s)}], d[Max(s)])
  <2>1. f[s] = IF s = {} THEN base ELSE BufferAck(f[s \ {Max(s)}], d[Max(s)])
    BY <1>2, <1>7, Zenon
  <2>2. s # {} => g[s \ {Max(s)}] = f[s \ {Max(s)}]
    BY <1>3, <1>8, Zenon
  <2> QED BY <2>1, <2>2, Zenon
<1>10. g = [s \in SUBSET S |->
              IF s = {} THEN base ELSE BufferAck(g[s \ {Max(s)}], d[Max(s)])]
  BY Zenon, <1>8, <1>9
<1>11. Folds(d, base, g)
  BY <1>1, <1>10, Zenon DEF Folds
<1> QED BY <1>11

(* Buffering a whole datagram keeps the window exact.                      *)
LEMMA BufferedKeeps ==
  ASSUME Issued, acked \subseteq PacketNumbers, NEW d \in Seq(Ack), Range(d) \subseteq OnWay,
         Holds(window, accepted), Whole(accepted)
  PROVE  Sound(Buffered(d))
<1>1. PICK base : base = [window |-> window, accepted |-> accepted, ok |-> TRUE]
  BY Zenon
<1>2. Sound(base)
  <2>1. base.window = window /\ base.accepted = accepted
    BY <1>1
  <2> QED BY <2>1, Zenon DEF Sound
<1>3. PICK n \in Nat : n = Len(d) /\ DOMAIN d = 1 .. n
  BY LenProperties
<1>4. Buffered(d) =
        (CHOOSE iter : iter = [s \in SUBSET (DOMAIN d) |->
           IF s = {} THEN base ELSE BufferAck(iter[s \ {Max(s)}], d[Max(s)])])[DOMAIN d]
  BY <1>1 DEF Buffered, MapThenFoldSet
<1>5. Buffered(d) = (CHOOSE iter : Folds(d, base, iter))[DOMAIN d]
  BY <1>4, Zenon DEF Folds
<1>6. PICK g : g = CHOOSE iter : Folds(d, base, iter)
  OBVIOUS
<1>7. Folds(d, base, g)
  BY <1>6, FoldsExist, Zenon
<1>8. \A s \in SUBSET (DOMAIN d) :
        g[s] = IF s = {} THEN base ELSE BufferAck(g[s \ {Max(s)}], d[Max(s)])
  BY <1>7, Zenon DEF Folds
<1> DEFINE T == {k \in Nat : k <= n => Sound(g[1 .. k])}
<1>9. 0 \in T
  <2>1. 1 .. 0 = {} /\ 1 .. 0 \in SUBSET (DOMAIN d)
    OBVIOUS
  <2>2. g[1 .. 0] = base
    BY <1>8, <2>1, Zenon
  <2>3. Sound(g[1 .. 0])
    BY <1>2, <2>2, Zenon
  <2> QED BY <2>3
<1>10. ASSUME NEW k \in T
       PROVE  k + 1 \in T
  <2>1. CASE ~(k + 1 <= n)
    BY <2>1
  <2>2. CASE k + 1 <= n
    <3>1. k \in Nat /\ k <= n /\ k + 1 \in DOMAIN d
      BY <1>3, <2>2
    <3>2. Sound(g[1 .. k])
      BY <3>1
    <3>3. PICK s : s = 1 .. (k + 1)
      OBVIOUS
    <3>4. s \in SUBSET (DOMAIN d) /\ s # {} /\ s \in SUBSET Nat /\ k + 1 \in s
          /\ (\A y \in s : y <= k + 1) /\ k + 1 \in Nat
      <4>1. k + 1 \in s /\ k + 1 \in Nat
        BY <3>1, <3>3
      <4>2. \A y \in s : y \in Nat /\ y <= k + 1
        BY <3>1, <3>3
      <4>3. \A y \in s : y \in DOMAIN d
        BY <1>3, <2>2, <3>1, <3>3
      <4> QED BY <4>1, <4>2, <4>3, Zenon
    <3>5. Max(s) \in s /\ \A y \in s : y <= Max(s)
      BY <3>4, MaxOf, Zenon
    <3>6. Max(s) = k + 1
      BY <3>4, <3>5
    <3>7. s \ {k + 1} = 1 .. k
      BY <3>1, <3>3
    <3>8. g[s] = BufferAck(g[1 .. k], d[k + 1])
      BY <1>8, <3>4, <3>6, <3>7, Zenon
    <3>9. d[k + 1] \in Ack /\ d[k + 1] \in OnWay
      <4>1. d[k + 1] \in Range(d)
        BY <3>1, Zenon DEF Range
      <4>2. d[k + 1] \in Ack
        BY <1>3, <3>1, LenProperties
      <4> QED BY <4>1, <4>2
    <3>10. Sound(BufferAck(g[1 .. k], d[k + 1]))
      BY <3>2, <3>9, BufferAckKeeps, Zenon
    <3>11. Sound(g[1 .. (k + 1)])
      BY <3>3, <3>8, <3>10, Zenon
    <3> QED BY <3>4, <3>11
  <2> QED BY <2>1, <2>2
<1>11. T = Nat
  <2> HIDE DEF T
  <2>1. T \in SUBSET Nat
    BY DEF T
  <2> QED BY <1>9, <1>10, <2>1, NatSetInduction
<1>12. Sound(g[1 .. n])
  BY <1>3, <1>11
<1> QED BY <1>3, <1>5, <1>6, <1>12, Zenon

(* consume() moves the run at the front of the deque below "smallest", and *)
(* nothing else.                                                           *)
LEMMA ConsumeKeeps ==
  ASSUME NEW w, NEW taken, Holds(w, taken), Consumable(w)
  PROVE  Holds(consume(w), taken) /\ consume(w).smallest > w.smallest
<1>1. /\ w \in [smallest : Start .. LastNumber + 1, numbers : Seq(PacketNumbers)]
      /\ Start .. w.smallest - 1 \cup Range(w.numbers) = taken
      /\ \A i \in DOMAIN w.numbers : w.numbers[i] >= w.smallest
      /\ Increasing(w.numbers)
  BY HoldsMeans, Zenon
<1>2. PICK s \in Seq(PacketNumbers) : s = w.numbers
  BY <1>1
<1>3. PICK l \in Nat : l = Len(s) /\ DOMAIN s = 1 .. l /\ l >= 1
  <2>1. Len(s) \in Nat /\ DOMAIN s = 1 .. Len(s)
    BY LenProperties
  <2>2. s # <<>>
    BY <1>2, Zenon DEF Consumable
  <2>3. Len(s) # 0
    BY <2>2, EmptySeq, Zenon
  <2>4. Len(s) >= 1
    BY <2>1, <2>3
  <2> QED BY Zenon, <2>1, <2>4
<1>4. \A i \in 1 .. l : s[i] \in PacketNumbers /\ s[i] \in Nat
  BY <1>3, Naturals, LenProperties
<1>5. PICK m \in Nat : m = w.smallest /\ m >= Start
  BY <1>1, Naturals
<1>6. s[1] = m
  <2>1. 1 \in DOMAIN s /\ s[1] \in Nat
    BY <1>3, <1>4
  <2>2. s[1] <= m /\ s[1] >= m
    BY <1>1, <1>2, <1>5, <2>1, Zenon DEF Consumable
  <2> QED BY <2>1, <2>2
<1>7. PICK run : run = {i \in DOMAIN s : \A j \in 1 .. i : s[j] = s[1] + j - 1}
  BY Zenon
<1>8. PICK k : k = Max(run)
  OBVIOUS
<1>9. consume(w) = [smallest |-> s[k] + 1, numbers |-> SubSeq(s, k + 1, Len(s))]
  BY <1>2, <1>7, <1>8, Zenon DEF consume
<1>10. 1 \in run
  <2>1. \A j \in 1 .. 1 : s[j] = s[1] + j - 1
    <3>1. \A j \in 1 .. 1 : j = 1
      OBVIOUS
    <3>2. s[1] = s[1] + 1 - 1
      BY <1>5, <1>6
    <3> QED BY <3>1, <3>2, Zenon
  <2>2. 1 \in DOMAIN s
    BY <1>3
  <2> QED BY <1>7, <2>1, <2>2
<1>11. k \in run /\ \A y \in run : y <= k
  <2>1. run \in SUBSET Nat /\ run # {} /\ \A y \in run : y <= l
    BY <1>3, <1>7, <1>10
  <2> QED BY <1>8, <2>1, MaxOf, Zenon
<1>12. k \in 1 .. l /\ \A j \in 1 .. k : s[j] = m + j - 1
  BY <1>3, <1>6, <1>7, <1>11, Zenon
<1>13. s[k] = m + k - 1 /\ s[k] \in PacketNumbers
  <2>1. k \in 1 .. k
    BY <1>12
  <2> QED BY <1>4, <1>12, <2>1, Zenon
<1>14. s[k] + 1 = m + k
  BY <1>5, <1>12, <1>13
<1>15. PICK r : r = SubSeq(s, k + 1, Len(s))
  BY Zenon
<1>16. PICK c \in Nat : l = k + c
  <2>1. l - k \in Nat /\ l = k + (l - k)
    BY <1>12
  <2> QED BY <2>1, Zenon
<1>17. \A i \in 1 .. c : k + i \in 1 .. l /\ k \in 1 .. (k + i) - 1
  BY <1>12, <1>16
<1>18. r = [i \in 1 .. c |-> s[k + i]]
  <2>1. r = [i \in 1 .. Len(s) - (k + 1) + 1 |-> s[k + 1 + i - 1]]
    BY <1>3, <1>12, <1>15
  <2>2. Len(s) - (k + 1) + 1 = c
    BY <1>3, <1>12, <1>16
  <2>3. \A i \in 1 .. c : k + 1 + i - 1 = k + i
    BY <1>12, <1>16
  <2> QED BY <2>1, <2>2, <2>3
<1>19. DOMAIN r = 1 .. c /\ (\A i \in 1 .. c : r[i] = s[k + i]) /\ r \in Seq(PacketNumbers)
  BY <1>4, <1>18, <1>17
<1>20. \A x \in 1 .. l : \A y \in 1 .. x - 1 : s[y] < s[x]
  BY <1>1, <1>2, <1>3, Zenon DEF Increasing
<1>21. Increasing(r)
  <2>1. ASSUME NEW i \in 1 .. c, NEW j \in 1 .. i - 1
        PROVE  r[j] < r[i]
    <3>1. j \in 1 .. c /\ k + i \in 1 .. l /\ k + j \in 1 .. (k + i) - 1
      BY <1>12, <1>16
    <3> QED BY <1>19, <1>20, <3>1, Zenon
  <2> QED BY <1>19, <2>1, Zenon DEF Increasing
<1>22. ASSUME NEW i \in 1 .. c
       PROVE  r[i] >= m + k
  <2>1. k \in 1 .. (k + i) - 1 /\ k + i \in 1 .. l
    BY <1>17
  <2>2. r[i] = s[k + i] /\ s[k] < s[k + i] /\ s[k + i] \in Nat
    BY <1>4, <1>19, <1>20, <2>1, Zenon
  <2>3. PICK x \in Nat : x = s[k + i]
    BY <2>2
  <2>4. x >= m + k
    BY <1>5, <1>12, <1>13, <2>2, <2>3
  <2> QED BY <2>2, <2>3, <2>4, Zenon
<1>23. Start .. (m + k) - 1 \cup Range(r) = Start .. m - 1 \cup Range(s)
  <2>1. Range(s) = {s[i] : i \in 1 .. l} /\ Range(r) = {r[i] : i \in 1 .. c}
    BY <1>3, <1>19, Zenon DEF Range
  <2>2. ASSUME NEW n \in Start .. (m + k) - 1
        PROVE  n \in Start .. m - 1 \cup Range(s)
    <3>1. CASE n <= m - 1
      BY <1>5, <1>12, <3>1, Naturals
    <3>2. CASE ~(n <= m - 1)
      <4>1. n - m + 1 \in 1 .. k /\ n - m + 1 \in 1 .. l /\ m + (n - m + 1) - 1 = n
        <5>1. Start \in Nat /\ k \in Nat /\ k <= l
          BY <1>12, Naturals
        <5>2. n \in Int /\ n <= (m + k) - 1 /\ n > m - 1
          BY <1>5, <3>2, <5>1
        <5> QED BY <1>5, <5>1, <5>2
      <4> QED BY <1>12, <2>1, <4>1, Zenon
    <3> QED BY <3>1, <3>2
  <2>3. ASSUME NEW i \in 1 .. c
        PROVE  r[i] \in Range(s)
    BY <1>19, <1>17, <2>1, Zenon
  <2>4. ASSUME NEW i \in 1 .. l
        PROVE  s[i] \in Start .. (m + k) - 1 \cup Range(r)
    <3>1. CASE i \in 1 .. k
      <4>1. m + i - 1 \in Start .. (m + k) - 1
        BY <1>5, <1>12, <3>1, Naturals
      <4> QED BY <1>12, <3>1, <4>1, Zenon
    <3>2. CASE ~(i \in 1 .. k)
      <4>1. i - k \in 1 .. c /\ k + (i - k) = i
        BY <1>12, <1>16, <3>2
      <4> QED BY <1>19, <2>1, <4>1, Zenon
    <3> QED BY <3>1, <3>2
  <2>5. \A n \in Start .. m - 1 : n \in Start .. (m + k) - 1
    BY <1>5, <1>12, Naturals
  <2> QED BY <2>1, <2>2, <2>3, <2>4, <2>5, Zenon
<1>24. PICK v : v = consume(w)
  OBVIOUS
<1>25. v = [smallest |-> m + k, numbers |-> r]
  BY <1>9, <1>14, <1>15, <1>24, Zenon
<1>26. m + k \in Start .. LastNumber + 1 /\ m + k > m
  <2>1. Start \in Nat /\ LastNumber \in Nat
    BY Naturals
  <2>2. m + k - 1 \in Start .. LastNumber
    BY <1>13, Zenon DEF PacketNumbers
  <2> QED BY <1>5, <1>12, <2>1, <2>2
<1>27. /\ v \in [smallest : Start .. LastNumber + 1, numbers : Seq(PacketNumbers)]
       /\ v.smallest = m + k /\ v.numbers = r
  BY <1>19, <1>25, <1>26
<1>28. Start .. v.smallest - 1 \cup Range(v.numbers) = taken
  BY <1>1, <1>2, <1>5, <1>23, <1>27, Zenon
<1>29. \A i \in DOMAIN v.numbers : v.numbers[i] >= v.smallest
  BY <1>19, <1>22, <1>27, Zenon
<1>30. Holds(v, taken)
  BY <1>21, <1>27, <1>28, <1>29, HoldsMeans, Zenon
<1> QED BY <1>5, <1>24, <1>26, <1>27, <1>30, Zenon

-----------------------------------------------------------------------------
(* What is in a part of a sequence, and in a sequence that grows.          *)
LEMMA PartOf ==
  ASSUME NEW S, NEW s \in Seq(S), NEW m \in Nat, m >= 1, NEW n \in Nat, n <= Len(s)
  PROVE  /\ SubSeq(s, m, n) \in Seq(S) /\ Range(SubSeq(s, m, n)) \subseteq Range(s)
         /\ Len(SubSeq(s, m, n)) <= n
<1>1. Len(s) \in Nat /\ DOMAIN s = 1 .. Len(s) /\ \A i \in 1 .. Len(s) : s[i] \in S
  BY LenProperties
<1>2. PICK r : r = SubSeq(s, m, n)
  BY Zenon
<1>3. \A i \in m .. n : i \in 1 .. Len(s)
  BY <1>1
<1>4. /\ r \in Seq(S) /\ Len(r) = IF m <= n THEN n - m + 1 ELSE 0
      /\ \A i \in 1 .. n - m + 1 : r[i] = s[m + i - 1]
  <2>1. m \in Int /\ n \in Int /\ \A i \in m .. n : s[i] \in S
    BY <1>1, <1>3
  <2>2. /\ SubSeq(s, m, n) \in Seq(S)
        /\ Len(SubSeq(s, m, n)) = IF m <= n THEN n - m + 1 ELSE 0
        /\ \A i \in 1 .. n - m + 1 : SubSeq(s, m, n)[i] = s[m + i - 1]
    BY <2>1, SubSeqProperties, SMTT(20)
  <2> QED BY <1>2, <2>2, Zenon
<1>5. Len(r) <= n
  BY <1>4
<1>6. ASSUME NEW i \in DOMAIN r
      PROVE  r[i] \in Range(s)
  <2>1. i \in 1 .. n - m + 1 /\ m + i - 1 \in DOMAIN s
    BY <1>1, <1>4, LenProperties
  <2> QED BY <1>4, <2>1, Zenon DEF Range
<1>7. Range(r) \subseteq Range(s)
  BY <1>6, Zenon DEF Range
<1> QED BY <1>2, <1>4, <1>5, <1>7, Zenon

(* Append adds one element.                                                *)
LEMMA Appended ==
  ASSUME NEW S, NEW s \in Seq(S), NEW e \in S
  PROVE  Append(s, e) \in Seq(S) /\ Range(Append(s, e)) \subseteq Range(s) \cup {e}
<1>1. PICK r : r = Append(s, e)
  BY Zenon
<1>2. r \in Seq(S)
  BY <1>1
<1>3. ASSUME NEW i \in DOMAIN r
      PROVE  r[i] \in Range(s) \cup {e}
  <2>1. Len(s) \in Nat /\ DOMAIN s = 1 .. Len(s) /\ DOMAIN r = 1 .. (Len(s) + 1)
    BY <1>1, LenProperties
  <2>2. CASE i \in DOMAIN s
    <3>1. r[i] = s[i]
      BY <1>1, <2>1, <2>2
    <3> QED BY <2>2, <3>1, Zenon DEF Range
  <2>3. CASE i = Len(s) + 1
    BY <1>1, <2>1, <2>3
  <2> QED BY <2>1, <2>2, <2>3
<1>4. Range(r) \subseteq Range(s) \cup {e}
  BY <1>3, Zenon DEF Range
<1> QED BY <1>1, <1>2, <1>4, Zenon

(* How many acks the pump takes.                                           *)
LEMMA Lesser ==
  ASSUME NEW a \in Nat, NEW b \in Nat
  PROVE  Min({a, b}) \in Nat /\ Min({a, b}) <= a /\ Min({a, b}) <= b
<1>1. \E x \in {a, b} : \A y \in {a, b} : x <= y
  OBVIOUS
<1>2. Min({a, b}) \in {a, b} /\ \A y \in {a, b} : Min({a, b}) <= y
  BY <1>1, Zenon DEF Min
<1> QED BY <1>2

-----------------------------------------------------------------------------
(* Acks that only move on, or are dropped, stay accounted for.             *)
LEMMA MovedOn ==
  ASSUME Issued, OnWay' \subseteq OnWay, UNCHANGED <<next, acked>>
  PROVE  Issued' /\ \A taken : Whole(taken) => Whole(taken)'
<1>1. next' = next /\ acked' = acked
  OBVIOUS
<1>2. \A a : Numbers(a)' = Numbers(a)
  BY DEF Numbers
<1>3. Issued'
  BY <1>1, Zenon DEF Issued
<1>4. ASSUME NEW taken, Whole(taken)
      PROVE  Whole(taken)'
  BY <1>1, <1>4, Zenon DEF Whole
<1> QED BY <1>3, <1>4

-----------------------------------------------------------------------------
(* The invariant holds initially.                                          *)
LEMMA InitWInv == Init => WInv
<1> SUFFICES ASSUME Init
             PROVE  WInv
  OBVIOUS
<1>1. Start \in Nat /\ LastNumber \in Nat /\ Start <= LastNumber
  BY Naturals
<1>2. Range(<<>>) = {} /\ <<>> \in Seq(Ack) /\ <<>> \in Seq(PacketNumbers) /\ Len(<<>>) = 0
  BY DEF Range
<1>3. Types
  <2>1. next \in Start .. LastNumber + 1 /\ packets_consumed \in 0 .. packets_consumed_before_ack - 1
    BY <1>1, AcksAssumption DEF Init
  <2>2. channel \in Seq(Ack) /\ pending_send \in Seq(Ack) /\ wire \subseteq Seq(Ack) /\ <<>> \notin wire
    BY <1>2 DEF Init
  <2>3. \A d \in wire \cup {pending_send} : Len(d) <= RecvLimit
    BY <1>2, AcksAssumption DEF Init
  <2>4. losses \in 0 .. MaxLosses
    BY AcksAssumption DEF Init
  <2>5. /\ waker \in BOOLEAN /\ woken \in BOOLEAN /\ conn_reader \in {"recv", "wake"}
        /\ pc \in {"poll", "parked", "store"} /\ largest \in {0} \cup PacketNumbers
    BY Zenon DEF Init
  <2> QED BY <2>1, <2>2, <2>3, <2>4, <2>5, Zenon DEF Types
<1>4. OnWay = {}
  BY <1>2 DEF Init, OnWay
<1>5. Issued /\ Whole(accepted)
  BY <1>4 DEF Init, Issued, Whole
<1>6. Holds(window, accepted)
  <2>1. window = [smallest |-> Start, numbers |-> <<>>] /\ accepted = {}
    BY DEF Init
  <2>2. window \in [smallest : Start .. LastNumber + 1, numbers : Seq(PacketNumbers)]
    BY <1>1, <1>2, <2>1
  <2>3. window.smallest = Start /\ window.numbers = <<>>
    BY <2>1
  <2>4. Start .. Start - 1 = {}
    BY <1>1
  <2>5. DOMAIN window.numbers = {}
    BY <2>3
  <2> QED BY <1>2, <2>1, <2>2, <2>3, <2>4, <2>5, Zenon DEF Holds
<1>7. Counted
  BY DEF Init, Counted
<1> QED BY <1>3, <1>5, <1>6, <1>7, Zenon DEF WInv

(* The window, what it took and the AckConsumer, where a step leaves them. *)
LEMMA WindowKept ==
  ASSUME UNCHANGED <<window, accepted>>, Holds(window, accepted)
  PROVE  Holds(window, accepted)'
<1>1. window' = window /\ accepted' = accepted
  OBVIOUS
<1> QED BY <1>1, Zenon DEF Holds

(* What the AckConsumer counted, where a step leaves it and the start      *)
(* alone.                                                                  *)
LEMMA CountedKept ==
  ASSUME window'.smallest = window.smallest, UNCHANGED <<pc, largest>>, Counted
  PROVE  Counted'
BY Zenon DEF Counted

(* A read acknowledges packets that no ack covers yet.                     *)
LEMMA ReadKeeps ==
  ASSUME WInv, NEW num \in Batches, read(num)
  PROVE  WInv'
<1>1. Types /\ Issued /\ Holds(window, accepted) /\ Whole(accepted) /\ Counted
  BY Zenon DEF WInv
<1>2. /\ next + num - 1 <= LastNumber /\ next' = next + num
      /\ UNCHANGED <<pending_send, wire, losses, window, waker, woken, conn_reader, pc, largest, accepted>>
  BY DEF read, network, consumer
<1>3. /\ Start \in Nat /\ LastNumber \in Nat /\ num \in Nat /\ num >= 1
      /\ next \in Start .. LastNumber + 1 /\ next \in Nat
  BY <1>1, AcksAssumption DEF Types
<1>4. PICK ack : ack = [base |-> next, num |-> num]
  BY Zenon
<1>5. ack \in Ack /\ Numbers(ack) = next .. next + num - 1
  <2>1. next \in Start .. LastNumber
    BY <1>2, <1>3
  <2>2. ack.base = next /\ ack.num = num
    BY <1>4
  <2> QED BY <1>4, <2>1, <2>2 DEF Ack, Numbers
<1>6. \/ channel' = Append(channel, ack) /\ acked' = acked \cup Numbers(ack)
      \/ channel' = channel /\ acked' = acked
  BY <1>4, Zenon DEF read
<1>7. Types'
  <2>1. next' \in Start .. LastNumber + 1
    BY <1>2, <1>3
  <2>2. packets_consumed' \in 0 .. packets_consumed_before_ack - 1
    <3>1. packets_consumed \in 0 .. packets_consumed_before_ack - 1
          /\ packets_consumed_before_ack \in Nat /\ packets_consumed_before_ack >= 1
      BY <1>1, AcksAssumption DEF Types
    <3>2. packets_consumed' = IF packets_consumed + num >= packets_consumed_before_ack
                              THEN 0 ELSE packets_consumed + num
      BY Zenon DEF read
    <3> QED BY <1>3, <3>1, <3>2
  <2>3. channel' \in Seq(Ack)
    <3>1. channel \in Seq(Ack)
      BY <1>1, Zenon DEF Types
    <3> QED BY <1>5, <1>6, <3>1, Appended
  <2> QED BY <1>1, <1>2, <2>1, <2>2, <2>3, Zenon DEF Types
<1>8. \/ OnWay' \subseteq OnWay \cup {ack} /\ acked' = acked \cup Numbers(ack)
      \/ OnWay' = OnWay /\ acked' = acked
  <2>1. CASE channel' = Append(channel, ack) /\ acked' = acked \cup Numbers(ack)
    <3>1. channel \in Seq(Ack)
      BY <1>1, Zenon DEF Types
    <3>2. Range(channel') \subseteq Range(channel) \cup {ack}
      BY <1>5, <2>1, <3>1, Appended, Zenon
    <3>3. Range(pending_send)' = Range(pending_send) /\ {Range(d) : d \in wire}' = {Range(d) : d \in wire}
      BY <1>2, Zenon
    <3>4. Range(channel)' = Range(channel')
      BY Zenon DEF Range
    <3>5. OnWay' \subseteq OnWay \cup {ack}
      BY <3>2, <3>3, <3>4, Zenon DEF OnWay
    <3> QED BY <2>1, <3>5
  <2>2. CASE channel' = channel /\ acked' = acked
    BY <1>2, <2>2, Zenon DEF OnWay
  <2> QED BY <1>6, <2>1, <2>2
<1>9. acked \subseteq Start .. next - 1 /\ Numbers(ack) \cap acked = {}
  BY <1>1, <1>3, <1>5 DEF Issued
<1>10. CASE OnWay' = OnWay /\ acked' = acked
  <2>1. acked' \subseteq Start .. next' - 1
    BY <1>2, <1>3, <1>9, <1>10
  <2>2. Issued'
    BY <1>1, <1>10, <2>1, Zenon DEF Issued
  <2>3. Whole(accepted)'
    BY <1>1, <1>2, <1>10, Zenon DEF Whole
  <2> QED BY <1>1, <1>2, <1>7, <2>2, <2>3, WindowKept, CountedKept, Zenon DEF WInv
<1>11. CASE OnWay' \subseteq OnWay \cup {ack} /\ acked' = acked \cup Numbers(ack)
  <2>1. acked' \subseteq Start .. next' - 1
    BY <1>2, <1>3, <1>5, <1>9, <1>11
  <2>2. \A a \in OnWay : Numbers(a) \subseteq acked
    BY <1>1, Zenon DEF Issued
  <2>3. \A a, b \in OnWay : a = b \/ Numbers(a) \cap Numbers(b) = {}
    BY <1>1, Zenon DEF Issued
  <2>4. \A a \in OnWay' : Numbers(a) \subseteq acked'
    BY <1>11, <2>2, Zenon
  <2>5. \A a \in OnWay : Numbers(a) \cap Numbers(ack) = {}
    BY <1>9, <2>2, Zenon
  <2>6. \A a, b \in OnWay' : a = b \/ Numbers(a) \cap Numbers(b) = {}
    BY <1>11, <2>3, <2>5, Zenon
  <2>7. Issued'
    BY <2>1, <2>4, <2>6, Zenon DEF Issued
  <2>8. accepted \subseteq acked /\ Numbers(ack) \cap accepted = {}
    BY <1>1, <1>9, Zenon DEF Whole
  <2>9. Whole(accepted)'
    BY <1>1, <1>2, <1>11, <2>8, Zenon DEF Whole
  <2> QED BY <1>1, <1>2, <1>7, <2>7, <2>9, WindowKept, CountedKept, Zenon DEF WInv
<1> QED BY <1>8, <1>10, <1>11

(* The pump and the network move acks, in order or not, or drop them.      *)
LEMMA MoveKeeps ==
  ASSUME WInv, RecvAcks \/ SendAcks \/ \E d \in wire : Lose(d)
  PROVE  WInv'
<1>1. Types /\ Issued /\ Holds(window, accepted) /\ Whole(accepted) /\ Counted
  BY Zenon DEF WInv
<1>2. UNCHANGED <<next, packets_consumed, acked, window, waker, woken, conn_reader, pc, largest, accepted>>
  BY Zenon DEF RecvAcks, SendAcks, Lose, reader, consumer
<1>3. channel \in Seq(Ack) /\ pending_send \in Seq(Ack) /\ wire \subseteq Seq(Ack)
      /\ (\A d \in wire \cup {pending_send} : Len(d) <= RecvLimit)
      /\ <<>> \notin wire /\ losses \in 0 .. MaxLosses
  BY <1>1, Zenon DEF Types
<1>4. RecvLimit \in Nat /\ MaxLosses \in Nat
  BY AcksAssumption
<1>5. <<>> \in Seq(Ack) /\ Len(<<>>) = 0 /\ Range(<<>>) = {}
  BY DEF Range
<1>6. /\ OnWay' \subseteq OnWay
      /\ channel' \in Seq(Ack) /\ pending_send' \in Seq(Ack) /\ wire' \subseteq Seq(Ack)
      /\ \A d \in wire' \cup {pending_send'} : Len(d) <= RecvLimit
      /\ <<>> \notin wire' /\ losses' \in 0 .. MaxLosses
  <2>1. CASE RecvAcks
    <3>1. PICK size : size = Min({RecvLimit, Len(channel)})
      OBVIOUS
    <3>2. /\ pending_send' = SubSeq(channel, 1, size)
          /\ channel' = SubSeq(channel, size + 1, Len(channel))
          /\ UNCHANGED <<wire, losses>>
      BY <2>1, <3>1 DEF RecvAcks, network
    <3>3. Len(channel) \in Nat
      BY <1>3, LenProperties
    <3>4. size \in Nat /\ size <= RecvLimit /\ size <= Len(channel)
      BY <1>4, <3>1, <3>3, Lesser, Zenon
    <3>5. /\ pending_send' \in Seq(Ack) /\ Range(pending_send') \subseteq Range(channel)
          /\ Len(pending_send') <= size
      <4>1. 1 \in Nat /\ 1 >= 1
        OBVIOUS
      <4> QED BY <1>3, <3>2, <3>4, <4>1, PartOf
    <3>6. channel' \in Seq(Ack) /\ Range(channel') \subseteq Range(channel)
      <4>1. size + 1 \in Nat /\ size + 1 >= 1 /\ Len(channel) <= Len(channel)
        BY <3>3, <3>4
      <4> QED BY <1>3, <3>2, <3>3, <4>1, PartOf
    <3>7. Len(pending_send') <= RecvLimit
      <4>1. Len(pending_send') \in Nat
        BY <3>5, LenProperties
      <4> QED BY <1>4, <3>4, <3>5, <4>1
    <3>8. /\ Range(pending_send)' = Range(pending_send') /\ Range(channel)' = Range(channel')
          /\ {Range(d) : d \in wire}' = {Range(d) : d \in wire}
      BY <3>2, Zenon DEF Range
    <3>9. OnWay' \subseteq OnWay
      BY <3>5, <3>6, <3>8, Zenon DEF OnWay
    <3> QED BY <1>3, <3>2, <3>5, <3>6, <3>7, <3>9, Zenon
  <2>2. CASE SendAcks
    <3>1. /\ pending_send # <<>> /\ wire' = wire \cup {pending_send} /\ pending_send' = <<>>
          /\ UNCHANGED <<channel, losses>>
      BY <2>2, Zenon DEF SendAcks
    <3>2. 0 <= RecvLimit
      BY <1>4
    <3>3. /\ Range(pending_send)' = {} /\ Range(channel)' = Range(channel)
          /\ {Range(d) : d \in wire}' = {Range(d) : d \in wire} \cup {Range(pending_send)}
      BY <1>5, <3>1
    <3>4. OnWay' \subseteq OnWay
      BY <3>3 DEF OnWay
    <3> QED BY <1>3, <1>5, <3>1, <3>2, <3>4, Zenon
  <2>3. CASE \E d \in wire : Lose(d)
    <3>1. PICK d \in wire : Lose(d)
      BY <2>3
    <3>2. /\ losses < MaxLosses /\ wire' \subseteq wire /\ losses' = losses + 1
          /\ UNCHANGED <<channel, pending_send>>
      BY <3>1 DEF Lose, pump
    <3>3. losses' \in 0 .. MaxLosses
      BY <1>3, <1>4, <3>2
    <3>4. OnWay' \subseteq OnWay
      BY <3>2, Zenon DEF OnWay
    <3> QED BY <1>3, <3>2, <3>3, <3>4, Zenon
  <2> QED BY <2>1, <2>2, <2>3
<1>7. Types'
  BY <1>1, <1>2, <1>6, Zenon DEF Types
<1>8. Issued' /\ \A taken : Whole(taken) => Whole(taken)'
  BY <1>1, <1>2, <1>6, MovedOn, Zenon
<1>9. Whole(accepted)'
  <2>1. PICK taken : taken = accepted
    OBVIOUS
  <2>2. taken = accepted'
    BY <1>2, <2>1
  <2>3. Whole(taken)'
    BY <1>1, <1>8, <2>1, Zenon
  <2> QED BY <2>2, <2>3, Zenon DEF Whole
<1> QED BY <1>1, <1>2, <1>7, <1>8, <1>9, WindowKept, CountedKept, Zenon DEF WInv

(* The acks of a datagram are buffered.                                    *)
LEMMA BufferKeeps ==
  ASSUME WInv, NEW d \in wire, buffer_in_ack_packets(d)
  PROVE  WInv'
<1>1. Types /\ Issued /\ Holds(window, accepted) /\ Whole(accepted) /\ Counted
  BY Zenon DEF WInv
<1>2. /\ window' = Buffered(d).window /\ accepted' = Buffered(d).accepted
      /\ conn_reader' \in {"recv", "wake"} /\ wire' \subseteq wire /\ losses' = losses
      /\ UNCHANGED <<next, packets_consumed, acked, channel, pending_send, waker, woken, pc, largest>>
  BY DEF buffer_in_ack_packets, Arrive, reader, pump, consumer
<1>3. acked \subseteq PacketNumbers
  <2>1. acked \subseteq Start .. next - 1 /\ next \in Start .. LastNumber + 1
    BY <1>1, Zenon DEF Issued, Types
  <2> QED BY <2>1, Naturals DEF PacketNumbers
<1>4. d \in Seq(Ack) /\ Range(d) \subseteq OnWay
  BY <1>1, Zenon DEF Types, OnWay
<1>5. Sound(Buffered(d))
  BY <1>1, <1>3, <1>4, BufferedKeeps, Zenon
<1>6. PICK w, taken : w = Buffered(d).window /\ taken = Buffered(d).accepted
  OBVIOUS
<1>7. Holds(w, taken) /\ Whole(taken) /\ w.smallest = window.smallest /\ window' = w /\ accepted' = taken
  BY <1>2, <1>5, <1>6, Zenon DEF Sound
<1>8. OnWay' \subseteq OnWay
  BY <1>2, Zenon DEF OnWay
<1>9. Issued' /\ Whole(taken)'
  BY <1>1, <1>2, <1>7, <1>8, MovedOn, Zenon
<1>10. Whole(accepted)'
  BY <1>7, <1>9, Zenon DEF Whole
<1>11. Holds(window, accepted)'
  BY <1>7, Zenon DEF Holds
<1>12. Types'
  BY <1>1, <1>2, Zenon DEF Types
<1>13. Counted'
  BY <1>1, <1>2, <1>7, CountedKept, Zenon
<1> QED BY <1>9, <1>10, <1>11, <1>12, <1>13, Zenon DEF WInv

(* The AckConsumer consumes a run, or only parks, wakes or stores.         *)
LEMMA ConsumerKeeps ==
  ASSUME WInv, Wake \/ AckConsumer
  PROVE  WInv'
<1>1. Types /\ Issued /\ Holds(window, accepted) /\ Whole(accepted) /\ Counted
  BY Zenon DEF WInv
<1>2. UNCHANGED <<next, packets_consumed, acked, channel, pending_send, wire, losses, accepted>>
  BY Zenon DEF Wake, AckConsumer, PollReady, PollPending, Repoll, Store, reader, pump, network
<1>3. Issued' /\ Whole(accepted)'
  <2>1. OnWay' = OnWay
    BY <1>2, Zenon DEF OnWay
  <2> QED BY <1>1, <1>2, <2>1, Zenon DEF Issued, Whole
<1>4. /\ window.smallest \in Start .. LastNumber + 1 /\ window.smallest \in Nat
      /\ Start \in Nat /\ LastNumber \in Nat /\ Start >= 1
      /\ largest \in {0} \cup PacketNumbers /\ largest \in Nat
  <2>1. window.smallest \in Start .. LastNumber + 1
    BY <1>1 DEF Holds
  <2>2. largest \in {0} \cup PacketNumbers
    BY <1>1, Zenon DEF Types
  <2> QED BY <2>1, <2>2, Naturals
<1>5. CASE PollReady
  <2>1. Consumable(window) /\ window' = consume(window) /\ pc' = "store"
        /\ UNCHANGED <<waker, woken, conn_reader, largest>>
    BY <1>5, Zenon DEF PollReady
  <2>2. Holds(consume(window), accepted) /\ consume(window).smallest > window.smallest
    BY <1>1, <2>1, ConsumeKeeps, Zenon
  <2>3. Holds(window, accepted)'
    BY <1>2, <2>1, <2>2, Zenon DEF Holds
  <2>4. PICK m : m = window'.smallest
    OBVIOUS
  <2>5. m > window.smallest /\ m \in Start .. LastNumber + 1
    BY <2>1, <2>2, <2>4 DEF Holds
  <2>6. m > Start /\ (largest # 0 => largest < m)
    BY <1>1, <1>4, <2>5 DEF Counted
  <2>7. Counted'
    BY <2>1, <2>4, <2>6, Zenon DEF Counted
  <2>8. Types'
    BY <1>1, <1>2, <2>1, Zenon DEF Types
  <2> QED BY <1>3, <2>3, <2>7, <2>8, Zenon DEF WInv
<1>6. CASE Store
  <2>1. /\ pc = "store" /\ largest' = window.smallest - 1 /\ pc' = "poll"
        /\ UNCHANGED <<window, waker, woken, conn_reader>>
    BY <1>6, Zenon DEF Store
  <2>2. window.smallest > Start
    BY <1>1, <2>1, Zenon DEF Counted
  <2>3. largest' \in PacketNumbers /\ largest' < window.smallest
    BY <1>4, <2>1, <2>2 DEF PacketNumbers
  <2>4. Types'
    BY <1>1, <1>2, <2>1, <2>3, Zenon DEF Types
  <2>5. Counted'
    BY <2>1, <2>3 DEF Counted
  <2> QED BY <1>1, <1>2, <1>3, <2>1, <2>4, <2>5, WindowKept, Zenon DEF WInv
<1>7. CASE Wake \/ PollPending \/ Repoll
  <2>1. UNCHANGED <<window, largest>> /\ pc' \in {pc, "parked", "poll"}
    BY <1>7, Zenon DEF Wake, PollPending, Repoll, consumer
  <2>2. Types'
    BY Zenon, <1>1, <1>2, <1>7 DEF Types, Wake, PollPending, Repoll, consumer
  <2>3. Counted'
    BY <1>1, <2>1 DEF Counted
  <2> QED BY <1>1, <1>2, <1>3, <2>1, <2>2, <2>3, WindowKept, Zenon DEF WInv
<1> QED BY <1>5, <1>6, <1>7, Zenon DEF AckConsumer

(* Every step of the reader, the pump, the network, conn_reader and the    *)
(* AckConsumer keeps the window exact.                                     *)
LEMMA NextKeepsWInv == WInv /\ [Next]_vars => WInv'
<1> SUFFICES ASSUME WInv, [Next]_vars
             PROVE  WInv'
  OBVIOUS
<1>1. CASE \E num \in Batches : read(num)
  BY <1>1, ReadKeeps
<1>2. CASE RecvAcks \/ SendAcks \/ \E d \in wire : Lose(d)
  BY <1>2, MoveKeeps
<1>3. CASE \E d \in wire : buffer_in_ack_packets(d)
  BY <1>3, BufferKeeps
<1>4. CASE Wake \/ AckConsumer
  BY <1>4, ConsumerKeeps
<1>5. CASE UNCHANGED vars
  <2>1. UNCHANGED <<next, packets_consumed, acked, channel, pending_send, wire, losses, window,
                    waker, woken, conn_reader, pc, largest, accepted>>
    BY <1>5 DEF vars, reader, pump, network, consumer
  <2> QED BY <2>1, Zenon DEF WInv, Types, Issued, Holds, Whole, Counted, OnWay
<1> QED BY <1>1, <1>2, <1>3, <1>4, <1>5, Zenon DEF Next, ConnReader

(* The invariant implies what the window promises.                         *)
LEMMA WInvExact == WInv => WindowExact /\ LargestMeansAcked
<1> SUFFICES ASSUME WInv
             PROVE  WindowExact /\ LargestMeansAcked
  OBVIOUS
<1>1. Types /\ Issued /\ Holds(window, accepted) /\ Whole(accepted) /\ Counted
  BY Zenon DEF WInv
<1>2. /\ window \in [smallest : Start .. LastNumber + 1, numbers : Seq(PacketNumbers)]
      /\ Start .. window.smallest - 1 \cup Range(window.numbers) = accepted
      /\ \A i \in DOMAIN window.numbers :
           /\ window.numbers[i] >= window.smallest
           /\ \A j \in 1 .. i - 1 : window.numbers[j] < window.numbers[i]
  BY <1>1, Zenon DEF Holds
<1>3. acked \subseteq PacketNumbers
  <2>1. acked \subseteq Start .. next - 1 /\ next \in Start .. LastNumber + 1
    BY <1>1, Zenon DEF Issued, Types
  <2> QED BY <2>1, Naturals DEF PacketNumbers
<1>4. accepted \subseteq acked
  BY <1>1, Zenon DEF Whole
<1>5. ASSUME NEW S, NEW s \in Seq(S)
      PROVE  Range(s) \subseteq S
  <2>1. \A i \in DOMAIN s : s[i] \in S
    BY LenProperties
  <2> QED BY <2>1, Zenon DEF Range
<1>6. TypeOK
  <2>1. window.smallest \in Start .. LastNumber + 1 /\ window.numbers \in Seq(PacketNumbers)
    BY <1>2
  <2>2. Range(window.numbers) \subseteq PacketNumbers
    BY <1>5, <2>1, Zenon
  <2>3. channel \in Seq(Ack) /\ \A d \in wire \cup {pending_send} : d \in Seq(Ack)
    BY <1>1, Zenon DEF Types
  <2>4. Range(channel) \subseteq Ack /\ \A d \in wire \cup {pending_send} : Range(d) \subseteq Ack
    BY <1>5, <2>3, Zenon
  <2>5. {waker, woken} \subseteq BOOLEAN
    BY <1>1, Zenon DEF Types
  <2>6. accepted \subseteq PacketNumbers
    BY <1>3, <1>4, Zenon
  <2> QED BY <1>1, <1>3, <2>1, <2>2, <2>4, <2>5, <2>6, Zenon DEF TypeOK, Types
<1>7. LargestMeansAcked
  <2> SUFFICES ASSUME largest # 0
               PROVE  Start .. largest \subseteq acked
    BY Zenon DEF LargestMeansAcked
  <2>1. largest \in PacketNumbers /\ window.smallest \in Start .. LastNumber + 1 /\ largest < window.smallest
    BY <1>1, <1>2 DEF Types, Counted
  <2>2. Start .. largest \subseteq Start .. window.smallest - 1
    BY <2>1, Naturals DEF PacketNumbers
  <2> QED BY <1>2, <1>4, <2>2, Zenon
<1> QED BY <1>2, <1>6, <1>7, Zenon DEF WindowExact

(* The SlidingWindow holds exactly what insert_range took beyond what      *)
(* consume() counted, in order and without repetition, whatever the        *)
(* network lost, repeated and reordered, for every length of the stream,   *)
(* batch of packets and size of the window (utils/window.rs).              *)
THEOREM WindowCorrect == Spec => []WindowExact
<1>1. WInv => WindowExact
  BY WInvExact
<1> QED BY <1>1, InitWInv, NextKeepsWInv, PTL DEF Spec

(* Every packet up to largest_recv_acked_packet_num was consumed and       *)
(* acknowledged by the peer's reader (ack_handler.rs: AckConsumer).        *)
THEOREM LargestCorrect == Spec => []LargestMeansAcked
<1>1. WInv => LargestMeansAcked
  BY WInvExact
<1> QED BY <1>1, InitWInv, NextKeepsWInv, PTL DEF Spec
=============================================================================
