----------------------------- MODULE ByteStream -----------------------------
(***************************************************************************)
(* What a connection promises the reader of a byte stream, whatever the    *)
(* network does to the packets that carry it: bytes come out in stream     *)
(* order, each once, and only once every byte before them has arrived.     *)
(* Packet n carries the bytes at offsets cut[n] .. cut[n+1] - 1.           *)
(***************************************************************************)
EXTENDS Integers

CONSTANT Start

VARIABLES next, cut, accepted, copied

svars == <<next, cut, accepted, copied>>

Init ==
  /\ next = Start
  /\ cut = [n \in {Start} |-> 0]
  /\ accepted = {}
  /\ copied = [lo |-> 0, hi |-> 0]

\* The peer puts the next packet on the stream.
Append ==
  /\ next' = next + 1
  /\ cut' = [n \in Start .. next + 1 |-> IF n = next + 1 THEN cut'[n] ELSE cut[n]]
  /\ cut'[next + 1] \in Nat
  /\ cut'[next + 1] >= cut[next]
  /\ UNCHANGED <<accepted, copied>>

Accept ==
  /\ \E n \in (Start .. next - 1) \ accepted : accepted' = accepted \cup {n}
  /\ UNCHANGED <<next, cut, copied>>

\* Some bytes, from where the last delivery ended, of packets that are all in.
Deliver ==
  /\ \E n \in Start .. next :
       /\ Start .. n - 1 \subseteq accepted
       /\ \E end \in copied.hi .. cut[n] :
            copied' = [lo |-> copied.hi, hi |-> end]
  /\ UNCHANGED <<next, cut, accepted>>

Next == Append \/ Accept \/ Deliver

Spec == Init /\ [][Next]_svars
=============================================================================
