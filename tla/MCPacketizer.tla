---------------------------- MODULE MCPacketizer ----------------------------
(* Every way of cutting up to MaxSends sends of 0 .. MaxSize bytes.        *)
EXTENDS Packetizer, SequencesExt

CONSTANTS MaxSends, MaxSize

\* Where the k-th payload ends.
Upto(sizes, k) == FoldLeft(LAMBDA a, b : a + b, 0, SubSeq(sizes, 1, k))

MCQueues ==
  {[i \in DOMAIN sizes |-> [lo |-> Upto(sizes, i - 1), hi |-> Upto(sizes, i)]] :
     sizes \in UNION {[1 .. n -> 0 .. MaxSize] : n \in 0 .. MaxSends}}
=============================================================================
