----------------------------- MODULE Datagrams ------------------------------
(***************************************************************************)
(* How many bytes one UDP datagram carries and in how many packets: what   *)
(* consume_data_into computes (module Packetizer checks it) and what the   *)
(* writer pipeline (module Writer) relies on.                              *)
(***************************************************************************)
EXTENDS Integers

CONSTANTS
  MAX_PAYLOAD,   \* MAX_BLUEFIN_PAYLOAD_SIZE_BYTES (1500)
  MAX_PACKETS    \* MAX_BLUEFIN_PACKETS_IN_UDP_DATAGRAM (10)

ASSUME DatagramAssumption == {MAX_PAYLOAD, MAX_PACKETS} \subseteq Nat \ {0}

Least(a, b) == IF a <= b THEN a ELSE b

\* What a call packs of a queue with "total" bytes, and in how many packets.
Packed(total) == Least(total, MAX_PACKETS * MAX_PAYLOAD)
NumPackets(bytes) == (bytes + MAX_PAYLOAD - 1) \div MAX_PAYLOAD
=============================================================================
