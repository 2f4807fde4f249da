---------------------------- MODULE MCConnReaders ---------------------------
(* Datagrams of one and of several packets, shorter and longer ones, so    *)
(* that a buffer is received into again after a longer datagram; a header  *)
(* with bytes missing and one with a packet type that does not exist.      *)
EXTENDS ConnReaders

Data(size) == [type |-> "UnencryptedData", size |-> size]

MCShapes == {<<Data(2), Data(1)>>, <<[type |-> "Ack", size |-> 300]>>,
             <<[type |-> "Fin", size |-> 0]>>}

\* The numbers cross a byte boundary, the ids use all their bytes.
MCPeers == {[src |-> 2147483647, dst |-> 16909060, first |-> 65532]}

Ack0 == serialise([version |-> 0, type_field |-> "Ack", type_specific_payload |-> 1,
                   security_fields |-> [header_encrypted |-> FALSE, mask |-> 0],
                   source_connection_id |-> 1, destination_connection_id |-> 2,
                   packet_number |-> 0])

MCStrays == {Ack0 \o <<0, 0, 0>>, [Ack0 EXCEPT ![1] = 15]}
=============================================================================
