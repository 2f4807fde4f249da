------------------------------- MODULE Codec --------------------------------
(***************************************************************************)
(* The wire format (core/header.rs, core/packet.rs): a 20-byte header and, *)
(* for a data packet, its payload; a datagram is packets end to end.       *)
(* Bytes are numbers 0 .. 255, a byte string is a sequence of them.        *)
(***************************************************************************)
EXTENDS Integers, Sequences

HEADER_LEN == 20

PacketTypes == <<"UnencryptedClientHello", "UnencryptedServerHello", "ClientAck",
                 "UnencryptedData", "Ack", "Fin", "FinAck">>

\* "as u8", and from_u8, which panics on the other values of the four bits.
type_code(t) == (CHOOSE i \in DOMAIN PacketTypes : PacketTypes[i] = t) - 1
from_u8(v) == IF v + 1 \in DOMAIN PacketTypes THEN PacketTypes[v + 1] ELSE "panic"

\* BluefinSecurityFields: one bit and seven bits.
security_byte(s) == (IF s.header_encrypted THEN 128 ELSE 0) + s.mask
security_fields(b) == [header_encrypted |-> b \div 128 # 0, mask |-> b % 128]

\* to_be_bytes
be16(n) == <<n \div 256, n % 256>>
be32(n) == be16(n \div 65536) \o be16(n % 65536)
be64(n) == be32((n \div 65536) \div 65536) \o be16((n \div 65536) % 65536) \o be16(n % 65536)

\* The numbers that fit the fields: two, four and eight bytes.
fits16(n) == n \in Nat /\ n < 65536
fits32(n) == n \in Nat /\ fits16(n \div 65536)
fits64(n) == n \in Nat /\ fits32((n \div 65536) \div 65536)

\* from_be_bytes, of the bytes of b from position i
u16(b, i) == b[i] * 256 + b[i + 1]
u32(b, i) == u16(b, i) * 65536 + u16(b, i + 2)
u64(b, i) == (u32(b, i) * 65536 + u16(b, i + 4)) * 65536 + u16(b, i + 6)

-----------------------------------------------------------------------------
\* BluefinHeader::serialise_into
serialise(h) ==
  <<h.version * 16 + type_code(h.type_field)>> \o be16(h.type_specific_payload)
    \o <<security_byte(h.security_fields)>>
    \o be32(h.source_connection_id) \o be32(h.destination_connection_id)
    \o be64(h.packet_number)

\* BluefinHeader::deserialise, of the header that starts after "at" bytes of b
deserialise(b, at) ==
  [version                   |-> b[at + 1] \div 16,
   type_field                |-> from_u8(b[at + 1] % 16),
   type_specific_payload     |-> u16(b, at + 2),
   security_fields           |-> security_fields(b[at + 4]),
   source_connection_id      |-> u32(b, at + 5),
   destination_connection_id |-> u32(b, at + 9),
   packet_number             |-> u64(b, at + 13)]

-----------------------------------------------------------------------------
\* BluefinPacket::serialise_into
serialise_packet(p) == serialise(p.header) \o p.payload

\* A parsed packet: its header and where in the datagram its payload lies.
Parsed(header, lo, hi) == [header |-> header, lo |-> lo, hi |-> hi]

\* The end of the packet that starts at the cursor.
packet_end(buf, cursor) ==
  LET header == deserialise(buf, cursor)
  IN  cursor + HEADER_LEN + (IF header.type_field = "UnencryptedData"
                             THEN header.type_specific_payload ELSE 0)

\* What ends the walk at the cursor: the end of the datagram, or an error;
\* "no" in front of a packet.
stops(buf, cursor) ==
  IF cursor + HEADER_LEN > Len(buf) THEN IF cursor = Len(buf) THEN "Ok" ELSE "Err"
  ELSE LET type == deserialise(buf, cursor).type_field
       IN  IF type = "panic" THEN "panic"
           ELSE IF type = "UnencryptedData" /\ (\/ cursor + HEADER_LEN >= Len(buf)
                                               \/ packet_end(buf, cursor) - 1 >= Len(buf))
             THEN "Err"
           ELSE "no"

\* from_bytes_into: the outcome, and the packets pushed until then.
from_bytes_into(buf) ==
  LET walk[cursor \in 0 .. Len(buf)] ==
        IF stops(buf, cursor) # "no" THEN [outcome |-> stops(buf, cursor), packets |-> <<>>]
        ELSE LET end  == packet_end(buf, cursor)
                 rest == walk[end]
             IN  [outcome |-> rest.outcome,
                  packets |-> <<Parsed(deserialise(buf, cursor), cursor + HEADER_LEN, end)>>
                                \o rest.packets]
  IN  IF Len(buf) < HEADER_LEN THEN [outcome |-> "Err", packets |-> <<>>] ELSE walk[0]
=============================================================================
