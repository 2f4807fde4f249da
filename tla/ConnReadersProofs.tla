-------------------------- MODULE ConnReadersProofs --------------------------
(***************************************************************************)
(* The codec, and the tasks that receive with it.                          *)
(*                                                                         *)
(* First the codec: a header, and then a datagram of any number of         *)
(* packets, is read back from its bytes as it was written.  Then the tasks *)
(* of ConnReaders, for any number of tasks and buffers, along these        *)
(* invariants:                                                             *)
(*   NetInv    the datagrams sent are numbered one after another, and what *)
(*             is in the socket is one of them or bytes that do not parse; *)
(*   TypeInv   where the tasks are and what they hold;                     *)
(*   EndInv    the tasks that have ended and the datagrams that will end   *)
(*             one are at most as many as the fatal strays;                *)
(*   Owned     the buffer a task receives into is nobody else's, so what   *)
(*             the packets on their way are slices of stays as it was;     *)
(*   GoodInv   every slice on its way shows a packet that was sent, in the *)
(*             group or the buffer of its type;                            *)
(*   ExactInv  every number sent is at one site, once, or consumed.        *)
(*                                                                         *)
(* The lemmas that only one proof needs are its first steps, each under    *)
(* the name of what it says.  Two facts of arithmetic, Inductive and       *)
(* Counting, are hypotheses until the end of the module, where the library *)
(* gives them and the theorems are put together.                           *)
(***************************************************************************)
EXTENDS ConnReaders, TLAPS

\* The larger leaves take longer than the provers' default limits.
USE ZenonT(30)

(* Induction, for a set of naturals.  The library's theorems give it, as   *)
(* they give Counting, at the end of the module, where their many          *)
(* statements burden no other proof.                                       *)
Inductive ==
  \A T \in SUBSET Nat : 0 \in T /\ (\A k \in T : k + 1 \in T) => T = Nat

Below(v) == {i \in Nat : i < v}

U16 == Below(65536)

U32 == Below(65536 * 65536)

U64 == Below(65536 * 65536 * 65536 * 65536)

Header ==
  [version : Below(16),
   type_field : {PacketTypes[i] : i \in 1 .. 7},
   type_specific_payload : U16,
   security_fields : [header_encrypted : BOOLEAN, mask : Below(128)],
   source_connection_id : U32,
   destination_connection_id : U32,
   packet_number : U64]

-----------------------------------------------------------------------------
(* An element of a sequence is of the set the sequence is over.            *)
LEMMA ItemOf ==
  ASSUME NEW S, NEW s \in Seq(S), NEW i \in 1 .. Len(s)
  PROVE  s[i] \in S
BY SMT

(* A sequence has a length, and its indices go up to it.                   *)
LEMMA LengthOf ==
  ASSUME NEW S, NEW s \in Seq(S)
  PROVE  Len(s) \in Nat /\ DOMAIN s = 1 .. Len(s)
BY SMT

(* Two sequences with the same elements in the same places are the same.   *)
LEMMA SameItems ==
  ASSUME NEW S, NEW s \in Seq(S), NEW r \in Seq(S), Len(s) = Len(r),
         \A i \in 1 .. Len(s) : s[i] = r[i]
  PROVE  s = r
BY SMT

(* The elements of two sequences joined: the first's and then the second's. *)
LEMMA ConcatOf ==
  ASSUME NEW S, NEW s \in Seq(S), NEW r \in Seq(S)
  PROVE  /\ s \o r \in Seq(S) /\ Len(s \o r) = Len(s) + Len(r)
         /\ \A i \in 1 .. Len(s) + Len(r) :
              (s \o r)[i] = IF i <= Len(s) THEN s[i] ELSE r[i - Len(s)]
BY SMT

(* The same for a byte.                                                    *)
LEMMA DivMod256 ==
  ASSUME NEW v \in Nat
  PROVE  /\ v \div 256 \in Nat /\ v % 256 \in Nat /\ v % 256 < 256
         /\ v = 256 * (v \div 256) + (v % 256)
BY SMT

(* The same for two bytes.                                                 *)
LEMMA DivMod65536 ==
  ASSUME NEW v \in Nat
  PROVE  /\ v \div 65536 \in Nat /\ v % 65536 \in Nat /\ v % 65536 < 65536
         /\ v = 65536 * (v \div 65536) + (v % 65536)
BY SMT

-----------------------------------------------------------------------------
(* from_u8 undoes the discriminant of every packet type.                   *)
LEMMA TypeCode ==
  ASSUME NEW t \in {PacketTypes[i] : i \in 1 .. 7}
  PROVE  type_code(t) \in Nat /\ type_code(t) < 16 /\ from_u8(type_code(t)) = t
<1>1. DOMAIN PacketTypes = 1 .. 7
  BY SMT DEF PacketTypes
<1>2. PICK i \in 1 .. 7 : t = PacketTypes[i]
  OBVIOUS
<1> DEFINE c == CHOOSE j \in DOMAIN PacketTypes : PacketTypes[j] = t
<1>3. c \in 1 .. 7 /\ PacketTypes[c] = t
  BY <1>1, <1>2, SMT
<1>4. type_code(t) = c - 1
  BY SMT DEF type_code
<1> HIDE DEF c
<1>5. c \in Nat /\ 1 <= c /\ c <= 7 /\ (c - 1) + 1 = c
  BY <1>3, SMT
<1> QED BY <1>1, <1>3, <1>4, <1>5, SMT DEF from_u8

(* BluefinHeader::deserialise undoes BluefinHeader::serialise_into, at     *)
(* whichever offset of a datagram the header stands: no field overlaps     *)
(* another or is cut short.                                                *)
THEOREM HeaderRoundTrip ==
  ASSUME NEW h \in Header, NEW b, NEW at \in Nat,
         \A i \in 1 .. HEADER_LEN : b[at + i] = serialise(h)[i]
  PROVE  deserialise(b, at) = h

(* Quotient and remainder, the arithmetic of the shifts and masks: half a  *)
(* byte.                                                                   *)
<1>DivMod16.
    ASSUME NEW v \in Nat
    PROVE  /\ v \div 16 \in Nat /\ v % 16 \in Nat /\ v % 16 < 16
           /\ v = 16 * (v \div 16) + (v % 16)
  BY SMT

(* The same for the seven bits of the mask.                                *)
<1>DivMod128.
    ASSUME NEW v \in Nat
    PROVE  /\ v \div 128 \in Nat /\ v % 128 \in Nat /\ v % 128 < 128
           /\ v = 128 * (v \div 128) + (v % 128)
  BY SMT

(* What be16 writes, u16 reads back, wherever in a byte string it stands.  *)
<1>Read16.
    ASSUME NEW v \in U16, NEW c, NEW i \in Nat,
           c[i] = be16(v)[1], c[i + 1] = be16(v)[2]
    PROVE  u16(c, i) = v
  BY <1>Read16, DivMod256, SMT DEF u16, be16, U16, Below

(* The same for be32 and u32.                                              *)
<1>Read32.
    ASSUME NEW v \in U32, NEW c, NEW i \in Nat,
           \A k \in 1 .. 4 : c[i + k - 1] = be32(v)[k]
    PROVE  u32(c, i) = v
  <2> USE <1>Read32
  <2> DEFINE hi == v \div 65536
             lo == v % 65536
  <2>1. v \in Nat /\ hi \in U16 /\ lo \in U16 /\ v = 65536 * hi + lo
    BY DivMod65536, SMT DEF U16, U32, Below
  <2>2. /\ be32(v)[1] = be16(hi)[1] /\ be32(v)[2] = be16(hi)[2]
        /\ be32(v)[3] = be16(lo)[1] /\ be32(v)[4] = be16(lo)[2]
    BY SMT DEF be32, be16
  <2>3. /\ c[i] = be16(hi)[1] /\ c[i + 1] = be16(hi)[2]
        /\ c[i + 2] = be16(lo)[1] /\ c[(i + 2) + 1] = be16(lo)[2]
    <3>1. /\ c[i + 1 - 1] = be32(v)[1] /\ c[i + 2 - 1] = be32(v)[2]
          /\ c[i + 3 - 1] = be32(v)[3] /\ c[i + 4 - 1] = be32(v)[4]
      BY SMT
    <3>2. /\ i + 1 - 1 = i /\ i + 2 - 1 = i + 1
          /\ i + 3 - 1 = i + 2 /\ i + 4 - 1 = (i + 2) + 1
      BY SMT
    <3> QED BY <2>2, <3>1, <3>2, SMT
  <2>4. u16(c, i) = hi /\ u16(c, i + 2) = lo
    <3> HIDE DEF hi, lo
    <3> QED BY <2>1, <2>3, <1>Read16, SMT
  <2> QED BY <2>1, <2>4, SMT DEF u32

(* The same for be64 and u64.                                              *)
<1>Read64.
    ASSUME NEW v \in U64, NEW c, NEW i \in Nat,
           \A k \in 1 .. 8 : c[i + k - 1] = be64(v)[k]
    PROVE  u64(c, i) = v
  <2> USE <1>Read64
  <2> DEFINE q  == v \div 65536
             lo == v % 65536
             hi == q \div 65536
             mid == q % 65536
  <2>1. v \in Nat /\ q \in Nat /\ lo \in U16 /\ v = 65536 * q + lo
    BY DivMod65536, SMT DEF U16, U64, Below
  <2>2. hi \in Nat /\ mid \in U16 /\ q = 65536 * hi + mid
    <3> HIDE DEF q
    <3> QED BY <2>1, DivMod65536, SMT DEF U16, Below
  <2>3. hi \in U32
    <3> HIDE DEF q, lo, mid, hi
    <3> QED BY <2>1, <2>2, SMT DEF U16, U32, U64, Below
  <2>4. /\ \A k \in 1 .. 4 : be64(v)[k] = be32(hi)[k]
        /\ be64(v)[5] = be16(mid)[1] /\ be64(v)[6] = be16(mid)[2]
        /\ be64(v)[7] = be16(lo)[1] /\ be64(v)[8] = be16(lo)[2]
    BY SMT DEF be64, be32, be16
  <2>5. \A k \in 1 .. 4 : c[i + k - 1] = be32(hi)[k]
    BY <2>4, SMT
  <2>6. /\ c[i + 4] = be16(mid)[1] /\ c[(i + 4) + 1] = be16(mid)[2]
        /\ c[i + 6] = be16(lo)[1] /\ c[(i + 6) + 1] = be16(lo)[2]
    <3>1. /\ c[i + 5 - 1] = be64(v)[5] /\ c[i + 6 - 1] = be64(v)[6]
          /\ c[i + 7 - 1] = be64(v)[7] /\ c[i + 8 - 1] = be64(v)[8]
      BY SMT
    <3>2. /\ i + 5 - 1 = i + 4 /\ i + 6 - 1 = (i + 4) + 1
          /\ i + 7 - 1 = i + 6 /\ i + 8 - 1 = (i + 6) + 1
      BY SMT
    <3> QED BY <2>4, <3>1, <3>2, SMT
  <2>7. u32(c, i) = hi /\ u16(c, i + 4) = mid /\ u16(c, i + 6) = lo
    <3> HIDE DEF q, lo, mid, hi
    <3>1. i + 4 \in Nat /\ i + 6 \in Nat
      BY SMT
    <3>2. u32(c, i) = hi
      BY <2>3, <2>5, <1>Read32, SMT
    <3>3. u16(c, i + 4) = mid
      BY <2>2, <2>6, <3>1, <1>Read16, SMT
    <3>4. u16(c, i + 6) = lo
      BY <2>1, <2>6, <3>1, <1>Read16, SMT
    <3> QED BY <3>2, <3>3, <3>4, SMT
  <2> QED
    <3> HIDE DEF q, lo, mid, hi
    <3> QED BY <2>1, <2>2, <2>7, SMT DEF u64

(* The bit and the seven bits of BluefinSecurityFields come apart again.   *)
<1>Security.
    ASSUME NEW s \in [header_encrypted : BOOLEAN, mask : Below(128)]
    PROVE  security_fields(security_byte(s)) = s
  <2> USE <1>Security
  <2>1. s.mask \in Nat /\ s.mask < 128 /\ s.header_encrypted \in BOOLEAN
    BY SMT DEF Below
  <2>2. CASE s.header_encrypted
    <3>1. security_byte(s) = 128 + s.mask
      BY <2>2, SMT DEF security_byte
    <3>2. (128 + s.mask) \div 128 = 1 /\ (128 + s.mask) % 128 = s.mask
      BY <2>1, <1>DivMod128, SMT
    <3> QED BY <2>1, <2>2, <3>1, <3>2, SMT DEF security_fields
  <2>3. CASE ~s.header_encrypted
    <3>1. security_byte(s) = s.mask
      BY <2>1, <2>3, SMT DEF security_byte
    <3>2. s.mask \div 128 = 0 /\ s.mask % 128 = s.mask
      BY <2>1, <1>DivMod128, SMTT(30)
    <3> QED BY <2>1, <2>3, <3>1, <3>2, SMT DEF security_fields
  <2> QED BY <2>2, <2>3, SMT

(* Where in the header its fields stand.                                   *)
<1>HeaderLayout.
    ASSUME NEW g
    PROVE  /\ serialise(g)[1] = g.version * 16 + type_code(g.type_field)
           /\ serialise(g)[2] = be16(g.type_specific_payload)[1]
           /\ serialise(g)[3] = be16(g.type_specific_payload)[2]
           /\ serialise(g)[4] = security_byte(g.security_fields)
           /\ \A k \in 1 .. 4 : serialise(g)[4 + k] = be32(g.source_connection_id)[k]
           /\ \A k \in 1 .. 4 : serialise(g)[8 + k] = be32(g.destination_connection_id)[k]
           /\ \A k \in 1 .. 8 : serialise(g)[12 + k] = be64(g.packet_number)[k]
  BY SMT DEF serialise, be16, be32, be64

<1> DEFINE first == h.version * 16 + type_code(h.type_field)
<1>1. /\ h.version \in Nat /\ h.version < 16
      /\ h.type_field \in {PacketTypes[i] : i \in 1 .. 7}
      /\ h.type_specific_payload \in U16
      /\ h.security_fields \in [header_encrypted : BOOLEAN, mask : Below(128)]
      /\ h.source_connection_id \in U32
      /\ h.destination_connection_id \in U32
      /\ h.packet_number \in U64
  BY SMT DEF Header, Below
<1>2. /\ b[at + 1] = first
      /\ b[at + 2] = be16(h.type_specific_payload)[1]
      /\ b[(at + 2) + 1] = be16(h.type_specific_payload)[2]
      /\ b[at + 4] = security_byte(h.security_fields)
      /\ \A k \in 1 .. 4 : b[(at + 5) + k - 1] = be32(h.source_connection_id)[k]
      /\ \A k \in 1 .. 4 : b[(at + 9) + k - 1] = be32(h.destination_connection_id)[k]
      /\ \A k \in 1 .. 8 : b[(at + 13) + k - 1] = be64(h.packet_number)[k]
  <2> PICK s : s = serialise(h)
    OBVIOUS
  <2>1. /\ s[1] = first
        /\ s[2] = be16(h.type_specific_payload)[1]
        /\ s[3] = be16(h.type_specific_payload)[2]
        /\ s[4] = security_byte(h.security_fields)
        /\ \A k \in 1 .. 4 : s[4 + k] = be32(h.source_connection_id)[k]
        /\ \A k \in 1 .. 4 : s[8 + k] = be32(h.destination_connection_id)[k]
        /\ \A k \in 1 .. 8 : s[12 + k] = be64(h.packet_number)[k]
    BY <1>HeaderLayout
  <2>2. \A i \in 1 .. 20 : b[at + i] = s[i]
    BY SMT DEF HEADER_LEN
  <2>3. /\ b[at + 1] = s[1] /\ b[at + 2] = s[2] /\ b[(at + 2) + 1] = s[3]
        /\ b[at + 4] = s[4]
    <3>1. (at + 2) + 1 = at + 3
      BY SMT
    <3> QED BY <2>2, <3>1, SMT
  <2>4. \A k \in 1 .. 4 : b[(at + 5) + k - 1] = s[4 + k]
    <3> TAKE k \in 1 .. 4
    <3>1. (at + 5) + k - 1 = at + (4 + k) /\ 4 + k \in 1 .. 20
      BY SMT
    <3> QED BY <2>2, <3>1, SMT
  <2>5. \A k \in 1 .. 4 : b[(at + 9) + k - 1] = s[8 + k]
    <3> TAKE k \in 1 .. 4
    <3>1. (at + 9) + k - 1 = at + (8 + k) /\ 8 + k \in 1 .. 20
      BY SMT
    <3> QED BY <2>2, <3>1, SMT
  <2>6. \A k \in 1 .. 8 : b[(at + 13) + k - 1] = s[12 + k]
    <3> TAKE k \in 1 .. 8
    <3>1. (at + 13) + k - 1 = at + (12 + k) /\ 12 + k \in 1 .. 20
      BY SMT
    <3> QED BY <2>2, <3>1, SMT
  <2> HIDE DEF first
  <2> QED BY <2>1, <2>3, <2>4, <2>5, <2>6, SMT
<1>3. first \div 16 = h.version /\ from_u8(first % 16) = h.type_field
  <2>1. type_code(h.type_field) \in Nat /\ type_code(h.type_field) < 16
        /\ from_u8(type_code(h.type_field)) = h.type_field
    BY <1>1, TypeCode, SMT
  <2>2. first \in Nat /\ first \div 16 = h.version
        /\ first % 16 = type_code(h.type_field)
    BY <1>1, <2>1, <1>DivMod16, SMT
  <2> QED BY <2>1, <2>2, SMT
<1>4. u16(b, at + 2) = h.type_specific_payload
  BY <1>1, <1>2, <1>Read16, SMT
<1>5. security_fields(b[at + 4]) = h.security_fields
  BY <1>1, <1>2, <1>Security, SMT
<1>6. u32(b, at + 5) = h.source_connection_id /\ u32(b, at + 9) = h.destination_connection_id
  BY <1>1, <1>2, <1>Read32, SMT
<1>7. u64(b, at + 13) = h.packet_number
  BY <1>1, <1>2, <1>Read64, SMT
<1> QED BY <1>2, <1>3, <1>4, <1>5, <1>6, <1>7, SMT DEF deserialise, Header

-----------------------------------------------------------------------------
(* A packet as the builder leaves it: a data packet says how many bytes it *)
(* carries, at least one, and the others carry none.                       *)
Packet ==
  {p \in [header : Header, payload : Seq(Nat)] :
     IF p.header.type_field = "UnencryptedData"
     THEN Len(p.payload) = p.header.type_specific_payload /\ p.payload # <<>>
     ELSE p.payload = <<>>}

ParsedPacket == [header : Header, lo : Nat, hi : Nat]

(* r has the packets of ps: their headers, and where in the bytes b their  *)
(* payloads lie.                                                           *)
ReadBack(ps, b, r) ==
  /\ r.outcome = "Ok"
  /\ r.packets \in Seq(ParsedPacket) /\ Len(r.packets) = Len(ps)
  /\ \A i \in 1 .. Len(ps) :
       /\ r.packets[i].header = ps[i].header
       /\ r.packets[i].hi <= Len(b)
       /\ SubSeq(b, r.packets[i].lo + 1, r.packets[i].hi) = ps[i].payload
       /\ ps[i].header.type_field # "UnencryptedData" => r.packets[i].lo = r.packets[i].hi

(* What a datagram is read as.                                             *)
LEMMA DatagramRead ==
  ASSUME Inductive, NEW datagram \in Seq(Packet), datagram # <<>>
  PROVE  /\ serialise_datagram(datagram) \in Seq(Nat)
         /\ ReadBack(datagram, serialise_datagram(datagram),
                     from_bytes_into(serialise_datagram(datagram)))

(* Byte strings joined are a byte string.                                  *)
<1>Joined.
    ASSUME NEW s \in Seq(Nat), NEW r \in Seq(Nat)
    PROVE  s \o r \in Seq(Nat) /\ Len(s \o r) = Len(s) + Len(r)
  BY ConcatOf

(* A byte on its own.                                                      *)
<1>OneByte.
    ASSUME NEW v \in Nat
    PROVE  <<v>> \in Seq(Nat) /\ Len(<<v>>) = 1
  BY SMT

(* A number of two bytes or more is written as so many bytes.              *)
<1>WordBytes.
    ASSUME NEW v \in Nat
    PROVE  /\ be16(v) \in Seq(Nat) /\ Len(be16(v)) = 2
           /\ be32(v) \in Seq(Nat) /\ Len(be32(v)) = 4
           /\ be64(v) \in Seq(Nat) /\ Len(be64(v)) = 8
  <2>1. \A w \in Nat : be16(w) \in Seq(Nat) /\ Len(be16(w)) = 2
    <3> TAKE w \in Nat
    <3>1. w \div 256 \in Nat /\ w % 256 \in Nat
      BY DivMod256, SMT
    <3> QED BY <3>1, SMT DEF be16
  <2>2. \A w \in Nat : be32(w) \in Seq(Nat) /\ Len(be32(w)) = 4
    <3> TAKE w \in Nat
    <3>1. PICK x \in Nat, y \in Nat : x = w \div 65536 /\ y = w % 65536
      BY DivMod65536, SMT
    <3>2. PICK s \in Seq(Nat), r \in Seq(Nat) :
            s = be16(x) /\ r = be16(y) /\ Len(s) = 2 /\ Len(r) = 2
      BY <2>1, SMT
    <3>3. be32(w) = s \o r
      BY <3>1, <3>2, SMT DEF be32
    <3>4. 2 + 2 = 4
      BY SMT
    <3> QED BY <3>2, <3>3, <3>4, <1>Joined
  <2>3. PICK x \in Nat, y \in Nat, z \in Nat :
          /\ x = (v \div 65536) \div 65536 /\ y = (v \div 65536) % 65536
          /\ z = v % 65536
    <3>1. PICK w \in Nat : w = v \div 65536
      BY DivMod65536, SMT
    <3>2. w \div 65536 \in Nat /\ w % 65536 \in Nat /\ v % 65536 \in Nat
      BY DivMod65536, SMT
    <3> QED BY <3>1, <3>2, SMT
  <2>4. PICK s \in Seq(Nat), r \in Seq(Nat), q \in Seq(Nat) :
          /\ s = be32(x) /\ r = be16(y) /\ q = be16(z)
          /\ Len(s) = 4 /\ Len(r) = 2 /\ Len(q) = 2
    BY <2>1, <2>2, SMT
  <2>5. be64(v) = s \o r \o q
    BY <2>3, <2>4, SMT DEF be64
  <2>6. 4 + 2 = 6 /\ 6 + 2 = 8
    BY SMT
  <2>7. PICK u \in Seq(Nat) : u = s \o r /\ Len(u) = 6
    <3>1. s \o r \in Seq(Nat) /\ Len(s \o r) = Len(s) + Len(r)
      BY <1>Joined
    <3>2. Len(s \o r) = 6
      BY <2>4, <2>6, <3>1
    <3> QED BY <3>1, <3>2
  <2>8. be64(v) \in Seq(Nat) /\ Len(be64(v)) = 8
    <3>1. u \o q \in Seq(Nat) /\ Len(u \o q) = Len(u) + Len(q)
      BY <1>Joined
    <3>2. be64(v) = u \o q
      BY <2>5, <2>7
    <3>3. Len(u \o q) = 8
      BY <2>4, <2>6, <2>7, <3>1
    <3> QED BY <3>1, <3>2, <3>3
  <2> QED BY <2>1, <2>2, <2>8, SMT

(* A header is twenty bytes.                                               *)
<1>HeaderBytes.
    ASSUME NEW h \in Header
    PROVE  serialise(h) \in Seq(Nat) /\ Len(serialise(h)) = HEADER_LEN
  <2>1. PICK s1 \in Seq(Nat) :
          s1 = <<h.version * 16 + type_code(h.type_field)>> /\ Len(s1) = 1
    <3>1. h.version \in Nat /\ h.type_field \in {PacketTypes[i] : i \in 1 .. 7}
      BY SMT DEF Header, Below
    <3>2. type_code(h.type_field) \in Nat
      BY <3>1, TypeCode, SMT
    <3>3. h.version * 16 + type_code(h.type_field) \in Nat
      BY <3>1, <3>2, SMT
    <3> QED BY <3>3, <1>OneByte
  <2>2. PICK s2 \in Seq(Nat) : s2 = be16(h.type_specific_payload) /\ Len(s2) = 2
    <3>1. h.type_specific_payload \in Nat
      BY SMT DEF Header, U16, Below
    <3> QED BY <3>1, <1>WordBytes, SMT
  <2>3. PICK s3 \in Seq(Nat) : s3 = <<security_byte(h.security_fields)>> /\ Len(s3) = 1
    <3>1. h.security_fields.mask \in Nat
      BY SMT DEF Header, Below
    <3>2. security_byte(h.security_fields) \in Nat
      BY <3>1, SMT DEF security_byte
    <3> QED BY <3>2, <1>OneByte
  <2>4. PICK s4 \in Seq(Nat) : s4 = be32(h.source_connection_id) /\ Len(s4) = 4
    <3>1. h.source_connection_id \in Nat
      BY SMT DEF Header, U32, Below
    <3> QED BY <3>1, <1>WordBytes, SMT
  <2>5. PICK s5 \in Seq(Nat) : s5 = be32(h.destination_connection_id) /\ Len(s5) = 4
    <3>1. h.destination_connection_id \in Nat
      BY SMT DEF Header, U32, Below
    <3> QED BY <3>1, <1>WordBytes, SMT
  <2>6. PICK s6 \in Seq(Nat) : s6 = be64(h.packet_number) /\ Len(s6) = 8
    <3>1. h.packet_number \in Nat
      BY SMT DEF Header, U64, Below
    <3> QED BY <3>1, <1>WordBytes, SMT
  <2>7. serialise(h) = s1 \o s2 \o s3 \o s4 \o s5 \o s6
    BY <2>1, <2>2, <2>3, <2>4, <2>5, <2>6 DEF serialise
  <2>8. PICK r2 \in Seq(Nat) : r2 = s1 \o s2 /\ Len(r2) = 3
    <3>1. s1 \o s2 \in Seq(Nat) /\ Len(s1 \o s2) = Len(s1) + Len(s2)
      BY <1>Joined
    <3>2. Len(s1) = 1 /\ Len(s2) = 2
      BY <2>1, <2>2
    <3>3. Len(s1 \o s2) = 3
      BY <3>1, <3>2, SMT
    <3> QED BY <3>1, <3>3
  <2>9. PICK r3 \in Seq(Nat) : r3 = r2 \o s3 /\ Len(r3) = 4
    <3>1. r2 \o s3 \in Seq(Nat) /\ Len(r2 \o s3) = Len(r2) + Len(s3)
      BY <1>Joined
    <3>2. Len(r2) = 3 /\ Len(s3) = 1
      BY <2>3, <2>8
    <3>3. Len(r2 \o s3) = 4
      BY <3>1, <3>2, SMT
    <3> QED BY <3>1, <3>3
  <2>10. PICK r4 \in Seq(Nat) : r4 = r3 \o s4 /\ Len(r4) = 8
    <3>1. r3 \o s4 \in Seq(Nat) /\ Len(r3 \o s4) = Len(r3) + Len(s4)
      BY <1>Joined
    <3>2. Len(r3) = 4 /\ Len(s4) = 4
      BY <2>4, <2>9
    <3>3. Len(r3 \o s4) = 8
      BY <3>1, <3>2, SMT
    <3> QED BY <3>1, <3>3
  <2>11. PICK r5 \in Seq(Nat) : r5 = r4 \o s5 /\ Len(r5) = 12
    <3>1. r4 \o s5 \in Seq(Nat) /\ Len(r4 \o s5) = Len(r4) + Len(s5)
      BY <1>Joined
    <3>2. Len(r4) = 8 /\ Len(s5) = 4
      BY <2>5, <2>10
    <3>3. Len(r4 \o s5) = 12
      BY <3>1, <3>2, SMT
    <3> QED BY <3>1, <3>3
  <2>12. PICK r6 \in Seq(Nat) : r6 = r5 \o s6 /\ Len(r6) = 20
    <3>1. r5 \o s6 \in Seq(Nat) /\ Len(r5 \o s6) = Len(r5) + Len(s6)
      BY <1>Joined
    <3>2. Len(r5) = 12 /\ Len(s6) = 8
      BY <2>6, <2>11
    <3>3. Len(r5 \o s6) = 20
      BY <3>1, <3>2, SMT
    <3> QED BY <3>1, <3>3
  <2> QED BY <2>7, <2>8, <2>9, <2>10, <2>11, <2>12 DEF HEADER_LEN

(* A packet is its header and, behind it, its payload.                     *)
<1>PacketBytes.
    ASSUME NEW p \in Packet
    PROVE  /\ serialise_packet(p) \in Seq(Nat)
           /\ Len(serialise_packet(p)) = 20 + Len(p.payload)
           /\ \A i \in 1 .. 20 : serialise_packet(p)[i] = serialise(p.header)[i]
           /\ \A i \in 1 .. Len(p.payload) : serialise_packet(p)[20 + i] = p.payload[i]
  <2>1. p.header \in Header /\ p.payload \in Seq(Nat)
    BY SMT DEF Packet
  <2>2. PICK s \in Seq(Nat) : s = serialise(p.header) /\ Len(s) = 20
    BY <2>1, <1>HeaderBytes, SMT DEF HEADER_LEN
  <2>3. PICK r \in Seq(Nat) : r = p.payload
    BY <2>1, SMT
  <2>4. PICK u : u = s \o r
    OBVIOUS
  <2>5. serialise_packet(p) = u
    BY <2>2, <2>3, <2>4 DEF serialise_packet
  <2>6. PICK l \in Nat : l = Len(r)
    BY SMT
  <2>7. /\ u \in Seq(Nat) /\ Len(u) = 20 + l
        /\ \A i \in 1 .. 20 + l : u[i] = IF i <= 20 THEN s[i] ELSE r[i - 20]
    <3>1. /\ u \in Seq(Nat) /\ Len(u) = Len(s) + Len(r)
          /\ \A i \in 1 .. Len(s) + Len(r) : u[i] = IF i <= Len(s) THEN s[i] ELSE r[i - Len(s)]
      BY <2>4, ConcatOf
    <3> QED BY <2>2, <2>6, <3>1
  <2>8. ASSUME NEW i \in 1 .. 20
        PROVE  u[i] = s[i]
    <3>1. i \in 1 .. 20 + l /\ i <= 20
      BY SMT
    <3> QED BY <2>7, <3>1
  <2>9. ASSUME NEW i \in 1 .. l
        PROVE  u[20 + i] = r[i]
    <3>1. PICK j : j = 20 + i
      OBVIOUS
    <3>2. j \in 1 .. 20 + l /\ ~(j <= 20) /\ j - 20 = i
      BY <3>1, SMT
    <3>3. u[j] = r[j - 20]
      BY <2>7, <3>2
    <3> QED BY <3>1, <3>2, <3>3
  <2> QED BY <2>2, <2>3, <2>5, <2>6, <2>7, <2>8, <2>9

(* Concat, which is defined by recursion: g[i] is the first i sequences,   *)
(* joined.                                                                 *)
<1> DEFINE Flattens(s, g) ==
    g = [i \in 1 .. Len(s) |-> IF i = 1 THEN s[i] ELSE g[i - 1] \o s[i]]
<1> HIDE DEF Flattens

(* Every one of the first m sequences is a prefix of the m-th.             *)
<1> DEFINE Prefixes(g, m) ==
    \A j \in 1 .. m : /\ g[j] \in Seq(Nat) /\ Len(g[j]) <= Len(g[m])
                      /\ \A i \in 1 .. Len(g[j]) : g[m][i] = g[j][i]
<1> HIDE DEF Prefixes

(* There is such a function.                                               *)
<1>FlattensExist.
    ASSUME NEW s, Len(s) \in Nat
    PROVE  \E g : Flattens(s, g)
  <2> USE <1>FlattensExist
  <2>1. PICK l \in Nat : l = Len(s)
    OBVIOUS
  <2> DEFINE UpTo(g, k) ==
        \A i \in 1 .. l : i <= k => g[i] = IF i = 1 THEN s[i] ELSE g[i - 1] \o s[i]
  <2> DEFINE T == {k \in Nat : \E g : UpTo(g, k)}
  <2>2. 0 \in T
    <3>1. \A i \in 1 .. l : ~(i <= 0)
      BY SMT
    <3>2. UpTo(<<>>, 0)
      BY <3>1
    <3> QED BY <3>2, SMT
  <2>3. ASSUME NEW k \in T
        PROVE  k + 1 \in T
    <3>1. PICK g : UpTo(g, k)
      OBVIOUS
    <3>2. k \in Nat /\ k + 1 \in Nat
      BY SMT
    <3>3. PICK h : h = [i \in 0 .. l |-> IF i = k + 1
                                         THEN (IF i = 1 THEN s[i] ELSE g[i - 1] \o s[i])
                                         ELSE g[i]]
      OBVIOUS
    <3>4. ASSUME NEW i \in 1 .. l, i <= k + 1
          PROVE  h[i] = IF i = 1 THEN s[i] ELSE h[i - 1] \o s[i]
      <4>1. i \in 0 .. l /\ i - 1 \in 0 .. l /\ i - 1 # k + 1
        BY <3>2, <3>4, SMT
      <4>2. h[i - 1] = g[i - 1]
        BY <3>3, <4>1
      <4>3. CASE i = k + 1
        BY <3>3, <4>1, <4>2, <4>3
      <4>4. CASE i # k + 1
        <5>1. i <= k
          BY <3>2, <3>4, <4>4, SMT
        <5>2. h[i] = g[i]
          BY <3>3, <4>1, <4>4
        <5>3. g[i] = IF i = 1 THEN s[i] ELSE g[i - 1] \o s[i]
          BY <3>1, <5>1
        <5> QED BY <4>2, <5>2, <5>3
      <4> QED BY <4>3, <4>4, SMT
    <3>5. UpTo(h, k + 1)
      BY <3>4
    <3> QED BY <3>2, <3>5
  <2>4. T = Nat
    <3> HIDE DEF T
    <3>1. T \in SUBSET Nat
      BY SMT DEF T
    <3> QED BY <2>2, <2>3, <3>1 DEF Inductive
  <2>5. PICK f : UpTo(f, l)
    <3>1. l \in T
      BY <2>4
    <3> QED BY <3>1, SMT
  <2>6. PICK g : g = [i \in 1 .. l |-> f[i]]
    OBVIOUS
  <2>7. ASSUME NEW i \in 1 .. l
        PROVE  f[i] = IF i = 1 THEN s[i] ELSE g[i - 1] \o s[i]
    <3>1. i <= l
      BY SMT
    <3>2. f[i] = IF i = 1 THEN s[i] ELSE f[i - 1] \o s[i]
      BY <2>5, <3>1
    <3>3. i # 1 => i - 1 \in 1 .. l
      BY SMT
    <3>4. i # 1 => g[i - 1] = f[i - 1]
      BY <2>6, <3>3
    <3> QED BY <3>2, <3>4
  <2>8. g = [i \in 1 .. l |-> IF i = 1 THEN s[i] ELSE g[i - 1] \o s[i]]
    BY <2>6, <2>7
  <2> QED BY <2>1, <2>8 DEF Flattens

(* So Concat is the last value of such a function.                         *)
<1>FlattenIs.
    ASSUME NEW s, Len(s) \in Nat \ {0}
    PROVE  \E g : Flattens(s, g) /\ Concat(s) = g[Len(s)]
  <2> USE <1>FlattenIs
  <2>1. Concat(s) = (CHOOSE g : g = [i \in 1 .. Len(s) |->
                           IF i = 1 THEN s[i] ELSE g[i - 1] \o s[i]])[Len(s)]
    BY SMT DEF Concat
  <2>2. Concat(s) = (CHOOSE g : Flattens(s, g))[Len(s)]
    BY <2>1 DEF Flattens
  <2>3. Flattens(s, CHOOSE g : Flattens(s, g))
    BY <1>FlattensExist
  <2> QED BY <2>2, <2>3

(* The packets of a datagram lie end to end: o[k] is where the k-th ends.  *)
<1> DEFINE Laid(ps, b, o) ==
    /\ o[0] = 0 /\ o[Len(ps)] = Len(b)
    /\ \A k \in 0 .. Len(ps) : o[k] \in Nat /\ o[k] <= Len(b)
    /\ \A k \in 1 .. Len(ps) :
         /\ o[k] = o[k - 1] + 20 + Len(ps[k].payload)
         /\ \A i \in 1 .. 20 : b[o[k - 1] + i] = serialise(ps[k].header)[i]
         /\ \A i \in 1 .. Len(ps[k].payload) : b[o[k - 1] + 20 + i] = ps[k].payload[i]
<1> HIDE DEF Laid

(* A joined sequence starts with the first and goes on with the second.    *)
<1>JoinedParts.
    ASSUME NEW s \in Seq(Nat), NEW r \in Seq(Nat)
    PROVE  /\ s \o r \in Seq(Nat) /\ Len(s) \in Nat /\ Len(r) \in Nat
           /\ Len(s \o r) = Len(s) + Len(r)
           /\ \A i \in 1 .. Len(s) : (s \o r)[i] = s[i]
           /\ \A i \in 1 .. Len(r) : (s \o r)[Len(s) + i] = r[i]
  <2>1. PICK u : u = s \o r
    OBVIOUS
  <2>2. /\ u \in Seq(Nat) /\ Len(u) = Len(s) + Len(r)
        /\ \A i \in 1 .. Len(s) + Len(r) : u[i] = IF i <= Len(s) THEN s[i] ELSE r[i - Len(s)]
    BY <2>1, ConcatOf
  <2>3. PICK k \in Nat, l \in Nat : k = Len(s) /\ l = Len(r)
    BY SMT
  <2>4. \A i \in 1 .. k + l : u[i] = IF i <= k THEN s[i] ELSE r[i - k]
    BY <2>2, <2>3
  <2>5. ASSUME NEW i \in 1 .. k
        PROVE  u[i] = s[i]
    <3>1. i \in 1 .. k + l /\ i <= k
      BY SMT
    <3> QED BY <2>4, <3>1
  <2>6. ASSUME NEW i \in 1 .. l
        PROVE  u[k + i] = r[i]
    <3>1. PICK j : j = k + i
      OBVIOUS
    <3>2. j \in 1 .. k + l /\ ~(j <= k) /\ j - k = i
      BY <3>1, SMT
    <3> QED BY <2>4, <3>1, <3>2
  <2> QED BY <2>1, <2>2, <2>3, <2>5, <2>6

(* What Concat joins: every intermediate result is a prefix of the         *)
(* later ones.                                                             *)
<1>FlattenPrefixes.
    ASSUME NEW s, Len(s) \in Nat, \A i \in 1 .. Len(s) : s[i] \in Seq(Nat),
           NEW g, Flattens(s, g), NEW m \in 1 .. Len(s)
    PROVE  Prefixes(g, m)
  <2> USE <1>FlattenPrefixes
  <2> PICK l \in Nat : l = Len(s)
    OBVIOUS
  <2> \A i \in 1 .. l : s[i] \in Seq(Nat)
    OBVIOUS
  <2> DEFINE Good(k) ==
        k \in 1 .. l =>
          \A j \in 1 .. k : /\ g[j] \in Seq(Nat) /\ Len(g[j]) <= Len(g[k])
                            /\ \A i \in 1 .. Len(g[j]) : g[k][i] = g[j][i]
  <2> DEFINE T == {k \in Nat : Good(k)}
  <2>1. g = [i \in 1 .. l |-> IF i = 1 THEN s[i] ELSE g[i - 1] \o s[i]]
    BY DEF Flattens
  <2>2. 0 \in T
    BY SMT
  <2>3. ASSUME NEW k \in T
        PROVE  k + 1 \in T
    <3>1. k \in Nat /\ k + 1 \in Nat /\ Good(k)
      BY SMT
    <3> SUFFICES ASSUME k + 1 \in 1 .. l
                 PROVE  \A j \in 1 .. k + 1 :
                          /\ g[j] \in Seq(Nat) /\ Len(g[j]) <= Len(g[k + 1])
                          /\ \A i \in 1 .. Len(g[j]) : g[k + 1][i] = g[j][i]
      BY <3>1
    <3>2. CASE k = 0
      <4>1. k + 1 = 1 /\ 1 \in 1 .. l /\ \A j \in 1 .. k + 1 : j = 1
        BY <3>2, SMT
      <4>2. g[1] = s[1]
        BY <2>1, <4>1
      <4>3. g[1] \in Seq(Nat)
        BY <4>1, <4>2
      <4>4. Len(g[1]) \in Nat
        BY <4>3, SMT
      <4>5. Len(g[1]) <= Len(g[1])
        BY <4>4, SMT
      <4> QED BY <4>1, <4>3, <4>5
    <3>3. CASE k # 0
      <4>1. k \in 1 .. l /\ k + 1 # 1 /\ (k + 1) - 1 = k
        BY <3>1, <3>3, SMT
      <4>2. \A j \in 1 .. k : /\ g[j] \in Seq(Nat) /\ Len(g[j]) <= Len(g[k])
                              /\ \A i \in 1 .. Len(g[j]) : g[k][i] = g[j][i]
        BY <3>1, <4>1
      <4> g[k] \in Seq(Nat)
        <5>1. k \in 1 .. k
          BY <4>1, SMT
        <5> QED BY <4>2, <5>1
      <4>3. g[k + 1] = g[k] \o s[k + 1]
        BY <2>1, <4>1
      <4>4. s[k + 1] \in Seq(Nat)
        OBVIOUS
      <4>5. /\ g[k + 1] \in Seq(Nat) /\ Len(g[k]) \in Nat /\ Len(s[k + 1]) \in Nat
            /\ Len(g[k + 1]) = Len(g[k]) + Len(s[k + 1])
            /\ \A i \in 1 .. Len(g[k]) : g[k + 1][i] = g[k][i]
        <5>1. PICK x \in Seq(Nat), y \in Seq(Nat) : x = g[k] /\ y = s[k + 1]
          BY <4>4
        <5>2. /\ x \o y \in Seq(Nat) /\ Len(x) \in Nat /\ Len(y) \in Nat
              /\ Len(x \o y) = Len(x) + Len(y)
              /\ \A i \in 1 .. Len(x) : (x \o y)[i] = x[i]
          BY <1>JoinedParts
        <5>3. g[k + 1] = x \o y
          BY <4>3, <5>1
        <5> QED BY <5>1, <5>2, <5>3
      <4>6. PICK a \in Nat, c \in Nat : a = Len(g[k]) /\ c = Len(g[k + 1]) /\ a <= c
        <5>1. PICK a \in Nat, e \in Nat : a = Len(g[k]) /\ e = Len(s[k + 1])
          BY <4>5
        <5>2. PICK c : c = a + e
          OBVIOUS
        <5>3. c = Len(g[k + 1])
          BY <4>5, <5>1, <5>2
        <5>4. c \in Nat /\ a <= c
          BY <5>2, SMT
        <5> QED BY <5>1, <5>3, <5>4
      <4>7. ASSUME NEW j \in 1 .. k + 1
            PROVE  /\ g[j] \in Seq(Nat) /\ Len(g[j]) <= Len(g[k + 1])
                   /\ \A i \in 1 .. Len(g[j]) : g[k + 1][i] = g[j][i]
        <5>1. CASE j = k + 1
          <6>1. c <= c
            BY SMT
          <6> QED BY <4>5, <4>6, <5>1, <6>1
        <5>2. CASE j # k + 1
          <6>1. j \in 1 .. k
            BY <3>1, <5>2, SMT
          <6>2. /\ g[j] \in Seq(Nat) /\ Len(g[j]) <= a
                /\ \A i \in 1 .. Len(g[j]) : g[k][i] = g[j][i]
            BY <4>2, <4>6, <6>1
          <6>3. PICK d \in Nat : d = Len(g[j])
            BY <6>2, SMT
          <6>4. d <= a /\ a <= c
            BY <4>6, <6>2, <6>3
          <6>5. d <= c /\ \A i \in 1 .. d : i \in 1 .. a
            BY <6>4, SMT
          <6> QED BY <4>5, <4>6, <6>2, <6>3, <6>5
        <5> QED BY <5>1, <5>2, SMT
      <4> QED BY <4>5, <4>7
    <3> QED BY <3>2, <3>3
  <2>4. T = Nat
    <3> HIDE DEF T
    <3>1. T \in SUBSET Nat
      BY SMT DEF T
    <3> QED BY <2>2, <2>3, <3>1 DEF Inductive
  <2>5. Good(m)
    <3>1. m \in Nat
      BY SMT
    <3>2. m \in T
      BY <2>4, <3>1
    <3> QED BY <3>2
  <2>6. m \in 1 .. l
    OBVIOUS
  <2> QED BY <2>5, <2>6 DEF Prefixes

(* A serialised datagram is its packets' headers and payloads end to end.  *)
<1>DatagramLaid.
    ASSUME NEW ps \in Seq(Packet), ps # <<>>
    PROVE  /\ serialise_datagram(ps) \in Seq(Nat)
           /\ \E o : Laid(ps, serialise_datagram(ps), o)
  <2> USE <1>DatagramLaid
  <2>1. PICK l \in Nat \ {0} : l = Len(ps) /\ DOMAIN ps = 1 .. l
    BY SMT
  <2>2. PICK s : s = [i \in 1 .. l |-> serialise_packet(ps[i])]
    OBVIOUS
  <2>3. \A i \in 1 .. l : ps[i] \in Packet
    BY <2>1, ItemOf
  <2>4. ASSUME NEW i \in 1 .. l
        PROVE  /\ s[i] \in Seq(Nat) /\ Len(s[i]) = 20 + Len(ps[i].payload)
               /\ Len(ps[i].payload) \in Nat
               /\ \A j \in 1 .. 20 : s[i][j] = serialise(ps[i].header)[j]
               /\ \A j \in 1 .. Len(ps[i].payload) : s[i][20 + j] = ps[i].payload[j]
    <3>1. PICK p \in Packet : p = ps[i]
      BY <2>3
    <3>2. s[i] = serialise_packet(p)
      BY <2>2, <3>1
    <3>3. p.payload \in Seq(Nat)
      BY SMT DEF Packet
    <3>4. Len(p.payload) \in Nat
      BY <3>3, SMT
    <3> QED BY <3>1, <3>2, <3>4, <1>PacketBytes
  <2>5. s \in Seq(Seq(Nat)) /\ Len(s) = l
    <3>1. s \in [1 .. l -> Seq(Nat)]
      BY <2>2, <2>4, SMT
    <3> QED BY <3>1, SMT
  <2>6. serialise_datagram(ps) = Concat(s)
    BY <2>1, <2>2 DEF serialise_datagram
  <2>7. PICK g : Flattens(s, g) /\ Concat(s) = g[l]
    <3>1. Len(s) \in Nat \ {0}
      BY <2>5, SMT
    <3> QED BY <2>5, <3>1, <1>FlattenIs
  <2>8. g = [i \in 1 .. l |-> IF i = 1 THEN s[i] ELSE g[i - 1] \o s[i]]
    BY <2>5, <2>7 DEF Flattens
  <2>9. PICK b : b = g[l] /\ b = serialise_datagram(ps)
    BY <2>6, <2>7
  <2>10. \A j \in 1 .. l : /\ g[j] \in Seq(Nat) /\ Len(g[j]) <= Len(b)
                           /\ \A i \in 1 .. Len(g[j]) : b[i] = g[j][i]
    <3>1. l \in 1 .. l /\ l \in Nat
      BY <2>1, SMT
    <3>2. /\ Len(s) \in Nat /\ l \in 1 .. Len(s)
          /\ \A i \in 1 .. Len(s) : s[i] \in Seq(Nat)
      BY <2>4, <2>5, <3>1
    <3>3. \A j \in 1 .. l : /\ g[j] \in Seq(Nat) /\ Len(g[j]) <= Len(g[l])
                            /\ \A i \in 1 .. Len(g[j]) : g[l][i] = g[j][i]
      <4>1. Flattens(s, g)
        BY <2>7
      <4>2. PICK m : m = l
        OBVIOUS
      <4>3. m \in 1 .. Len(s)
        BY <3>2, <4>2
      <4>4. Prefixes(g, m)
        BY <3>2, <4>1, <4>3, <1>FlattenPrefixes
      <4> QED BY <4>2, <4>4 DEF Prefixes
    <3> QED BY <2>9, <3>3
  <2>11. b \in Seq(Nat) /\ Len(b) \in Nat
    <3>1. l \in 1 .. l
      BY <2>1, SMT
    <3>2. b \in Seq(Nat)
      BY <2>9, <2>10, <3>1
    <3> QED BY <3>2, SMT
  <2>12. PICK o : o = [k \in 0 .. l |-> IF k = 0 THEN 0 ELSE Len(g[k])]
    OBVIOUS
  <2>13. o[0] = 0 /\ \A k \in 1 .. l : o[k] = Len(g[k])
    <3>1. 0 \in 0 .. l /\ \A k \in 1 .. l : k \in 0 .. l /\ k # 0
      BY <2>1, SMT
    <3> QED BY <2>12, <3>1
  <2>14. ASSUME NEW k \in 0 .. l
         PROVE  o[k] \in Nat /\ o[k] <= Len(b)
    <3>1. CASE k = 0
      BY <2>11, <2>13, <3>1, SMT
    <3>2. CASE k # 0
      <4>1. k \in 1 .. l
        BY <2>1, <3>2, SMT
      <4>2. g[k] \in Seq(Nat) /\ Len(g[k]) <= Len(b) /\ o[k] = Len(g[k])
        BY <2>10, <2>13, <4>1
      <4>3. Len(g[k]) \in Nat
        BY <4>2, SMT
      <4> QED BY <4>2, <4>3
    <3> QED BY <3>1, <3>2, SMT
  <2>15. ASSUME NEW k \in 1 .. l
         PROVE  /\ o[k] = o[k - 1] + Len(s[k])
                /\ \A i \in 1 .. Len(s[k]) : b[o[k - 1] + i] = s[k][i]
    <3>1. CASE k = 1
      <4>1. k - 1 = 0 /\ g[k] = s[k]
        <5>1. k - 1 = 0
          BY <3>1, SMT
        <5> QED BY <2>8, <3>1, <5>1
      <4>2. PICK d \in Nat : d = Len(s[k])
        BY <2>4, LengthOf
      <4>3. o[k] = d /\ o[k - 1] = 0 /\ \A i \in 1 .. d : b[i] = s[k][i]
        BY <2>10, <2>13, <4>1, <4>2
      <4>4. d = 0 + d
        BY SMT
      <4>5. ASSUME NEW i \in 1 .. d
            PROVE  b[0 + i] = s[k][i]
        <5>1. 0 + i = i
          BY SMT
        <5> QED BY <4>3, <5>1
      <4> QED BY <4>2, <4>3, <4>4, <4>5
    <3>2. CASE k # 1
      <4>1. k - 1 \in 1 .. l
        BY <3>2, SMT
      <4>2. PICK x \in Seq(Nat), y \in Seq(Nat) : x = g[k - 1] /\ y = s[k]
        BY <2>4, <2>10, <4>1
      <4>3. g[k] = x \o y
        BY <2>8, <3>2, <4>2
      <4>4. /\ Len(x) \in Nat /\ Len(y) \in Nat /\ Len(g[k]) = Len(x) + Len(y)
            /\ \A i \in 1 .. Len(y) : g[k][Len(x) + i] = y[i]
        <5>1. /\ Len(x) \in Nat /\ Len(y) \in Nat /\ Len(x \o y) = Len(x) + Len(y)
              /\ \A i \in 1 .. Len(y) : (x \o y)[Len(x) + i] = y[i]
          BY <1>JoinedParts
        <5> QED BY <4>3, <5>1
      <4>5. PICK a \in Nat, c \in Nat : a = Len(x) /\ c = Len(y)
        BY <4>4
      <4>6. o[k - 1] = a /\ o[k] = a + c /\ Len(g[k]) = a + c
        BY <2>13, <4>1, <4>2, <4>4, <4>5
      <4>7. ASSUME NEW i \in 1 .. c
            PROVE  b[a + i] = y[i]
        <5>1. a + i \in 1 .. a + c
          BY SMT
        <5>2. b[a + i] = g[k][a + i]
          BY <2>10, <4>6, <5>1
        <5>3. g[k][a + i] = y[i]
          BY <4>4, <4>5
        <5> QED BY <5>2, <5>3
      <4> QED BY <4>2, <4>5, <4>6, <4>7
    <3> QED BY <3>1, <3>2, SMT
  <2>16. ASSUME NEW k \in 1 .. l
         PROVE  /\ o[k] = o[k - 1] + 20 + Len(ps[k].payload)
                /\ \A i \in 1 .. 20 : b[o[k - 1] + i] = serialise(ps[k].header)[i]
                /\ \A i \in 1 .. Len(ps[k].payload) : b[o[k - 1] + 20 + i] = ps[k].payload[i]
    <3>1. k - 1 \in 0 .. l
      BY <2>1, SMT
    <3>2. PICK a \in Nat, d \in Nat : a = o[k - 1] /\ d = Len(ps[k].payload)
      BY <2>4, <2>14, <3>1
    <3>3. /\ o[k] = a + (20 + d) /\ \A i \in 1 .. 20 + d : b[a + i] = s[k][i]
      BY <2>4, <2>15, <3>2
    <3>4. o[k] = a + 20 + d
      BY <3>3, SMT
    <3>5. ASSUME NEW i \in 1 .. 20
          PROVE  b[a + i] = serialise(ps[k].header)[i]
      <4>1. i \in 1 .. 20 + d
        BY SMT
      <4> QED BY <2>4, <3>3, <4>1
    <3>6. ASSUME NEW i \in 1 .. d
          PROVE  b[a + 20 + i] = ps[k].payload[i]
      <4>1. PICK j : j = 20 + i
        OBVIOUS
      <4>2. j \in 1 .. 20 + d /\ a + 20 + i = a + j
        BY <4>1, SMT
      <4>3. b[a + j] = s[k][j]
        BY <3>3, <4>2
      <4>4. s[k][j] = ps[k].payload[i]
        BY <2>4, <3>2, <4>1
      <4> QED BY <4>2, <4>3, <4>4
    <3> QED BY <3>2, <3>4, <3>5, <3>6
  <2>17. o[l] = Len(b)
    <3>1. l \in 1 .. l
      BY <2>1, SMT
    <3> QED BY <2>9, <2>13, <3>1
  <2>18. Laid(ps, b, o)
    BY <2>1, <2>13, <2>14, <2>16, <2>17 DEF Laid
  <2> QED BY <2>9, <2>11, <2>18

(* The walk of from_bytes_into along the datagram b: f is the function     *)
(* that its recursion over the cursor defines.                             *)
<1> DEFINE Walks(b, f) ==
    f = [cursor \in 0 .. Len(b) |->
           IF stops(b, cursor) # "no" THEN [outcome |-> stops(b, cursor), packets |-> <<>>]
           ELSE [outcome |-> f[packet_end(b, cursor)].outcome,
                 packets |-> <<Parsed(deserialise(b, cursor), cursor + HEADER_LEN,
                                      packet_end(b, cursor))>>
                               \o f[packet_end(b, cursor)].packets]]
<1> HIDE DEF Walks

(* A packet that is parsed ends behind its start and within the datagram.  *)
<1>PacketEnd.
    ASSUME NEW b \in Seq(Nat), NEW c \in 0 .. Len(b), stops(b, c) = "no"
    PROVE  packet_end(b, c) \in 0 .. Len(b) /\ packet_end(b, c) > c
  <2> USE <1>PacketEnd
  <2>1. PICK l \in Nat : l = Len(b) /\ c \in 0 .. l
    BY SMT
  <2>2. c + 20 <= l
    <3>1. ~(c + HEADER_LEN > Len(b))
      BY SMT DEF stops
    <3> QED BY <2>1, <3>1, SMT DEF HEADER_LEN
  <2>3. PICK h : h = deserialise(b, c)
    OBVIOUS
  <2>4. h.type_specific_payload = b[c + 2] * 256 + b[c + 2 + 1]
    BY <2>3, SMT DEF deserialise, u16
  <2>5. c + 2 \in 1 .. l /\ c + 2 + 1 \in 1 .. l
    BY <2>1, <2>2, SMT
  <2>6. b[c + 2] \in Nat /\ b[c + 2 + 1] \in Nat
    BY <2>1, <2>5, ItemOf
  <2>7. PICK t \in Nat : t = h.type_specific_payload
    BY <2>4, <2>6, SMT
  <2>8. CASE h.type_field = "UnencryptedData"
    <3>1. packet_end(b, c) = c + 20 + t
      BY <2>3, <2>7, <2>8, SMT DEF packet_end, HEADER_LEN
    <3>2. ~(packet_end(b, c) - 1 >= Len(b))
      BY <2>3, <2>8, SMT DEF stops
    <3> QED BY <2>1, <2>2, <3>1, <3>2, SMT
  <2>9. CASE h.type_field # "UnencryptedData"
    <3>1. packet_end(b, c) = c + 20
      BY <2>1, <2>3, <2>9, SMT DEF packet_end, HEADER_LEN
    <3> QED BY <2>1, <2>2, <3>1, SMT
  <2> QED BY <2>8, <2>9, SMT

(* There is such a function.                                               *)
<1>WalkExists.
    ASSUME NEW b \in Seq(Nat)
    PROVE  \E f : Walks(b, f)
  <2>1. PICK l \in Nat : l = Len(b)
    BY SMT
  <2> DEFINE Stop(c) == [outcome |-> stops(b, c), packets |-> <<>>]
             Go(c, r) == [outcome |-> r.outcome,
                          packets |-> <<Parsed(deserialise(b, c), c + HEADER_LEN,
                                               packet_end(b, c))>> \o r.packets]
             Step(f, c) == IF stops(b, c) # "no" THEN Stop(c) ELSE Go(c, f[packet_end(b, c)])
             UpTo(f, k) == \A c \in 0 .. l : l - c <= k => f[c] = Step(f, c)
             T == {k \in Nat : \E f : UpTo(f, k)}
  <2>2. ASSUME NEW c \in 0 .. l, stops(b, c) = "no"
        PROVE  packet_end(b, c) \in 0 .. l /\ packet_end(b, c) > c
    BY <2>1, <2>2, <1>PacketEnd, SMT
  <2>3. 0 \in T
    <3>1. PICK f : f = [c \in 0 .. l |-> Stop(c)]
      OBVIOUS
    <3>2. ASSUME NEW c \in 0 .. l, l - c <= 0
          PROVE  f[c] = Step(f, c)
      <4>1. c = l
        BY <3>2, SMT
      <4>2. stops(b, c) # "no"
        <5>1. stops(b, c) = "no" => packet_end(b, c) \in 0 .. l /\ packet_end(b, c) > c
          BY <2>2
        <5> HIDE DEF Step, Stop
        <5> QED BY <4>1, <5>1, SMT
      <4> QED BY <3>1, <4>2
    <3>3. UpTo(f, 0)
      BY <3>2
    <3> QED BY <3>3
  <2>4. ASSUME NEW k \in T
        PROVE  k + 1 \in T
    <3>1. PICK f : UpTo(f, k)
      OBVIOUS
    <3> HIDE DEF Step
    <3>2. k \in Nat
      OBVIOUS
    <3>3. PICK g : g = [c \in 0 .. l |-> IF l - c = k + 1 THEN Step(f, c) ELSE f[c]]
      OBVIOUS
    <3>4. ASSUME NEW c \in 0 .. l, l - c <= k + 1
          PROVE  g[c] = Step(g, c)
      <4>1. stops(b, c) = "no" => g[packet_end(b, c)] = f[packet_end(b, c)]
        <5> SUFFICES ASSUME stops(b, c) = "no"
                     PROVE  g[packet_end(b, c)] = f[packet_end(b, c)]
          OBVIOUS
        <5>1. PICK e : e = packet_end(b, c)
          OBVIOUS
        <5>2. e \in 0 .. l /\ e > c
          BY <2>2, <5>1
        <5>3. l - e # k + 1
          <6> HIDE DEF T
          <6> QED BY <3>2, <3>4, <5>2, SMT
        <5> QED BY <3>3, <5>1, <5>2, <5>3
      <4>2. Step(g, c) = Step(f, c)
        BY <4>1 DEF Step
      <4>3. CASE l - c = k + 1
        BY <3>3, <4>2, <4>3
      <4>4. CASE l - c # k + 1
        <5>1. l - c <= k
          <6> HIDE DEF T
          <6> QED BY <3>2, <3>4, <4>4, SMT
        <5>2. g[c] = f[c]
          BY <3>3, <4>4
        <5>3. f[c] = Step(f, c)
          BY <3>1, <5>1
        <5> QED BY <4>2, <5>2, <5>3
      <4> QED BY <4>3, <4>4, SMT
    <3>5. UpTo(g, k + 1)
      BY <3>4
    <3>6. k + 1 \in Nat
      <4> HIDE DEF T
      <4> QED BY <3>2, SMT
    <3> QED BY <3>5, <3>6
  <2>5. T = Nat
    <3> HIDE DEF T
    <3>1. T \in SUBSET Nat
      BY DEF T
    <3> QED BY <2>3, <2>4, <3>1 DEF Inductive
  <2>6. PICK f : UpTo(f, l)
    <3>1. l \in T
      BY <2>5
    <3> QED BY <3>1
  <2>7. PICK g : g = [c \in 0 .. l |-> f[c]]
    OBVIOUS
  <2>8. ASSUME NEW c \in 0 .. l
        PROVE  f[c] = Step(g, c)
    <3>1. l - c <= l
      BY SMT
    <3>2. f[c] = Step(f, c)
      BY <2>6, <3>1
    <3>3. stops(b, c) = "no" => g[packet_end(b, c)] = f[packet_end(b, c)]
      BY <2>2, <2>7
    <3> QED BY <3>2, <3>3
  <2>9. g = [c \in 0 .. l |-> Step(g, c)]
    BY <2>7, <2>8
  <2> QED BY <2>1, <2>9 DEF Walks

(* So from_bytes_into is where such a walk from the start leads.           *)
<1>FromBytesIs.
    ASSUME NEW b \in Seq(Nat), Len(b) >= HEADER_LEN
    PROVE  \E f : Walks(b, f) /\ from_bytes_into(b) = f[0]
  <2> USE <1>FromBytesIs
  <2>1. ~(Len(b) < HEADER_LEN)
    <3>1. Len(b) \in Nat
      BY SMT
    <3> QED BY <3>1, SMT DEF HEADER_LEN
  <2>2. from_bytes_into(b) = (CHOOSE f : Walks(b, f))[0]
    BY <2>1 DEF from_bytes_into, Walks
  <2>3. Walks(b, CHOOSE f : Walks(b, f))
    BY <1>WalkExists
  <2> QED BY <2>2, <2>3

(* Every type a header is written with is a type that it is read as.       *)
<1>TypeKnown.
    ASSUME NEW h \in Header
    PROVE  h.type_field # "panic" /\ h.type_specific_payload \in Nat
  <2>1. h.type_specific_payload \in Nat /\ h.type_field \in {PacketTypes[i] : i \in 1 .. 7}
    BY SMT DEF Header, U16, Below
  <2>2. PICK i \in 1 .. 7 : h.type_field = PacketTypes[i]
    BY <2>1, SMT
  <2> QED BY <2>1, <2>2, SMT DEF PacketTypes

(* At the start of a packet the walk reads its header and goes on at its   *)
(* end.                                                                    *)
<1>PacketRead.
    ASSUME NEW ps \in Seq(Packet), NEW b \in Seq(Nat), NEW o, Laid(ps, b, o),
           NEW k \in 1 .. Len(ps)
    PROVE  /\ o[k - 1] \in 0 .. Len(b)
           /\ deserialise(b, o[k - 1]) = ps[k].header
           /\ packet_end(b, o[k - 1]) = o[k]
           /\ stops(b, o[k - 1]) = "no"
  <2> USE <1>PacketRead
  <2>1. PICK l \in Nat, m \in Nat : l = Len(ps) /\ m = Len(b)
    BY SMT
  <2>2. PICK p \in Packet : p = ps[k]
    BY ItemOf
  <2>3. PICK h \in Header : h = p.header
    BY SMT DEF Packet
  <2>4. PICK d \in Nat : d = Len(p.payload)
    <3>1. p.payload \in Seq(Nat)
      BY SMT DEF Packet
    <3> QED BY <3>1, SMT
  <2>5. PICK c : c = o[k - 1]
    OBVIOUS
  <2>6. /\ c \in Nat /\ c <= m /\ o[k] \in Nat /\ o[k] <= m
        /\ o[k] = c + 20 + d /\ \A i \in 1 .. 20 : b[c + i] = serialise(h)[i]
    <3>1. k \in 0 .. Len(ps) /\ k - 1 \in 0 .. Len(ps)
      BY <2>1, SMT
    <3> QED BY <2>1, <2>2, <2>3, <2>4, <2>5, <3>1 DEF Laid
  <2>7. PICK e \in Nat : e = o[k] /\ e <= m /\ e = c + 20 + d /\ c \in Nat
    BY <2>6
  <2> c \in 0 .. m /\ c + 20 <= m
    BY <2>7, SMT
  <2>8. deserialise(b, c) = h
    BY <2>6, HeaderRoundTrip DEF HEADER_LEN
  <2>9. h.type_field # "panic" /\ h.type_specific_payload \in Nat
    BY <1>TypeKnown
  <2>10. CASE h.type_field = "UnencryptedData"
    <3>1. d = h.type_specific_payload /\ d # 0
      <4>1. Len(p.payload) = h.type_specific_payload /\ p.payload # <<>> /\ p.payload \in Seq(Nat)
        BY <2>3, <2>10, SMT DEF Packet
      <4>2. Len(p.payload) # 0
        BY <4>1, SMT
      <4> QED BY <2>4, <4>1, <4>2
    <3>2. packet_end(b, c) = o[k]
      BY <2>6, <2>8, <2>10, <3>1, SMT DEF packet_end, HEADER_LEN
    <3>3. ~(c + HEADER_LEN > Len(b)) /\ ~(c + HEADER_LEN >= Len(b)) /\ ~(o[k] - 1 >= Len(b))
      <4>1. ~(c + 20 > m) /\ ~(c + 20 >= m) /\ ~(e - 1 >= m)
        BY <2>7, <3>1, SMT
      <4> QED BY <2>1, <2>7, <4>1 DEF HEADER_LEN
    <3>4. stops(b, c) = "no"
      BY <2>8, <2>9, <3>2, <3>3 DEF stops
    <3> QED BY <2>1, <2>2, <2>3, <2>5, <2>7, <2>8, <3>2, <3>4
  <2>11. CASE h.type_field # "UnencryptedData"
    <3>1. d = 0
      <4>1. p.payload = <<>>
        BY <2>3, <2>11, SMT DEF Packet
      <4> QED BY <2>4, <4>1, SMT
    <3>2. packet_end(b, c) = o[k]
      BY <2>6, <2>8, <2>11, <3>1, SMT DEF packet_end, HEADER_LEN
    <3>3. ~(c + HEADER_LEN > Len(b))
      BY <2>1, <2>6, <2>7, SMT DEF HEADER_LEN
    <3>4. stops(b, c) = "no"
      BY <2>8, <2>9, <2>11, <3>3 DEF stops
    <3> QED BY <2>1, <2>2, <2>3, <2>5, <2>7, <2>8, <3>2, <3>4
  <2> QED BY <2>10, <2>11, SMT

(* r is the result of the walk from behind the k-th packet.                *)
<1> DEFINE Reads(ps, o, r, k) ==
    /\ r.outcome = "Ok" /\ r.packets \in Seq(ParsedPacket)
    /\ Len(r.packets) = Len(ps) - k
    /\ \A i \in 1 .. Len(ps) - k :
         r.packets[i] = Parsed(ps[k + i].header, o[k + i - 1] + 20, o[k + i])
<1> HIDE DEF Reads

(* A packet more, read before the others.                                  *)
<1>WalkStep.
    ASSUME NEW ps \in Seq(Packet), NEW b \in Seq(Nat), NEW o, Laid(ps, b, o),
           NEW f, Walks(b, f), NEW k \in 1 .. Len(ps), Reads(ps, o, f[o[k]], k)
    PROVE  Reads(ps, o, f[o[k - 1]], k - 1)
  <2> USE <1>WalkStep
  <2>1. PICK l \in Nat, m \in Nat : l = Len(ps) /\ m = Len(b)
    BY SMT
  <2>2. PICK c : c = o[k - 1]
    OBVIOUS
  <2>3. /\ c \in 0 .. Len(b) /\ deserialise(b, c) = ps[k].header
        /\ packet_end(b, c) = o[k] /\ stops(b, c) = "no"
    BY <2>2, <1>PacketRead
  <2>4. PICK r : r = f[o[k]]
    OBVIOUS
  <2>5. /\ r.outcome = "Ok" /\ r.packets \in Seq(ParsedPacket) /\ Len(r.packets) = l - k
        /\ \A i \in 1 .. l - k :
             r.packets[i] = Parsed(ps[k + i].header, o[k + i - 1] + 20, o[k + i])
    BY <2>1, <2>4 DEF Reads
  <2>6. PICK x : x = Parsed(ps[k].header, c + 20, o[k])
    OBVIOUS
  <2>7. x \in ParsedPacket
    <3>1. ps[k] \in Packet
      BY ItemOf
    <3>2. ps[k].header \in Header
      BY <3>1, SMT DEF Packet
    <3>3. c \in Nat /\ o[k] \in Nat
      <4>1. k \in 0 .. Len(ps)
        BY <2>1, SMT
      <4>2. o[k] \in Nat
        BY <4>1 DEF Laid
      <4> QED BY <2>1, <2>3, <4>2, SMT
    <3>4. c + 20 \in Nat
      BY <3>3, SMT
    <3> QED BY <2>6, <3>2, <3>3, <3>4 DEF Parsed, ParsedPacket
  <2>8. f[c] = [outcome |-> r.outcome, packets |-> <<x>> \o r.packets]
    <3>1. f[c] = [outcome |-> f[packet_end(b, c)].outcome,
                  packets |-> <<Parsed(deserialise(b, c), c + HEADER_LEN, packet_end(b, c))>>
                                \o f[packet_end(b, c)].packets]
      BY <2>3 DEF Walks
    <3>2. HEADER_LEN = 20
      BY SMT DEF HEADER_LEN
    <3> QED BY <2>3, <2>4, <2>6, <3>1, <3>2
  <2>9. PICK u : u = <<x>> \o r.packets
    OBVIOUS
  <2>10. f[c].outcome = "Ok" /\ f[c].packets = u
    BY <2>5, <2>8, <2>9, SMTT(30)
  <2>11. <<x>> \in Seq(ParsedPacket) /\ Len(<<x>>) = 1 /\ <<x>>[1] = x
    BY <2>7, SMT
  <2>12. /\ u \in Seq(ParsedPacket) /\ Len(u) = Len(<<x>>) + Len(r.packets)
         /\ \A i \in 1 .. Len(<<x>>) + Len(r.packets) :
              u[i] = IF i <= Len(<<x>>) THEN <<x>>[i] ELSE r.packets[i - Len(<<x>>)]
    BY <2>5, <2>9, <2>11, ConcatOf
  <2>13. /\ Len(u) = 1 + (l - k)
         /\ \A i \in 1 .. 1 + (l - k) : u[i] = IF i <= 1 THEN <<x>>[i] ELSE r.packets[i - 1]
    BY <2>5, <2>11, <2>12
  <2>14. Len(u) = l - (k - 1)
    BY <2>1, <2>13, SMT
  <2>15. ASSUME NEW i \in 1 .. l - (k - 1)
         PROVE  u[i] = Parsed(ps[(k - 1) + i].header, o[(k - 1) + i - 1] + 20, o[(k - 1) + i])
    <3>1. i \in 1 .. 1 + (l - k)
      BY <2>1, SMT
    <3>2. CASE i = 1
      <4>1. i <= 1 /\ (k - 1) + i = k /\ (k - 1) + i - 1 = k - 1
        BY <2>1, <3>2, SMT
      <4> QED BY <2>2, <2>6, <2>11, <2>13, <3>1, <3>2, <4>1
    <3>3. CASE i # 1
      <4>1. PICK j : j = i - 1
        OBVIOUS
      <4>2. /\ ~(i <= 1) /\ j \in 1 .. l - k /\ (k - 1) + i = k + j
            /\ (k - 1) + i - 1 = k + j - 1
        BY <2>1, <3>1, <3>3, <4>1, SMT
      <4>3. u[i] = r.packets[j]
        BY <2>13, <3>1, <4>1, <4>2
      <4> QED BY <2>5, <4>2, <4>3
    <3> QED BY <3>2, <3>3, SMT
  <2> QED BY <2>1, <2>2, <2>10, <2>12, <2>14, <2>15 DEF Reads

(* All together.                                                           *)
<1>RoundTrip.
    ASSUME NEW ps \in Seq(Packet), ps # <<>>
    PROVE  /\ serialise_datagram(ps) \in Seq(Nat)
           /\ ReadBack(ps, serialise_datagram(ps), from_bytes_into(serialise_datagram(ps)))
  <2> USE <1>RoundTrip
  <2>1. PICK b : b = serialise_datagram(ps)
    OBVIOUS
  <2>2. PICK o : b \in Seq(Nat) /\ Laid(ps, b, o)
    BY <2>1, <1>DatagramLaid
  <2>3. PICK l \in Nat \ {0}, m \in Nat : l = Len(ps) /\ m = Len(b)
    BY <2>2, SMT
  <2>4. \A i \in 1 .. l : ps[i] \in Packet
    BY <2>3, ItemOf
  <2>5. ASSUME NEW i \in 1 .. l
        PROVE  /\ o[i - 1] \in Nat /\ o[i] \in Nat /\ o[i] <= m
               /\ Len(ps[i].payload) \in Nat /\ ps[i].payload \in Seq(Nat)
               /\ o[i] = o[i - 1] + 20 + Len(ps[i].payload)
    <3>1. i \in 0 .. l /\ i - 1 \in 0 .. l
      BY <2>3, SMT
    <3>2. /\ o[i - 1] \in Nat /\ o[i] \in Nat /\ o[i] <= m
          /\ o[i] = o[i - 1] + 20 + Len(ps[i].payload)
      BY <2>2, <2>3, <3>1 DEF Laid
    <3>3. ps[i].payload \in Seq(Nat)
      BY <2>4, SMT DEF Packet
    <3>4. Len(ps[i].payload) \in Nat
      BY <3>3, SMT
    <3> QED BY <3>2, <3>3, <3>4
  <2>6. Len(b) >= HEADER_LEN
    <3>1. 1 \in 1 .. l
      BY <2>3, SMT
    <3>2. PICK a \in Nat, d \in Nat, e \in Nat : e = a + 20 + d /\ e <= m
      BY <2>5, <3>1
    <3>3. m >= 20
      BY <2>3, <3>2, SMT
    <3> QED BY <2>3, <3>3 DEF HEADER_LEN
  <2>7. PICK f : Walks(b, f) /\ from_bytes_into(b) = f[0]
    BY <2>2, <2>6, <1>FromBytesIs
  <2> DEFINE Behind(j) == j \in 0 .. l => Reads(ps, o, f[o[l - j]], l - j)
             T == {j \in Nat : Behind(j)}
  <2>8. 0 \in T
    <3>1. PICK k : k = l - 0
      OBVIOUS
    <3>2. k = l /\ l - k = 0 /\ \A i \in 1 .. l - k : FALSE
      BY <2>3, <3>1, SMT
    <3>3. o[l] = m /\ m \in 0 .. m /\ l \in 0 .. l
      <4>1. m \in 0 .. m /\ l \in 0 .. l
        BY <2>3, SMT
      <4> QED BY <2>2, <2>3, <4>1 DEF Laid
    <3>4. stops(b, m) = "Ok"
      <4>1. m + HEADER_LEN > Len(b)
        BY <2>3, SMT DEF HEADER_LEN
      <4> QED BY <2>3, <4>1 DEF stops
    <3>5. f[m] = [outcome |-> "Ok", packets |-> <<>>]
      <4>1. m \in 0 .. Len(b)
        BY <2>3, <3>3
      <4>2. "Ok" # "no"
        OBVIOUS
      <4> QED BY <2>7, <3>4, <4>1, <4>2 DEF Walks
    <3>6. PICK r : r = f[o[k]]
      OBVIOUS
    <3>7. r = [outcome |-> "Ok", packets |-> <<>>]
      BY <3>2, <3>3, <3>5, <3>6
    <3>8. r.outcome = "Ok" /\ r.packets \in Seq(ParsedPacket) /\ Len(r.packets) = 0
      BY <3>7, SMT
    <3>9. Reads(ps, o, r, k)
      BY <2>3, <3>2, <3>8 DEF Reads
    <3>10. Behind(0)
      BY <3>1, <3>6, <3>9
    <3> QED BY <3>10, SMT
  <2>9. ASSUME NEW j \in T
        PROVE  j + 1 \in T
    <3>1. j \in Nat /\ Behind(j)
      OBVIOUS
    <3> HIDE DEF T
    <3>2. j + 1 \in Nat
      BY <3>1, SMT
    <3>3. ASSUME j + 1 \in 0 .. l
          PROVE  Reads(ps, o, f[o[l - (j + 1)]], l - (j + 1))
      <4>1. PICK k : k = l - j
        OBVIOUS
      <4>2. j \in 0 .. l /\ k \in 1 .. l /\ l - (j + 1) = k - 1
        <5> HIDE DEF Behind
        <5> QED BY <2>3, <3>1, <3>3, <4>1, SMT
      <4>3. Reads(ps, o, f[o[k]], k)
        BY <3>1, <4>1, <4>2
      <4>4. k \in 1 .. Len(ps)
        BY <2>3, <4>2
      <4>5. Reads(ps, o, f[o[k - 1]], k - 1)
        BY <2>2, <2>7, <4>3, <4>4, <1>WalkStep
      <4> QED BY <4>2, <4>5
    <3>4. Behind(j + 1)
      BY <3>3
    <3> QED BY <3>2, <3>4 DEF T
  <2>10. T = Nat
    <3> HIDE DEF T
    <3>1. T \in SUBSET Nat
      BY DEF T
    <3> QED BY <2>8, <2>9, <3>1 DEF Inductive
  <2>11. PICK r : r = f[0] /\ Reads(ps, o, r, 0)
    <3>1. l \in T
      BY <2>3, <2>10
    <3>2. Behind(l)
      BY <3>1
    <3>3. l \in 0 .. l /\ l - l = 0
      BY <2>3, SMT
    <3>4. Reads(ps, o, f[o[0]], 0)
      BY <3>2, <3>3
    <3>5. o[0] = 0
      BY <2>2 DEF Laid
    <3> QED BY <3>4, <3>5
  <2> HIDE DEF T, Behind
  <2>12. /\ r.outcome = "Ok" /\ r.packets \in Seq(ParsedPacket) /\ Len(r.packets) = l
         /\ \A i \in 1 .. l : r.packets[i] = Parsed(ps[i].header, o[i - 1] + 20, o[i])
    <3>1. l - 0 = l
      BY <2>3, SMT
    <3>2. /\ r.outcome = "Ok" /\ r.packets \in Seq(ParsedPacket) /\ Len(r.packets) = l
          /\ \A i \in 1 .. l : r.packets[i] = Parsed(ps[0 + i].header, o[0 + i - 1] + 20, o[0 + i])
      BY <2>3, <2>11, <3>1 DEF Reads
    <3>3. ASSUME NEW i \in 1 .. l
          PROVE  r.packets[i] = Parsed(ps[i].header, o[i - 1] + 20, o[i])
      <4>1. 0 + i = i
        BY SMT
      <4>2. r.packets[i] = Parsed(ps[0 + i].header, o[0 + i - 1] + 20, o[0 + i])
        BY <3>2
      <4> QED BY <4>1, <4>2, SMT
    <3> QED BY <3>2, <3>3
  <2>13. ASSUME NEW i \in 1 .. l
         PROVE  /\ r.packets[i].header = ps[i].header
                /\ r.packets[i].hi <= m
                /\ SubSeq(b, r.packets[i].lo + 1, r.packets[i].hi) = ps[i].payload
                /\ ps[i].header.type_field # "UnencryptedData" =>
                     r.packets[i].lo = r.packets[i].hi
    <3>1. PICK a \in Nat, d \in Nat, e \in Nat :
            /\ a = o[i - 1] /\ e = o[i] /\ d = Len(ps[i].payload)
            /\ e = a + 20 + d /\ e <= m
      BY <2>5
    <3>2. PICK p : p = r.packets[i]
      OBVIOUS
    <3>3. p = [header |-> ps[i].header, lo |-> a + 20, hi |-> e]
      BY <2>12, <3>1, <3>2 DEF Parsed
    <3>4. p.header = ps[i].header /\ p.lo = a + 20 /\ p.hi = e
      BY <3>3, SMT
    <3>5. \A j \in 1 .. d : b[a + 20 + j] = ps[i].payload[j]
      BY <2>2, <2>3, <3>1 DEF Laid
    <3>6. PICK y \in Seq(Nat) : y = ps[i].payload /\ d = Len(y)
      BY <2>5, <3>1
    <3>7. PICK lo \in Nat : lo = a + 20 + 1
      BY SMT
    <3>8. \A j \in lo .. e : b[j] \in Nat
      <4> TAKE j \in lo .. e
      <4>1. j \in 1 .. Len(b)
        BY <2>3, <3>1, <3>7, SMTT(30)
      <4> QED BY <2>2, <4>1, ItemOf
    <3>9. lo \in Int /\ e \in Int
      BY SMT
    <3>10. PICK z \in Seq(Nat) :
             /\ z = SubSeq(b, lo, e) /\ Len(z) = IF lo <= e THEN e - lo + 1 ELSE 0
             /\ \A j \in 1 .. e - lo + 1 : z[j] = b[lo + j - 1]
      <4>1. /\ SubSeq(b, lo, e) \in Seq(Nat)
            /\ Len(SubSeq(b, lo, e)) = IF lo <= e THEN e - lo + 1 ELSE 0
            /\ \A j \in 1 .. e - lo + 1 : SubSeq(b, lo, e)[j] = b[lo + j - 1]
        BY <3>8, <3>9, SMT
      <4> QED BY <4>1
    <3>11. Len(z) = d /\ e - lo + 1 = d
      <4>1. e - lo + 1 = d /\ (IF lo <= e THEN e - lo + 1 ELSE 0) = d
        <5>1. e = a + 20 + d
          BY <3>1
        <5> QED BY <3>7, <5>1, SMT
      <4> QED BY <3>10, <4>1
    <3>12. ASSUME NEW j \in 1 .. d
           PROVE  z[j] = y[j]
      <4>1. lo + j - 1 = a + 20 + j
        BY <3>7, SMT
      <4> QED BY <3>5, <3>6, <3>10, <3>11, <4>1
    <3>13. z = y
      BY <3>6, <3>11, <3>12, SameItems
    <3>14. SubSeq(b, p.lo + 1, p.hi) = ps[i].payload
      BY <3>4, <3>6, <3>7, <3>10, <3>13
    <3>15. ps[i].header.type_field # "UnencryptedData" => a + 20 = e
      <4> SUFFICES ASSUME ps[i].header.type_field # "UnencryptedData"
                   PROVE  a + 20 = e
        OBVIOUS
      <4>1. ps[i].payload = <<>>
        BY <2>4, SMTT(30) DEF Packet
      <4>2. d = 0
        BY <3>1, <4>1, SMT
      <4> QED BY <3>1, <4>2, SMT
    <3> QED BY <3>1, <3>2, <3>4, <3>14, <3>15
  <2>14. ReadBack(ps, b, r)
    BY <2>3, <2>12, <2>13 DEF ReadBack
  <2> QED BY <2>1, <2>2, <2>7, <2>11, <2>14

<1> QED BY <1>RoundTrip

-----------------------------------------------------------------------------
(* fits16, fits32 and fits64, in multiples of 65536, are the ranges.       *)
LEMMA Fits ==
  ASSUME NEW v
  PROVE  (fits16(v) => v \in U16) /\ (fits32(v) => v \in U32) /\ (fits64(v) => v \in U64)
<1>1. ASSUME NEW w, fits16(w)
      PROVE  w \in U16
  BY <1>1, SMT DEF fits16, U16, Below
<1>2. ASSUME NEW w, fits32(w)
      PROVE  w \in U32
  <2>1. PICK q \in Nat, r \in Nat : w = 65536 * q + r /\ r < 65536 /\ q = w \div 65536
    BY <1>2, DivMod65536, SMT DEF fits32
  <2>2. fits16(q) /\ w \in Nat
    BY <1>2, <2>1, SMT DEF fits32
  <2>3. q < 65536
    BY <1>1, <2>2, SMT DEF U16, Below
  <2> QED BY <2>1, <2>2, <2>3, SMT DEF U32, Below
<1>3. ASSUME NEW w, fits64(w)
      PROVE  w \in U64
  <2>1. PICK q \in Nat, r \in Nat : w = 65536 * q + r /\ r < 65536 /\ q = w \div 65536
    BY <1>3, DivMod65536, SMT DEF fits64
  <2>2. PICK x \in Nat, y \in Nat : q = 65536 * x + y /\ y < 65536 /\ x = q \div 65536
    BY DivMod65536, SMT
  <2>3. fits32(x) /\ w \in Nat
    BY <1>3, <2>1, <2>2, SMT DEF fits64
  <2>4. x < 65536 * 65536
    BY <1>2, <2>3, SMT DEF U32, Below
  <2>5. q < 65536 * 65536 * 65536
    BY <2>2, <2>4, SMT
  <2>6. w < 65536 * 65536 * 65536 * 65536
    <3>1. w = 65536 * q + r /\ r < 65536
      BY <2>1, SMT
    <3>2. PICK m \in Nat : m = 65536 * 65536 * 65536
      BY SMT
    <3>3. q < m
      BY <2>5, <3>2, SMT
    <3>4. w < 65536 * m
      BY <3>1, <3>3, SMT
    <3>5. 65536 * m = 65536 * 65536 * 65536 * 65536
      BY <3>2, SMT
    <3> QED BY <3>4, <3>5, SMT
  <2> QED BY <2>3, <2>6, SMT DEF U64, Below
<1> QED BY <1>1, <1>2, <1>3

Shape == [type : Range(PacketTypes), size : Nat]

(* The assumption on the peer's numbers.                                   *)
LEMMA PeersTyped ==
  ASSUME NEW p \in Peers
  PROVE  /\ p.src \in U32 /\ p.dst \in U32
         /\ p.first \in Nat /\ p.first + MaxPackets * MaxSent \in U64
<1>1. /\ fits32(p.src) /\ fits32(p.dst)
      /\ p.first \in Nat /\ fits64(p.first + MaxPackets * MaxSent)
  BY ReaderAssumption, SMT
<1> QED BY <1>1, Fits

-----------------------------------------------------------------------------
(* The network: the peer sends datagrams of packets of one class, numbered *)
(* in its order, and the socket holds such datagrams and what does not     *)
(* parse.                                                                  *)
Datagram ==
  {d \in Seq(Packet) :
     /\ d # <<>> /\ Len(d) <= MaxPackets
     /\ \A i, j \in 1 .. Len(d) : Class(d[i].header.type_field) = Class(d[j].header.type_field)}

Numbered(d, first) == \A i \in 1 .. Len(d) : Number(d[i]) = first + i

Known(b, ds) ==
  \/ from_bytes_into(b).outcome # "Ok"
  \/ \E k \in 1 .. Len(ds) : b = serialise_datagram(ds[k])

NetInv ==
  /\ n \in Nat \ {0} /\ peer \in Peers
  /\ sent \in Seq(Datagram) /\ Len(sent) <= MaxSent
  /\ \A k \in 1 .. Len(sent) : Numbered(sent[k], peer.first + MaxPackets * (k - 1))
  /\ socket \in Seq(Seq(Nat))
  /\ \A i \in 1 .. Len(socket) : Known(socket[i], sent)

(* What PeerSends puts on its way.                                         *)
LEMMA NewDatagram ==
  ASSUME NetInv, NEW d \in Shapes, PeerSends(d)
  PROVE  \E g \in Datagram :
           /\ sent' = Append(sent, g) /\ socket' = Append(socket, serialise_datagram(g))
           /\ Numbered(g, peer.first + MaxPackets * Len(sent))

(* What fits, a smaller number fits too.                                   *)
<1>FitsBelow.
    ASSUME NEW v \in U64, NEW w \in Nat, w <= v
    PROVE  w \in U64
  BY <1>FitsBelow, SMT DEF U64, Below

(* The assumption on the peer's datagrams, part by part.                   *)
<1>ShapesTyped.
    Shapes \subseteq Seq(Shape)
  BY ReaderAssumption DEF Shape

(* A packet of the peer is one the codec can write and read.               *)
<1>PeerPacketTyped.
    ASSUME peer \in Peers, NEW s \in Shape, NEW v \in U64, fits16(s.size),
           s.type = "UnencryptedData" => s.size # 0
    PROVE  PeerPacket(s, v) \in Packet
  <2> USE <1>PeerPacketTyped
  <2>1. peer.src \in U32 /\ peer.dst \in U32
    BY PeersTyped
  <2>2. s.type \in {PacketTypes[i] : i \in 1 .. 7}
    <3>1. DOMAIN PacketTypes = 1 .. 7
      BY SMT DEF PacketTypes
    <3>2. s.type \in Range(PacketTypes)
      BY SMT DEF Shape
    <3> QED BY <3>1, <3>2 DEF Range
  <2>3. s.size \in U16 /\ s.size \in Nat
    BY Fits, SMT DEF Shape
  <2>4. PICK h : h = PeerPacket(s, v).header
    OBVIOUS
  <2>5. h = [version |-> 0, type_field |-> s.type, type_specific_payload |-> s.size,
             security_fields |-> [header_encrypted |-> FALSE, mask |-> 0],
             source_connection_id |-> peer.src, destination_connection_id |-> peer.dst,
             packet_number |-> v]
    BY <2>4, SMT DEF PeerPacket
  <2>6. h \in Header
    <3>1. 0 \in Below(16) /\ 0 \in Below(128)
      BY SMT DEF Below
    <3>2. [header_encrypted |-> FALSE, mask |-> 0]
            \in [header_encrypted : BOOLEAN, mask : Below(128)]
      BY <3>1, SMT
    <3> QED BY <2>1, <2>2, <2>3, <2>5, <3>1, <3>2, SMT DEF Header
  <2>7. PICK y : y = PeerPacket(s, v).payload
    OBVIOUS
  <2>8. PeerPacket(s, v) = [header |-> h, payload |-> y]
    BY <2>4, <2>7, SMT DEF PeerPacket
  <2>9. CASE s.type = "UnencryptedData"
    <3>1. y = [i \in 1 .. s.size |-> (v + 7 * i) % 256]
      BY <2>7, <2>9, SMT DEF PeerPacket
    <3>2. PICK k \in Nat : k = s.size /\ k # 0
      BY <2>3, <2>9, SMT
    <3>3. \A i \in 1 .. k : (v + 7 * i) % 256 \in Nat
      <4> TAKE i \in 1 .. k
      <4>1. v + 7 * i \in Nat
        BY SMT DEF U64, Below
      <4> QED BY <4>1, DivMod256, SMT
    <3>4. y \in [1 .. k -> Nat]
      BY <3>1, <3>2, <3>3, SMT
    <3>5. y \in Seq(Nat) /\ Len(y) = k
      BY <3>4, SMT
    <3>6. y # <<>>
      BY <3>2, <3>5, SMT
    <3> QED BY <2>5, <2>6, <2>8, <2>9, <3>2, <3>5, <3>6, SMT DEF Packet
  <2>10. CASE s.type # "UnencryptedData"
    <3>1. y = <<>>
      BY <2>7, <2>10, SMT DEF PeerPacket
    <3>2. y \in Seq(Nat)
      BY <3>1, SMT
    <3> QED BY <2>5, <2>6, <2>8, <2>10, <3>1, <3>2, SMT DEF Packet
  <2> QED BY <2>9, <2>10, SMT

<1>1. PICK l \in Nat : l = Len(sent) /\ l < MaxSent
  <2>1. Len(sent) \in Nat
    BY SMT DEF NetInv
  <2> QED BY <2>1 DEF PeerSends
<1>2. PICK base \in Nat : base = peer.first + MaxPackets * l
  <2>1. peer.first \in Nat /\ MaxPackets \in Nat
    BY PeersTyped, ReaderAssumption DEF NetInv
  <2> QED BY <2>1, SMT
<1>3. /\ d \in Seq(Shape) /\ d # <<>> /\ Len(d) <= MaxPackets
      /\ \A i, j \in DOMAIN d : Class(d[i].type) = Class(d[j].type)
      /\ \A i \in DOMAIN d :
           fits16(d[i].size) /\ (d[i].type = "UnencryptedData" => d[i].size # 0)
  BY <1>ShapesTyped, ReaderAssumption
<1>4. PICK k \in Nat : k = Len(d) /\ DOMAIN d = 1 .. k /\ k # 0
  <2>1. Len(d) \in Nat /\ DOMAIN d = 1 .. Len(d)
    BY <1>3, SMT
  <2>2. Len(d) # 0
    BY <1>3, SMT
  <2> QED BY <2>1, <2>2
<1>5. ASSUME NEW i \in 1 .. k
      PROVE  base + i \in U64
  <2>1. /\ peer.first \in Nat /\ MaxPackets \in Nat /\ MaxSent \in Nat
        /\ peer.first + MaxPackets * MaxSent \in U64
    BY PeersTyped, ReaderAssumption DEF NetInv
  <2>2. PICK a \in Nat, m \in Nat, s \in Nat : a = peer.first /\ m = MaxPackets /\ s = MaxSent
    BY <2>1, SMT
  <2>3. i <= m /\ l + 1 <= s
    BY <1>1, <1>3, <1>4, <2>2, SMT
  <2>4. m * l + m <= m * s
    <3>1. m * (l + 1) <= m * s
      BY <2>3, SMT
    <3>2. m * (l + 1) = m * l + m
      BY SMT
    <3> QED BY <3>1, <3>2, SMT
  <2>5. base + i \in Nat /\ base + i <= a + m * s
    <3>1. base = a + m * l /\ m * l \in Nat /\ m * s \in Nat
      BY <1>2, <2>2, SMT
    <3> QED BY <2>3, <2>4, <3>1, SMT
  <2> QED BY <2>1, <2>2, <2>5, <1>FitsBelow
<1>6. PICK g : g = [i \in 1 .. k |-> PeerPacket(d[i], base + i)]
  OBVIOUS
<1>7. sent' = Append(sent, g) /\ socket' = Append(socket, serialise_datagram(g))
  BY <1>1, <1>2, <1>4, <1>6 DEF PeerSends
<1>8. ASSUME NEW i \in 1 .. k
      PROVE  /\ g[i] \in Packet /\ Number(g[i]) = base + i
             /\ g[i].header.type_field = d[i].type
  <2>1. g[i] = PeerPacket(d[i], base + i)
    BY <1>6
  <2>2. d[i] \in Shape
    BY <1>3, <1>4, ItemOf
  <2>3. peer \in Peers
    BY DEF NetInv
  <2>4. g[i] \in Packet
    BY <1>3, <1>4, <1>5, <2>1, <2>2, <2>3, <1>PeerPacketTyped
  <2>5. PICK v : v = base + i
    OBVIOUS
  <2>6. /\ PeerPacket(d[i], v).header.packet_number = v
        /\ PeerPacket(d[i], v).header.type_field = d[i].type
    BY SMT DEF PeerPacket
  <2> QED BY <2>1, <2>4, <2>5, <2>6 DEF Number
<1>9. g \in Seq(Packet) /\ Len(g) = k
  <2>1. g \in [1 .. k -> Packet]
    BY <1>6, <1>8, SMT
  <2> QED BY <2>1, SMT
<1>10. g # <<>>
  BY <1>4, <1>9, SMT
<1>11. g \in Datagram
  <2>1. \A i, j \in 1 .. k : Class(g[i].header.type_field) = Class(g[j].header.type_field)
    <3> TAKE i, j \in 1 .. k
    <3>1. g[i].header.type_field = d[i].type /\ g[j].header.type_field = d[j].type
      BY <1>8
    <3>2. Class(d[i].type) = Class(d[j].type)
      BY <1>3, <1>4
    <3> QED BY <3>1, <3>2
  <2>2. Len(g) <= MaxPackets
    BY <1>3, <1>4, <1>9
  <2> QED BY <1>9, <1>10, <2>1, <2>2 DEF Datagram
<1>12. Numbered(g, base)
  BY <1>8, <1>9 DEF Numbered
<1> QED BY <1>1, <1>2, <1>7, <1>11, <1>12

(* r is s with the element e more.                                         *)
Longer(r, s, e) ==
  /\ Len(s) \in Nat /\ Len(r) = Len(s) + 1 /\ r[Len(s) + 1] = e
  /\ \A i \in 1 .. Len(s) : r[i] = s[i] /\ i \in 1 .. Len(r)
  /\ Len(r) \in 1 .. Len(r)
  /\ \A i \in 1 .. Len(r) : i \in 1 .. Len(s) \/ i = Len(s) + 1
  /\ DOMAIN s = 1 .. Len(s) /\ DOMAIN r = 1 .. Len(r)

(* Append makes a sequence longer.                                         *)
LEMMA Appended ==
  ASSUME NEW S, NEW s \in Seq(S), NEW e \in S
  PROVE  Append(s, e) \in Seq(S) /\ Longer(Append(s, e), s, e)
<1>1. PICK l \in Nat : l = Len(s) /\ DOMAIN s = 1 .. l
  BY SMT
<1>0. /\ Append(s, e) \in Seq(S) /\ Len(Append(s, e)) = Len(s) + 1
      /\ \A i \in 1 .. Len(s) : Append(s, e)[i] = s[i]
      /\ Append(s, e)[Len(s) + 1] = e
  BY SMT
<1>2. PICK r \in Seq(S) : r = Append(s, e) /\ Len(r) = l + 1 /\ r[l + 1] = e
                          /\ \A i \in 1 .. l : r[i] = s[i]
  BY <1>0, <1>1
<1>3. DOMAIN r = 1 .. Len(r)
  BY SMT
<1>4. /\ l + 1 \in 1 .. l + 1 /\ \A i \in 1 .. l : i \in 1 .. l + 1
      /\ \A i \in 1 .. l + 1 : i \in 1 .. l \/ i = l + 1
  BY SMT
<1>5. Longer(r, s, e)
  BY <1>1, <1>2, <1>3, <1>4 DEF Longer
<1> QED BY <1>2, <1>5

(* r is s without its first element e.                                     *)
Shorter(r, s, e) ==
  /\ Len(s) \in Nat \ {0} /\ Len(r) = Len(s) - 1 /\ Len(r) \in Nat
  /\ s[1] = e /\ 1 \in 1 .. Len(s)
  /\ \A i \in 1 .. Len(r) : i \in Nat \ {0} /\ r[i] = s[i + 1] /\ i + 1 \in 1 .. Len(s)
  /\ DOMAIN s = 1 .. Len(s) /\ DOMAIN r = 1 .. Len(r)

(* Tail makes a sequence shorter.                                          *)
LEMMA Shortened ==
  ASSUME NEW S, NEW s \in Seq(S), s # <<>>
  PROVE  Tail(s) \in Seq(S) /\ Head(s) \in S /\ Shorter(Tail(s), s, Head(s))
<1>1. PICK l \in Nat \ {0} : l = Len(s)
  BY SMT
<1>2. Tail(s) \in Seq(S) /\ Len(Tail(s)) = Len(s) - 1 /\ Head(s) = s[1] /\ Head(s) \in S
  BY SMT
<1>3. \A i \in 1 .. Len(Tail(s)) : Tail(s)[i] = s[i + 1]
  BY SMT
<1>4. PICK r \in Seq(S) : r = Tail(s) /\ Len(r) = l - 1 /\ \A i \in 1 .. Len(r) : r[i] = s[i + 1]
  BY <1>1, <1>2, <1>3
<1>5. /\ l - 1 \in Nat /\ 1 \in 1 .. l
      /\ \A i \in 1 .. l - 1 : i \in Nat \ {0} /\ i + 1 \in 1 .. l
  BY <1>1, SMT
<1>6. DOMAIN s = 1 .. Len(s) /\ DOMAIN r = 1 .. Len(r)
  BY LengthOf
<1>7. Shorter(r, s, Head(s))
  BY <1>1, <1>2, <1>4, <1>5, <1>6 DEF Shorter
<1> QED BY <1>2, <1>4, <1>7

(* The socket after recv.                                                  *)
LEMMA RecvTakes ==
  ASSUME NetInv, NEW t \in Tasks, Recv(t)
  PROVE  /\ n' = n /\ peer' = peer /\ sent' = sent /\ socket' = Tail(socket)
         /\ socket # <<>> /\ socket' \in Seq(Seq(Nat)) /\ Head(socket) \in Seq(Nat)
         /\ Shorter(socket', socket, Head(socket)) /\ Known(Head(socket), sent)
<1>1. n' = n /\ peer' = peer /\ sent' = sent /\ socket' = Tail(socket) /\ socket # <<>>
  BY DEF Recv
<1>2. socket \in Seq(Seq(Nat)) /\ \A i \in 1 .. Len(socket) : Known(socket[i], sent)
  BY DEF NetInv
<1>3. /\ Tail(socket) \in Seq(Seq(Nat)) /\ Head(socket) \in Seq(Nat)
      /\ Shorter(Tail(socket), socket, Head(socket))
  BY <1>1, <1>2, Shortened
<1>4. Known(Head(socket), sent)
  BY <1>2, <1>3 DEF Shorter
<1> QED BY <1>1, <1>3, <1>4

(* The network is as the peer and the socket make it, in every step.       *)
LEMMA NetKept ==
  Inductive /\ NetInv /\ [Next]_vars => NetInv'
<1> SUFFICES ASSUME Inductive
             PROVE  NetInv /\ [Next]_vars => NetInv'
  OBVIOUS

(* A datagram stays known however many are sent after it.                  *)
<1>StaysKnown.
    ASSUME NEW b, NEW ds, NEW es, NEW g, Known(b, ds), Longer(es, ds, g)
    PROVE  Known(b, es)
  <2> USE <1>StaysKnown
  <2>1. CASE from_bytes_into(b).outcome # "Ok"
    BY <2>1 DEF Known
  <2>2. ASSUME NEW k \in 1 .. Len(ds), b = serialise_datagram(ds[k])
        PROVE  Known(b, es)
    <3>1. k \in 1 .. Len(es) /\ es[k] = ds[k]
      BY DEF Longer
    <3> QED BY <2>2, <3>1 DEF Known
  <2> QED BY <2>1, <2>2 DEF Known

(* The network after a send.                                               *)
<1>PeerSendsNet.
    ASSUME NetInv, NEW d \in Shapes, PeerSends(d)
    PROVE  NetInv'
  <2> USE <1>PeerSendsNet
  <2>1. PICK g \in Datagram :
          /\ sent' = Append(sent, g) /\ socket' = Append(socket, serialise_datagram(g))
          /\ Numbered(g, peer.first + MaxPackets * Len(sent))
    BY NewDatagram
  <2>2. n' = n /\ peer' = peer /\ Len(sent) < MaxSent
    BY DEF PeerSends
  <2>3. /\ n \in Nat \ {0} /\ peer \in Peers /\ sent \in Seq(Datagram)
        /\ \A k \in 1 .. Len(sent) : Numbered(sent[k], peer.first + MaxPackets * (k - 1))
        /\ socket \in Seq(Seq(Nat)) /\ \A i \in 1 .. Len(socket) : Known(socket[i], sent)
    BY DEF NetInv
  <2>4. PICK b : b = serialise_datagram(g) /\ b \in Seq(Nat)
    <3>1. g \in Seq(Packet) /\ g # <<>>
      BY DEF Datagram
    <3> QED BY <3>1, DatagramRead
  <2>5. sent' \in Seq(Datagram) /\ Longer(sent', sent, g)
    <3>1. Append(sent, g) \in Seq(Datagram) /\ Longer(Append(sent, g), sent, g)
      BY <2>3, Appended
    <3> QED BY <2>1, <3>1
  <2>6. socket' \in Seq(Seq(Nat)) /\ Longer(socket', socket, b)
    <3>1. Append(socket, b) \in Seq(Seq(Nat)) /\ Longer(Append(socket, b), socket, b)
      BY <2>3, <2>4, Appended
    <3> QED BY <2>1, <2>4, <3>1
  <2>7. PICK l \in Nat : l = Len(sent) /\ Len(sent') = l + 1
    BY <2>5 DEF Longer
  <2>8. Len(sent') <= MaxSent
    <3>1. MaxSent \in Nat
      BY ReaderAssumption
    <3>2. l + 1 <= MaxSent
      BY <2>2, <2>7, <3>1, SMT
    <3> QED BY <2>7, <3>2
  <2>9. ASSUME NEW k \in 1 .. Len(sent')
        PROVE  Numbered(sent'[k], peer'.first + MaxPackets * (k - 1))
    <3>1. k \in 1 .. l \/ k = l + 1
      BY <2>5, <2>7 DEF Longer
    <3>2. CASE k \in 1 .. l
      <4>1. sent'[k] = sent[k]
        BY <2>5, <2>7, <3>2 DEF Longer
      <4> QED BY <2>2, <2>3, <2>7, <3>2, <4>1
    <3>3. CASE k = l + 1
      <4>1. k - 1 = l
        BY <3>3, SMT
      <4>2. sent'[k] = g
        BY <2>5, <2>7, <3>3 DEF Longer
      <4> QED BY <2>1, <2>2, <2>7, <4>1, <4>2
    <3> QED BY <3>1, <3>2, <3>3, SMT
  <2>10. ASSUME NEW i \in 1 .. Len(socket')
         PROVE  Known(socket'[i], sent')
    <3>1. i \in 1 .. Len(socket) \/ i = Len(socket) + 1
      BY <2>6 DEF Longer
    <3>2. CASE i \in 1 .. Len(socket)
      <4>1. socket'[i] = socket[i]
        BY <2>6, <3>2 DEF Longer
      <4>2. Known(socket[i], sent')
        BY <2>3, <2>5, <3>2, <1>StaysKnown
      <4> QED BY <4>1, <4>2
    <3>3. CASE i = Len(socket) + 1
      <4>1. socket'[i] = b
        BY <2>6, <3>3 DEF Longer
      <4>2. sent'[Len(sent')] = g /\ Len(sent') \in 1 .. Len(sent')
        BY <2>5 DEF Longer
      <4> QED BY <2>4, <4>1, <4>2 DEF Known
    <3> QED BY <3>1, <3>2, <3>3, SMT
  <2>11. Len(sent') <= MaxSent /\ peer' \in Peers /\ n' \in Nat \ {0}
    BY <2>2, <2>3, <2>8
  <2> QED BY <2>5, <2>6, <2>9, <2>10, <2>11 DEF NetInv

(* The network after a stray datagram.                                     *)
<1>StrayArrivesNet.
    ASSUME NetInv, NEW b \in Strays, StrayArrives(b)
    PROVE  NetInv'
  <2> USE <1>StrayArrivesNet
  <2>1. n' = n /\ peer' = peer /\ sent' = sent /\ socket' = Append(socket, b)
    BY DEF StrayArrives
  <2>2. socket \in Seq(Seq(Nat)) /\ \A i \in 1 .. Len(socket) : Known(socket[i], sent)
    BY DEF NetInv
  <2>3. b \in Seq(Nat) /\ from_bytes_into(b).outcome # "Ok"
    BY ReaderAssumption
  <2>4. socket' \in Seq(Seq(Nat)) /\ Longer(socket', socket, b)
    <3>1. Append(socket, b) \in Seq(Seq(Nat)) /\ Longer(Append(socket, b), socket, b)
      BY <2>2, <2>3, Appended
    <3> QED BY <2>1, <3>1
  <2>5. ASSUME NEW i \in 1 .. Len(socket')
        PROVE  Known(socket'[i], sent)
    <3>1. i \in 1 .. Len(socket) \/ i = Len(socket) + 1
      BY <2>4 DEF Longer
    <3>2. CASE i \in 1 .. Len(socket)
      BY <2>2, <2>4, <3>2 DEF Longer
    <3>3. CASE i = Len(socket) + 1
      <4>1. socket'[i] = b
        BY <2>4, <3>3 DEF Longer
      <4> QED BY <2>3, <4>1 DEF Known
    <3> QED BY <3>1, <3>2, <3>3, SMT
  <2> QED BY <2>1, <2>4, <2>5 DEF NetInv

(* The network after recv.                                                 *)
<1>RecvNet.
    ASSUME NetInv, NEW t \in Tasks, Recv(t)
    PROVE  NetInv'
  <2> USE <1>RecvNet
  <2>1. /\ n' = n /\ peer' = peer /\ sent' = sent /\ socket' \in Seq(Seq(Nat))
        /\ Shorter(socket', socket, Head(socket))
    BY RecvTakes
  <2>2. \A i \in 1 .. Len(socket) : Known(socket[i], sent)
    BY DEF NetInv
  <2>3. ASSUME NEW i \in 1 .. Len(socket')
        PROVE  Known(socket'[i], sent)
    <3>1. socket'[i] = socket[i + 1] /\ i + 1 \in 1 .. Len(socket)
      BY <2>1 DEF Shorter
    <3> QED BY <2>2, <3>1
  <2> QED BY <2>1, <2>3 DEF NetInv

<1> SUFFICES ASSUME NetInv, [Next]_vars
             PROVE  NetInv'
  OBVIOUS
<1>1. ASSUME network' = network
      PROVE  NetInv'
  BY <1>1 DEF network, NetInv
<1>2. CASE \E d \in Shapes : PeerSends(d)
  BY <1>2, <1>PeerSendsNet
<1>3. CASE \E b \in Strays : StrayArrives(b)
  BY <1>3, <1>StrayArrivesNet
<1>4. ASSUME NEW t \in Tasks, TaskStep(t) \/ RecvError(t)
      PROVE  NetInv'
  <2>1. CASE Acquire(t)
    BY <1>1, <2>1 DEF Acquire
  <2>2. CASE Recv(t)
    BY <2>2, <1>RecvNet
  <2>3. CASE Send(t)
    BY <1>1, <2>3 DEF Send
  <2>4. CASE RecvError(t)
    BY <1>1, <2>4 DEF RecvError
  <2> QED BY <1>4, <2>1, <2>2, <2>3, <2>4 DEF TaskStep
<1>5. CASE RxStep
  BY <1>1, <1>5 DEF RxStep, RxRecv, RxSpins
<1>6. CASE \E i \in DOMAIN conn_buff : Consume(i)
  BY <1>1, <1>6 DEF Consume
<1>7. CASE UNCHANGED vars
  BY <1>1, <1>7 DEF vars
<1> QED BY <1>2, <1>3, <1>4, <1>5, <1>6, <1>7 DEF Next

(* The network at the start.                                               *)
LEMMA NetInit ==
  Init => NetInv
<1> SUFFICES ASSUME Init PROVE NetInv
  OBVIOUS
<1>1. n \in Nat \ {0} /\ peer \in Peers /\ MaxSent \in Nat
  BY ReaderAssumption DEF Init
<1>2. sent = <<>> /\ socket = <<>>
  BY DEF Init
<1>3. /\ <<>> \in Seq(Datagram) /\ <<>> \in Seq(Seq(Nat))
  BY SMT
<1>4. Len(<<>>) <= MaxSent /\ 1 .. Len(<<>>) = {}
  BY <1>1, SMT
<1> QED BY <1>1, <1>2, <1>3, <1>4 DEF NetInv

-----------------------------------------------------------------------------
(* The receive tasks: where they are and what they hold.  With several     *)
(* tasks the carrier vec is empty except between a recv and its send.      *)
Place == {"acquire", "recv", "send", "ended"}

Reference == Buffers \cup {NoBuffer}

TypeInv ==
  /\ pc \in [Tasks -> Place] /\ buf \in [Tasks -> Reference] /\ recycle \in [Tasks -> Reference]
  /\ packets = [t \in Tasks |-> packets[t]] /\ memory \in [Buffers -> Seq(Nat)]
  /\ \A t \in Tasks : /\ pc[t] = "recv" => buf[t] \in Buffers
                      /\ n > 1 /\ pc[t] # "send" => packets[t] = <<>>

(* A step of one task.                                                     *)
Turn(t, c, b, r, ps) ==
  /\ n' = n
  /\ pc' = [pc EXCEPT ![t] = c] /\ buf' = [buf EXCEPT ![t] = b]
  /\ recycle' = [recycle EXCEPT ![t] = r] /\ packets' = [packets EXCEPT ![t] = ps]

(* What a step of one task does to the variables of each.                  *)
LEMMA TurnIs ==
  ASSUME TypeInv, NEW t \in Tasks, NEW c, NEW b, NEW r, NEW ps, Turn(t, c, b, r, ps)
  PROVE  /\ Tasks' = Tasks
         /\ pc'[t] = c /\ buf'[t] = b /\ recycle'[t] = r /\ packets'[t] = ps
         /\ \A u \in Tasks \ {t} : /\ pc'[u] = pc[u] /\ buf'[u] = buf[u]
                                   /\ recycle'[u] = recycle[u] /\ packets'[u] = packets[u]
<1>1. Tasks' = Tasks
  BY DEF Turn, Tasks
<1>2. t \in DOMAIN pc /\ t \in DOMAIN buf /\ t \in DOMAIN recycle /\ t \in DOMAIN packets
  BY SMT DEF TypeInv
<1>3. pc'[t] = c /\ buf'[t] = b /\ recycle'[t] = r /\ packets'[t] = ps
  BY <1>2 DEF Turn
<1>4. ASSUME NEW u \in Tasks \ {t}
      PROVE  /\ pc'[u] = pc[u] /\ buf'[u] = buf[u]
             /\ recycle'[u] = recycle[u] /\ packets'[u] = packets[u]
  <2>1. u \in DOMAIN pc /\ u \in DOMAIN buf /\ u \in DOMAIN recycle /\ u \in DOMAIN packets
    BY SMT DEF TypeInv
  <2> QED BY <2>1 DEF Turn
<1> QED BY <1>1, <1>3, <1>4

(* What is left as it is.                                                  *)
LEMMA Unturned ==
  ASSUME TypeInv, NEW t \in Tasks
  PROVE  /\ buf = [buf EXCEPT ![t] = buf[t]] /\ recycle = [recycle EXCEPT ![t] = recycle[t]]
         /\ packets = [packets EXCEPT ![t] = packets[t]]
<1>1. buf = [u \in Tasks |-> buf[u]] /\ recycle = [u \in Tasks |-> recycle[u]]
      /\ packets = [u \in Tasks |-> packets[u]]
  BY SMT DEF TypeInv
<1>2. buf = [buf EXCEPT ![t] = buf[t]]
  BY <1>1, SMT
<1>3. recycle = [recycle EXCEPT ![t] = recycle[t]]
  BY <1>1, SMT
<1>4. packets = [packets EXCEPT ![t] = packets[t]]
  BY <1>1, SMT
<1> QED BY <1>2, <1>3, <1>4

(* Acquire leaves the task with a buffer nobody else holds.                *)
LEMMA AcquireTurn ==
  ASSUME TypeInv, NEW t \in Tasks, Acquire(t)
  PROVE  \E b \in Buffers : b \notin HeldByOthers(t) /\ Turn(t, "recv", b, NoBuffer, packets[t])
<1>1. /\ pc' = [pc EXCEPT ![t] = "recv"] /\ recycle' = [recycle EXCEPT ![t] = NoBuffer]
      /\ packets' = packets /\ n' = n
  BY DEF Acquire, network
<1>2. packets' = [packets EXCEPT ![t] = packets[t]]
  BY <1>1, Unturned
<1>3. recycle[t] \in Reference
  BY SMT DEF TypeInv
<1>4. CASE recycle[t] # NoBuffer /\ recycle[t] \notin HeldByOthers(t)
  <2>1. buf' = [buf EXCEPT ![t] = recycle[t]]
    BY <1>4 DEF Acquire
  <2>2. recycle[t] \in Buffers
    BY <1>3, <1>4 DEF Reference
  <2> QED BY <1>1, <1>2, <1>4, <2>1, <2>2 DEF Turn
<1>5. CASE ~(recycle[t] # NoBuffer /\ recycle[t] \notin HeldByOthers(t))
  <2>1. buf' = [buf EXCEPT ![t] = Fresh(t)] /\ Unused(t) # {}
    BY <1>5 DEF Acquire
  <2>2. Fresh(t) \in Unused(t)
    BY <2>1 DEF Fresh
  <2>3. Fresh(t) \in Buffers /\ Fresh(t) \notin HeldByOthers(t)
    BY <2>2 DEF Unused
  <2> QED BY <1>1, <1>2, <2>1, <2>3 DEF Turn
<1> QED BY <1>4, <1>5

(* What is parsed, as slices of the buffer it was parsed in.               *)
Slices(b, parsed) ==
  [i \in DOMAIN parsed |-> [header |-> parsed[i].header, buf |-> b,
                            lo |-> parsed[i].lo, hi |-> parsed[i].hi]]

(* What a task receives: a datagram of the peer that it reads as it was    *)
(* sent, to be handed on or buffered at once, or what does not parse,      *)
(* which ends the task or is skipped.                                      *)
LEMMA RecvIs ==
  ASSUME Inductive, NetInv, TypeInv, NEW t \in Tasks, Recv(t),
         NEW result, result = from_bytes_into(Head(socket))
  PROVE  /\ pc[t] = "recv" /\ buf[t] \in Buffers
         /\ memory' = [memory EXCEPT ![buf[t]] = Head(socket)]
         /\ memory' \in [Buffers -> Seq(Nat)]
         /\ UNCHANGED <<n, strays, channel, rx, consumed>>
         /\ \/ /\ \E k \in 1 .. Len(sent) :
                    /\ ReadBack(sent[k], Head(socket), result)
                    /\ Head(socket) = serialise_datagram(sent[k])
               /\ \/ /\ n > 1 /\ UNCHANGED buffered
                     /\ Turn(t, "send", NoBuffer, buf[t], Slices(buf[t], result.packets))
                  \/ /\ n = 1 /\ buffer_in_packets(Slices(buf[t], result.packets))
                     /\ Turn(t, "acquire", NoBuffer, buf[t], <<>>)
            \/ /\ result.outcome # "Ok" /\ UNCHANGED buffered
               /\ \/ Fatal(result.outcome) /\ Turn(t, "ended", NoBuffer, NoBuffer, <<>>)
                  \/ n = 1 /\ \E ps : Turn(t, "acquire", NoBuffer, buf[t], ps)

(* The carrier vec is empty before from_bytes_into.                        *)
<1>CarrierEmpty.
    ASSUME NetInv, TypeInv, NEW u \in Tasks, pc[u] = "recv"
    PROVE  Carrier(u) = <<>>
  <2> USE <1>CarrierEmpty
  <2>1. CASE n = 1
    BY <2>1 DEF Carrier
  <2>2. CASE n # 1
    <3>1. n > 1
      BY <2>2, SMT DEF NetInv
    <3>2. packets[u] = <<>>
      BY <3>1 DEF TypeInv
    <3> QED BY <2>2, <3>2 DEF Carrier
  <2> QED BY <2>1, <2>2

(* Slices of what parsed are all there is to push.                         *)
<1>PushedIs.
    ASSUME NetInv, TypeInv, NEW u \in Tasks, pc[u] = "recv",
           NEW parsed \in Seq(ParsedPacket)
    PROVE  /\ Pushed(u, parsed) = Slices(buf[u], parsed)
           /\ Len(parsed) \in Nat /\ DOMAIN parsed = 1 .. Len(parsed)
           /\ Len(Slices(buf[u], parsed)) = Len(parsed)
  <2> USE <1>PushedIs
  <2>1. PICK l \in Nat : l = Len(parsed) /\ DOMAIN parsed = 1 .. l
    BY SMT
  <2>2. PICK S : S = {Slices(buf[u], parsed)[i] : i \in 1 .. l}
    OBVIOUS
  <2>3. Slices(buf[u], parsed) \in [1 .. l -> S]
    BY <2>1, <2>2 DEF Slices
  <2>4. PICK q : q = Slices(buf[u], parsed)
    OBVIOUS
  <2>5. q \in Seq(S) /\ Len(q) = l
    BY <2>3, <2>4, SMT
  <2>6. <<>> \o q = q
    BY <2>5, SMT
  <2>7. Pushed(u, parsed) = Carrier(u) \o q
    BY <2>4 DEF Pushed, Slices
  <2> QED BY <2>1, <2>4, <2>5, <2>6, <2>7, <1>CarrierEmpty

<1>1. /\ pc[t] = "recv" /\ UNCHANGED <<n, strays, channel, rx, consumed>>
      /\ buf' = [buf EXCEPT ![t] = NoBuffer]
      /\ memory' = [memory EXCEPT ![buf[t]] = Head(socket)]
      /\ \/ n > 1 /\ TxParse(t, from_bytes_into(memory'[buf[t]])) /\ UNCHANGED buffered
         \/ n = 1 /\ InlineParse(t, from_bytes_into(memory'[buf[t]]))
  BY DEF Recv, Filled
<1>2. buf[t] \in Buffers
  BY <1>1 DEF TypeInv
<1>3. PICK b \in Seq(Nat) : b = Head(socket) /\ Known(b, sent)
  BY RecvTakes
<1>4. memory'[buf[t]] = b /\ memory' \in [Buffers -> Seq(Nat)]
  <2>1. memory \in [Buffers -> Seq(Nat)] /\ memory' = [memory EXCEPT ![buf[t]] = b]
    BY <1>1, <1>3 DEF TypeInv
  <2> QED BY <1>2, <2>1, SMT
<1>5. \/ n > 1 /\ TxParse(t, result) /\ UNCHANGED buffered
      \/ n = 1 /\ InlineParse(t, result)
  BY <1>1, <1>3, <1>4
<1>6. ASSUME result.outcome = "Ok"
      PROVE  /\ \E k \in 1 .. Len(sent) :
                  ReadBack(sent[k], b, result) /\ b = serialise_datagram(sent[k])
             /\ Pushed(t, result.packets) = Slices(buf[t], result.packets)
  <2>1. PICK k \in 1 .. Len(sent) : b = serialise_datagram(sent[k])
    BY <1>3, <1>6 DEF Known
  <2>2. sent[k] \in Datagram
    BY ItemOf DEF NetInv
  <2>3. sent[k] \in Seq(Packet) /\ sent[k] # <<>>
    BY <2>2 DEF Datagram
  <2>4. ReadBack(sent[k], b, result)
    BY <1>3, <2>1, <2>3, DatagramRead
  <2>5. result.packets \in Seq(ParsedPacket)
    BY <2>4 DEF ReadBack
  <2> QED BY <1>1, <2>1, <2>4, <2>5, <1>PushedIs
<1>7. CASE n > 1 /\ TxParse(t, result) /\ UNCHANGED buffered
  <2>1. CASE result.outcome = "Ok"
    <3>1. Turn(t, "send", NoBuffer, buf[t], Slices(buf[t], result.packets))
      BY <1>1, <1>6, <1>7, <2>1 DEF TxParse, Turn
    <3> QED BY <1>1, <1>2, <1>3, <1>4, <1>6, <1>7, <2>1, <3>1
  <2>2. CASE result.outcome # "Ok"
    <3>1. Turn(t, "ended", NoBuffer, NoBuffer, <<>>)
      BY <1>1, <1>7, <2>2 DEF TxParse, End, Turn
    <3> QED BY <1>1, <1>2, <1>4, <1>7, <2>2, <3>1 DEF Fatal
  <2> QED BY <2>1, <2>2
<1>8. CASE n = 1 /\ InlineParse(t, result)
  <2>1. CASE result.outcome = "Ok"
    <3>1. /\ Turn(t, "acquire", NoBuffer, buf[t], <<>>)
          /\ buffer_in_packets(Slices(buf[t], result.packets))
      BY <1>1, <1>6, <1>8, <2>1 DEF InlineParse, Turn
    <3> QED BY <1>1, <1>2, <1>3, <1>4, <1>6, <1>8, <2>1, <3>1
  <2>2. CASE result.outcome = "Err"
    <3>1. Turn(t, "acquire", NoBuffer, buf[t], Pushed(t, result.packets)) /\ UNCHANGED buffered
      BY <1>1, <1>8, <2>2 DEF InlineParse, Turn
    <3> QED BY <1>1, <1>2, <1>4, <1>8, <2>2, <3>1
  <2>3. CASE result.outcome = "panic"
    <3>1. Turn(t, "ended", NoBuffer, NoBuffer, <<>>) /\ UNCHANGED buffered
      BY <1>1, <1>8, <2>3 DEF InlineParse, End, Turn
    <3> QED BY <1>1, <1>2, <1>4, <1>8, <2>3, <3>1 DEF Fatal
  <2> QED BY <1>8, <2>1, <2>2, <2>3 DEF InlineParse
<1> QED BY <1>5, <1>7, <1>8

(* The types hold at the start.                                            *)
LEMMA TypeInit ==
  Init => TypeInv
BY SMT DEF Init, TypeInv, Place, Reference

(* The types are kept by every step.                                       *)
LEMMA TypeKept ==
  Inductive /\ NetInv /\ TypeInv /\ [Next]_vars => TypeInv'
<1> SUFFICES ASSUME Inductive
             PROVE  NetInv /\ TypeInv /\ [Next]_vars => TypeInv'
  OBVIOUS

(* A step of one task keeps the types.                                     *)
<1>TurnTyped.
    ASSUME TypeInv, NEW t \in Tasks, NEW c \in Place, NEW b \in Reference, NEW r \in Reference,
           NEW ps, Turn(t, c, b, r, ps), c = "recv" => b \in Buffers,
           n > 1 /\ c # "send" => ps = <<>>, memory' \in [Buffers -> Seq(Nat)]
    PROVE  TypeInv'
  <2> USE <1>TurnTyped
  <2>1. /\ Tasks' = Tasks
        /\ pc'[t] = c /\ buf'[t] = b /\ recycle'[t] = r /\ packets'[t] = ps
        /\ \A u \in Tasks \ {t} : /\ pc'[u] = pc[u] /\ buf'[u] = buf[u]
                                  /\ recycle'[u] = recycle[u] /\ packets'[u] = packets[u]
    BY TurnIs
  <2>2. /\ pc' \in [Tasks -> Place] /\ buf' \in [Tasks -> Reference]
        /\ recycle' \in [Tasks -> Reference] /\ packets' = [u \in Tasks |-> packets'[u]]
    <3>1. pc' \in [Tasks -> Place] /\ buf' \in [Tasks -> Reference]
      BY SMT DEF Turn, TypeInv
    <3>2. recycle' \in [Tasks -> Reference]
      BY SMT DEF Turn, TypeInv
    <3>3. DOMAIN packets = Tasks
      BY DEF TypeInv
    <3>4. packets' = [u \in Tasks |-> packets'[u]]
      BY <3>3 DEF Turn
    <3> QED BY <3>1, <3>2, <3>4
  <2>3. ASSUME NEW u \in Tasks
        PROVE  /\ pc'[u] = "recv" => buf'[u] \in Buffers
               /\ n > 1 /\ pc'[u] # "send" => packets'[u] = <<>>
    <3>1. CASE u = t
      BY <2>1, <3>1
    <3>2. CASE u # t
      BY <2>1, <3>2 DEF TypeInv
    <3> QED BY <3>1, <3>2
  <2>4. n' = n
    BY DEF Turn
  <2> QED BY <2>1, <2>2, <2>3, <2>4 DEF TypeInv

<1> SUFFICES ASSUME NetInv, TypeInv, [Next]_vars
             PROVE  TypeInv'
  OBVIOUS
<1>0. NoBuffer \in Reference /\ Buffers \subseteq Reference /\ memory \in [Buffers -> Seq(Nat)]
      /\ "recv" \in Place /\ "ended" \in Place /\ "acquire" \in Place /\ "send" \in Place
  BY DEF Reference, TypeInv, Place
<1>1. ASSUME n' = n, tasks' = tasks, memory' = memory
      PROVE  TypeInv'
  BY <1>1 DEF tasks, TypeInv, Tasks
<1>2. CASE \E d \in Shapes : PeerSends(d)
  BY <1>1, <1>2 DEF PeerSends
<1>3. CASE \E b \in Strays : StrayArrives(b)
  BY <1>1, <1>3 DEF StrayArrives
<1>4. ASSUME NEW t \in Tasks, TaskStep(t) \/ RecvError(t)
      PROVE  TypeInv'
  <2>0. buf[t] \in Reference /\ recycle[t] \in Reference
    BY SMT DEF TypeInv
  <2>1. CASE Acquire(t)
    <3>1. PICK b \in Buffers : Turn(t, "recv", b, NoBuffer, packets[t])
      BY <2>1, AcquireTurn
    <3>2. n > 1 => packets[t] = <<>>
      BY <2>1 DEF Acquire, TypeInv
    <3>3. memory' = memory
      BY <2>1 DEF Acquire
    <3> QED BY <1>0, <3>1, <3>2, <3>3, <1>TurnTyped
  <2>2. CASE Recv(t)
    <3>1. PICK c, r, ps :
            /\ c \in Place /\ r \in Reference
            /\ Turn(t, c, NoBuffer, r, ps) /\ c # "recv" /\ (n > 1 /\ c # "send" => ps = <<>>)
            /\ memory' \in [Buffers -> Seq(Nat)]
      <4>1. ~(n = 1 /\ n > 1)
        BY SMT
      <4> QED BY <1>0, <2>0, <2>2, <4>1, RecvIs
    <3> QED BY <1>0, <3>1, <1>TurnTyped
  <2>3. CASE Send(t)
    <3>1. Turn(t, "acquire", buf[t], recycle[t], <<>>) /\ memory' = memory
      BY <2>3, Unturned DEF Send, Turn, network
    <3> QED BY <1>0, <2>0, <3>1, <1>TurnTyped
  <2>4. CASE RecvError(t)
    <3>1. Turn(t, "ended", NoBuffer, NoBuffer, <<>>) /\ memory' = memory
      BY <2>4 DEF RecvError, End, Turn, network
    <3> QED BY <1>0, <3>1, <1>TurnTyped
  <2> QED BY <1>4, <2>1, <2>2, <2>3, <2>4 DEF TaskStep
<1>5. CASE RxStep
  BY <1>1, <1>5 DEF RxStep, RxRecv, RxSpins, network
<1>6. CASE \E i \in DOMAIN conn_buff : Consume(i)
  BY <1>1, <1>6 DEF Consume, network
<1>7. CASE UNCHANGED vars
  BY <1>1, <1>7 DEF vars, network
<1> QED BY <1>2, <1>3, <1>4, <1>5, <1>6, <1>7 DEF Next

-----------------------------------------------------------------------------
(* Slices of the receive buffers, and what they show in a memory m.        *)
Slice == [header : Header, buf : Buffers, lo : Nat, hi : Nat]

Shown(p, m) ==
  [header  |-> p.header,
   payload |-> SubSeq(m[p.buf], p.lo + 1, Min({p.hi, Len(m[p.buf])}))]

(* A packet of S; only a data packet needs the buffer.                     *)
Good(p, m, S) ==
  /\ p \in Slice /\ Shown(p, m) \in S
  /\ Class(p.header.type_field) # "data" => p.lo = p.hi

All(ps, c, m, S) ==
  /\ ps \in Seq(Slice)
  /\ \A i \in 1 .. Len(ps) : Good(ps[i], m, S) /\ Class(ps[i].header.type_field) = c

Group(ps, m, S) == ps # <<>> /\ All(ps, Class(ps[1].header.type_field), m, S)

Owned == \A t \in Tasks : pc[t] = "recv" => buf[t] \notin HeldByOthers(t)

GoodInv ==
  /\ channel \in Seq(Seq(Slice))
  /\ \A i \in 1 .. Len(channel) : Group(channel[i], memory, SentPackets)
  /\ \A t \in Tasks : pc[t] = "send" => Group(packets[t], memory, SentPackets)
  /\ All(conn_buff, "data", memory, SentPackets)
  /\ All(ack_buff, "ack", memory, SentPackets)
  /\ All(close_buff, "close", memory, SentPackets)

(* The smaller of two numbers.                                             *)
LEMMA MinOf ==
  ASSUME NEW a \in Nat, NEW b \in Nat
  PROVE  /\ Min({a, b}) \in Nat /\ Min({a, b}) <= a
         /\ a <= b => Min({a, b}) = a
<1>1. \E x \in {a, b} : \A y \in {a, b} : x <= y
  <2>1. CASE a <= b
    BY <2>1, SMT
  <2>2. CASE b <= a
    BY <2>2, SMT
  <2> QED BY <2>1, <2>2, SMT
<1>2. PICK x : x = Min({a, b})
  OBVIOUS
<1>3. x \in {a, b} /\ \A y \in {a, b} : x <= y
  BY <1>1, <1>2 DEF Min
<1>4. x \in Nat /\ x <= a /\ (a <= b => x = a)
  BY <1>3, SMT
<1> QED BY <1>2, <1>4

(* r is s with the elements of q after it.                                 *)
Extended(r, s, q) ==
  /\ Len(s) \in Nat /\ Len(q) \in Nat /\ Len(r) = Len(s) + Len(q)
  /\ \A i \in 1 .. Len(s) : r[i] = s[i] /\ i \in 1 .. Len(r)
  /\ \A j \in 1 .. Len(q) : r[Len(s) + j] = q[j] /\ Len(s) + j \in 1 .. Len(r)
  /\ \A i \in 1 .. Len(r) : i \in 1 .. Len(s) \/ \E j \in 1 .. Len(q) : i = Len(s) + j
  /\ DOMAIN r = 1 .. Len(r) /\ DOMAIN s = 1 .. Len(s) /\ DOMAIN q = 1 .. Len(q)

(* Concatenation extends a sequence.                                       *)
LEMMA Concatenated ==
  ASSUME NEW S, NEW s \in Seq(S), NEW q \in Seq(S)
  PROVE  s \o q \in Seq(S) /\ Extended(s \o q, s, q)
<1>1. PICK l \in Nat, k \in Nat : l = Len(s) /\ k = Len(q)
  BY SMT
<1>2. /\ s \o q \in Seq(S) /\ Len(s \o q) = Len(s) + Len(q)
      /\ \A i \in 1 .. Len(s) + Len(q) :
           (s \o q)[i] = IF i <= Len(s) THEN s[i] ELSE q[i - Len(s)]
  BY ConcatOf
<1>3. PICK r \in Seq(S) : /\ r = s \o q /\ Len(r) = l + k
                          /\ \A i \in 1 .. l + k : r[i] = IF i <= l THEN s[i] ELSE q[i - l]
  BY <1>1, <1>2
<1>4. ASSUME NEW i \in 1 .. l
      PROVE  r[i] = s[i] /\ i \in 1 .. l + k
  <2>1. i \in 1 .. l + k /\ i <= l
    BY SMT
  <2> QED BY <1>3, <2>1
<1>5. ASSUME NEW j \in 1 .. k
      PROVE  r[l + j] = q[j] /\ l + j \in 1 .. l + k
  <2>1. l + j \in 1 .. l + k /\ ~(l + j <= l) /\ (l + j) - l = j
    BY SMT
  <2> QED BY <1>3, <2>1
<1>6. ASSUME NEW i \in 1 .. l + k
      PROVE  i \in 1 .. l \/ \E j \in 1 .. k : i = l + j
  <2>1. CASE i <= l
    BY <2>1, SMT
  <2>2. CASE ~(i <= l)
    <3>1. i - l \in 1 .. k /\ i = l + (i - l)
      BY <2>2, SMT
    <3> QED BY <3>1
  <2> QED BY <2>1, <2>2, SMT
<1>7. DOMAIN r = 1 .. Len(r) /\ DOMAIN s = 1 .. Len(s) /\ DOMAIN q = 1 .. Len(q)
  BY LengthOf
<1>8. /\ \A i \in 1 .. Len(s) : r[i] = s[i] /\ i \in 1 .. Len(r)
      /\ \A j \in 1 .. Len(q) : r[Len(s) + j] = q[j] /\ Len(s) + j \in 1 .. Len(r)
  BY <1>1, <1>3, <1>4, <1>5
<1>9. \A i \in 1 .. Len(r) : i \in 1 .. Len(s) \/ \E j \in 1 .. Len(q) : i = Len(s) + j
  BY <1>1, <1>3, <1>6
<1>10. Extended(r, s, q)
  BY <1>1, <1>3, <1>7, <1>8, <1>9 DEF Extended
<1> QED BY <1>3, <1>10

(* r is s without its element at k.                                        *)
Removed(r, s, k) ==
  /\ Len(s) \in Nat /\ Len(r) = Len(s) - 1 /\ Len(r) \in Nat
  /\ \A i \in 1 .. Len(r) : /\ i < k => r[i] = s[i] /\ i \in 1 .. Len(s)
                            /\ ~(i < k) => r[i] = s[i + 1] /\ i + 1 \in 1 .. Len(s)
  /\ DOMAIN r = 1 .. Len(r) /\ DOMAIN s = 1 .. Len(s)

(* Without removes one element.                                            *)
LEMMA RemovedAt ==
  ASSUME NEW S, NEW s \in Seq(S), NEW k \in 1 .. Len(s)
  PROVE  Without(s, k) \in Seq(S) /\ Removed(Without(s, k), s, k)

(* The first elements of a sequence.                                       *)
<1>Part.
    ASSUME NEW R, NEW q, NEW x \in Nat, \A i \in 1 .. x : q[i] \in R
    PROVE  /\ SubSeq(q, 1, x) \in Seq(R) /\ Len(SubSeq(q, 1, x)) = x
           /\ \A i \in 1 .. x : SubSeq(q, 1, x)[i] = q[i]
  <2> USE <1>Part
  <2>1. PICK m \in Int : m = 1 /\ x \in Int
    BY SMT
  <2>2. \A i \in m .. x : q[i] \in R
    BY <2>1, SMT
  <2>3. /\ SubSeq(q, m, x) \in Seq(R) /\ Len(SubSeq(q, m, x)) = IF m <= x THEN x - m + 1 ELSE 0
        /\ \A i \in 1 .. x - m + 1 : SubSeq(q, m, x)[i] = q[m + i - 1]
    BY <2>1, <2>2, SMT
  <2>4. PICK r \in Seq(R) : /\ r = SubSeq(q, m, x) /\ Len(r) = IF m <= x THEN x - m + 1 ELSE 0
                            /\ \A i \in 1 .. x - m + 1 : r[i] = q[m + i - 1]
    BY <2>3
  <2>5. (IF m <= x THEN x - m + 1 ELSE 0) = x /\ x - m + 1 = x /\ \A i \in 1 .. x : m + i - 1 = i
    BY <2>1, SMT
  <2>6. Len(r) = x /\ \A i \in 1 .. x : r[i] = q[i]
    BY <2>4, <2>5
  <2> QED BY <2>1, <2>4, <2>6

(* The others.                                                             *)
<1>RestOf.
    ASSUME NEW R, NEW q, NEW l \in Nat, NEW g \in Nat, g <= l, \A i \in g + 1 .. l : q[i] \in R
    PROVE  /\ SubSeq(q, g + 1, l) \in Seq(R) /\ Len(SubSeq(q, g + 1, l)) = l - g
           /\ \A i \in 1 .. l - g : SubSeq(q, g + 1, l)[i] = q[g + i]
  <2> USE <1>RestOf
  <2>1. PICK m \in Int : m = g + 1 /\ l \in Int
    BY SMT
  <2>2. \A i \in m .. l : q[i] \in R
    BY <2>1, SMT
  <2>3. /\ SubSeq(q, m, l) \in Seq(R) /\ Len(SubSeq(q, m, l)) = IF m <= l THEN l - m + 1 ELSE 0
        /\ \A i \in 1 .. l - m + 1 : SubSeq(q, m, l)[i] = q[m + i - 1]
    BY <2>1, <2>2, SMT
  <2>4. PICK r \in Seq(R) : /\ r = SubSeq(q, m, l) /\ Len(r) = IF m <= l THEN l - m + 1 ELSE 0
                            /\ \A i \in 1 .. l - m + 1 : r[i] = q[m + i - 1]
    BY <2>3
  <2>5. PICK x \in Nat : x = l - g
    BY SMT
  <2>6. /\ (IF m <= l THEN l - m + 1 ELSE 0) = x /\ l - m + 1 = x
        /\ \A i \in 1 .. x : m + i - 1 = g + i
    BY <2>1, <2>5, SMT
  <2>7. Len(r) = x /\ \A i \in 1 .. x : r[i] = q[g + i]
    BY <2>4, <2>6
  <2> QED BY <2>1, <2>4, <2>5, <2>7

<1>1. PICK l \in Nat : l = Len(s) /\ \A i \in 1 .. l : s[i] \in S
  BY LengthOf, ItemOf
<1>2. k \in 1 .. l /\ k \in Int /\ k - 1 \in Int /\ k + 1 \in Int /\ l \in Int /\ 1 \in Int
  BY <1>1, SMT
<1>3. PICK a, b : a = SubSeq(s, 1, k - 1) /\ b = SubSeq(s, k + 1, l)
  OBVIOUS
<1>4. a \in Seq(S) /\ Len(a) = k - 1 /\ \A i \in 1 .. k - 1 : a[i] = s[i]
  <2>1. PICK x \in Nat : x = k - 1
    BY <1>2, SMT
  <2>2. \A i \in 1 .. x : s[i] \in S
    BY <1>1, <1>2, <2>1, SMT
  <2>3. /\ SubSeq(s, 1, x) \in Seq(S) /\ Len(SubSeq(s, 1, x)) = x
        /\ \A i \in 1 .. x : SubSeq(s, 1, x)[i] = s[i]
    BY <2>2, <1>Part, SMT
  <2> QED BY <1>3, <2>1, <2>3
<1>5. b \in Seq(S) /\ Len(b) = l - k /\ \A i \in 1 .. l - k : b[i] = s[k + i]
  <2>1. \A i \in k + 1 .. l : s[i] \in S
    BY <1>1, <1>2, SMT
  <2>2. k \in Nat /\ k <= l
    BY <1>2, SMT
  <2> QED BY <1>3, <2>1, <2>2, <1>RestOf, SMT
<1>6. PICK r : r = a \o b /\ r = Without(s, k)
  BY <1>1, <1>3 DEF Without
<1>7. r \in Seq(S) /\ Extended(r, a, b)
  BY <1>4, <1>5, <1>6, Concatenated
<1>8. Len(r) = l - 1 /\ l - 1 \in Nat
  <2>1. Len(r) = Len(a) + Len(b)
    BY <1>7 DEF Extended
  <2> QED BY <1>2, <1>4, <1>5, <2>1, SMT
<1>9. ASSUME NEW i \in 1 .. l - 1
      PROVE  /\ i < k => r[i] = s[i] /\ i \in 1 .. l
             /\ ~(i < k) => r[i] = s[i + 1] /\ i + 1 \in 1 .. l
  <2>1. CASE i < k
    <3>1. i \in 1 .. k - 1 /\ i \in 1 .. l
      BY <1>2, <2>1, SMT
    <3>2. r[i] = a[i]
      BY <1>4, <1>7, <3>1 DEF Extended
    <3> QED BY <1>4, <2>1, <3>1, <3>2
  <2>2. CASE ~(i < k)
    <3>1. PICK j \in 1 .. l - k : i = (k - 1) + j /\ k + j = i + 1 /\ i + 1 \in 1 .. l
      <4>1. PICK j : j = i - (k - 1)
        OBVIOUS
      <4> QED BY <1>2, <2>2, <4>1, SMT
    <3>2. r[i] = b[j]
      BY <1>4, <1>5, <1>7, <3>1 DEF Extended
    <3>3. r[i] = s[i + 1]
      BY <1>5, <3>1, <3>2
    <3> QED BY <2>2, <3>1, <3>3
  <2> QED BY <2>1, <2>2, SMT
<1>10. DOMAIN r = 1 .. Len(r) /\ DOMAIN s = 1 .. Len(s)
  BY <1>7, LengthOf
<1>11. Removed(r, s, k)
  BY <1>1, <1>8, <1>9, <1>10 DEF Removed
<1> QED BY <1>6, <1>7, <1>11

-----------------------------------------------------------------------------
(* Nobody else holds the buffer that a task receives into.                 *)
LEMMA OwnedInit ==
  Init => Owned
<1> SUFFICES ASSUME Init PROVE Owned
  OBVIOUS
<1>1. \A t \in Tasks : pc[t] = "acquire"
  BY DEF Init
<1>2. "acquire" # "recv"
  OBVIOUS
<1> QED BY <1>1, <1>2 DEF Owned

(* What holds a buffer in HeldByOthers.                                    *)
LEMMA HoldsBuffer ==
  ASSUME NEW u \in Tasks
  PROVE  /\ \A p \in Live : p.lo < p.hi => p.buf \in HeldByOthers(u)
         /\ \A v \in Tasks \ {u} : recycle[v] \in HeldByOthers(u) /\ buf[v] \in HeldByOthers(u)
BY DEF HeldByOthers

(* The packets alive, place by place.                                      *)
Alive(p, T, pk, ch, cb) ==
  \/ \E u \in T : p \in Range(pk[u])
  \/ \E i \in DOMAIN ch : p \in Range(ch[i])
  \/ p \in Range(cb)

(* Live in this form.                                                      *)
LEMMA LiveNow ==
  \A p : p \in Live <=> Alive(p, Tasks, packets, channel, conn_buff)
<1>1. PICK A, B, C : /\ A = UNION {Range(packets[t]) : t \in Tasks}
                     /\ B = UNION {Range(channel[i]) : i \in DOMAIN channel}
                     /\ C = Range(conn_buff)
  OBVIOUS
<1>2. Live = A \cup B \cup C
  BY <1>1 DEF Live
<1>3. \A p : p \in A <=> \E u \in Tasks : p \in Range(packets[u])
  BY <1>1, SMT
<1>4. \A p : p \in B <=> \E i \in DOMAIN channel : p \in Range(channel[i])
  BY <1>1, SMT
<1>5. ASSUME NEW p
      PROVE  p \in Live <=> Alive(p, Tasks, packets, channel, conn_buff)
  <2>1. p \in Live <=> p \in A \/ p \in B \/ p \in C
    BY <1>2
  <2>2. p \in A <=> \E u \in Tasks : p \in Range(packets[u])
    BY <1>3
  <2>3. p \in B <=> \E i \in DOMAIN channel : p \in Range(channel[i])
    BY <1>4
  <2> QED BY <1>1, <2>1, <2>2, <2>3 DEF Alive
<1> QED BY <1>5

(* A step of one task, for each of its variables.                          *)
Turned(t, c, b, r, ps) ==
  /\ Tasks' = Tasks
  /\ pc'[t] = c /\ buf'[t] = b /\ recycle'[t] = r /\ packets'[t] = ps
  /\ \A u \in Tasks \ {t} : /\ pc'[u] = pc[u] /\ buf'[u] = buf[u]
                            /\ recycle'[u] = recycle[u] /\ packets'[u] = packets[u]

(* Turn in this form.                                                      *)
LEMMA TurnTurned ==
  ASSUME TypeInv, NEW t \in Tasks, NEW c, NEW b, NEW r, NEW ps, Turn(t, c, b, r, ps)
  PROVE  Turned(t, c, b, r, ps)
BY TurnIs DEF Turned

(* What buffer_in_packets does to each buffer.                             *)
LEMMA BufferedIn ==
  ASSUME NEW S, NEW ps \in Seq(S), buffer_in_packets(ps), NEW c,
         c = Class(ps[1].header.type_field),
         conn_buff \in Seq(S), ack_buff \in Seq(S), close_buff \in Seq(S)
  PROVE  /\ c \in {"data", "ack", "close"}
         /\ c = "data"  => /\ conn_buff' = conn_buff \o ps /\ Extended(conn_buff', conn_buff, ps)
                           /\ ack_buff' = ack_buff /\ close_buff' = close_buff
         /\ c = "ack"   => /\ ack_buff' = ack_buff \o ps /\ Extended(ack_buff', ack_buff, ps)
                           /\ conn_buff' = conn_buff /\ close_buff' = close_buff
         /\ c = "close" => /\ close_buff' = close_buff \o ps
                           /\ Extended(close_buff', close_buff, ps)
                           /\ conn_buff' = conn_buff /\ ack_buff' = ack_buff
<1>1. c \in {"data", "ack", "close"}
  BY DEF Class
<1>2. /\ conn_buff' = IF c = "data" THEN conn_buff \o ps ELSE conn_buff
      /\ ack_buff' = IF c = "ack" THEN ack_buff \o ps ELSE ack_buff
      /\ close_buff' = IF c = "close" THEN close_buff \o ps ELSE close_buff
  BY DEF buffer_in_packets
<1>3. /\ Extended(conn_buff \o ps, conn_buff, ps) /\ Extended(ack_buff \o ps, ack_buff, ps)
      /\ Extended(close_buff \o ps, close_buff, ps)
  BY Concatenated
<1>4. "data" # "ack" /\ "data" # "close" /\ "ack" # "close"
  OBVIOUS
<1>5. CASE c = "data"
  BY <1>1, <1>2, <1>3, <1>4, <1>5
<1>6. CASE c = "ack"
  BY <1>1, <1>2, <1>3, <1>4, <1>6
<1>7. CASE c = "close"
  BY <1>1, <1>2, <1>3, <1>4, <1>7
<1> QED BY <1>1, <1>5, <1>6, <1>7

(* The buffering task takes the first group of packets from the channel.   *)
LEMMA RxRecvIs ==
  ASSUME GoodInv, RxRecv
  PROVE  /\ n' = n /\ sent' = sent /\ memory' = memory /\ consumed' = consumed
         /\ pc' = pc /\ buf' = buf /\ recycle' = recycle /\ packets' = packets
         /\ socket' = socket
         /\ channel' \in Seq(Seq(Slice)) /\ Shorter(channel', channel, channel[1])
         /\ Group(channel[1], memory, SentPackets) /\ channel[1] \in Seq(Slice)
         /\ buffer_in_packets(channel[1])
         /\ conn_buff \in Seq(Slice) /\ ack_buff \in Seq(Slice) /\ close_buff \in Seq(Slice)
<1>1. /\ n' = n /\ sent' = sent /\ memory' = memory /\ consumed' = consumed
      /\ pc' = pc /\ buf' = buf /\ recycle' = recycle /\ packets' = packets
      /\ socket' = socket
      /\ channel # <<>> /\ channel' = Tail(channel) /\ buffer_in_packets(Head(channel))
  BY DEF RxRecv, network, tasks
<1>2. /\ channel \in Seq(Seq(Slice)) /\ conn_buff \in Seq(Slice)
      /\ ack_buff \in Seq(Slice) /\ close_buff \in Seq(Slice)
  BY DEF GoodInv, All
<1>3. /\ Tail(channel) \in Seq(Seq(Slice)) /\ Head(channel) \in Seq(Slice)
      /\ Shorter(Tail(channel), channel, Head(channel))
  BY <1>1, <1>2, Shortened
<1>4. Head(channel) = channel[1] /\ 1 \in 1 .. Len(channel)
  BY <1>3 DEF Shorter
<1>5. Group(channel[1], memory, SentPackets)
  BY <1>4 DEF GoodInv
<1>6. Shorter(channel', channel, channel[1])
  BY <1>1, <1>3, <1>4
<1>7. channel' \in Seq(Seq(Slice)) /\ channel[1] \in Seq(Slice) /\ buffer_in_packets(channel[1])
  BY <1>1, <1>3, <1>4
<1> QED BY <1>1, <1>2, <1>5, <1>6, <1>7

(* The application takes one packet out of the buffer.                     *)
LEMMA ConsumeIs ==
  ASSUME GoodInv, NEW k \in DOMAIN conn_buff, Consume(k)
  PROVE  /\ n' = n /\ sent' = sent /\ memory' = memory /\ socket' = socket
         /\ pc' = pc /\ buf' = buf /\ recycle' = recycle /\ packets' = packets
         /\ channel' = channel /\ ack_buff' = ack_buff /\ close_buff' = close_buff
         /\ consumed' = consumed \cup {Number(conn_buff[k])}
         /\ conn_buff' \in Seq(Slice) /\ Removed(conn_buff', conn_buff, k)
         /\ k \in 1 .. Len(conn_buff)
<1>1. /\ n' = n /\ sent' = sent /\ memory' = memory /\ socket' = socket
      /\ pc' = pc /\ buf' = buf /\ recycle' = recycle /\ packets' = packets
      /\ channel' = channel /\ ack_buff' = ack_buff /\ close_buff' = close_buff
      /\ consumed' = consumed \cup {Number(conn_buff[k])}
      /\ conn_buff' = Without(conn_buff, k)
  BY DEF Consume, network, tasks
<1>2. conn_buff \in Seq(Slice)
  BY DEF GoodInv, All
<1>3. k \in 1 .. Len(conn_buff)
  BY <1>2, LengthOf
<1>4. Without(conn_buff, k) \in Seq(Slice) /\ Removed(Without(conn_buff, k), conn_buff, k)
  BY <1>2, <1>3, RemovedAt
<1>5. conn_buff' \in Seq(Slice) /\ Removed(conn_buff', conn_buff, k)
  BY <1>1, <1>4
<1> QED BY <1>1, <1>3, <1>5

(* Every step keeps the buffers apart.                                     *)
LEMMA OwnedKept ==
  Inductive /\ NetInv /\ TypeInv /\ GoodInv /\ Owned /\ [Next]_vars => Owned'
<1> SUFFICES ASSUME Inductive
             PROVE  NetInv /\ TypeInv /\ GoodInv /\ Owned /\ [Next]_vars => Owned'
  OBVIOUS

(* A task that does not come to receive takes nothing from the others.     *)
<1>OwnedByOthers.
    ASSUME TypeInv, Owned, NEW t \in Tasks, Tasks' = Tasks,
           \A p \in Live' : p.lo < p.hi => p \in Live \/ p.buf = buf[t],
           \A u \in Tasks \ {t} : pc'[u] = pc[u] /\ buf'[u] = buf[u] /\ recycle'[u] = recycle[u],
           pc'[t] # "recv", recycle'[t] \in {NoBuffer, recycle[t], buf[t]},
           buf'[t] \in {NoBuffer, recycle[t], buf[t]}
    PROVE  Owned'
  <2> USE <1>OwnedByOthers
  <2> SUFFICES ASSUME NEW u \in Tasks, pc'[u] = "recv"
               PROVE  buf'[u] \notin HeldByOthers(u)'
    BY DEF Owned
  <2>1. u # t /\ pc[u] = "recv" /\ buf'[u] = buf[u]
    OBVIOUS
  <2>2. buf[u] \notin HeldByOthers(u) /\ buf[u] \in Buffers
    BY <2>1 DEF Owned, TypeInv
  <2>3. NoBuffer # buf[u]
    BY <2>2, ReaderAssumption
  <2>4. recycle[t] # buf[u] /\ buf[t] # buf[u]
    BY <2>1, <2>2, HoldsBuffer
  <2>5. ASSUME NEW p \in Live', p.lo < p.hi
        PROVE  p.buf # buf[u]
    <3>1. p \in Live \/ p.buf = buf[t]
      BY <2>5
    <3> QED BY <2>2, <2>4, <2>5, <3>1, HoldsBuffer
  <2>6. ASSUME NEW v \in Tasks \ {u}
        PROVE  recycle'[v] # buf[u] /\ buf'[v] # buf[u]
    <3>1. CASE v = t
      BY <2>3, <2>4, <3>1
    <3>2. CASE v # t
      <4>1. recycle'[v] = recycle[v] /\ buf'[v] = buf[v]
        BY <3>2
      <4> QED BY <2>2, <4>1, HoldsBuffer
    <3> QED BY <3>1, <3>2, SMT
  <2>7. ASSUME buf[u] \in HeldByOthers(u)'
        PROVE  FALSE
    BY <2>5, <2>6, <2>7 DEF HeldByOthers
  <2> QED BY <2>1, <2>7

(* Slices that are let go of.                                              *)
<1>OwnedStays.
    ASSUME TypeInv, Owned, n' = n, pc' = pc, buf' = buf, recycle' = recycle,
           \A p \in Live' : p \in Live
    PROVE  Owned'
  <2> USE <1>OwnedStays
  <2>1. Tasks' = Tasks
    BY DEF Tasks
  <2> SUFFICES ASSUME NEW u \in Tasks, pc[u] = "recv", buf[u] \in HeldByOthers(u)'
               PROVE  FALSE
    BY <2>1 DEF Owned
  <2>2. buf[u] \notin HeldByOthers(u)
    BY DEF Owned
  <2>3. buf[u] \in HeldByOthers(u)
    BY <2>1 DEF HeldByOthers
  <2> QED BY <2>2, <2>3

(* A buffer is acquired that nobody holds.                                 *)
<1>AcquireOwned.
    ASSUME TypeInv, Owned, NEW t \in Tasks, Acquire(t)
    PROVE  Owned'
  <2> USE <1>AcquireOwned
  <2>1. PICK b \in Buffers : b \notin HeldByOthers(t) /\ Turn(t, "recv", b, NoBuffer, packets[t])
    BY AcquireTurn
  <2>2. /\ Tasks' = Tasks /\ pc'[t] = "recv" /\ buf'[t] = b /\ recycle'[t] = NoBuffer
        /\ \A u \in Tasks \ {t} : /\ pc'[u] = pc[u] /\ buf'[u] = buf[u]
                                  /\ recycle'[u] = recycle[u] /\ packets'[u] = packets[u]
    <3>1. PICK c, r, ps : c = "recv" /\ r = NoBuffer /\ ps = packets[t]
      OBVIOUS
    <3>2. Turn(t, c, b, r, ps)
      BY <2>1, <3>1
    <3>3. /\ Tasks' = Tasks
          /\ pc'[t] = c /\ buf'[t] = b /\ recycle'[t] = r /\ packets'[t] = ps
          /\ \A u \in Tasks \ {t} : /\ pc'[u] = pc[u] /\ buf'[u] = buf[u]
                                    /\ recycle'[u] = recycle[u] /\ packets'[u] = packets[u]
      BY <3>2, TurnIs
    <3> QED BY <3>1, <3>3
  <2>3. packets' = packets /\ channel' = channel /\ conn_buff' = conn_buff
    BY DEF Acquire, buffered
  <2>4. Live' = Live
    BY <2>2, <2>3, SMT DEF Live
  <2> SUFFICES ASSUME NEW u \in Tasks, pc'[u] = "recv", buf'[u] \in HeldByOthers(u)'
               PROVE  FALSE
    BY <2>2 DEF Owned
  <2>5. CASE u = t
    <3>1. b \in HeldByOthers(t)'
      BY <2>2, <2>5
    <3>2. b \in HeldByOthers(t)
      BY <2>2, <2>4, <3>1 DEF HeldByOthers
    <3> QED BY <2>1, <3>2
  <2>6. CASE u # t
    <3>1. pc[u] = "recv" /\ buf'[u] = buf[u]
      BY <2>2, <2>6
    <3>2. buf[u] \notin HeldByOthers(u) /\ buf[u] \in Buffers
      BY <3>1 DEF Owned, TypeInv
    <3>3. buf[u] # NoBuffer
      BY <3>2, ReaderAssumption
    <3>4. buf[u] \in HeldByOthers(t)
      BY <2>6, HoldsBuffer
    <3>5. buf[u] # b
      BY <2>1, <3>4
    <3>6. \A v \in Tasks \ {u} : recycle'[v] # buf[u] /\ buf'[v] # buf[u]
      <4> TAKE v \in Tasks \ {u}
      <4>1. CASE v = t
        BY <2>2, <3>3, <3>5, <4>1
      <4>2. CASE v # t
        <5>1. recycle'[v] = recycle[v] /\ buf'[v] = buf[v]
          BY <2>2, <4>2
        <5> QED BY <3>2, <5>1, HoldsBuffer
      <4> QED BY <4>1, <4>2, SMTT(30)
    <3>7. \A p \in Live : p.lo < p.hi => p.buf # buf[u]
      BY <3>2, HoldsBuffer
    <3>8. buf[u] \in HeldByOthers(u)'
      BY <3>1
    <3> QED BY <2>2, <2>4, <3>6, <3>7, <3>8 DEF HeldByOthers
  <2> QED BY <2>5, <2>6, SMT

(* Live in this form, after a step.                                        *)
<1>LiveThen.
    \A p : p \in Live' <=> Alive(p, Tasks', packets', channel', conn_buff')
  <2>1. PICK A, B, C : /\ A = UNION {Range(packets'[t]) : t \in Tasks'}
                       /\ B = UNION {Range(channel'[i]) : i \in DOMAIN channel'}
                       /\ C = Range(conn_buff')
    OBVIOUS
  <2>2. Live' = A \cup B \cup C
    BY <2>1 DEF Live
  <2>3. \A p : p \in A <=> \E u \in Tasks' : p \in Range(packets'[u])
    BY <2>1, SMT
  <2>4. \A p : p \in B <=> \E i \in DOMAIN channel' : p \in Range(channel'[i])
    BY <2>1, SMT
  <2>5. ASSUME NEW p
        PROVE  p \in Live' <=> Alive(p, Tasks', packets', channel', conn_buff')
    <3>1. p \in Live' <=> p \in A \/ p \in B \/ p \in C
      BY <2>2
    <3>2. p \in A <=> \E u \in Tasks' : p \in Range(packets'[u])
      BY <2>3
    <3>3. p \in B <=> \E i \in DOMAIN channel' : p \in Range(channel'[i])
      BY <2>4
    <3> QED BY <2>1, <3>1, <3>2, <3>3 DEF Alive
  <2> QED BY <2>5

(* After recv the other tasks' buffers are still theirs.                   *)
<1>RecvOwned.
    ASSUME NetInv, TypeInv, Owned, NEW t \in Tasks, Recv(t)
    PROVE  Owned'
  <2> USE <1>RecvOwned
  <2>1. PICK result : result = from_bytes_into(Head(socket))
    OBVIOUS
  <2>2. PICK c, r, ps : /\ Turn(t, c, NoBuffer, r, ps) /\ c # "recv" /\ r \in {NoBuffer, buf[t]}
                        /\ n = 1 \/ /\ channel' = channel /\ UNCHANGED buffered
                                    /\ ps = <<>> \/ ps = Slices(buf[t], result.packets)
    <3>1. "send" # "recv" /\ "acquire" # "recv" /\ "ended" # "recv"
      OBVIOUS
    <3>2. channel' = channel
      BY <2>1, RecvIs
    <3>3. \/ /\ Turn(t, "send", NoBuffer, buf[t], Slices(buf[t], result.packets))
             /\ UNCHANGED buffered
          \/ n = 1 /\ \E ps : Turn(t, "acquire", NoBuffer, buf[t], ps)
          \/ Turn(t, "ended", NoBuffer, NoBuffer, <<>>) /\ UNCHANGED buffered
      BY <2>1, RecvIs
    <3> QED BY <3>1, <3>2, <3>3
  <2>3. Turned(t, c, NoBuffer, r, ps)
    BY <2>2, TurnTurned
  <2>4. CASE n = 1
    <3>1. \A u \in Tasks : u = t
      BY <2>4, SMT DEF Tasks
    <3> QED BY <2>2, <2>3, <3>1 DEF Owned, Turned
  <2>5. CASE /\ channel' = channel /\ UNCHANGED buffered
             /\ ps = <<>> \/ ps = Slices(buf[t], result.packets)
    <3>1. ASSUME NEW p \in Range(ps)
          PROVE  p.buf = buf[t]
      <4>1. CASE ps = <<>>
        <5>1. Range(<<>>) = {}
          BY SMTT(30) DEF Range
        <5> QED BY <3>1, <4>1, <5>1
      <4>2. CASE ps = Slices(buf[t], result.packets)
        <5>1. PICK i \in DOMAIN ps : p = ps[i]
          BY <3>1 DEF Range
        <5>2. DOMAIN ps = DOMAIN result.packets
          BY <4>2 DEF Slices
        <5>3. p = [header |-> result.packets[i].header, buf |-> buf[t],
                   lo |-> result.packets[i].lo, hi |-> result.packets[i].hi]
          BY <4>2, <5>1, <5>2 DEF Slices
        <5> QED BY <5>3, SMT
      <4> QED BY <2>5, <4>1, <4>2, SMT
    <3>2. conn_buff' = conn_buff /\ channel' = channel
      BY <2>5 DEF buffered
    <3>3. ASSUME NEW p \in Live'
          PROVE  p \in Live \/ p.buf = buf[t]
      <4>1. CASE \E u \in Tasks : p \in Range(packets'[u])
        <5>1. PICK u \in Tasks : p \in Range(packets'[u])
          BY <4>1, SMT
        <5>2. CASE u = t
          BY <2>3, <3>1, <5>1, <5>2 DEF Turned
        <5>3. CASE u # t
          <6>1. p \in Range(packets[u])
            BY <2>3, <5>1, <5>3 DEF Turned
          <6> QED BY <6>1 DEF Live
        <5> QED BY <5>2, <5>3, SMT
      <4>2. CASE ~(\E u \in Tasks : p \in Range(packets'[u]))
        <5>1. Tasks' = Tasks
          BY <2>3 DEF Turned
        <5>2. Alive(p, Tasks, packets', channel, conn_buff)
          BY <3>2, <3>3, <5>1, <1>LiveThen
        <5>3. Alive(p, Tasks, packets, channel, conn_buff)
          BY <4>2, <5>2 DEF Alive
        <5> QED BY <5>3, LiveNow
      <4> QED BY <4>1, <4>2, SMT
    <3> QED BY <2>2, <2>3, <3>3, <1>OwnedByOthers DEF Turned
  <2> QED BY <2>2, <2>4, <2>5, SMT

(* A task that ends lets go of everything.                                 *)
<1>RecvErrorOwned.
    ASSUME NetInv, TypeInv, Owned, NEW t \in Tasks, RecvError(t)
    PROVE  Owned'
  <2> USE <1>RecvErrorOwned
  <2>1. /\ channel' = channel /\ conn_buff' = conn_buff
        /\ Turn(t, "ended", NoBuffer, NoBuffer, <<>>)
    BY DEF RecvError, End, Turn, network, buffered
  <2>2. Turned(t, "ended", NoBuffer, NoBuffer, <<>>)
    BY <2>1, TurnTurned
  <2>3. Range(<<>>) = {} /\ "ended" # "recv"
    BY SMT DEF Range
  <2>4. /\ Tasks' = Tasks /\ pc'[t] # "recv" /\ buf'[t] = NoBuffer /\ recycle'[t] = NoBuffer
        /\ \A u \in Tasks \ {t} : pc'[u] = pc[u] /\ buf'[u] = buf[u] /\ recycle'[u] = recycle[u]
    BY <2>2, <2>3 DEF Turned
  <2>5. ASSUME NEW u \in Tasks, NEW p \in Range(packets'[u])
        PROVE  p \in Range(packets[u])
    BY <2>2, <2>3, <2>5 DEF Turned
  <2>6. ASSUME NEW p \in Live'
        PROVE  p \in Live
    <3>1. Alive(p, Tasks, packets', channel, conn_buff)
      BY <2>1, <2>4, <2>6, <1>LiveThen
    <3>2. Alive(p, Tasks, packets, channel, conn_buff)
      BY <2>5, <3>1 DEF Alive
    <3> QED BY <3>2, LiveNow
  <2> QED BY <2>4, <2>6, <1>OwnedByOthers

(* What a task sends stays alive in the channel.                           *)
<1>SendOwned.
    ASSUME NetInv, TypeInv, GoodInv, Owned, NEW t \in Tasks, Send(t)
    PROVE  Owned'
  <2> USE <1>SendOwned
  <2>1. /\ pc[t] = "send" /\ conn_buff' = conn_buff /\ channel' = Append(channel, packets[t])
        /\ Turn(t, "acquire", buf[t], recycle[t], <<>>)
    BY Unturned DEF Send, Turn, network, buffered
  <2>2. Turned(t, "acquire", buf[t], recycle[t], <<>>)
    BY <2>1, TurnTurned
  <2>3. Range(<<>>) = {} /\ "acquire" # "recv"
    BY SMT DEF Range
  <2>4. /\ Tasks' = Tasks /\ pc'[t] # "recv" /\ buf'[t] = buf[t] /\ recycle'[t] = recycle[t]
        /\ \A u \in Tasks \ {t} : pc'[u] = pc[u] /\ buf'[u] = buf[u] /\ recycle'[u] = recycle[u]
    BY <2>2, <2>3 DEF Turned
  <2>5. ASSUME NEW u \in Tasks, NEW p \in Range(packets'[u])
        PROVE  p \in Range(packets[u])
    BY <2>2, <2>3, <2>5 DEF Turned
  <2>6. Longer(channel', channel, packets[t])
    <3>1. channel \in Seq(Seq(Slice)) /\ packets[t] \in Seq(Slice)
      BY <2>1 DEF GoodInv, Group, All
    <3>2. Longer(Append(channel, packets[t]), channel, packets[t])
      BY <3>1, Appended
    <3> QED BY <2>1, <3>2
  <2>7. ASSUME NEW i \in DOMAIN channel'
        PROVE  channel'[i] = packets[t] \/ \E j \in DOMAIN channel : channel'[i] = channel[j]
    BY <2>6 DEF Longer
  <2>8. ASSUME NEW p \in Live'
        PROVE  p \in Live
    <3>1. Alive(p, Tasks, packets', channel', conn_buff)
      BY <2>1, <2>4, <2>8, <1>LiveThen
    <3>2. Alive(p, Tasks, packets, channel, conn_buff)
      BY <2>5, <2>7, <3>1 DEF Alive
    <3> QED BY <3>2, LiveNow
  <2> QED BY <2>4, <2>8, <1>OwnedByOthers

(* The parts of an extended sequence.                                      *)
<1>ExtendedSet.
    ASSUME NEW r, NEW s, NEW q, Extended(r, s, q), NEW p \in Range(r)
    PROVE  p \in Range(s) \/ p \in Range(q)
  <2> USE <1>ExtendedSet
  <2>1. PICK i \in 1 .. Len(r) : p = r[i]
    BY DEF Range, Extended
  <2>2. i \in 1 .. Len(s) \/ \E j \in 1 .. Len(q) : i = Len(s) + j
    BY DEF Extended
  <2>3. CASE i \in 1 .. Len(s)
    BY <2>1, <2>3 DEF Range, Extended
  <2>4. ASSUME NEW j \in 1 .. Len(q), i = Len(s) + j
        PROVE  p \in Range(q)
    <3>1. p = q[j]
      BY <2>1, <2>4 DEF Extended
    <3> QED BY <3>1 DEF Range, Extended
  <2> QED BY <2>2, <2>3, <2>4, SMT

(* Packets that are buffered were alive in the channel.                    *)
<1>RxRecvOwned.
    ASSUME TypeInv, GoodInv, Owned, RxRecv
    PROVE  Owned'
  <2> USE <1>RxRecvOwned
  <2>1. /\ n' = n /\ pc' = pc /\ buf' = buf /\ recycle' = recycle /\ packets' = packets
        /\ Shorter(channel', channel, channel[1]) /\ buffer_in_packets(channel[1])
        /\ channel[1] \in Seq(Slice) /\ conn_buff \in Seq(Slice)
        /\ ack_buff \in Seq(Slice) /\ close_buff \in Seq(Slice)
    BY RxRecvIs
  <2>2. Tasks' = Tasks
    BY <2>1 DEF Tasks
  <2>3. ASSUME NEW p \in Range(conn_buff')
        PROVE  p \in Range(conn_buff) \/ p \in Range(channel[1])
    <3>1. conn_buff' = conn_buff \/ Extended(conn_buff', conn_buff, channel[1])
      BY <2>1, BufferedIn
    <3> QED BY <2>3, <3>1, <1>ExtendedSet
  <2>4. ASSUME NEW i \in DOMAIN channel'
        PROVE  \E j \in DOMAIN channel : channel'[i] = channel[j]
    BY <2>1 DEF Shorter
  <2>5. 1 \in DOMAIN channel
    BY <2>1 DEF Shorter
  <2>6. ASSUME NEW p \in Live'
        PROVE  p \in Live
    <3>1. Alive(p, Tasks, packets, channel', conn_buff')
      BY <2>1, <2>2, <2>6, <1>LiveThen
    <3>2. Alive(p, Tasks, packets, channel, conn_buff)
      BY <2>3, <2>4, <2>5, <3>1 DEF Alive
    <3> QED BY <3>2, LiveNow
  <2> QED BY <2>1, <2>6, <1>OwnedStays

(* Packets consumed are no longer alive.                                   *)
<1>ConsumeOwned.
    ASSUME TypeInv, GoodInv, Owned, NEW k \in DOMAIN conn_buff, Consume(k)
    PROVE  Owned'
  <2> USE <1>ConsumeOwned
  <2>1. /\ n' = n /\ pc' = pc /\ buf' = buf /\ recycle' = recycle /\ packets' = packets
        /\ channel' = channel /\ Removed(conn_buff', conn_buff, k)
    BY ConsumeIs
  <2>2. Tasks' = Tasks
    BY <2>1 DEF Tasks
  <2>3. ASSUME NEW p \in Range(conn_buff')
        PROVE  p \in Range(conn_buff)
    <3>1. PICK i \in 1 .. Len(conn_buff') : p = conn_buff'[i]
      BY <2>1, <2>3 DEF Range, Removed
    <3>2. PICK j \in 1 .. Len(conn_buff) : p = conn_buff[j]
      <4>1. CASE i < k
        BY <2>1, <3>1, <4>1 DEF Removed
      <4>2. CASE ~(i < k)
        BY <2>1, <3>1, <4>2 DEF Removed
      <4> QED BY <4>1, <4>2, SMT
    <3> QED BY <2>1, <3>2 DEF Range, Removed
  <2>4. ASSUME NEW p \in Live'
        PROVE  p \in Live
    <3>1. Alive(p, Tasks, packets, channel, conn_buff')
      BY <2>1, <2>2, <2>4, <1>LiveThen
    <3>2. Alive(p, Tasks, packets, channel, conn_buff)
      BY <2>3, <3>1 DEF Alive
    <3> QED BY <3>2, LiveNow
  <2> QED BY <2>1, <2>4, <1>OwnedStays

<1> SUFFICES ASSUME NetInv, TypeInv, GoodInv, Owned, [Next]_vars
             PROVE  Owned'
  OBVIOUS
<1>1. ASSUME n' = n, tasks' = tasks, channel' = channel, conn_buff' = conn_buff
      PROVE  Owned'
  <2>1. pc' = pc /\ buf' = buf /\ recycle' = recycle /\ packets' = packets /\ Tasks' = Tasks
    BY <1>1 DEF tasks, Tasks
  <2>2. \A p \in Live' : p \in Live
    BY <1>1, <2>1, LiveNow, <1>LiveThen
  <2> QED BY <1>1, <2>1, <2>2, <1>OwnedStays
<1>2. CASE \E d \in Shapes : PeerSends(d)
  BY <1>1, <1>2 DEF PeerSends, buffered
<1>3. CASE \E b \in Strays : StrayArrives(b)
  BY <1>1, <1>3 DEF StrayArrives, buffered
<1>4. ASSUME NEW t \in Tasks, TaskStep(t) \/ RecvError(t)
      PROVE  Owned'
  BY <1>4, <1>AcquireOwned, <1>RecvOwned, <1>SendOwned, <1>RecvErrorOwned DEF TaskStep
<1>5. CASE RxRecv
  BY <1>5, <1>RxRecvOwned
<1>6. CASE RxSpins
  BY <1>1, <1>6 DEF RxSpins, network, buffered
<1>7. CASE \E i \in DOMAIN conn_buff : Consume(i)
  BY <1>7, <1>ConsumeOwned
<1>8. CASE UNCHANGED vars
  BY <1>1, <1>8 DEF vars, network, buffered
<1> QED BY <1>2, <1>3, <1>4, <1>5, <1>6, <1>7, <1>8 DEF Next, RxStep

-----------------------------------------------------------------------------
(* GoodInv for another memory and other packets sent.                      *)
Goods(m, S) ==
  /\ \A i \in 1 .. Len(channel) : Group(channel[i], m, S)
  /\ \A t \in Tasks : pc[t] = "send" => Group(packets[t], m, S)
  /\ All(conn_buff, "data", m, S) /\ All(ack_buff, "ack", m, S) /\ All(close_buff, "close", m, S)

(* What was read of a datagram sent is good where it was received.         *)
LEMMA SlicesGood ==
  ASSUME NetInv, NEW k \in 1 .. Len(sent), NEW bytes \in Seq(Nat), NEW result,
         ReadBack(sent[k], bytes, result),
         NEW b \in Buffers, NEW m \in [Buffers -> Seq(Nat)], m[b] = bytes
  PROVE  Group(Slices(b, result.packets), m, SentPackets)

(* A slice, field by field.                                                *)
<1>SliceOf.
    ASSUME NEW h \in Header, NEW c \in Buffers, NEW lo \in Nat, NEW hi \in Nat,
           NEW p, p = [header |-> h, buf |-> c, lo |-> lo, hi |-> hi]
    PROVE  p \in Slice /\ p.header = h /\ p.buf = c /\ p.lo = lo /\ p.hi = hi
  BY <1>SliceOf, SMT DEF Slice

(* The packets of a datagram that was sent.                                *)
<1>InSent.
    ASSUME NEW p
    PROVE  p \in SentPackets <=> \E j \in DOMAIN sent : \E i \in DOMAIN sent[j] : p = sent[j][i]
  <2>1. \A S : p \in UNION S <=> \E s \in S : p \in s
    BY SMT
  <2>2. p \in SentPackets <=> \E s \in {Range(d) : d \in Range(sent)} : p \in s
    BY <2>1 DEF SentPackets
  <2>3. (\E s \in {Range(d) : d \in Range(sent)} : p \in s)
          <=> \E j \in DOMAIN sent : p \in Range(sent[j])
    <3>1. \A d : d \in Range(sent) <=> \E j \in DOMAIN sent : d = sent[j]
      BY DEF Range
    <3>2. (\E s \in {Range(d) : d \in Range(sent)} : p \in s)
            <=> \E d \in Range(sent) : p \in Range(d)
      OBVIOUS
    <3> QED BY <3>1, <3>2
  <2> QED BY <2>2, <2>3 DEF Range

<1>1. PICK g \in Datagram : g = sent[k]
  BY ItemOf DEF NetInv
<1>2. /\ g \in Seq(Packet) /\ g # <<>>
      /\ \A i, j \in 1 .. Len(g) : Class(g[i].header.type_field) = Class(g[j].header.type_field)
  BY DEF Datagram
<1>3. PICK l \in Nat \ {0} : l = Len(g) /\ DOMAIN g = 1 .. l
  BY <1>2, SMT
<1>4. PICK q \in Seq(ParsedPacket) : /\ q = result.packets /\ Len(q) = l /\ DOMAIN q = 1 .. l
  <2>1. result.packets \in Seq(ParsedPacket) /\ Len(result.packets) = l
    BY <1>1, <1>3 DEF ReadBack
  <2> QED BY <2>1, LengthOf
<1>5. PICK ps : ps = Slices(b, q) /\ ps = Slices(b, result.packets)
  BY <1>4
<1>6. ASSUME NEW i \in 1 .. l
      PROVE  /\ ps[i] = [header |-> q[i].header, buf |-> b, lo |-> q[i].lo, hi |-> q[i].hi]
             /\ q[i] \in ParsedPacket /\ q[i].header = g[i].header /\ q[i].hi <= Len(bytes)
             /\ SubSeq(bytes, q[i].lo + 1, q[i].hi) = g[i].payload
             /\ g[i].header.type_field # "UnencryptedData" => q[i].lo = q[i].hi
  <2>1. ps[i] = [header |-> q[i].header, buf |-> b, lo |-> q[i].lo, hi |-> q[i].hi]
    BY <1>4, <1>5 DEF Slices
  <2>2. q[i] \in ParsedPacket
    BY <1>4, ItemOf
  <2> QED BY <1>1, <1>3, <1>4, <2>1, <2>2 DEF ReadBack
<1>7. ASSUME NEW i \in 1 .. l
      PROVE  /\ ps[i] \in Slice /\ q[i].hi \in Nat
             /\ ps[i].buf = b /\ ps[i].header = g[i].header
             /\ ps[i].lo = q[i].lo /\ ps[i].hi = q[i].hi
  <2>1. PICK x \in ParsedPacket : x = q[i]
    BY <1>6
  <2>2. x.header \in Header /\ x.lo \in Nat /\ x.hi \in Nat
    BY DEF ParsedPacket
  <2>3. ps[i] = [header |-> x.header, buf |-> b, lo |-> x.lo, hi |-> x.hi]
    BY <1>6, <2>1
  <2>4. /\ ps[i] \in Slice /\ ps[i].header = x.header /\ ps[i].buf = b
        /\ ps[i].lo = x.lo /\ ps[i].hi = x.hi
    BY <2>2, <2>3, <1>SliceOf, SMT
  <2> QED BY <1>6, <2>1, <2>2, <2>4
<1>8. ASSUME NEW i \in 1 .. l
      PROVE  Shown(ps[i], m) \in SentPackets
  <2>1. /\ ps[i].buf = b /\ ps[i].header = g[i].header /\ ps[i].lo = q[i].lo /\ ps[i].hi = q[i].hi
    BY <1>7
  <2>2. q[i].hi \in Nat /\ Len(bytes) \in Nat
    BY <1>7, LengthOf
  <2>3. Min({q[i].hi, Len(bytes)}) = q[i].hi
    BY <1>6, <2>2, MinOf
  <2>4. Shown(ps[i], m) = [header |-> g[i].header, payload |-> g[i].payload]
    BY <1>6, <2>1, <2>3 DEF Shown
  <2>5. g[i] \in Packet
    BY <1>2, <1>3, ItemOf
  <2>6. g[i] = [header |-> g[i].header, payload |-> g[i].payload]
    BY <2>5, SMT DEF Packet
  <2>7. k \in DOMAIN sent
    BY LengthOf DEF NetInv
  <2>8. g[i] \in SentPackets
    BY <1>1, <1>3, <2>7, <1>InSent
  <2> QED BY <2>4, <2>6, <2>8
<1>9. ASSUME NEW i \in 1 .. l
      PROVE  /\ ps[i].header.type_field = g[i].header.type_field
             /\ Class(g[i].header.type_field) # "data" => ps[i].lo = ps[i].hi
  <2>1. /\ ps[i].header = g[i].header /\ ps[i].lo = q[i].lo /\ ps[i].hi = q[i].hi
    BY <1>7
  <2>2. Class("UnencryptedData") = "data"
    BY SMT DEF Class
  <2> QED BY <1>6, <2>1, <2>2
<1>10. ps \in Seq(Slice) /\ Len(ps) = l /\ ps # <<>>
  <2>1. DOMAIN ps = 1 .. l /\ ps = [i \in 1 .. l |-> ps[i]]
    BY <1>4, <1>5 DEF Slices
  <2>2. ps \in [1 .. l -> Slice]
    BY <1>7, <2>1
  <2>3. ps \in Seq(Slice) /\ Len(ps) = l
    BY <2>2, SMT
  <2> QED BY <2>3, SMT
<1>11. 1 \in 1 .. l
  BY <1>3, SMT
<1>12. ASSUME NEW i \in 1 .. l
       PROVE  /\ Good(ps[i], m, SentPackets)
              /\ Class(ps[i].header.type_field) = Class(ps[1].header.type_field)
  <2>1. Good(ps[i], m, SentPackets)
    BY <1>7, <1>8, <1>9 DEF Good
  <2>2. Class(g[i].header.type_field) = Class(g[1].header.type_field)
    BY <1>2, <1>3, <1>11
  <2>3. /\ ps[i].header.type_field = g[i].header.type_field
        /\ ps[1].header.type_field = g[1].header.type_field
    BY <1>9, <1>11
  <2> QED BY <2>1, <2>2, <2>3
<1> QED BY <1>5, <1>10, <1>12 DEF Group, All

(* Nothing is buffered or on its way at the start.                         *)
LEMMA GoodInit ==
  Init => GoodInv
<1> SUFFICES ASSUME Init PROVE GoodInv
  OBVIOUS
<1>1. channel = <<>> /\ conn_buff = <<>> /\ ack_buff = <<>> /\ close_buff = <<>>
  BY DEF Init
<1>2. \A t \in Tasks : pc[t] = "acquire"
  BY DEF Init
<1>3. /\ "acquire" # "send" /\ <<>> \in Seq(Seq(Slice)) /\ <<>> \in Seq(Slice)
      /\ \A i \in 1 .. Len(<<>>) : FALSE
  BY SMT
<1>4. \A c : All(<<>>, c, memory, SentPackets)
  BY <1>3 DEF All
<1>5. channel \in Seq(Seq(Slice)) /\ \A i \in 1 .. Len(channel) : FALSE
  BY <1>1, <1>3
<1>6. \A t \in Tasks : pc[t] # "send"
  BY <1>2, <1>3
<1>7. /\ All(conn_buff, "data", memory, SentPackets) /\ All(ack_buff, "ack", memory, SentPackets)
      /\ All(close_buff, "close", memory, SentPackets)
  BY <1>1, <1>4
<1> QED BY <1>5, <1>6, <1>7 DEF GoodInv

(* Every step keeps what is on its way good.                               *)
LEMMA GoodKept ==
  Inductive /\ NetInv /\ TypeInv /\ GoodInv /\ Owned /\ [Next]_vars => GoodInv'
<1> SUFFICES ASSUME Inductive
             PROVE  NetInv /\ TypeInv /\ GoodInv /\ Owned /\ [Next]_vars => GoodInv'
  OBVIOUS

(* An empty slice shows nothing in any memory.                             *)
<1>EmptyShown.
    ASSUME NEW p \in Slice, NEW m \in [Buffers -> Seq(Nat)], ~(p.lo < p.hi)
    PROVE  Shown(p, m) = [header |-> p.header, payload |-> <<>>]
  <2> USE <1>EmptyShown
  <2>1. p.buf \in Buffers /\ p.lo \in Nat /\ p.hi \in Nat
    BY SMT DEF Slice
  <2>2. m[p.buf] \in Seq(Nat)
    BY <2>1, SMT
  <2>3. Len(m[p.buf]) \in Nat
    BY <2>2, SMT
  <2>4. PICK x \in Nat : x = Min({p.hi, Len(m[p.buf])}) /\ x <= p.hi
    BY <2>1, <2>3, MinOf
  <2>5. PICK lo \in Int : lo = p.lo + 1 /\ x < lo /\ x \in Int
    BY <2>1, <2>4, SMT
  <2>6. SubSeq(m[p.buf], lo, x) = <<>>
    BY <2>5, SMT
  <2> QED BY <2>4, <2>5, <2>6 DEF Shown

(* Packets stay good when the buffers that they need keep their contents.  *)
<1>StaysGood.
    ASSUME NEW p, NEW m \in [Buffers -> Seq(Nat)], NEW w \in [Buffers -> Seq(Nat)],
           NEW S, NEW T, Good(p, m, S), S \subseteq T, p.lo < p.hi => w[p.buf] = m[p.buf]
    PROVE  Good(p, w, T)
  <2> USE <1>StaysGood
  <2>1. p \in Slice /\ Shown(p, m) \in T /\ (Class(p.header.type_field) # "data" => p.lo = p.hi)
    BY DEF Good
  <2>2. Shown(p, w) = Shown(p, m)
    <3>1. CASE p.lo < p.hi
      BY <3>1 DEF Shown
    <3>2. CASE ~(p.lo < p.hi)
      BY <2>1, <3>2, <1>EmptyShown
    <3> QED BY <3>1, <3>2, SMT
  <2> QED BY <2>1, <2>2 DEF Good

(* The same for all packets of a sequence.                                 *)
<1>AllStayGood.
    ASSUME NEW ps, NEW c, NEW m \in [Buffers -> Seq(Nat)], NEW w \in [Buffers -> Seq(Nat)],
           NEW S, NEW T, All(ps, c, m, S), S \subseteq T,
           \A i \in 1 .. Len(ps) : ps[i].lo < ps[i].hi => w[ps[i].buf] = m[ps[i].buf]
    PROVE  All(ps, c, w, T)
  <2> USE <1>AllStayGood
  <2>1. ASSUME NEW i \in 1 .. Len(ps)
        PROVE  Good(ps[i], w, T) /\ Class(ps[i].header.type_field) = c
    <3>1. Good(ps[i], m, S) /\ Class(ps[i].header.type_field) = c
      BY DEF All
    <3> QED BY <3>1, <1>StaysGood
  <2> QED BY <2>1 DEF All

(* Packets of a class that carries no payload.                             *)
<1>PlainStayGood.
    ASSUME NEW ps, NEW c, c # "data", NEW m \in [Buffers -> Seq(Nat)],
           NEW w \in [Buffers -> Seq(Nat)], NEW S, NEW T, All(ps, c, m, S), S \subseteq T
    PROVE  All(ps, c, w, T)
  <2> USE <1>PlainStayGood
  <2>1. ASSUME NEW i \in 1 .. Len(ps)
        PROVE  ~(ps[i].lo < ps[i].hi)
    <3>1. ps[i] \in Slice /\ ps[i].lo = ps[i].hi
      BY DEF All, Good
    <3> QED BY <3>1, SMT DEF Slice
  <2> QED BY <2>1, <1>AllStayGood

(* A group stays good when the buffers it needs keep their contents.       *)
<1>GroupStaysGood.
    ASSUME NEW ps, NEW m \in [Buffers -> Seq(Nat)], NEW w \in [Buffers -> Seq(Nat)],
           NEW S, NEW T, Group(ps, m, S), S \subseteq T,
           \A p \in Range(ps) : p.lo < p.hi => w[p.buf] = m[p.buf]
    PROVE  Group(ps, w, T)
  <2> USE <1>GroupStaysGood
  <2>1. ps # <<>> /\ All(ps, Class(ps[1].header.type_field), m, S)
    BY DEF Group
  <2>2. DOMAIN ps = 1 .. Len(ps)
    <3>1. ps \in Seq(Slice)
      BY <2>1 DEF All
    <3> QED BY <3>1, LengthOf
  <2>3. \A i \in 1 .. Len(ps) : ps[i].lo < ps[i].hi => w[ps[i].buf] = m[ps[i].buf]
    BY <2>2 DEF Range
  <2>4. All(ps, Class(ps[1].header.type_field), w, T)
    BY <2>1, <2>3, <1>AllStayGood
  <2> QED BY <2>1, <2>4 DEF Group

(* What is good stays so when live slices keep what they show.             *)
<1>GoodsKept.
    ASSUME TypeInv, GoodInv, NEW w \in [Buffers -> Seq(Nat)], NEW T, SentPackets \subseteq T,
           \A p \in Live : p.lo < p.hi => w[p.buf] = memory[p.buf]
    PROVE  Goods(w, T)
  <2> USE <1>GoodsKept
  <2>1. memory \in [Buffers -> Seq(Nat)] /\ channel \in Seq(Seq(Slice))
    BY DEF TypeInv, GoodInv
  <2>2. ASSUME NEW i \in 1 .. Len(channel)
        PROVE  Group(channel[i], w, T)
    <3>1. i \in DOMAIN channel
      BY <2>1, LengthOf
    <3>2. ASSUME NEW p \in Range(channel[i])
          PROVE  p.lo < p.hi => w[p.buf] = memory[p.buf]
      <4>1. p \in Live
        BY <3>1, <3>2, LiveNow DEF Alive
      <4> QED BY <4>1
    <3>3. Group(channel[i], memory, SentPackets)
      BY DEF GoodInv
    <3> QED BY <2>1, <3>2, <3>3, <1>GroupStaysGood
  <2>3. ASSUME NEW t \in Tasks, pc[t] = "send"
        PROVE  Group(packets[t], w, T)
    <3>1. ASSUME NEW p \in Range(packets[t])
          PROVE  p.lo < p.hi => w[p.buf] = memory[p.buf]
      <4>1. p \in Live
        BY <3>1, LiveNow DEF Alive
      <4> QED BY <4>1
    <3>2. Group(packets[t], memory, SentPackets)
      BY <2>3 DEF GoodInv
    <3> QED BY <2>1, <3>1, <3>2, <1>GroupStaysGood
  <2>4. All(conn_buff, "data", w, T)
    <3>1. All(conn_buff, "data", memory, SentPackets)
      BY DEF GoodInv
    <3>2. DOMAIN conn_buff = 1 .. Len(conn_buff)
      <4>1. conn_buff \in Seq(Slice)
        BY <3>1 DEF All
      <4> QED BY <4>1, LengthOf
    <3>3. ASSUME NEW i \in 1 .. Len(conn_buff)
          PROVE  conn_buff[i].lo < conn_buff[i].hi
                   => w[conn_buff[i].buf] = memory[conn_buff[i].buf]
      <4>1. conn_buff[i] \in Range(conn_buff)
        BY <3>2 DEF Range
      <4>2. conn_buff[i] \in Live
        BY <4>1, LiveNow DEF Alive
      <4> QED BY <4>2
    <3> QED BY <2>1, <3>1, <3>3, <1>AllStayGood
  <2>5. All(ack_buff, "ack", w, T) /\ All(close_buff, "close", w, T)
    <3>1. All(ack_buff, "ack", memory, SentPackets) /\ All(close_buff, "close", memory, SentPackets)
      BY DEF GoodInv
    <3>2. "ack" # "data" /\ "close" # "data"
      OBVIOUS
    <3> QED BY <2>1, <3>1, <3>2, <1>PlainStayGood
  <2> QED BY <2>2, <2>3, <2>4, <2>5 DEF Goods

(* A sequence extended by packets of the same class.                       *)
<1>AllExtended.
    ASSUME NEW r, NEW s, NEW q, NEW c, NEW m, NEW S, All(s, c, m, S), All(q, c, m, S),
           r = s \o q
    PROVE  All(r, c, m, S)
  <2> USE <1>AllExtended
  <2>1. s \in Seq(Slice) /\ q \in Seq(Slice)
    BY DEF All
  <2>2. s \o q \in Seq(Slice) /\ Extended(s \o q, s, q)
    BY <2>1, Concatenated
  <2>3. r \in Seq(Slice) /\ Extended(r, s, q)
    BY <2>2
  <2>4. ASSUME NEW i \in 1 .. Len(r)
        PROVE  Good(r[i], m, S) /\ Class(r[i].header.type_field) = c
    <3>1. CASE i \in 1 .. Len(s)
      <4>1. r[i] = s[i]
        BY <2>3, <3>1 DEF Extended
      <4> QED BY <3>1, <4>1 DEF All
    <3>2. ASSUME NEW j \in 1 .. Len(q), i = Len(s) + j
          PROVE  Good(r[i], m, S) /\ Class(r[i].header.type_field) = c
      <4>1. r[i] = q[j]
        BY <2>3, <3>2 DEF Extended
      <4> QED BY <4>1 DEF All
    <3> QED BY <2>3, <3>1, <3>2 DEF Extended
  <2> QED BY <2>3, <2>4 DEF All

(* The buffers after buffer_in_packets.                                    *)
<1>BufferedGood.
    ASSUME NEW m, NEW S, NEW ps, Group(ps, m, S), buffer_in_packets(ps),
           All(conn_buff, "data", m, S), All(ack_buff, "ack", m, S), All(close_buff, "close", m, S)
    PROVE  /\ All(conn_buff', "data", m, S) /\ All(ack_buff', "ack", m, S)
           /\ All(close_buff', "close", m, S)
  <2> USE <1>BufferedGood
  <2>1. PICK c : c = Class(ps[1].header.type_field)
    OBVIOUS
  <2>2. All(ps, c, m, S)
    BY <2>1 DEF Group
  <2>3. /\ conn_buff \in Seq(Slice) /\ ack_buff \in Seq(Slice) /\ close_buff \in Seq(Slice)
        /\ ps \in Seq(Slice)
    BY <2>2 DEF All
  <2>4. /\ c \in {"data", "ack", "close"}
        /\ c = "data"  => /\ conn_buff' = conn_buff \o ps
                          /\ ack_buff' = ack_buff /\ close_buff' = close_buff
        /\ c = "ack"   => /\ ack_buff' = ack_buff \o ps
                          /\ conn_buff' = conn_buff /\ close_buff' = close_buff
        /\ c = "close" => /\ close_buff' = close_buff \o ps
                          /\ conn_buff' = conn_buff /\ ack_buff' = ack_buff
    BY <2>1, <2>3, BufferedIn
  <2>5. CASE c = "data"
    BY <2>2, <2>4, <2>5, <1>AllExtended
  <2>6. CASE c = "ack"
    BY <2>2, <2>4, <2>6, <1>AllExtended
  <2>7. CASE c = "close"
    BY <2>2, <2>4, <2>7, <1>AllExtended
  <2> QED BY <2>4, <2>5, <2>6, <2>7

(* All that is sent stays sent.                                            *)
<1>SentGrows.
    ASSUME NetInv, NEW d \in Shapes, PeerSends(d)
    PROVE  SentPackets \subseteq SentPackets'
  <2> USE <1>SentGrows
  <2>1. PICK g \in Datagram : sent' = Append(sent, g)
    BY NewDatagram
  <2>2. Longer(sent', sent, g)
    <3>1. sent \in Seq(Datagram)
      BY DEF NetInv
    <3>2. Longer(Append(sent, g), sent, g)
      BY <3>1, Appended
    <3> QED BY <2>1, <3>2
  <2>3. ASSUME NEW e \in Range(sent)
        PROVE  e \in Range(sent')
    <3>1. PICK k \in 1 .. Len(sent) : e = sent[k]
      BY <2>2, <2>3 DEF Range, Longer
    <3>2. sent'[k] = e /\ k \in DOMAIN sent'
      BY <2>2, <3>1 DEF Longer
    <3> QED BY <3>2 DEF Range
  <2>4. ASSUME NEW p, p \in UNION {Range(e) : e \in Range(sent)}
        PROVE  p \in UNION {Range(e) : e \in Range(sent')}
    <3>1. PICK e \in Range(sent) : p \in Range(e)
      BY <2>4, SMT
    <3>2. e \in Range(sent')
      BY <2>3, <3>1
    <3> QED BY <3>1, <3>2, SMT
  <2> QED BY <2>4 DEF SentPackets

(* Nothing that is buffered or on its way is touched.                      *)
<1>GoodFrame.
    ASSUME TypeInv, GoodInv, n' = n, memory' = memory, channel' = channel, UNCHANGED buffered,
           SentPackets \subseteq SentPackets',
           \A t \in Tasks : pc'[t] = "send" => pc[t] = "send" /\ packets'[t] = packets[t]
    PROVE  GoodInv'
  <2> USE <1>GoodFrame
  <2>1. Goods(memory, SentPackets')
    <3>1. memory \in [Buffers -> Seq(Nat)]
      BY DEF TypeInv
    <3> QED BY <3>1, <1>GoodsKept
  <2>2. conn_buff' = conn_buff /\ ack_buff' = ack_buff /\ close_buff' = close_buff /\ Tasks' = Tasks
    BY DEF buffered, Tasks
  <2>3. channel \in Seq(Seq(Slice))
    BY DEF GoodInv
  <2>4. \A t \in Tasks : pc'[t] = "send" => Group(packets'[t], memory, SentPackets')
    BY <2>1 DEF Goods
  <2> QED BY <2>1, <2>2, <2>3, <2>4 DEF GoodInv, Goods

(* A task that comes not to send.                                          *)
<1>TurnGood.
    ASSUME TypeInv, GoodInv, NEW t \in Tasks, NEW c, NEW b, NEW r, NEW ps, Turn(t, c, b, r, ps),
           c # "send", memory' = memory, channel' = channel, UNCHANGED buffered, sent' = sent
    PROVE  GoodInv'
  <2> USE <1>TurnGood
  <2>1. Turned(t, c, b, r, ps)
    BY TurnTurned
  <2>2. \A u \in Tasks : pc'[u] = "send" => pc[u] = "send" /\ packets'[u] = packets[u]
    BY <2>1 DEF Turned
  <2>3. n' = n /\ SentPackets' = SentPackets
    BY DEF Turn, SentPackets
  <2> QED BY <2>2, <2>3, <1>GoodFrame

(* What a task reads is good, and nothing else is changed.                 *)
<1>RecvGood.
    ASSUME NetInv, TypeInv, GoodInv, Owned, NEW t \in Tasks, Recv(t)
    PROVE  GoodInv'
  <2> USE <1>RecvGood
  <2>1. PICK result : result = from_bytes_into(Head(socket))
    OBVIOUS
  <2>2. PICK bytes \in Seq(Nat) : bytes = Head(socket)
    BY RecvTakes
  <2>3. /\ pc[t] = "recv" /\ buf[t] \in Buffers /\ memory' = [memory EXCEPT ![buf[t]] = bytes]
        /\ memory' \in [Buffers -> Seq(Nat)] /\ n' = n /\ channel' = channel
    BY <2>1, <2>2, RecvIs
  <2>4. PICK w \in [Buffers -> Seq(Nat)] :
          w = memory' /\ w[buf[t]] = bytes /\ \A b \in Buffers \ {buf[t]} : w[b] = memory[b]
    <3>1. memory \in [Buffers -> Seq(Nat)]
      BY DEF TypeInv
    <3>2. memory'[buf[t]] = bytes /\ \A b \in Buffers \ {buf[t]} : memory'[b] = memory[b]
      BY <2>3, <3>1, SMT
    <3> QED BY <2>3, <3>2
  <2>5. SentPackets' = SentPackets /\ Tasks' = Tasks
    <3>1. sent' = sent
      BY RecvTakes
    <3> QED BY <2>3, <3>1 DEF SentPackets, Tasks
  <2>6. Goods(w, SentPackets)
    <3>1. ASSUME NEW p \in Live, p.lo < p.hi
          PROVE  w[p.buf] = memory[p.buf]
      <4>1. p.buf \in HeldByOthers(t)
        BY <3>1, HoldsBuffer
      <4>2. buf[t] \notin HeldByOthers(t)
        BY <2>3 DEF Owned
      <4>3. CASE p.buf \in Buffers
        BY <2>4, <4>1, <4>2, <4>3
      <4>4. CASE p.buf \notin Buffers
        BY <2>3, <2>4, <4>1, <4>2, <4>4, SMTT(30) DEF TypeInv
      <4> QED BY <4>3, <4>4, SMT
    <3> QED BY <3>1, <1>GoodsKept
  <2>7. channel \in Seq(Seq(Slice))
    BY DEF GoodInv
  <2>8. ASSUME NEW k \in 1 .. Len(sent), ReadBack(sent[k], bytes, result)
        PROVE  Group(Slices(buf[t], result.packets), w, SentPackets)
    BY <2>3, <2>4, <2>8, SlicesGood
  <2>9. CASE /\ \E k \in 1 .. Len(sent) : ReadBack(sent[k], bytes, result)
             /\ UNCHANGED buffered
             /\ Turn(t, "send", NoBuffer, buf[t], Slices(buf[t], result.packets))
    <3>1. Turned(t, "send", NoBuffer, buf[t], Slices(buf[t], result.packets))
      BY <2>9, TurnTurned
    <3>2. Group(Slices(buf[t], result.packets), w, SentPackets)
      BY <2>8, <2>9
    <3>3. \A u \in Tasks : pc'[u] = "send" => Group(packets'[u], w, SentPackets)
      BY <2>6, <3>1, <3>2 DEF Turned, Goods
    <3>4. conn_buff' = conn_buff /\ ack_buff' = ack_buff /\ close_buff' = close_buff
      BY <2>9 DEF buffered
    <3> QED BY <2>3, <2>4, <2>5, <2>6, <2>7, <3>3, <3>4 DEF GoodInv, Goods
  <2>10. ASSUME NEW c, NEW r, NEW ps, Turn(t, c, NoBuffer, r, ps), c # "send"
         PROVE  \A u \in Tasks : pc'[u] = "send" => Group(packets'[u], w, SentPackets)
    <3>1. Turned(t, c, NoBuffer, r, ps)
      BY <2>10, TurnTurned
    <3> QED BY <2>6, <2>10, <3>1 DEF Turned, Goods
  <2>11. "acquire" # "send" /\ "ended" # "send"
    OBVIOUS
  <2>12. CASE /\ \E k \in 1 .. Len(sent) : ReadBack(sent[k], bytes, result)
              /\ buffer_in_packets(Slices(buf[t], result.packets))
              /\ Turn(t, "acquire", NoBuffer, buf[t], <<>>)
    <3>1. Group(Slices(buf[t], result.packets), w, SentPackets)
      BY <2>8, <2>12
    <3>2. /\ All(conn_buff', "data", w, SentPackets) /\ All(ack_buff', "ack", w, SentPackets)
          /\ All(close_buff', "close", w, SentPackets)
      BY <2>6, <2>12, <3>1, <1>BufferedGood DEF Goods
    <3>3. \A u \in Tasks : pc'[u] = "send" => Group(packets'[u], w, SentPackets)
      BY <2>10, <2>11, <2>12
    <3> QED BY <2>3, <2>4, <2>5, <2>6, <2>7, <3>2, <3>3 DEF GoodInv, Goods
  <2>13. CASE /\ UNCHANGED buffered
              /\ \E c, r, ps : c # "send" /\ Turn(t, c, NoBuffer, r, ps)
    <3>1. \A u \in Tasks : pc'[u] = "send" => Group(packets'[u], w, SentPackets)
      BY <2>10, <2>13
    <3>2. conn_buff' = conn_buff /\ ack_buff' = ack_buff /\ close_buff' = close_buff
      BY <2>13 DEF buffered
    <3> QED BY <2>3, <2>4, <2>5, <2>6, <2>7, <3>1, <3>2 DEF GoodInv, Goods
  <2>14. \/ /\ \E k \in 1 .. Len(sent) : ReadBack(sent[k], bytes, result)
            /\ UNCHANGED buffered
            /\ Turn(t, "send", NoBuffer, buf[t], Slices(buf[t], result.packets))
         \/ /\ \E k \in 1 .. Len(sent) : ReadBack(sent[k], bytes, result)
            /\ buffer_in_packets(Slices(buf[t], result.packets))
            /\ Turn(t, "acquire", NoBuffer, buf[t], <<>>)
         \/ /\ UNCHANGED buffered
            /\ \/ Turn(t, "ended", NoBuffer, NoBuffer, <<>>)
               \/ \E ps : Turn(t, "acquire", NoBuffer, buf[t], ps)
    BY <2>1, <2>2, RecvIs
  <2>15. CASE /\ UNCHANGED buffered
              /\ \/ Turn(t, "ended", NoBuffer, NoBuffer, <<>>)
                 \/ \E ps : Turn(t, "acquire", NoBuffer, buf[t], ps)
    BY <2>11, <2>13, <2>15
  <2> QED BY <2>9, <2>12, <2>14, <2>15

(* A group goes from a task into the channel.                              *)
<1>SendGood.
    ASSUME TypeInv, GoodInv, NEW t \in Tasks, Send(t)
    PROVE  GoodInv'
  <2> USE <1>SendGood
  <2>1. /\ pc[t] = "send" /\ UNCHANGED buffered /\ channel' = Append(channel, packets[t])
        /\ Turn(t, "acquire", buf[t], recycle[t], <<>>) /\ memory' = memory /\ sent' = sent
    BY Unturned DEF Send, Turn, network
  <2>2. Turned(t, "acquire", buf[t], recycle[t], <<>>)
    BY <2>1, TurnTurned
  <2>3. "acquire" # "send"
    OBVIOUS
  <2>4. Group(packets[t], memory, SentPackets) /\ channel \in Seq(Seq(Slice))
    BY <2>1 DEF GoodInv
  <2>5. channel' \in Seq(Seq(Slice)) /\ Longer(channel', channel, packets[t])
    <3>1. packets[t] \in Seq(Slice)
      BY <2>4 DEF Group, All
    <3>2. /\ Append(channel, packets[t]) \in Seq(Seq(Slice))
          /\ Longer(Append(channel, packets[t]), channel, packets[t])
      BY <2>4, <3>1, Appended
    <3> QED BY <2>1, <3>2
  <2>6. SentPackets' = SentPackets
    BY <2>1 DEF SentPackets
  <2>7. \A u \in Tasks : pc'[u] = "send" => Group(packets'[u], memory, SentPackets)
    BY <2>2, <2>3 DEF GoodInv, Turned
  <2>8. \A i \in 1 .. Len(channel') : Group(channel'[i], memory, SentPackets)
    BY <2>4, <2>5 DEF GoodInv, Longer
  <2>9. /\ conn_buff' = conn_buff /\ ack_buff' = ack_buff /\ close_buff' = close_buff
        /\ Tasks' = Tasks /\ memory' = memory
    BY <2>1, <2>2 DEF buffered, Turned
  <2> QED BY <2>5, <2>6, <2>7, <2>8, <2>9 DEF GoodInv

(* The oldest group of the channel is buffered.                            *)
<1>RxRecvGood.
    ASSUME TypeInv, GoodInv, RxRecv
    PROVE  GoodInv'
  <2> USE <1>RxRecvGood
  <2>1. /\ n' = n /\ sent' = sent /\ memory' = memory /\ pc' = pc /\ packets' = packets
        /\ channel' \in Seq(Seq(Slice)) /\ Shorter(channel', channel, channel[1])
        /\ Group(channel[1], memory, SentPackets) /\ buffer_in_packets(channel[1])
    BY RxRecvIs
  <2>2. /\ All(conn_buff', "data", memory, SentPackets)
        /\ All(ack_buff', "ack", memory, SentPackets)
        /\ All(close_buff', "close", memory, SentPackets)
    BY <2>1, <1>BufferedGood DEF GoodInv
  <2>3. SentPackets' = SentPackets /\ Tasks' = Tasks
    BY <2>1 DEF SentPackets, Tasks
  <2>4. \A i \in 1 .. Len(channel') : Group(channel'[i], memory, SentPackets)
    BY <2>1 DEF GoodInv, Shorter
  <2> QED BY <2>1, <2>2, <2>3, <2>4 DEF GoodInv

(* The application takes a packet.                                         *)
<1>ConsumeGood.
    ASSUME TypeInv, GoodInv, NEW k \in DOMAIN conn_buff, Consume(k)
    PROVE  GoodInv'
  <2> USE <1>ConsumeGood
  <2>1. /\ n' = n /\ sent' = sent /\ memory' = memory /\ pc' = pc /\ packets' = packets
        /\ channel' = channel /\ ack_buff' = ack_buff /\ close_buff' = close_buff
        /\ conn_buff' \in Seq(Slice) /\ Removed(conn_buff', conn_buff, k)
    BY ConsumeIs
  <2>2. SentPackets' = SentPackets /\ Tasks' = Tasks
    BY <2>1 DEF SentPackets, Tasks
  <2>3. \A i \in 1 .. Len(conn_buff') : \E j \in 1 .. Len(conn_buff) : conn_buff'[i] = conn_buff[j]
    BY <2>1 DEF Removed
  <2>4. All(conn_buff', "data", memory, SentPackets)
    <3>1. ASSUME NEW i \in 1 .. Len(conn_buff')
          PROVE  /\ Good(conn_buff'[i], memory, SentPackets)
                 /\ Class(conn_buff'[i].header.type_field) = "data"
      <4>1. PICK j \in 1 .. Len(conn_buff) : conn_buff'[i] = conn_buff[j]
        BY <2>3, <3>1
      <4>2. /\ Good(conn_buff[j], memory, SentPackets)
            /\ Class(conn_buff[j].header.type_field) = "data"
        BY <4>1 DEF GoodInv, All
      <4> QED BY <4>1, <4>2
    <3> QED BY <2>1, <3>1 DEF All
  <2> QED BY <2>1, <2>2, <2>4 DEF GoodInv

<1> SUFFICES ASSUME NetInv, TypeInv, GoodInv, Owned, [Next]_vars
             PROVE  GoodInv'
  OBVIOUS
<1>1. ASSUME n' = n, sent' = sent, tasks' = tasks, channel' = channel, memory' = memory,
             UNCHANGED buffered
      PROVE  GoodInv'
  <2>1. pc' = pc /\ packets' = packets
    BY <1>1 DEF tasks
  <2>2. SentPackets' = SentPackets
    BY <1>1 DEF SentPackets
  <2> QED BY <1>1, <2>1, <2>2, <1>GoodFrame
<1>2. ASSUME NEW d \in Shapes, PeerSends(d)
      PROVE  GoodInv'
  <2>1. /\ n' = n /\ pc' = pc /\ packets' = packets /\ memory' = memory /\ channel' = channel
        /\ UNCHANGED buffered
    BY <1>2 DEF PeerSends, tasks
  <2>2. SentPackets \subseteq SentPackets'
    BY <1>2, <1>SentGrows
  <2> QED BY <2>1, <2>2, <1>GoodFrame
<1>3. CASE \E b \in Strays : StrayArrives(b)
  BY <1>1, <1>3 DEF StrayArrives
<1>4. ASSUME NEW t \in Tasks, TaskStep(t) \/ RecvError(t)
      PROVE  GoodInv'
  <2>0. "recv" # "send" /\ "ended" # "send"
    OBVIOUS
  <2>1. CASE Acquire(t)
    <3>1. \E b : Turn(t, "recv", b, NoBuffer, packets[t])
      BY <2>1, AcquireTurn
    <3>2. memory' = memory /\ channel' = channel /\ UNCHANGED buffered /\ sent' = sent
      BY <2>1 DEF Acquire, network
    <3> QED BY <2>0, <3>1, <3>2, <1>TurnGood
  <2>2. CASE RecvError(t)
    <3>1. Turn(t, "ended", NoBuffer, NoBuffer, <<>>)
      BY <2>2 DEF RecvError, End, Turn, network
    <3>2. memory' = memory /\ channel' = channel /\ UNCHANGED buffered /\ sent' = sent
      BY <2>2 DEF RecvError, network
    <3> QED BY <2>0, <3>1, <3>2, <1>TurnGood
  <2> QED BY <1>4, <2>1, <2>2, <1>RecvGood, <1>SendGood DEF TaskStep
<1>5. CASE RxRecv
  BY <1>5, <1>RxRecvGood
<1>6. CASE RxSpins
  BY <1>1, <1>6 DEF RxSpins, network
<1>7. CASE \E i \in DOMAIN conn_buff : Consume(i)
  BY <1>7, <1>ConsumeGood
<1>8. CASE UNCHANGED vars
  BY <1>1, <1>8 DEF vars, network
<1> QED BY <1>2, <1>3, <1>4, <1>5, <1>6, <1>7, <1>8 DEF Next, RxStep

(* What the invariant says of the packets that BufferedAsSent is about.    *)
LEMMA GoodImplies ==
  ASSUME GoodInv
  PROVE  BufferedAsSent
<1>1. ASSUME NEW ps, NEW c, All(ps, c, memory, SentPackets), NEW p \in Range(ps)
      PROVE  View(p) \in SentPackets /\ Class(p.header.type_field) = c
  <2>1. DOMAIN ps = 1 .. Len(ps)
    <3>1. ps \in Seq(Slice)
      BY <1>1 DEF All
    <3> QED BY <3>1, SMT
  <2>2. Shown(p, memory) \in SentPackets /\ Class(p.header.type_field) = c
    BY <1>1, <2>1 DEF Range, All, Good
  <2> QED BY <2>2 DEF Shown, View
<1>2. ASSUME NEW i \in DOMAIN channel, NEW p \in Range(channel[i])
      PROVE  View(p) \in SentPackets
  <2>1. DOMAIN channel = 1 .. Len(channel)
    <3>1. channel \in Seq(Seq(Slice))
      BY DEF GoodInv
    <3> QED BY <3>1, SMT
  <2> QED BY <1>1, <1>2, <2>1 DEF GoodInv, Group
<1>3. ASSUME NEW t \in {u \in Tasks : pc[u] = "send"}, NEW p \in Range(packets[t])
      PROVE  View(p) \in SentPackets
  BY <1>1, <1>3 DEF GoodInv, Group
<1>4. /\ \A p \in Range(conn_buff) : View(p) \in SentPackets /\ Class(p.header.type_field) = "data"
      /\ \A p \in Range(ack_buff) : View(p) \in SentPackets /\ Class(p.header.type_field) = "ack"
      /\ \A p \in Range(close_buff) :
           View(p) \in SentPackets /\ Class(p.header.type_field) = "close"
  BY <1>1 DEF GoodInv
<1>5. ASSUME NEW p \in Buffered \cup (UNION {Range(channel[i]) : i \in DOMAIN channel})
                \cup (UNION {Range(packets[t]) : t \in {u \in Tasks : pc[u] = "send"}})
      PROVE  View(p) \in SentPackets
  <2>1. CASE p \in Buffered
    BY <1>4, <2>1 DEF Buffered
  <2>2. CASE p \in UNION {Range(channel[i]) : i \in DOMAIN channel}
    <3>1. \E i \in DOMAIN channel : p \in Range(channel[i])
      BY <2>2, SMT
    <3> QED BY <1>2, <3>1
  <2>3. CASE p \in UNION {Range(packets[t]) : t \in {u \in Tasks : pc[u] = "send"}}
    <3>1. \E t \in {u \in Tasks : pc[u] = "send"} : p \in Range(packets[t])
      BY <2>3, SMT
    <3> QED BY <1>3, <3>1
  <2> QED BY <1>5, <2>1, <2>2, <2>3
<1> QED BY <1>4, <1>5 DEF BufferedAsSent

-----------------------------------------------------------------------------
(* Every number sent is in one place.  A site is a place that packets can  *)
(* be at; what is there is a sequence, and an operation moves a sequence   *)
(* from one site to the end of the one at another.                         *)
Kinds == {"socket", "task", "channel", "data", "ack", "close"}

Sites == Kinds \X Nat

Nums(ps) == {Number(ps[i]) : i \in DOMAIN ps}

Distinct(ps) == \A i, j \in DOMAIN ps : Number(ps[i]) = Number(ps[j]) => i = j

(* C has the numbers N without X, each at one site, once.                  *)
Exact(C, X, N) ==
  /\ \A x \in Sites : Distinct(C[x])
  /\ \A x, y \in Sites : \A v : v \in Nums(C[x]) /\ v \in Nums(C[y]) => x = y
  /\ \A x \in Sites : \A v : v \in Nums(C[x]) => v \notin X /\ v \in N
  /\ \A v \in N : v \in X \/ \E x \in Sites : v \in Nums(C[x])
  /\ \A v \in X : v \in N

(* r has the numbers of s and q, each as often.                            *)
Mix(r, s, q) ==
  /\ Distinct(s) /\ Distinct(q) /\ (\A v : ~(v \in Nums(s) /\ v \in Nums(q))) => Distinct(r)
  /\ \A v : v \in Nums(r) <=> v \in Nums(s) \/ v \in Nums(q)

(* The same numbers, in the same order.                                    *)
Same(r, s) == DOMAIN r = DOMAIN s /\ \A i \in DOMAIN s : Number(r[i]) = Number(s[i])

(* The elements of Nums.                                                   *)
LEMMA InNums ==
  ASSUME NEW ps, NEW v
  PROVE  v \in Nums(ps) <=> \E i \in DOMAIN ps : v = Number(ps[i])
BY DEF Nums

(* The empty sequence has no numbers.                                      *)
LEMMA NoNums ==
  /\ \A v : v \notin Nums(<<>>)
  /\ Distinct(<<>>) /\ Mix(<<>>, <<>>, <<>>)
<1>1. \A i : i \notin DOMAIN <<>>
  BY SMT
<1>2. \A v : v \notin Nums(<<>>)
  BY <1>1, InNums
<1>3. Distinct(<<>>)
  BY <1>1 DEF Distinct
<1> QED BY <1>2, <1>3 DEF Mix

(* Same sequences have the same numbers.                                   *)
LEMMA SameNums ==
  ASSUME NEW r, NEW s, Same(r, s)
  PROVE  /\ Distinct(r) <=> Distinct(s)
         /\ \A v : v \in Nums(r) <=> v \in Nums(s)
<1>1. ASSUME NEW v, v \in Nums(r)
      PROVE  v \in Nums(s)
  <2>1. PICK i \in DOMAIN r : v = Number(r[i])
    BY <1>1, InNums
  <2>2. i \in DOMAIN s /\ v = Number(s[i])
    BY <2>1 DEF Same
  <2> QED BY <2>2, InNums
<1>2. ASSUME NEW v, v \in Nums(s)
      PROVE  v \in Nums(r)
  <2>1. PICK i \in DOMAIN s : v = Number(s[i])
    BY <1>2, InNums
  <2>2. i \in DOMAIN r /\ v = Number(r[i])
    BY <2>1 DEF Same
  <2> QED BY <2>2, InNums
<1> QED BY <1>1, <1>2 DEF Same, Distinct

(* Every number goes where a function on the sites says.                   *)
Moved(D, C, to) ==
  /\ \A y \in Sites : Distinct(D[y])
  /\ \A y \in Sites : \A v :
       v \in Nums(D[y]) <=> \E x \in Sites : to[x] = y /\ v \in Nums(C[x])

(* Sites are pairs.                                                        *)
LEMMA SiteIs ==
  /\ \A k \in Kinds : \A i \in Nat : <<k, i>> \in Sites
  /\ \A x \in Sites : \E k \in Kinds : \E i \in Nat : x = <<k, i>>
  /\ \A k, l, i, j : <<k, i>> = <<l, j>> => k = l /\ i = j
BY SMT DEF Sites

(* The oldest of a queue goes to the site a, the others move up.           *)
Drawn(D, C, q, a) ==
  /\ \A i \in Nat \ {0} : D[<<q, i>>] = C[<<q, i + 1>>]
  /\ D[<<q, 0>>] = <<>> /\ C[<<q, 0>>] = <<>>
  /\ Mix(D[a], C[a], C[<<q, 1>>])
  /\ \A k \in Kinds \ {q} : \A i \in Nat : <<k, i>> # a => D[<<k, i>>] = C[<<k, i>>]

(* All that is at the site a goes to the site b.                           *)
Handed(D, C, a, b) ==
  /\ D[a] = <<>> /\ Mix(D[b], C[b], C[a])
  /\ \A x \in Sites \ {a, b} : D[x] = C[x]

-----------------------------------------------------------------------------
(* What is at every site now.                                              *)
Wares == [x \in Sites |-> IF x \in Places THEN At(x) ELSE <<>>]

SentNumbers == {Number(p) : p \in SentPackets}

ExactInv == Exact(Wares, consumed, SentNumbers)

Shows(W, soc, T, p, pk, ch, cb, ab, lb) ==
  /\ \A i \in Nat : W[<<"socket", i>>] = IF i \in DOMAIN soc THEN Arriving(soc[i]) ELSE <<>>
  /\ \A i \in Nat : W[<<"task", i>>] = IF i \in T /\ p[i] = "send" THEN pk[i] ELSE <<>>
  /\ \A i \in Nat : W[<<"channel", i>>] = IF i \in DOMAIN ch THEN ch[i] ELSE <<>>
  /\ \A i \in Nat : W[<<"data", i>>] = IF i = 0 THEN cb ELSE <<>>
  /\ \A i \in Nat : W[<<"ack", i>>] = IF i = 0 THEN ab ELSE <<>>
  /\ \A i \in Nat : W[<<"close", i>>] = IF i = 0 THEN lb ELSE <<>>

(* What is at the sites before a step.                                     *)
LEMMA WaresNow ==
  Shows(Wares, socket, Tasks, pc, packets, channel, conn_buff, ack_buff, close_buff)
<1>0. /\ "socket" \in Kinds /\ "task" \in Kinds /\ "channel" \in Kinds
      /\ "data" \in Kinds /\ "ack" \in Kinds /\ "close" \in Kinds
  BY DEF Kinds
<1>1. ASSUME NEW k \in Kinds, NEW i \in Nat
      PROVE  Wares[<<k, i>>] = IF <<k, i>> \in Places THEN At(<<k, i>>) ELSE <<>>
  BY SiteIs DEF Wares
<1>2. ASSUME NEW i \in Nat
      PROVE  /\ <<"socket", i>> \in Places <=> i \in DOMAIN socket
             /\ <<"task", i>> \in Places <=> i \in Tasks /\ pc[i] = "send"
             /\ <<"channel", i>> \in Places <=> i \in DOMAIN channel
             /\ <<"data", i>> \in Places <=> i = 0
             /\ <<"ack", i>> \in Places <=> i = 0
             /\ <<"close", i>> \in Places <=> i = 0
  BY SMT DEF Places
<1>3. ASSUME NEW i \in Nat
      PROVE  /\ At(<<"socket", i>>) = Arriving(socket[i])
             /\ At(<<"task", i>>) = packets[i]
             /\ At(<<"channel", i>>) = channel[i]
             /\ At(<<"data", i>>) = conn_buff
             /\ At(<<"ack", i>>) = ack_buff
             /\ At(<<"close", i>>) = close_buff
  BY SMT DEF At
<1>4. ASSUME NEW i \in Nat
      PROVE  Wares[<<"socket", i>>] = IF i \in DOMAIN socket THEN Arriving(socket[i]) ELSE <<>>
  <2>1. Wares[<<"socket", i>>] = IF <<"socket", i>> \in Places THEN At(<<"socket", i>>) ELSE <<>>
    BY <1>0, <1>1
  <2> QED BY <1>2, <1>3, <2>1
<1>5. ASSUME NEW i \in Nat
      PROVE  Wares[<<"task", i>>] = IF i \in Tasks /\ pc[i] = "send" THEN packets[i] ELSE <<>>
  <2>1. Wares[<<"task", i>>] = IF <<"task", i>> \in Places THEN At(<<"task", i>>) ELSE <<>>
    BY <1>0, <1>1
  <2> QED BY <1>2, <1>3, <2>1
<1>6. ASSUME NEW i \in Nat
      PROVE  Wares[<<"channel", i>>] = IF i \in DOMAIN channel THEN channel[i] ELSE <<>>
  <2>1. Wares[<<"channel", i>>] = IF <<"channel", i>> \in Places THEN At(<<"channel", i>>) ELSE <<>>
    BY <1>0, <1>1
  <2> QED BY <1>2, <1>3, <2>1
<1>7. ASSUME NEW i \in Nat
      PROVE  Wares[<<"data", i>>] = IF i = 0 THEN conn_buff ELSE <<>>
  <2>1. Wares[<<"data", i>>] = IF <<"data", i>> \in Places THEN At(<<"data", i>>) ELSE <<>>
    BY <1>0, <1>1
  <2> QED BY <1>2, <1>3, <2>1
<1>8. ASSUME NEW i \in Nat
      PROVE  Wares[<<"ack", i>>] = IF i = 0 THEN ack_buff ELSE <<>>
  <2>1. Wares[<<"ack", i>>] = IF <<"ack", i>> \in Places THEN At(<<"ack", i>>) ELSE <<>>
    BY <1>0, <1>1
  <2> QED BY <1>2, <1>3, <2>1
<1>9. ASSUME NEW i \in Nat
      PROVE  Wares[<<"close", i>>] = IF i = 0 THEN close_buff ELSE <<>>
  <2>1. Wares[<<"close", i>>] = IF <<"close", i>> \in Places THEN At(<<"close", i>>) ELSE <<>>
    BY <1>0, <1>1
  <2> QED BY <1>2, <1>3, <2>1
<1> QED BY <1>4, <1>5, <1>6, <1>7, <1>8, <1>9 DEF Shows

(* A site is of one of the six kinds.                                      *)
LEMMA SiteCases ==
  ASSUME NEW x \in Sites
  PROVE  \E i \in Nat : \/ x = <<"socket", i>> \/ x = <<"task", i>> \/ x = <<"channel", i>>
                        \/ x = <<"data", i>> \/ x = <<"ack", i>> \/ x = <<"close", i>>
<1>1. PICK k \in Kinds : \E i \in Nat : x = <<k, i>>
  BY SiteIs
<1>2. PICK i \in Nat : x = <<k, i>>
  BY <1>1
<1>3. \/ k = "socket" \/ k = "task" \/ k = "channel" \/ k = "data" \/ k = "ack" \/ k = "close"
  BY DEF Kinds
<1> QED BY <1>2, <1>3

(* The numbers sent.                                                       *)
Numbers(ds) == {Number(p) : p \in UNION {Range(d) : d \in Range(ds)}}

(* The elements of Numbers.                                                *)
LEMMA InNumbers ==
  ASSUME NEW ds, NEW v
  PROVE  v \in Numbers(ds) <=> \E k \in DOMAIN ds : v \in Nums(ds[k])
<1>1. ASSUME v \in Numbers(ds)
      PROVE  \E k \in DOMAIN ds : v \in Nums(ds[k])
  <2>1. PICK p \in UNION {Range(d) : d \in Range(ds)} : v = Number(p)
    BY <1>1 DEF Numbers
  <2>2. PICK d \in Range(ds) : p \in Range(d)
    BY <2>1, SMT
  <2>3. PICK k \in DOMAIN ds : d = ds[k]
    BY <2>2 DEF Range
  <2>4. PICK i \in DOMAIN d : p = d[i]
    BY <2>2 DEF Range
  <2>5. v \in Nums(d)
    BY <2>1, <2>4, InNums
  <2> QED BY <2>3, <2>5
<1>2. ASSUME NEW k \in DOMAIN ds, v \in Nums(ds[k])
      PROVE  v \in Numbers(ds)
  <2>1. PICK i \in DOMAIN ds[k] : v = Number(ds[k][i])
    BY <1>2, InNums
  <2>2. PICK p : p = ds[k][i] /\ p \in Range(ds[k])
    BY <2>1 DEF Range
  <2>3. PICK d : d = ds[k] /\ d \in Range(ds)
    BY <1>2 DEF Range
  <2>4. p \in UNION {Range(e) : e \in Range(ds)}
    <3>1. p \in Range(d)
      BY <2>2, <2>3
    <3> QED BY <2>3, <3>1, SMT
  <2>5. v = Number(p)
    BY <2>1, <2>2
  <2> QED BY <2>4, <2>5 DEF Numbers
<1> QED BY <1>1, <1>2

(* Nothing is sent, on its way or consumed at the start.                   *)
LEMMA ExactInit ==
  Init => ExactInv
<1> SUFFICES ASSUME Init PROVE ExactInv
  OBVIOUS
<1>1. /\ socket = <<>> /\ sent = <<>> /\ channel = <<>> /\ consumed = {}
      /\ conn_buff = <<>> /\ ack_buff = <<>> /\ close_buff = <<>>
  BY DEF Init
<1>2. \A t \in Tasks : pc[t] # "send"
  <2>1. \A t \in Tasks : pc[t] = "acquire"
    BY DEF Init
  <2>2. "acquire" # "send"
    OBVIOUS
  <2> QED BY <2>1, <2>2
<1>3. \A i : i \notin DOMAIN <<>>
  BY SMT
<1>4. ASSUME NEW x \in Sites
      PROVE  Wares[x] = <<>>
  <2>1. PICK i \in Nat : \/ x = <<"socket", i>> \/ x = <<"task", i>> \/ x = <<"channel", i>>
                         \/ x = <<"data", i>> \/ x = <<"ack", i>> \/ x = <<"close", i>>
    BY SiteCases
  <2>2. Wares[<<"socket", i>>] = <<>> /\ Wares[<<"task", i>>] = <<>>
    BY <1>1, <1>2, <1>3, WaresNow DEF Shows
  <2>3. Wares[<<"channel", i>>] = <<>> /\ Wares[<<"data", i>>] = <<>>
    BY <1>1, <1>3, WaresNow DEF Shows
  <2>4. Wares[<<"ack", i>>] = <<>> /\ Wares[<<"close", i>>] = <<>>
    BY <1>1, WaresNow DEF Shows
  <2> QED BY <2>1, <2>2, <2>3, <2>4
<1>5. \A v : v \notin SentNumbers
  <2>1. \A v : v \notin Numbers(<<>>)
    BY <1>3, InNumbers
  <2> QED BY <1>1, <2>1 DEF SentNumbers, SentPackets, Numbers
<1>6. \A v : v \notin consumed
  BY <1>1
<1> QED BY <1>4, <1>5, <1>6, NoNums DEF ExactInv, Exact

(* No step loses or repeats a number.                                      *)
LEMMA ExactKept ==
  Inductive /\ NetInv /\ TypeInv /\ GoodInv /\ Owned /\ ExactInv /\ [Next]_vars => ExactInv'
<1> SUFFICES ASSUME Inductive
             PROVE  NetInv /\ TypeInv /\ GoodInv /\ Owned /\ ExactInv /\ [Next]_vars => ExactInv'
  OBVIOUS

(* A sequence that comes to an empty site.                                 *)
<1>MixSame.
    ASSUME NEW r, NEW s, Same(r, s)
    PROVE  Mix(r, <<>>, s)
  BY <1>MixSame, NoNums, SameNums DEF Mix

(* Only the numbers of what is added count.                                *)
<1>MixOf.
    ASSUME NEW r, NEW s, NEW q, NEW u, Same(q, u), Mix(r, s, q)
    PROVE  Mix(r, s, u)
  <2> USE <1>MixOf
  <2>1. Distinct(q) <=> Distinct(u)
    BY SameNums
  <2>2. \A v : v \in Nums(q) <=> v \in Nums(u)
    BY SameNums
  <2> QED BY <2>1, <2>2 DEF Mix

(* A sequence that comes to the end of another.                            *)
<1>MixExtended.
    ASSUME NEW r, NEW s, NEW q, Extended(r, s, q)
    PROVE  Mix(r, s, q)
  <2> USE <1>MixExtended
  <2>1. ASSUME NEW i \in DOMAIN r
        PROVE  \/ i \in DOMAIN s /\ r[i] = s[i]
               \/ \E j \in DOMAIN q : i = Len(s) + j /\ r[i] = q[j]
    <3>1. i \in DOMAIN s \/ \E j \in DOMAIN q : i = Len(s) + j
      BY DEF Extended
    <3>2. CASE i \in DOMAIN s
      BY <3>2 DEF Extended
    <3>3. ASSUME NEW j \in DOMAIN q, i = Len(s) + j
          PROVE  r[i] = q[j]
      <4>1. r[Len(s) + j] = q[j]
        BY DEF Extended
      <4> QED BY <3>3, <4>1
    <3> QED BY <3>1, <3>2, <3>3
  <2>2. \A i \in DOMAIN s : i \in DOMAIN r /\ r[i] = s[i]
    BY DEF Extended
  <2>3. \A j \in DOMAIN q : Len(s) + j \in DOMAIN r /\ r[Len(s) + j] = q[j]
    BY DEF Extended
  <2>4. ASSUME NEW v
        PROVE  v \in Nums(r) <=> v \in Nums(s) \/ v \in Nums(q)
    <3>1. ASSUME v \in Nums(r)
          PROVE  v \in Nums(s) \/ v \in Nums(q)
      <4>1. PICK i \in DOMAIN r : v = Number(r[i])
        BY <3>1, InNums
      <4>2. CASE i \in DOMAIN s /\ r[i] = s[i]
        BY <4>1, <4>2, InNums
      <4>3. ASSUME NEW j \in DOMAIN q, r[i] = q[j]
            PROVE  v \in Nums(q)
        <5>1. v = Number(q[j])
          BY <4>1, <4>3
        <5> QED BY <5>1, InNums
      <4> QED BY <2>1, <4>2, <4>3
    <3>2. ASSUME v \in Nums(s)
          PROVE  v \in Nums(r)
      <4>1. PICK i \in DOMAIN s : v = Number(s[i])
        BY <3>2, InNums
      <4>2. i \in DOMAIN r /\ v = Number(r[i])
        BY <2>2, <4>1
      <4> QED BY <4>2, InNums
    <3>3. ASSUME v \in Nums(q)
          PROVE  v \in Nums(r)
      <4>1. PICK j \in DOMAIN q : v = Number(q[j])
        BY <3>3, InNums
      <4>2. Len(s) + j \in DOMAIN r /\ v = Number(r[Len(s) + j])
        BY <2>3, <4>1
      <4> QED BY <4>2, InNums
    <3> QED BY <3>1, <3>2, <3>3
  <2>5. ASSUME Distinct(s), Distinct(q), \A v : ~(v \in Nums(s) /\ v \in Nums(q)),
               NEW i \in DOMAIN r, NEW j \in DOMAIN r, Number(r[i]) = Number(r[j])
        PROVE  i = j
    <3>1. CASE i \in DOMAIN s /\ r[i] = s[i] /\ j \in DOMAIN s /\ r[j] = s[j]
      BY <2>5, <3>1 DEF Distinct
    <3>2. ASSUME NEW a \in DOMAIN q, i = Len(s) + a, r[i] = q[a],
                 NEW b \in DOMAIN q, j = Len(s) + b, r[j] = q[b]
          PROVE  i = j
      BY <2>5, <3>2 DEF Distinct
    <3>3. ASSUME i \in DOMAIN s, r[i] = s[i], NEW b \in DOMAIN q, r[j] = q[b]
          PROVE  FALSE
      <4>1. Number(r[i]) \in Nums(s) /\ Number(r[j]) \in Nums(q)
        BY <3>3, InNums
      <4> QED BY <2>5, <4>1
    <3>4. ASSUME j \in DOMAIN s, r[j] = s[j], NEW a \in DOMAIN q, r[i] = q[a]
          PROVE  FALSE
      <4>1. Number(r[j]) \in Nums(s) /\ Number(r[i]) \in Nums(q)
        BY <3>4, InNums
      <4> QED BY <2>5, <4>1
    <3> QED BY <2>1, <2>5, <3>1, <3>2, <3>3, <3>4
  <2>6. Distinct(s) /\ Distinct(q) /\ (\A v : ~(v \in Nums(s) /\ v \in Nums(q))) => Distinct(r)
    BY <2>5 DEF Distinct
  <2> QED BY <2>4, <2>6 DEF Mix

(* Such a move loses and repeats nothing.                                  *)
<1>ExactMoved.
    ASSUME NEW C, NEW D, NEW X, NEW N, Exact(C, X, N),
           NEW to \in [Sites -> Sites], Moved(D, C, to)
    PROVE  Exact(D, X, N)
  <2> USE <1>ExactMoved
  <2>1. ASSUME NEW y \in Sites, NEW z \in Sites, NEW v, v \in Nums(D[y]), v \in Nums(D[z])
        PROVE  y = z
    <3>1. PICK a \in Sites : to[a] = y /\ v \in Nums(C[a])
      BY <2>1 DEF Moved
    <3>2. PICK b \in Sites : to[b] = z /\ v \in Nums(C[b])
      BY <2>1 DEF Moved
    <3>3. a = b
      BY <3>1, <3>2 DEF Exact
    <3> QED BY <3>1, <3>2, <3>3, SMT
  <2>2. ASSUME NEW y \in Sites, NEW v, v \in Nums(D[y])
        PROVE  v \notin X /\ v \in N
    BY <2>2 DEF Exact, Moved
  <2>3. ASSUME NEW v \in N, v \notin X
        PROVE  \E y \in Sites : v \in Nums(D[y])
    <3>1. PICK x \in Sites : v \in Nums(C[x])
      BY <2>3 DEF Exact
    <3>2. to[x] \in Sites
      OBVIOUS
    <3> QED BY <3>1, <3>2 DEF Moved
  <2>4. \A v \in X : v \in N
    BY DEF Exact
  <2> QED BY <2>1, <2>2, <2>3, <2>4 DEF Exact, Moved

(* A queue that is read loses and repeats nothing.                         *)
<1>ExactDrawn.
    ASSUME NEW C, NEW D, NEW X, NEW N, Exact(C, X, N), NEW q \in Kinds,
           NEW l \in Kinds, l # q, NEW m \in Nat, NEW a, a = <<l, m>>, Drawn(D, C, q, a)
    PROVE  Exact(D, X, N)
  <2> USE <1>ExactDrawn
  <2> DEFINE to == [x \in Sites |-> IF x = <<q, 1>> THEN a
                                    ELSE IF x[1] = q /\ x[2] > 1 THEN <<q, x[2] - 1>> ELSE x]
  <2>1. /\ to \in [Sites -> Sites] /\ to[<<q, 1>>] = a /\ to[a] = a
        /\ \A i \in Nat : i > 1 => to[<<q, i>>] = <<q, i - 1>>
        /\ \A k \in Kinds \ {q} : \A i \in Nat : to[<<k, i>>] = <<k, i>>
        /\ to[<<q, 0>>] = <<q, 0>>
    BY SMT DEF Sites
  <2> HIDE DEF to
  <2>2. a \in Sites /\ <<q, 1>> \in Sites /\ <<q, 0>> \in Sites /\ a # <<q, 1>>
    BY SiteIs, SMT
  <2>3. \A y \in Sites : Distinct(C[y])
    BY DEF Exact
  <2>4. /\ Distinct(D[a])
        /\ \A v : v \in Nums(D[a]) <=> v \in Nums(C[a]) \/ v \in Nums(C[<<q, 1>>])
    <3>1. \A v : ~(v \in Nums(C[a]) /\ v \in Nums(C[<<q, 1>>]))
      BY <2>2 DEF Exact
    <3> QED BY <2>2, <2>3, <3>1 DEF Drawn, Mix
  <2>5. ASSUME NEW i \in Nat
        PROVE  \/ i = 0
               \/ i \in Nat \ {0} /\ i + 1 \in Nat /\ i + 1 > 1 /\ i + 1 - 1 = i
    BY SMT
  <2>6. ASSUME NEW i \in Nat
        PROVE  \/ i = 0 \/ i = 1
               \/ i > 1 /\ i - 1 \in Nat \ {0} /\ i - 1 + 1 = i
    BY SMT
  <2>7. ASSUME NEW i \in Nat \ {0}
        PROVE  D[<<q, i>>] = C[<<q, i + 1>>]
    BY DEF Drawn
  <2>8. D[<<q, 0>>] = <<>> /\ C[<<q, 0>>] = <<>>
    BY DEF Drawn
  <2>9. ASSUME NEW y \in Sites
        PROVE  Distinct(D[y])
    <3>1. PICK k \in Kinds : \E i \in Nat : y = <<k, i>>
      BY SiteIs
    <3>2. PICK i \in Nat : y = <<k, i>>
      BY <3>1
    <3>3. CASE k = q /\ i = 0
      BY <2>8, <3>2, <3>3, NoNums
    <3>4. CASE k = q /\ i # 0
      <4>1. <<q, i + 1>> \in Sites /\ D[<<q, i>>] = C[<<q, i + 1>>]
        BY <2>5, <2>7, <3>4, SiteIs
      <4> QED BY <2>3, <3>2, <3>4, <4>1
    <3>5. CASE k # q /\ y # a
      BY <2>3, <3>2, <3>5 DEF Drawn
    <3> QED BY <2>4, <3>3, <3>4, <3>5, SMTT(30)
  <2>10. ASSUME NEW y \in Sites, NEW v, v \in Nums(D[y])
         PROVE  \E x \in Sites : to[x] = y /\ v \in Nums(C[x])
    <3>1. PICK k \in Kinds : \E i \in Nat : y = <<k, i>>
      BY SiteIs
    <3>2. PICK i \in Nat : y = <<k, i>>
      BY <3>1
    <3>3. CASE k = q /\ i = 0
      BY <2>8, <2>10, <3>2, <3>3, NoNums
    <3>4. CASE k = q /\ i # 0
      <4>1. /\ <<q, i + 1>> \in Sites /\ D[<<q, i>>] = C[<<q, i + 1>>]
            /\ i + 1 \in Nat /\ i + 1 > 1 /\ i + 1 - 1 = i
        BY <2>5, <2>7, <3>4, SiteIs
      <4>2. PICK j \in Nat : j = i + 1 /\ j > 1 /\ j - 1 = i
        BY <3>4, SMT
      <4>3. /\ <<q, j>> \in Sites /\ to[<<q, j>>] = <<q, j - 1>>
            /\ D[<<q, i>>] = C[<<q, j>>]
        BY <2>1, <4>1, <4>2, SiteIs
      <4>4. to[<<q, j>>] = y /\ v \in Nums(C[<<q, j>>])
        BY <2>10, <3>2, <3>4, <4>2, <4>3
      <4> QED BY <4>3, <4>4
    <3>5. CASE k # q /\ y # a
      <4>1. to[y] = y /\ D[y] = C[y]
        BY <2>1, <3>2, <3>5 DEF Drawn
      <4> QED BY <2>10, <4>1
    <3>6. CASE y = a
      BY <2>1, <2>2, <2>4, <2>10, <3>6
    <3> QED BY <3>3, <3>4, <3>5, <3>6, SMTT(30)
  <2>11. ASSUME NEW x \in Sites, NEW v, v \in Nums(C[x])
         PROVE  v \in Nums(D[to[x]])
    <3>1. PICK k \in Kinds : \E i \in Nat : x = <<k, i>>
      BY SiteIs
    <3>2. PICK i \in Nat : x = <<k, i>>
      BY <3>1
    <3>3. CASE k = q /\ i = 0
      BY <2>8, <2>11, <3>2, <3>3, NoNums
    <3>4. CASE k = q /\ i = 1
      BY <2>1, <2>4, <2>11, <3>2, <3>4
    <3>5. CASE k = q /\ i > 1
      <4>1. i - 1 \in Nat \ {0} /\ i - 1 + 1 = i
        BY <3>5, SMT
      <4>2. D[<<q, i - 1>>] = C[<<q, i - 1 + 1>>]
        BY <2>7, <4>1
      <4>3. to[x] = <<q, i - 1>>
        BY <2>1, <3>2, <3>5
      <4>4. D[to[x]] = C[x]
        BY <3>2, <3>5, <4>1, <4>2, <4>3
      <4> QED BY <2>11, <4>4
    <3>6. CASE k # q
      <4>1. to[x] = x
        BY <2>1, <3>2, <3>6
      <4>2. CASE x = a
        BY <2>4, <2>11, <4>1, <4>2
      <4>3. CASE x # a
        <5>1. D[x] = C[x]
          BY <3>2, <3>6, <4>3 DEF Drawn
        <5> QED BY <2>11, <4>1, <5>1
      <4> QED BY <4>2, <4>3, SMT
    <3> QED BY <2>6, <3>3, <3>4, <3>5, <3>6
  <2>12. Moved(D, C, to)
    BY <2>9, <2>10, <2>11 DEF Moved
  <2> QED BY <2>1, <2>12, <1>ExactMoved

(* Handing everything over loses and repeats nothing.                      *)
<1>ExactHanded.
    ASSUME NEW C, NEW D, NEW X, NEW N, Exact(C, X, N),
           NEW a \in Sites, NEW b \in Sites, a # b, Handed(D, C, a, b)
    PROVE  Exact(D, X, N)
  <2> USE <1>ExactHanded
  <2> DEFINE to == [x \in Sites |-> IF x = a THEN b ELSE x]
  <2>1. /\ to \in [Sites -> Sites] /\ to[a] = b
        /\ \A x \in Sites \ {a} : to[x] = x
    OBVIOUS
  <2> HIDE DEF to
  <2>2. \A y \in Sites : Distinct(C[y])
    BY DEF Exact
  <2>3. /\ Distinct(D[b])
        /\ \A v : v \in Nums(D[b]) <=> v \in Nums(C[b]) \/ v \in Nums(C[a])
    <3>1. \A v : ~(v \in Nums(C[b]) /\ v \in Nums(C[a]))
      BY DEF Exact
    <3> QED BY <2>2, <3>1 DEF Handed, Mix
  <2>4. Distinct(D[a]) /\ \A v : v \notin Nums(D[a])
    BY NoNums DEF Handed
  <2>5. \A y \in Sites : Distinct(D[y])
    BY <2>2, <2>3, <2>4 DEF Handed
  <2>6. ASSUME NEW y \in Sites, NEW v, v \in Nums(D[y])
        PROVE  \E x \in Sites : to[x] = y /\ v \in Nums(C[x])
    BY <2>1, <2>3, <2>4, <2>6 DEF Handed
  <2>7. ASSUME NEW x \in Sites, NEW v, v \in Nums(C[x])
        PROVE  v \in Nums(D[to[x]])
    <3>1. CASE x = a
      BY <2>1, <2>3, <2>7, <3>1
    <3>2. CASE x = b
      BY <2>1, <2>3, <2>7, <3>2
    <3>3. CASE x \in Sites \ {a, b}
      BY <2>1, <2>7, <3>3 DEF Handed
    <3> QED BY <3>1, <3>2, <3>3
  <2>8. Moved(D, C, to)
    BY <2>5, <2>6, <2>7 DEF Moved
  <2> QED BY <2>1, <2>8, <1>ExactMoved

(* New numbers appear at a site.                                           *)
<1>ExactMore.
    ASSUME NEW C, NEW D, NEW X, NEW N, Exact(C, X, N), NEW a \in Sites, C[a] = <<>>,
           Distinct(D[a]), \A x \in Sites \ {a} : D[x] = C[x],
           \A v : v \in Nums(D[a]) => v \notin N,
           NEW M, \A v : v \in M <=> v \in N \/ v \in Nums(D[a])
    PROVE  Exact(D, X, M)
  <2> USE <1>ExactMore
  <2>1. \A x \in Sites : Distinct(D[x])
    BY DEF Exact
  <2>2. ASSUME NEW x \in Sites, x # a, NEW v, v \in Nums(D[x])
        PROVE  v \in Nums(C[x]) /\ v \in N /\ v \notin X
    BY <2>2 DEF Exact
  <2>3. \A v \in X : v \in N
    BY DEF Exact
  <2>4. ASSUME NEW x \in Sites, NEW y \in Sites, NEW v, v \in Nums(D[x]), v \in Nums(D[y])
        PROVE  x = y
    <3>1. CASE x # a /\ y # a
      BY <2>2, <2>4, <3>1 DEF Exact
    <3>2. CASE x = a \/ y = a
      BY <2>2, <2>4, <3>2
    <3> QED BY <3>1, <3>2, SMT
  <2>5. ASSUME NEW x \in Sites, NEW v, v \in Nums(D[x])
        PROVE  v \notin X /\ v \in M
    BY <2>2, <2>3, <2>5
  <2>6. ASSUME NEW v \in M, v \notin X
        PROVE  \E x \in Sites : v \in Nums(D[x])
    <3>1. CASE v \in Nums(D[a])
      BY <3>1
    <3>2. CASE v \notin Nums(D[a])
      <4>1. PICK x \in Sites : v \in Nums(C[x])
        BY <2>6, <3>2 DEF Exact
      <4>2. x # a
        BY <4>1, NoNums
      <4> QED BY <4>1, <4>2
    <3> QED BY <3>1, <3>2, SMT
  <2> QED BY <2>1, <2>3, <2>4, <2>5, <2>6 DEF Exact

(* A number leaves a site.                                                 *)
<1>ExactLess.
    ASSUME NEW C, NEW D, NEW X, NEW N, Exact(C, X, N), NEW a \in Sites,
           NEW w, w \in Nums(C[a]), Distinct(D[a]), \A x \in Sites \ {a} : D[x] = C[x],
           \A v : v \in Nums(D[a]) <=> v \in Nums(C[a]) /\ v # w
    PROVE  Exact(D, X \cup {w}, N)
  <2> USE <1>ExactLess
  <2>1. \A x \in Sites : Distinct(D[x])
    BY DEF Exact
  <2>2. ASSUME NEW x \in Sites, NEW v
        PROVE  v \in Nums(D[x]) <=> v \in Nums(C[x]) /\ v # w
    <3>1. CASE x = a
      BY <3>1
    <3>2. CASE x # a
      BY <3>2 DEF Exact
    <3> QED BY <3>1, <3>2, SMT
  <2>3. w \in N
    BY DEF Exact
  <2>4. ASSUME NEW v \in N, v \notin X \cup {w}
        PROVE  \E x \in Sites : v \in Nums(D[x])
    BY <2>2, <2>4 DEF Exact
  <2>5. ASSUME NEW x \in Sites, NEW v, v \in Nums(D[x])
        PROVE  v \notin X \cup {w} /\ v \in N
    BY <2>2, <2>5 DEF Exact
  <2>6. \A v \in X \cup {w} : v \in N
    BY <2>3 DEF Exact
  <2>7. \A x, y \in Sites : \A v : v \in Nums(D[x]) /\ v \in Nums(D[y]) => x = y
    BY <2>2 DEF Exact
  <2> QED BY <2>1, <2>4, <2>5, <2>6, <2>7 DEF Exact

(* What is taken out of a sequence leaves the others.                      *)
<1>RemovedNums.
    ASSUME NEW s, NEW r, NEW k \in 1 .. Len(s), Removed(r, s, k), Distinct(s)
    PROVE  /\ Distinct(r) /\ Number(s[k]) \in Nums(s)
           /\ \A v : v \in Nums(r) <=> v \in Nums(s) /\ v # Number(s[k])
  <2> USE <1>RemovedNums
  <2>1. PICK l \in Nat : /\ l = Len(s) /\ DOMAIN s = 1 .. l /\ Len(r) = l - 1 /\ l - 1 \in Nat
                         /\ DOMAIN r = 1 .. l - 1
    BY DEF Removed
  <2>2. k \in 1 .. l
    BY <2>1
  <2> DEFINE f(i) == IF i < k THEN i ELSE i + 1
  <2>3. ASSUME NEW i \in 1 .. l - 1
        PROVE  f(i) \in 1 .. l /\ f(i) # k /\ r[i] = s[f(i)]
    <3>1. f(i) \in 1 .. l /\ f(i) # k
      BY <2>2, SMT
    <3>2. (i < k => r[i] = s[i]) /\ (~(i < k) => r[i] = s[i + 1])
      BY <2>1 DEF Removed
    <3> QED BY <3>1, <3>2
  <2>4. \A i, j \in 1 .. l - 1 : f(i) = f(j) => i = j
    BY <2>2, SMT
  <2>5. ASSUME NEW j \in 1 .. l, j # k
        PROVE  \E i \in 1 .. l - 1 : f(i) = j
    <3>1. CASE j < k
      <4>1. j \in 1 .. l - 1 /\ f(j) = j
        BY <2>2, <3>1, SMT
      <4> QED BY <4>1
    <3>2. CASE j > k
      <4>1. j - 1 \in 1 .. l - 1 /\ f(j - 1) = j
        BY <2>2, <3>2, SMT
      <4> QED BY <4>1
    <3> QED BY <2>2, <2>5, <3>1, <3>2, SMT
  <2> HIDE DEF f
  <2>6. Number(s[k]) \in Nums(s)
    BY <2>1, <2>2, InNums
  <2>7. ASSUME NEW i \in DOMAIN r, NEW j \in DOMAIN r, Number(r[i]) = Number(r[j])
        PROVE  i = j
    <3>1. f(i) = f(j)
      <4>1. /\ f(i) \in DOMAIN s /\ f(j) \in DOMAIN s /\ r[i] = s[f(i)] /\ r[j] = s[f(j)]
        BY <2>1, <2>3
      <4>2. Number(s[f(i)]) = Number(s[f(j)])
        BY <2>7, <4>1
      <4> QED BY <4>1, <4>2 DEF Distinct
    <3> QED BY <2>1, <2>4, <3>1
  <2>8. ASSUME NEW v, v \in Nums(r)
        PROVE  v \in Nums(s) /\ v # Number(s[k])
    <3>1. PICK i \in DOMAIN r : v = Number(r[i])
      BY <2>8, InNums
    <3>2. PICK j \in DOMAIN s : j = f(i) /\ j # k /\ v = Number(s[j])
      BY <2>1, <2>3, <3>1
    <3>3. v \in Nums(s)
      BY <3>2, InNums
    <3>4. v # Number(s[k])
      BY <2>1, <2>2, <3>2 DEF Distinct
    <3> QED BY <3>3, <3>4, SMT
  <2>9. ASSUME NEW v, v \in Nums(s), v # Number(s[k])
        PROVE  v \in Nums(r)
    <3>1. PICK j \in DOMAIN s : v = Number(s[j])
      BY <2>9, InNums
    <3>2. j # k
      BY <2>9, <3>1
    <3>3. PICK i \in 1 .. l - 1 : f(i) = j
      BY <2>1, <2>5, <3>1, <3>2
    <3>4. i \in DOMAIN r /\ v = Number(r[i])
      BY <2>1, <2>3, <3>1, <3>3
    <3> QED BY <3>4, InNums
  <2> QED BY <2>6, <2>7, <2>8, <2>9 DEF Distinct

(* What is at the sites after it.                                          *)
<1>WaresThen.
    Shows(Wares', socket', Tasks', pc', packets', channel', conn_buff', ack_buff', close_buff')
  <2>0. /\ "socket" \in Kinds /\ "task" \in Kinds /\ "channel" \in Kinds
        /\ "data" \in Kinds /\ "ack" \in Kinds /\ "close" \in Kinds
    BY DEF Kinds
  <2>1. ASSUME NEW k \in Kinds, NEW i \in Nat
        PROVE  Wares'[<<k, i>>] = IF <<k, i>> \in Places' THEN At(<<k, i>>)' ELSE <<>>
    BY SiteIs DEF Wares
  <2>2. ASSUME NEW i \in Nat
        PROVE  /\ <<"socket", i>> \in Places' <=> i \in DOMAIN socket'
               /\ <<"task", i>> \in Places' <=> i \in Tasks' /\ pc'[i] = "send"
               /\ <<"channel", i>> \in Places' <=> i \in DOMAIN channel'
               /\ <<"data", i>> \in Places' <=> i = 0
               /\ <<"ack", i>> \in Places' <=> i = 0
               /\ <<"close", i>> \in Places' <=> i = 0
    BY SMT DEF Places
  <2>3. ASSUME NEW i \in Nat
        PROVE  /\ At(<<"socket", i>>)' = Arriving(socket'[i])
               /\ At(<<"task", i>>)' = packets'[i]
               /\ At(<<"channel", i>>)' = channel'[i]
               /\ At(<<"data", i>>)' = conn_buff'
               /\ At(<<"ack", i>>)' = ack_buff'
               /\ At(<<"close", i>>)' = close_buff'
    BY SMT DEF At
  <2>4. ASSUME NEW i \in Nat
        PROVE  Wares'[<<"socket", i>>] = IF i \in DOMAIN socket' THEN Arriving(socket'[i]) ELSE <<>>
    <3>1. Wares'[<<"socket", i>>]
            = IF <<"socket", i>> \in Places' THEN At(<<"socket", i>>)' ELSE <<>>
      BY <2>0, <2>1
    <3> QED BY <2>2, <2>3, <3>1
  <2>5. ASSUME NEW i \in Nat
        PROVE  Wares'[<<"task", i>>] = IF i \in Tasks' /\ pc'[i] = "send" THEN packets'[i] ELSE <<>>
    <3>1. Wares'[<<"task", i>>] = IF <<"task", i>> \in Places' THEN At(<<"task", i>>)' ELSE <<>>
      BY <2>0, <2>1
    <3> QED BY <2>2, <2>3, <3>1
  <2>6. ASSUME NEW i \in Nat
        PROVE  Wares'[<<"channel", i>>] = IF i \in DOMAIN channel' THEN channel'[i] ELSE <<>>
    <3>1. Wares'[<<"channel", i>>] =
            IF <<"channel", i>> \in Places' THEN At(<<"channel", i>>)' ELSE <<>>
      BY <2>0, <2>1
    <3> QED BY <2>2, <2>3, <3>1
  <2>7. ASSUME NEW i \in Nat
        PROVE  Wares'[<<"data", i>>] = IF i = 0 THEN conn_buff' ELSE <<>>
    <3>1. Wares'[<<"data", i>>] = IF <<"data", i>> \in Places' THEN At(<<"data", i>>)' ELSE <<>>
      BY <2>0, <2>1
    <3> QED BY <2>2, <2>3, <3>1
  <2>8. ASSUME NEW i \in Nat
        PROVE  Wares'[<<"ack", i>>] = IF i = 0 THEN ack_buff' ELSE <<>>
    <3>1. Wares'[<<"ack", i>>] = IF <<"ack", i>> \in Places' THEN At(<<"ack", i>>)' ELSE <<>>
      BY <2>0, <2>1
    <3> QED BY <2>2, <2>3, <3>1
  <2>9. ASSUME NEW i \in Nat
        PROVE  Wares'[<<"close", i>>] = IF i = 0 THEN close_buff' ELSE <<>>
    <3>1. Wares'[<<"close", i>>] = IF <<"close", i>> \in Places' THEN At(<<"close", i>>)' ELSE <<>>
      BY <2>0, <2>1
    <3> QED BY <2>2, <2>3, <3>1
  <2> QED BY <2>4, <2>5, <2>6, <2>7, <2>8, <2>9 DEF Shows

(* Where nothing happens, the same is shown.                               *)
<1>SameShown.
    ASSUME n' = n
    PROVE  /\ socket' = socket => \A i \in Nat : Wares'[<<"socket", i>>] = Wares[<<"socket", i>>]
           /\ \A i \in Nat :
                pc'[i] = pc[i] /\ packets'[i] = packets[i] =>
                  Wares'[<<"task", i>>] = Wares[<<"task", i>>]
           /\ \A i \in Nat : i \notin Tasks => Wares'[<<"task", i>>] = Wares[<<"task", i>>]
           /\ channel' = channel =>
                \A i \in Nat : Wares'[<<"channel", i>>] = Wares[<<"channel", i>>]
           /\ conn_buff' = conn_buff => \A i \in Nat : Wares'[<<"data", i>>] = Wares[<<"data", i>>]
           /\ ack_buff' = ack_buff => \A i \in Nat : Wares'[<<"ack", i>>] = Wares[<<"ack", i>>]
           /\ close_buff' = close_buff => \A i \in Nat :
                                            Wares'[<<"close", i>>] = Wares[<<"close", i>>]
           /\ \A i \in Nat \ {0} : /\ Wares'[<<"data", i>>] = Wares[<<"data", i>>]
                                   /\ Wares'[<<"ack", i>>] = Wares[<<"ack", i>>]
                                   /\ Wares'[<<"close", i>>] = Wares[<<"close", i>>]
           /\ Wares[<<"data", 0>>] = conn_buff /\ Wares[<<"ack", 0>>] = ack_buff
           /\ Wares[<<"close", 0>>] = close_buff
           /\ Wares'[<<"data", 0>>] = conn_buff' /\ Wares'[<<"ack", 0>>] = ack_buff'
           /\ Wares'[<<"close", 0>>] = close_buff'
  <2> USE <1>SameShown
  <2>a. Shows(Wares, socket, Tasks, pc, packets, channel, conn_buff, ack_buff, close_buff)
    BY WaresNow
  <2>b. Shows(Wares', socket', Tasks, pc', packets', channel', conn_buff', ack_buff', close_buff')
    <3>1. Tasks' = Tasks
      BY DEF Tasks
    <3> QED BY <3>1, <1>WaresThen
  <2>0. /\ \A i \in Nat :
             Wares[<<"task", i>>] = IF i \in Tasks /\ pc[i] = "send" THEN packets[i] ELSE <<>>
        /\ \A i \in Nat :
             Wares'[<<"task", i>>] = IF i \in Tasks /\ pc'[i] = "send" THEN packets'[i] ELSE <<>>
    BY <2>a, <2>b DEF Shows
  <2>1. ASSUME socket' = socket, NEW i \in Nat
        PROVE  Wares'[<<"socket", i>>] = Wares[<<"socket", i>>]
    <3>1. Wares[<<"socket", i>>] = IF i \in DOMAIN socket THEN Arriving(socket[i]) ELSE <<>>
      BY <2>a, <2>b DEF Shows
    <3>2. Wares'[<<"socket", i>>] = IF i \in DOMAIN socket' THEN Arriving(socket'[i]) ELSE <<>>
      BY <2>a, <2>b DEF Shows
    <3> QED BY <2>1, <3>1, <3>2, SMT
  <2>2. ASSUME NEW i \in Nat, pc'[i] = pc[i], packets'[i] = packets[i]
        PROVE  Wares'[<<"task", i>>] = Wares[<<"task", i>>]
    BY <2>0, <2>2, SMT
  <2>3. ASSUME NEW i \in Nat, i \notin Tasks
        PROVE  Wares'[<<"task", i>>] = Wares[<<"task", i>>]
    <3>1. Wares'[<<"task", i>>] = <<>>
      BY <2>a, <2>b, <2>3 DEF Shows
    <3>2. Wares[<<"task", i>>] = <<>>
      BY <2>a, <2>b, <2>3 DEF Shows
    <3> QED BY <3>1, <3>2, SMT
  <2>4. channel' = channel => \A i \in Nat : Wares'[<<"channel", i>>] = Wares[<<"channel", i>>]
    BY <2>a, <2>b DEF Shows
  <2>5. conn_buff' = conn_buff => \A i \in Nat : Wares'[<<"data", i>>] = Wares[<<"data", i>>]
    BY <2>a, <2>b DEF Shows
  <2>6. ack_buff' = ack_buff => \A i \in Nat : Wares'[<<"ack", i>>] = Wares[<<"ack", i>>]
    BY <2>a, <2>b DEF Shows
  <2>7. close_buff' = close_buff => \A i \in Nat : Wares'[<<"close", i>>] = Wares[<<"close", i>>]
    BY <2>a, <2>b DEF Shows
  <2>8. ASSUME NEW i \in Nat \ {0}
        PROVE  /\ Wares'[<<"data", i>>] = Wares[<<"data", i>>]
               /\ Wares'[<<"ack", i>>] = Wares[<<"ack", i>>]
               /\ Wares'[<<"close", i>>] = Wares[<<"close", i>>]
    <3>1. i \in Nat /\ i # 0
      OBVIOUS
    <3>2. Wares'[<<"data", i>>] = Wares[<<"data", i>>]
      BY <2>a, <2>b, <3>1 DEF Shows
    <3>3. Wares'[<<"ack", i>>] = Wares[<<"ack", i>>]
      BY <2>a, <2>b, <3>1 DEF Shows
    <3>4. Wares'[<<"close", i>>] = Wares[<<"close", i>>]
      BY <2>a, <2>b, <3>1 DEF Shows
    <3> QED BY <3>2, <3>3, <3>4, SMT
  <2>9. 0 \in Nat
    OBVIOUS
  <2>10. /\ Wares[<<"data", 0>>] = conn_buff /\ Wares[<<"ack", 0>>] = ack_buff
         /\ Wares[<<"close", 0>>] = close_buff
    BY <2>a, <2>b, <2>9 DEF Shows
  <2>11. /\ Wares'[<<"data", 0>>] = conn_buff' /\ Wares'[<<"ack", 0>>] = ack_buff'
         /\ Wares'[<<"close", 0>>] = close_buff'
    BY <2>a, <2>b, <2>9 DEF Shows
  <2> QED BY <2>1, <2>2, <2>3, <2>4, <2>5, <2>6, <2>7, <2>8, <2>10, <2>11

(* The queues, read on and written on.                                     *)
<1>QueueShown.
    ASSUME n' = n, NEW e
    PROVE  /\ Shorter(socket', socket, e) =>
                /\ \A i \in Nat \ {0} : Wares'[<<"socket", i>>] = Wares[<<"socket", i + 1>>]
                /\ Wares'[<<"socket", 0>>] = <<>> /\ Wares[<<"socket", 0>>] = <<>>
                /\ Wares[<<"socket", 1>>] = Arriving(e)
           /\ Shorter(channel', channel, e) =>
                /\ \A i \in Nat \ {0} : Wares'[<<"channel", i>>] = Wares[<<"channel", i + 1>>]
                /\ Wares'[<<"channel", 0>>] = <<>> /\ Wares[<<"channel", 0>>] = <<>>
                /\ Wares[<<"channel", 1>>] = e
           /\ Longer(socket', socket, e) =>
                /\ Len(socket) + 1 \in Nat
                /\ Wares[<<"socket", Len(socket) + 1>>] = <<>>
                /\ Wares'[<<"socket", Len(socket) + 1>>] = Arriving(e)
                /\ \A i \in Nat \ {Len(socket) + 1} :
                     Wares'[<<"socket", i>>] = Wares[<<"socket", i>>]
           /\ Longer(channel', channel, e) =>
                /\ Len(channel) + 1 \in Nat
                /\ Wares[<<"channel", Len(channel) + 1>>] = <<>>
                /\ Wares'[<<"channel", Len(channel) + 1>>] = e
                /\ \A i \in Nat \ {Len(channel) + 1} :
                     Wares'[<<"channel", i>>] = Wares[<<"channel", i>>]
  <2> USE <1>QueueShown
  <2>a. Shows(Wares, socket, Tasks, pc, packets, channel, conn_buff, ack_buff, close_buff)
    BY WaresNow
  <2>b. Shows(Wares', socket', Tasks, pc', packets', channel', conn_buff', ack_buff', close_buff')
    <3>1. Tasks' = Tasks
      BY DEF Tasks
    <3> QED BY <3>1, <1>WaresThen
  <2>1. /\ \A i \in Nat :
             Wares[<<"socket", i>>] = IF i \in DOMAIN socket THEN Arriving(socket[i]) ELSE <<>>
        /\ \A i \in Nat :
             Wares'[<<"socket", i>>] = IF i \in DOMAIN socket' THEN Arriving(socket'[i]) ELSE <<>>
        /\ \A i \in Nat : Wares[<<"channel", i>>]
                            = IF i \in DOMAIN channel THEN channel[i] ELSE <<>>
        /\ \A i \in Nat :
             Wares'[<<"channel", i>>] = IF i \in DOMAIN channel' THEN channel'[i] ELSE <<>>
    BY <2>a, <2>b DEF Shows
  <2>2. ASSUME NEW r, NEW s, Shorter(r, s, e), NEW i \in Nat
        PROVE  /\ i # 0 => /\ i + 1 \in Nat /\ (i \in DOMAIN r <=> i + 1 \in DOMAIN s)
                           /\ (i \in DOMAIN r => r[i] = s[i + 1])
               /\ 0 \notin DOMAIN r /\ 0 \notin DOMAIN s /\ 1 \in DOMAIN s /\ s[1] = e
               /\ 0 \in Nat /\ 1 \in Nat
    BY <2>2, SMT DEF Shorter
  <2>3. ASSUME NEW r, NEW s, Longer(r, s, e)
        PROVE  /\ Len(s) + 1 \in Nat /\ Len(s) + 1 \notin DOMAIN s /\ Len(s) + 1 \in DOMAIN r
               /\ r[Len(s) + 1] = e
               /\ \A i \in Nat \ {Len(s) + 1} : i \in DOMAIN r <=> i \in DOMAIN s
               /\ \A i \in DOMAIN s : r[i] = s[i]
    BY <2>3, SMTT(30) DEF Longer
  <2>4. ASSUME Shorter(socket', socket, e)
        PROVE  /\ \A i \in Nat \ {0} : Wares'[<<"socket", i>>] = Wares[<<"socket", i + 1>>]
               /\ Wares'[<<"socket", 0>>] = <<>> /\ Wares[<<"socket", 0>>] = <<>>
               /\ Wares[<<"socket", 1>>] = Arriving(e)
    <3>1. ASSUME NEW i \in Nat \ {0}
          PROVE  Wares'[<<"socket", i>>] = Wares[<<"socket", i + 1>>]
      <4>1. /\ i + 1 \in Nat /\ (i \in DOMAIN socket' <=> i + 1 \in DOMAIN socket)
            /\ (i \in DOMAIN socket' => socket'[i] = socket[i + 1]) /\ i \in Nat
        BY <2>2, <2>4
      <4> QED BY <2>1, <4>1, SMT
    <3>2. 0 \notin DOMAIN socket' /\ 0 \notin DOMAIN socket /\ 1 \in DOMAIN socket /\ socket[1] = e
      BY <2>2, <2>4, SMTT(30)
    <3> QED BY <2>1, <3>1, <3>2, SMTT(30)
  <2>5. ASSUME Shorter(channel', channel, e)
        PROVE  /\ \A i \in Nat \ {0} : Wares'[<<"channel", i>>] = Wares[<<"channel", i + 1>>]
               /\ Wares'[<<"channel", 0>>] = <<>> /\ Wares[<<"channel", 0>>] = <<>>
               /\ Wares[<<"channel", 1>>] = e
    <3>1. ASSUME NEW i \in Nat \ {0}
          PROVE  Wares'[<<"channel", i>>] = Wares[<<"channel", i + 1>>]
      <4>1. /\ i + 1 \in Nat /\ (i \in DOMAIN channel' <=> i + 1 \in DOMAIN channel)
            /\ (i \in DOMAIN channel' => channel'[i] = channel[i + 1]) /\ i \in Nat
        BY <2>2, <2>5
      <4> QED BY <2>1, <4>1, SMTT(30)
    <3>2. /\ 0 \notin DOMAIN channel' /\ 0 \notin DOMAIN channel
          /\ 1 \in DOMAIN channel /\ channel[1] = e
      BY <2>2, <2>5, SMT
    <3> QED BY <2>1, <3>1, <3>2, SMTT(30)
  <2>6. ASSUME Longer(socket', socket, e)
        PROVE  /\ Len(socket) + 1 \in Nat
               /\ Wares[<<"socket", Len(socket) + 1>>] = <<>>
               /\ Wares'[<<"socket", Len(socket) + 1>>] = Arriving(e)
               /\ \A i \in Nat \ {Len(socket) + 1} :
                    Wares'[<<"socket", i>>] = Wares[<<"socket", i>>]
    <3>1. PICK m \in Nat : m = Len(socket) + 1
      BY <2>3, <2>6, SMT
    <3>2. /\ m \notin DOMAIN socket /\ m \in DOMAIN socket' /\ socket'[m] = e
          /\ \A i \in Nat \ {m} : i \in DOMAIN socket' <=> i \in DOMAIN socket
          /\ \A i \in DOMAIN socket : socket'[i] = socket[i]
      BY <2>3, <2>6, <3>1
    <3>3. Wares[<<"socket", m>>] = <<>> /\ Wares'[<<"socket", m>>] = Arriving(e)
      BY <2>1, <3>2
    <3>4. \A i \in Nat \ {m} : Wares'[<<"socket", i>>] = Wares[<<"socket", i>>]
      BY <2>1, <3>2
    <3> QED BY <3>1, <3>3, <3>4
  <2>7. ASSUME Longer(channel', channel, e)
        PROVE  /\ Len(channel) + 1 \in Nat
               /\ Wares[<<"channel", Len(channel) + 1>>] = <<>>
               /\ Wares'[<<"channel", Len(channel) + 1>>] = e
               /\ \A i \in Nat \ {Len(channel) + 1} :
                    Wares'[<<"channel", i>>] = Wares[<<"channel", i>>]
    <3>1. PICK m \in Nat : m = Len(channel) + 1
      BY <2>3, <2>7, SMT
    <3>2. /\ m \notin DOMAIN channel /\ m \in DOMAIN channel' /\ channel'[m] = e
          /\ \A i \in Nat \ {m} : i \in DOMAIN channel' <=> i \in DOMAIN channel
          /\ \A i \in DOMAIN channel : channel'[i] = channel[i]
      BY <2>3, <2>7, <3>1
    <3>3. Wares[<<"channel", m>>] = <<>> /\ Wares'[<<"channel", m>>] = e
      BY <2>1, <3>2
    <3>4. \A i \in Nat \ {m} : Wares'[<<"channel", i>>] = Wares[<<"channel", i>>]
      BY <2>1, <3>2
    <3> QED BY <3>1, <3>3, <3>4
  <2> QED BY <2>4, <2>5, <2>6, <2>7

(* Only what is at the sites counts.                                       *)
<1>ExactSame.
    ASSUME NEW C, NEW D, NEW X, NEW N, Exact(C, X, N), \A x \in Sites : D[x] = C[x]
    PROVE  Exact(D, X, N)
  <2> USE <1>ExactSame
  <2>1. \A x \in Sites : Distinct(D[x])
    BY DEF Exact
  <2>2. ASSUME NEW x \in Sites, NEW v
        PROVE  v \in Nums(D[x]) <=> v \in Nums(C[x])
    OBVIOUS
  <2> QED BY <2>1, <2>2 DEF Exact

(* No packet changes its place.                                            *)
<1>ExactFrame.
    ASSUME ExactInv, n' = n, channel' = channel, UNCHANGED buffered, consumed' = consumed,
           sent' = sent, \A i \in Nat : Wares'[<<"socket", i>>] = Wares[<<"socket", i>>],
           \A i \in Tasks : \/ pc'[i] = pc[i] /\ packets'[i] = packets[i]
                            \/ pc'[i] # "send" /\ pc[i] # "send"
    PROVE  ExactInv'
  <2> USE <1>ExactFrame
  <2>1. /\ Tasks' = Tasks /\ SentNumbers' = SentNumbers
        /\ conn_buff' = conn_buff /\ ack_buff' = ack_buff /\ close_buff' = close_buff
    BY DEF Tasks, SentNumbers, SentPackets, buffered
  <2>2. Shows(Wares, socket, Tasks, pc, packets, channel, conn_buff, ack_buff, close_buff)
    BY WaresNow
  <2>3. Shows(Wares', socket', Tasks, pc', packets', channel', conn_buff', ack_buff', close_buff')
    BY <2>1, <1>WaresThen
  <2>4. ASSUME NEW i \in Nat
        PROVE  Wares'[<<"task", i>>] = Wares[<<"task", i>>]
    <3>1. CASE i \notin Tasks
      BY <3>1, <1>SameShown
    <3>2. CASE pc'[i] = pc[i] /\ packets'[i] = packets[i]
      BY <3>2, <1>SameShown
    <3>3. CASE pc'[i] # "send" /\ pc[i] # "send"
      <4>1. Wares'[<<"task", i>>] = <<>> /\ Wares[<<"task", i>>] = <<>>
        BY <2>2, <2>3, <3>3 DEF Shows
      <4> QED BY <4>1
    <3> QED BY <3>1, <3>2, <3>3
  <2>5. \A i \in Nat : Wares'[<<"channel", i>>] = Wares[<<"channel", i>>]
    BY <1>SameShown
  <2>6. \A i \in Nat : Wares'[<<"data", i>>] = Wares[<<"data", i>>]
    BY <2>1, <1>SameShown
  <2>7. \A i \in Nat : Wares'[<<"ack", i>>] = Wares[<<"ack", i>>]
    BY <2>1, <1>SameShown
  <2>8. \A i \in Nat : Wares'[<<"close", i>>] = Wares[<<"close", i>>]
    BY <2>1, <1>SameShown
  <2>9. ASSUME NEW x \in Sites
        PROVE  Wares'[x] = Wares[x]
    <3>1. PICK i \in Nat : \/ x = <<"socket", i>> \/ x = <<"task", i>> \/ x = <<"channel", i>>
                           \/ x = <<"data", i>> \/ x = <<"ack", i>> \/ x = <<"close", i>>
      BY SiteCases
    <3> QED BY <2>4, <2>5, <2>6, <2>7, <2>8, <3>1
  <2>10. Exact(Wares', consumed, SentNumbers)
    BY <2>9, <1>ExactSame DEF ExactInv
  <2> QED BY <2>1, <2>10 DEF ExactInv

(* The socket's queue is not touched.                                      *)
<1>SocketFrame.
    ASSUME n' = n, socket' = socket
    PROVE  \A i \in Nat : Wares'[<<"socket", i>>] = Wares[<<"socket", i>>]
  BY <1>SocketFrame, <1>SameShown

(* What does not parse brings no packets.                                  *)
<1>StrayArrivesExact.
    ASSUME NetInv, ExactInv, NEW b \in Strays, StrayArrives(b)
    PROVE  ExactInv'
  <2> USE <1>StrayArrivesExact
  <2>1. /\ n' = n /\ channel' = channel /\ UNCHANGED buffered /\ consumed' = consumed
        /\ sent' = sent /\ pc' = pc /\ packets' = packets /\ socket' = Append(socket, b)
    BY DEF StrayArrives, tasks
  <2>2. b \in Seq(Nat) /\ from_bytes_into(b).outcome # "Ok"
    BY ReaderAssumption
  <2>3. Arriving(b) = <<>>
    BY <2>2 DEF Arriving
  <2>4. Longer(socket', socket, b)
    <3>1. socket \in Seq(Seq(Nat))
      BY DEF NetInv
    <3>2. Longer(Append(socket, b), socket, b)
      BY <2>2, <3>1, Appended
    <3> QED BY <2>1, <3>2
  <2>5. /\ Wares[<<"socket", Len(socket) + 1>>] = <<>>
        /\ Wares'[<<"socket", Len(socket) + 1>>] = Arriving(b)
        /\ \A i \in Nat \ {Len(socket) + 1} : Wares'[<<"socket", i>>] = Wares[<<"socket", i>>]
    BY <2>1, <2>4, <1>QueueShown
  <2>6. \A i \in Nat : Wares'[<<"socket", i>>] = Wares[<<"socket", i>>]
    BY <2>3, <2>5
  <2> QED BY <2>1, <2>6, <1>ExactFrame

(* A task steps that has no packets to send before or after.               *)
<1>TurnExact.
    ASSUME TypeInv, ExactInv, NEW t \in Tasks, NEW c, NEW b, NEW r, NEW ps, Turn(t, c, b, r, ps),
           c # "send", pc[t] # "send", channel' = channel, UNCHANGED buffered,
           consumed' = consumed, sent' = sent, socket' = socket
    PROVE  ExactInv'
  <2> USE <1>TurnExact
  <2>1. Turned(t, c, b, r, ps)
    BY TurnTurned
  <2>2. \A i \in Tasks : \/ pc'[i] = pc[i] /\ packets'[i] = packets[i]
                         \/ pc'[i] # "send" /\ pc[i] # "send"
    BY <2>1 DEF Turned
  <2>3. n' = n
    BY DEF Turn
  <2>4. \A i \in Nat : Wares'[<<"socket", i>>] = Wares[<<"socket", i>>]
    BY <2>3, <1>SocketFrame
  <2> QED BY <2>2, <2>3, <2>4, <1>ExactFrame

(* Later datagrams have larger numbers.                                    *)
<1>LaterNumbers.
    ASSUME NEW f \in Nat, NEW m \in Nat, NEW k \in Nat \ {0}, NEW l \in Nat, k <= l,
           NEW i \in Nat, i <= m, NEW j \in Nat \ {0}
    PROVE  f + m * (k - 1) + i # f + m * l + j
  <2> USE <1>LaterNumbers
  <2>1. m * (k - 1) + m = m * k
    BY SMT
  <2>2. m * k <= m * l
    <3>1. PICK r \in Nat : l = k + r
      <4>1. l - k \in Nat /\ l = k + (l - k)
        BY SMT
      <4> QED BY <4>1
    <3>2. m * l = m * k + m * r /\ m * r \in Nat /\ m * k \in Nat
      BY <3>1, SMT
    <3> QED BY <3>2, SMT
  <2>3. m * k \in Nat /\ m * l \in Nat /\ m * (k - 1) \in Nat
    BY SMT
  <2> QED BY <2>1, <2>2, <2>3, SMT

(* The peer's datagram: distinct numbers, and new ones.                    *)
<1>FreshNumbers.
    ASSUME NetInv, NEW g \in Datagram, Numbered(g, peer.first + MaxPackets * Len(sent))
    PROVE  Distinct(g) /\ \A v : v \in Nums(g) => v \notin Numbers(sent)
  <2> USE <1>FreshNumbers
  <2>1. PICK f \in Nat : f = peer.first
    <3>1. peer.first \in Nat
      BY PeersTyped DEF NetInv
    <3> QED BY <3>1
  <2>2. PICK m \in Nat : m = MaxPackets
    BY ReaderAssumption
  <2>3. PICK l \in Nat : l = Len(sent) /\ DOMAIN sent = 1 .. l
    <3>1. sent \in Seq(Datagram)
      BY DEF NetInv
    <3> QED BY <3>1, SMT
  <2>4. ASSUME NEW d \in Datagram
        PROVE  DOMAIN d = 1 .. Len(d) /\ Len(d) \in Nat /\ Len(d) <= m
    <3>1. d \in Seq(Packet) /\ Len(d) <= m
      BY <2>2 DEF Datagram
    <3> QED BY <3>1, SMT
  <2>5. \A i \in 1 .. Len(g) : Number(g[i]) = f + m * l + i
    BY <2>1, <2>2, <2>3 DEF Numbered
  <2>6. ASSUME NEW i \in DOMAIN g, NEW j \in DOMAIN g, Number(g[i]) = Number(g[j])
        PROVE  i = j
    <3>1. i \in Nat /\ j \in Nat
      BY <2>4, SMT
    <3>2. PICK b \in Nat : b = f + m * l
      BY SMT
    <3>3. b + i = b + j
      BY <2>4, <2>5, <2>6, <3>2
    <3> QED BY <3>1, <3>3, SMT
  <2>7. ASSUME NEW v, v \in Nums(g), v \in Numbers(sent)
        PROVE  FALSE
    <3>1. PICK j \in DOMAIN g : v = Number(g[j])
      BY <2>7, InNums
    <3>2. PICK k \in DOMAIN sent : v \in Nums(sent[k])
      BY <2>7, InNumbers
    <3>3. PICK i \in DOMAIN sent[k] : v = Number(sent[k][i])
      BY <3>2, InNums
    <3>4. /\ sent[k] \in Datagram /\ Numbered(sent[k], f + m * (k - 1))
      <4>1. sent \in Seq(Datagram) /\ k \in 1 .. Len(sent)
        BY <2>3 DEF NetInv
      <4>2. sent[k] \in Datagram
        BY <4>1, SMT
      <4> QED BY <2>1, <2>2, <4>1, <4>2 DEF NetInv
    <3>5. PICK y \in Nat : y = Len(sent[k]) /\ DOMAIN sent[k] = 1 .. y /\ y <= m
      BY <2>4, <3>4
    <3>6. v = f + m * (k - 1) + i
      BY <3>3, <3>4, <3>5 DEF Numbered
    <3>7. v = f + m * l + j
      BY <2>4, <2>5, <3>1
    <3>8. /\ k \in Nat \ {0} /\ k <= l /\ i \in Nat /\ i <= m /\ j \in Nat \ {0}
      <4>1. j \in 1 .. Len(g) /\ Len(g) \in Nat
        BY <2>4
      <4> QED BY <2>3, <3>5, <4>1, SMT
    <3> QED BY <3>6, <3>7, <3>8, <1>LaterNumbers
  <2> QED BY <2>6, <2>7 DEF Distinct

(* The peer sends: new numbers, at the end of the socket's queue.          *)
<1>PeerSendsExact.
    ASSUME NetInv, ExactInv, NEW d \in Shapes, PeerSends(d)
    PROVE  ExactInv'
  <2> USE <1>PeerSendsExact
  <2>1. PICK g \in Datagram :
          /\ sent' = Append(sent, g) /\ socket' = Append(socket, serialise_datagram(g))
          /\ Numbered(g, peer.first + MaxPackets * Len(sent))
    BY NewDatagram
  <2>2. /\ n' = n /\ pc' = pc /\ packets' = packets /\ channel' = channel /\ consumed' = consumed
        /\ conn_buff' = conn_buff /\ ack_buff' = ack_buff /\ close_buff' = close_buff
    BY DEF PeerSends, tasks, buffered
  <2>3. PICK b \in Seq(Nat) : /\ b = serialise_datagram(g)
                              /\ ReadBack(g, b, from_bytes_into(b))
    <3>1. g \in Seq(Packet) /\ g # <<>>
      BY DEF Datagram
    <3> QED BY <3>1, DatagramRead
  <2>4. Same(Arriving(b), g)
    <3>1. PICK r : r = from_bytes_into(b)
      OBVIOUS
    <3>2. ReadBack(g, b, r) /\ g \in Seq(Packet)
      BY <2>3, <3>1 DEF Datagram
    <3>3. Arriving(b) = r.packets
      BY <3>1, <3>2 DEF Arriving, ReadBack
    <3>4. /\ DOMAIN r.packets = 1 .. Len(g) /\ DOMAIN g = 1 .. Len(g)
          /\ \A i \in 1 .. Len(g) : r.packets[i].header = g[i].header
      <4>1. r.packets \in Seq(ParsedPacket) /\ Len(r.packets) = Len(g)
        BY <3>2 DEF ReadBack
      <4>2. DOMAIN r.packets = 1 .. Len(r.packets) /\ DOMAIN g = 1 .. Len(g)
        BY <3>2, <4>1, SMT
      <4> QED BY <3>2, <4>1, <4>2 DEF ReadBack
    <3> QED BY <3>3, <3>4 DEF Same, Number
  <2>5. Longer(socket', socket, b)
    <3>1. socket \in Seq(Seq(Nat))
      BY DEF NetInv
    <3>2. Longer(Append(socket, b), socket, b)
      BY <3>1, Appended
    <3> QED BY <2>1, <2>3, <3>2
  <2>6. PICK a \in Sites :
          /\ Wares[a] = <<>> /\ Wares'[a] = Arriving(b)
          /\ \A i \in Nat : <<"socket", i>> # a => Wares'[<<"socket", i>>] = Wares[<<"socket", i>>]
          /\ \E i \in Nat : a = <<"socket", i>>
    <3>1. /\ Len(socket) + 1 \in Nat /\ Wares[<<"socket", Len(socket) + 1>>] = <<>>
          /\ Wares'[<<"socket", Len(socket) + 1>>] = Arriving(b)
          /\ \A i \in Nat \ {Len(socket) + 1} : Wares'[<<"socket", i>>] = Wares[<<"socket", i>>]
      BY <2>2, <2>5, <1>QueueShown
    <3>2. <<"socket", Len(socket) + 1>> \in Sites
      BY <3>1, SMT DEF Sites, Kinds
    <3> QED BY <3>1, <3>2
  <2>7. ASSUME NEW x \in Sites \ {a}
        PROVE  Wares'[x] = Wares[x]
    <3>1. PICK i \in Nat : \/ x = <<"socket", i>> \/ x = <<"task", i>> \/ x = <<"channel", i>>
                           \/ x = <<"data", i>> \/ x = <<"ack", i>> \/ x = <<"close", i>>
      BY SiteCases
    <3>2. /\ Wares'[<<"task", i>>] = Wares[<<"task", i>>]
          /\ Wares'[<<"channel", i>>] = Wares[<<"channel", i>>]
          /\ Wares'[<<"data", i>>] = Wares[<<"data", i>>]
          /\ Wares'[<<"ack", i>>] = Wares[<<"ack", i>>]
          /\ Wares'[<<"close", i>>] = Wares[<<"close", i>>]
      BY <2>2, <1>SameShown
    <3> QED BY <2>6, <3>1, <3>2
  <2>8. Longer(sent', sent, g)
    <3>1. sent \in Seq(Datagram)
      BY DEF NetInv
    <3>2. Longer(Append(sent, g), sent, g)
      BY <3>1, Appended
    <3> QED BY <2>1, <3>2
  <2>9. Distinct(Wares'[a]) /\ \A v : v \in Nums(Wares'[a]) <=> v \in Nums(g)
    <3>1. Distinct(g)
      BY <2>1, <1>FreshNumbers
    <3> QED BY <2>4, <2>6, <3>1, SameNums
  <2>10. \A v : v \in Nums(Wares'[a]) => v \notin Numbers(sent)
    BY <2>1, <2>9, <1>FreshNumbers
  <2>11. ASSUME NEW v
         PROVE  v \in Numbers(sent') <=> v \in Numbers(sent) \/ v \in Nums(Wares'[a])
    <3>1. (\E k \in DOMAIN sent' : v \in Nums(sent'[k]))
            <=> (\E k \in DOMAIN sent : v \in Nums(sent[k])) \/ v \in Nums(g)
      <4>1. ASSUME NEW k \in DOMAIN sent', v \in Nums(sent'[k]), v \notin Nums(g)
            PROVE  \E j \in DOMAIN sent : v \in Nums(sent[j])
        BY <2>8, <4>1 DEF Longer
      <4>2. ASSUME NEW k \in DOMAIN sent, v \in Nums(sent[k])
            PROVE  \E j \in DOMAIN sent' : v \in Nums(sent'[j])
        BY <2>8, <4>2 DEF Longer
      <4>3. Len(sent') \in DOMAIN sent' /\ sent'[Len(sent')] = g
        BY <2>8 DEF Longer
      <4> QED BY <4>1, <4>2, <4>3
    <3> QED BY <2>9, <3>1, InNumbers
  <2>12. Exact(Wares, consumed, Numbers(sent))
    BY DEF ExactInv, SentNumbers, SentPackets, Numbers
  <2>13. Exact(Wares', consumed, Numbers(sent'))
    BY <2>6, <2>7, <2>9, <2>10, <2>11, <2>12, <1>ExactMore
  <2> QED BY <2>2, <2>13 DEF ExactInv, SentNumbers, SentPackets, Numbers

(* A task hands its packets to the channel.                                *)
<1>SendExact.
    ASSUME TypeInv, GoodInv, ExactInv, NEW t \in Tasks, t \in Nat, Send(t)
    PROVE  ExactInv'
  <2> USE <1>SendExact
  <2>1. /\ pc[t] = "send" /\ channel' = Append(channel, packets[t]) /\ sent' = sent /\ n' = n
        /\ conn_buff' = conn_buff /\ ack_buff' = ack_buff /\ close_buff' = close_buff
        /\ socket' = socket /\ consumed' = consumed
        /\ Turn(t, "acquire", buf[t], recycle[t], <<>>)
    BY Unturned DEF Send, Turn, network, buffered
  <2>2. Turned(t, "acquire", buf[t], recycle[t], <<>>) /\ "acquire" # "send"
    BY <2>1, TurnTurned, SMT
  <2>3. Longer(channel', channel, packets[t])
    <3>1. channel \in Seq(Seq(Slice)) /\ packets[t] \in Seq(Slice)
      BY <2>1 DEF GoodInv, Group, All
    <3>2. Longer(Append(channel, packets[t]), channel, packets[t])
      BY <3>1, Appended
    <3> QED BY <2>1, <3>2
  <2>4. PICK a \in Sites : a = <<"task", t>>
    <3>1. "task" \in Kinds
      BY DEF Kinds
    <3> QED BY <3>1, SiteIs
  <2>5. PICK b \in Sites :
          /\ Wares[b] = <<>> /\ Wares'[b] = packets[t]
          /\ \A i \in Nat : <<"channel", i>> # b =>
               Wares'[<<"channel", i>>] = Wares[<<"channel", i>>]
          /\ \E i \in Nat : b = <<"channel", i>>
    <3>1. /\ Len(channel) + 1 \in Nat /\ Wares[<<"channel", Len(channel) + 1>>] = <<>>
          /\ Wares'[<<"channel", Len(channel) + 1>>] = packets[t]
          /\ \A i \in Nat \ {Len(channel) + 1} : Wares'[<<"channel", i>>] = Wares[<<"channel", i>>]
      BY <2>1, <2>3, <1>QueueShown
    <3>2. <<"channel", Len(channel) + 1>> \in Sites
      BY <3>1, SMT DEF Sites, Kinds
    <3> QED BY <3>1, <3>2
  <2>6. a # b
    BY <2>4, <2>5, SMT
  <2>7. Wares[a] = packets[t] /\ Wares'[a] = <<>>
    <3>1. Wares[<<"task", t>>] = packets[t]
      BY <2>1, WaresNow DEF Shows
    <3>2. Wares'[<<"task", t>>] = <<>>
      BY <2>2, <1>WaresThen DEF Shows, Turned
    <3> QED BY <2>4, <3>1, <3>2
  <2>8. Mix(Wares'[b], Wares[b], Wares[a])
    <3>1. Same(packets[t], packets[t])
      BY DEF Same
    <3>2. Mix(packets[t], <<>>, packets[t])
      BY <3>1, <1>MixSame
    <3> QED BY <2>5, <2>7, <3>2
  <2>9. ASSUME NEW x \in Sites \ {a, b}
        PROVE  Wares'[x] = Wares[x]
    <3>1. PICK i \in Nat : \/ x = <<"socket", i>> \/ x = <<"task", i>> \/ x = <<"channel", i>>
                           \/ x = <<"data", i>> \/ x = <<"ack", i>> \/ x = <<"close", i>>
      BY SiteCases
    <3>2. /\ Wares'[<<"socket", i>>] = Wares[<<"socket", i>>]
          /\ Wares'[<<"data", i>>] = Wares[<<"data", i>>]
          /\ Wares'[<<"ack", i>>] = Wares[<<"ack", i>>]
          /\ Wares'[<<"close", i>>] = Wares[<<"close", i>>]
      BY <2>1, <1>SameShown
    <3>3. i # t => Wares'[<<"task", i>>] = Wares[<<"task", i>>]
      BY <2>1, <2>2, <1>SameShown DEF Turned
    <3> QED BY <2>4, <2>5, <3>1, <3>2, <3>3
  <2>10. Handed(Wares', Wares, a, b)
    BY <2>7, <2>8, <2>9 DEF Handed
  <2>11. Exact(Wares', consumed, SentNumbers)
    BY <2>6, <2>10, <1>ExactHanded DEF ExactInv
  <2>12. SentNumbers' = SentNumbers
    BY <2>1 DEF SentNumbers, SentPackets
  <2> QED BY <2>1, <2>11, <2>12 DEF ExactInv

(* buffer_in_packets adds to one of the three buffers.                     *)
<1>BufferedExact.
    ASSUME n' = n, NEW ps \in Seq(Slice), buffer_in_packets(ps),
           conn_buff \in Seq(Slice), ack_buff \in Seq(Slice), close_buff \in Seq(Slice)
    PROVE  \E l \in {"data", "ack", "close"} :
             /\ Mix(Wares'[<<l, 0>>], Wares[<<l, 0>>], ps)
             /\ \A k \in {"data", "ack", "close"} : \A i \in Nat :
                  <<k, i>> # <<l, 0>> => Wares'[<<k, i>>] = Wares[<<k, i>>]
  <2> USE <1>BufferedExact
  <2>1. PICK c \in {"data", "ack", "close"} : c = Class(ps[1].header.type_field)
    BY BufferedIn
  <2>2. /\ c = "data"  => /\ Extended(conn_buff', conn_buff, ps)
                          /\ ack_buff' = ack_buff /\ close_buff' = close_buff
        /\ c = "ack"   => /\ Extended(ack_buff', ack_buff, ps)
                          /\ conn_buff' = conn_buff /\ close_buff' = close_buff
        /\ c = "close" => /\ Extended(close_buff', close_buff, ps)
                          /\ conn_buff' = conn_buff /\ ack_buff' = ack_buff
    BY <2>1, BufferedIn
  <2>3. /\ Wares[<<"data", 0>>] = conn_buff /\ Wares[<<"ack", 0>>] = ack_buff
        /\ Wares[<<"close", 0>>] = close_buff /\ Wares'[<<"data", 0>>] = conn_buff'
        /\ Wares'[<<"ack", 0>>] = ack_buff'
        /\ Wares'[<<"close", 0>>] = close_buff'
    BY <1>SameShown
  <2>4. ASSUME NEW i \in Nat, i # 0
        PROVE  /\ Wares'[<<"data", i>>] = Wares[<<"data", i>>]
               /\ Wares'[<<"ack", i>>] = Wares[<<"ack", i>>]
               /\ Wares'[<<"close", i>>] = Wares[<<"close", i>>]
    <3>1. i \in Nat \ {0}
      BY <2>4, SMT
    <3> QED BY <3>1, <1>SameShown
  <2>5. CASE c = "data"
    <3>1. Mix(Wares'[<<"data", 0>>], Wares[<<"data", 0>>], ps)
      BY <2>2, <2>3, <2>5, <1>MixExtended
    <3>2. \A k \in {"data", "ack", "close"} : \A i \in Nat :
            <<k, i>> # <<"data", 0>> => Wares'[<<k, i>>] = Wares[<<k, i>>]
      BY <2>2, <2>3, <2>4, <2>5
    <3> QED BY <3>1, <3>2
  <2>6. CASE c = "ack"
    <3>1. Mix(Wares'[<<"ack", 0>>], Wares[<<"ack", 0>>], ps)
      BY <2>2, <2>3, <2>6, <1>MixExtended
    <3>2. \A k \in {"data", "ack", "close"} : \A i \in Nat :
            <<k, i>> # <<"ack", 0>> => Wares'[<<k, i>>] = Wares[<<k, i>>]
      BY <2>2, <2>3, <2>4, <2>6
    <3> QED BY <3>1, <3>2
  <2>7. CASE c = "close"
    <3>1. Mix(Wares'[<<"close", 0>>], Wares[<<"close", 0>>], ps)
      BY <2>2, <2>3, <2>7, <1>MixExtended
    <3>2. \A k \in {"data", "ack", "close"} : \A i \in Nat :
            <<k, i>> # <<"close", 0>> => Wares'[<<k, i>>] = Wares[<<k, i>>]
      BY <2>2, <2>3, <2>4, <2>7
    <3> QED BY <3>1, <3>2
  <2> QED BY <2>1, <2>5, <2>6, <2>7

(* The oldest group of the channel is buffered.                            *)
<1>RxRecvExact.
    ASSUME GoodInv, ExactInv, RxRecv
    PROVE  ExactInv'
  <2> USE <1>RxRecvExact
  <2>1. /\ n' = n /\ sent' = sent /\ consumed' = consumed /\ pc' = pc /\ packets' = packets
        /\ socket' = socket /\ Shorter(channel', channel, channel[1])
        /\ channel[1] \in Seq(Slice) /\ buffer_in_packets(channel[1])
        /\ conn_buff \in Seq(Slice) /\ ack_buff \in Seq(Slice) /\ close_buff \in Seq(Slice)
    BY RxRecvIs
  <2>2. /\ \A i \in Nat \ {0} : Wares'[<<"channel", i>>] = Wares[<<"channel", i + 1>>]
        /\ Wares'[<<"channel", 0>>] = <<>> /\ Wares[<<"channel", 0>>] = <<>>
        /\ Wares[<<"channel", 1>>] = channel[1]
    BY <2>1, <1>QueueShown
  <2>3. PICK l \in {"data", "ack", "close"} :
             /\ Mix(Wares'[<<l, 0>>], Wares[<<l, 0>>], channel[1])
             /\ \A k \in {"data", "ack", "close"} : \A i \in Nat :
                  <<k, i>> # <<l, 0>> => Wares'[<<k, i>>] = Wares[<<k, i>>]
    BY <2>1, <1>BufferedExact
  <2>4. /\ l \in Kinds /\ "channel" \in Kinds /\ l # "channel" /\ 0 \in Nat
        /\ \A k \in Kinds \ {"channel"} :
             k \in {"data", "ack", "close"} \/ k = "socket" \/ k = "task"
    BY SMT DEF Kinds
  <2>5. PICK a : a = <<l, 0>>
    OBVIOUS
  <2>6. \A i \in Nat : /\ Wares'[<<"socket", i>>] = Wares[<<"socket", i>>]
                       /\ Wares'[<<"task", i>>] = Wares[<<"task", i>>]
    BY <2>1, <1>SameShown
  <2>7. ASSUME NEW k \in Kinds \ {"channel"}, NEW i \in Nat, <<k, i>> # a
        PROVE  Wares'[<<k, i>>] = Wares[<<k, i>>]
    BY <2>3, <2>4, <2>5, <2>6, <2>7
  <2>8. Mix(Wares'[a], Wares[a], Wares[<<"channel", 1>>])
    BY <2>2, <2>3, <2>5
  <2>9. Drawn(Wares', Wares, "channel", a)
    BY <2>2, <2>7, <2>8 DEF Drawn
  <2>10. Exact(Wares', consumed, SentNumbers)
    <3>1. PICK q \in Kinds : q = "channel"
      BY <2>4
    <3>2. Drawn(Wares', Wares, q, a) /\ l # q
      BY <2>4, <2>9, <3>1
    <3> QED BY <2>4, <2>5, <3>2, <1>ExactDrawn DEF ExactInv
  <2>11. SentNumbers' = SentNumbers
    BY <2>1 DEF SentNumbers, SentPackets
  <2> QED BY <2>1, <2>10, <2>11 DEF ExactInv

(* The application takes a packet, which is then consumed.                 *)
<1>ConsumeExact.
    ASSUME GoodInv, ExactInv, NEW k \in DOMAIN conn_buff, Consume(k)
    PROVE  ExactInv'
  <2> USE <1>ConsumeExact
  <2>1. /\ n' = n /\ sent' = sent /\ socket' = socket /\ pc' = pc /\ packets' = packets
        /\ channel' = channel /\ ack_buff' = ack_buff /\ close_buff' = close_buff
        /\ consumed' = consumed \cup {Number(conn_buff[k])}
        /\ Removed(conn_buff', conn_buff, k) /\ k \in 1 .. Len(conn_buff)
    BY ConsumeIs
  <2>2. PICK a \in Sites : a = <<"data", 0>>
    <3>1. "data" \in Kinds
      BY DEF Kinds
    <3>2. 0 \in Nat
      OBVIOUS
    <3> QED BY <3>1, <3>2, SiteIs
  <2>3. Wares[a] = conn_buff /\ Wares'[a] = conn_buff'
    BY <2>1, <2>2, <1>SameShown
  <2>4. Distinct(conn_buff)
    BY <2>3 DEF ExactInv, Exact
  <2>5. /\ Distinct(Wares'[a]) /\ Number(conn_buff[k]) \in Nums(Wares[a])
        /\ \A v : v \in Nums(Wares'[a]) <=> v \in Nums(Wares[a]) /\ v # Number(conn_buff[k])
    <3>1. /\ Distinct(conn_buff') /\ Number(conn_buff[k]) \in Nums(conn_buff)
          /\ \A v : v \in Nums(conn_buff') <=> v \in Nums(conn_buff) /\ v # Number(conn_buff[k])
      BY <2>1, <2>4, <1>RemovedNums
    <3> QED BY <2>3, <3>1
  <2>6. ASSUME NEW x \in Sites \ {a}
        PROVE  Wares'[x] = Wares[x]
    <3>1. PICK i \in Nat : \/ x = <<"socket", i>> \/ x = <<"task", i>> \/ x = <<"channel", i>>
                           \/ x = <<"data", i>> \/ x = <<"ack", i>> \/ x = <<"close", i>>
      BY SiteCases
    <3>2. /\ Wares'[<<"socket", i>>] = Wares[<<"socket", i>>]
          /\ Wares'[<<"task", i>>] = Wares[<<"task", i>>]
          /\ Wares'[<<"channel", i>>] = Wares[<<"channel", i>>]
          /\ Wares'[<<"ack", i>>] = Wares[<<"ack", i>>]
          /\ Wares'[<<"close", i>>] = Wares[<<"close", i>>]
      BY <2>1, <1>SameShown
    <3>3. i # 0 => Wares'[<<"data", i>>] = Wares[<<"data", i>>]
      <4>1. i # 0 => i \in Nat \ {0}
        OBVIOUS
      <4> QED BY <2>1, <4>1, <1>SameShown
    <3>4. CASE x = <<"data", i>>
      <4>1. i # 0
        BY <2>2, <3>4
      <4> QED BY <3>3, <3>4, <4>1
    <3> QED BY <3>1, <3>2, <3>4
  <2>7. PICK w : w = Number(conn_buff[k])
    OBVIOUS
  <2>8. Exact(Wares', consumed \cup {w}, SentNumbers)
    BY <2>5, <2>6, <2>7, <1>ExactLess DEF ExactInv
  <2>9. SentNumbers' = SentNumbers
    BY <2>1 DEF SentNumbers, SentPackets
  <2> QED BY <2>1, <2>7, <2>8, <2>9 DEF ExactInv

(* Parsed packets and the slices made of them have the same numbers.       *)
<1>SlicesSame.
    ASSUME NEW b, NEW parsed
    PROVE  Same(Slices(b, parsed), parsed)
  <2>1. DOMAIN Slices(b, parsed) = DOMAIN parsed
    BY DEF Slices
  <2>2. ASSUME NEW i \in DOMAIN parsed
        PROVE  Slices(b, parsed)[i].header = parsed[i].header
    BY SMT DEF Slices
  <2> QED BY <2>1, <2>2 DEF Same, Number

(* A datagram leaves the socket: its packets go to the task or into a      *)
(* buffer.                                                                 *)
<1>RecvExact.
    ASSUME NetInv, TypeInv, GoodInv, Owned, ExactInv, NEW t \in Tasks, t \in Nat, Recv(t)
    PROVE  ExactInv'
  <2> USE <1>RecvExact
  <2>1. PICK result : result = from_bytes_into(Head(socket))
    OBVIOUS
  <2>2. PICK bytes \in Seq(Nat) : bytes = Head(socket) /\ Shorter(socket', socket, bytes)
    BY RecvTakes
  <2>3. n' = n /\ sent' = sent /\ pc[t] = "recv" /\ channel' = channel /\ consumed' = consumed
    BY <2>1, RecvIs, RecvTakes
  <2>4. /\ \A i \in Nat \ {0} : Wares'[<<"socket", i>>] = Wares[<<"socket", i + 1>>]
        /\ Wares'[<<"socket", 0>>] = <<>> /\ Wares[<<"socket", 0>>] = <<>>
        /\ Wares[<<"socket", 1>>] = Arriving(bytes)
    BY <2>2, <2>3, <1>QueueShown
  <2>5. \A i \in Nat : Wares'[<<"channel", i>>] = Wares[<<"channel", i>>]
    BY <2>3, <1>SameShown
  <2>6. /\ "socket" \in Kinds /\ "task" \in Kinds /\ "task" # "socket" /\ 0 \in Nat
        /\ "recv" # "send" /\ "acquire" # "send" /\ "ended" # "send"
        /\ \A k \in Kinds \ {"socket"} :
             k \in {"data", "ack", "close"} \/ k = "channel" \/ k = "task"
        /\ \A l \in {"data", "ack", "close"} : l \in Kinds /\ l # "socket"
    BY SMT DEF Kinds
  <2>7. Wares[<<"task", t>>] = <<>>
    BY <2>3, <2>6, WaresNow DEF Shows
  <2>8. ASSUME NEW l \in Kinds, l # "socket", NEW m \in Nat, NEW a, a = <<l, m>>,
               Drawn(Wares', Wares, "socket", a)
        PROVE  ExactInv'
    <3>1. PICK q \in Kinds : q = "socket"
      BY <2>6
    <3>2. Drawn(Wares', Wares, q, a) /\ l # q
      BY <2>8, <3>1
    <3>3. Exact(Wares', consumed, SentNumbers)
      BY <2>8, <3>2, <1>ExactDrawn DEF ExactInv
    <3>4. SentNumbers' = SentNumbers
      BY <2>3 DEF SentNumbers, SentPackets
    <3> QED BY <2>3, <3>3, <3>4 DEF ExactInv
  <2>9. ASSUME NEW c, NEW r, NEW ps, Turn(t, c, NoBuffer, r, ps)
        PROVE  \A i \in Nat : i # t => Wares'[<<"task", i>>] = Wares[<<"task", i>>]
    <3>1. Turned(t, c, NoBuffer, r, ps)
      BY <2>9, TurnTurned
    <3> QED BY <2>3, <3>1, <1>SameShown DEF Turned
  <2>10. ASSUME NEW c, NEW r, NEW ps, Turn(t, c, NoBuffer, r, ps), UNCHANGED buffered,
                Mix(Wares'[<<"task", t>>], <<>>, Arriving(bytes))
         PROVE  ExactInv'
    <3>1. PICK a : a = <<"task", t>>
      OBVIOUS
    <3>2. Mix(Wares'[a], Wares[a], Arriving(bytes))
      BY <2>7, <2>10, <3>1
    <3>3. \A i \in Nat : /\ Wares'[<<"data", i>>] = Wares[<<"data", i>>]
                         /\ Wares'[<<"ack", i>>] = Wares[<<"ack", i>>]
                         /\ Wares'[<<"close", i>>] = Wares[<<"close", i>>]
      BY <2>3, <2>10, <1>SameShown DEF buffered
    <3>4. ASSUME NEW k \in Kinds \ {"socket"}, NEW i \in Nat, <<k, i>> # a
          PROVE  Wares'[<<k, i>>] = Wares[<<k, i>>]
      <4>1. k = "data" \/ k = "ack" \/ k = "close" \/ k = "channel" \/ k = "task"
        BY <2>6
      <4>2. k = "task" => i # t
        BY <3>1, <3>4
      <4> QED BY <2>5, <2>9, <2>10, <3>3, <4>1, <4>2
    <3>5. Drawn(Wares', Wares, "socket", a)
      BY <2>4, <3>2, <3>4 DEF Drawn
    <3> QED BY <2>6, <2>8, <3>1, <3>5
  <2>11. ASSUME NEW k \in 1 .. Len(sent), ReadBack(sent[k], bytes, result)
         PROVE  Arriving(bytes) = result.packets
    BY <2>1, <2>2, <2>11 DEF ReadBack, Arriving
  <2>12. CASE /\ \E k \in 1 .. Len(sent) : ReadBack(sent[k], bytes, result)
              /\ UNCHANGED buffered
              /\ Turn(t, "send", NoBuffer, buf[t], Slices(buf[t], result.packets))
    <3>1. Turned(t, "send", NoBuffer, buf[t], Slices(buf[t], result.packets))
      BY <2>12, TurnTurned
    <3>2. Wares'[<<"task", t>>] = Slices(buf[t], result.packets)
      BY <3>1, <1>WaresThen DEF Shows, Turned
    <3>3. Mix(Slices(buf[t], result.packets), <<>>, result.packets)
      BY <1>SlicesSame, <1>MixSame
    <3>4. Mix(Wares'[<<"task", t>>], <<>>, Arriving(bytes))
      BY <2>11, <2>12, <3>2, <3>3
    <3> QED BY <2>10, <2>12, <3>4
  <2>13. ASSUME NEW c, NEW r, NEW ps, Turn(t, c, NoBuffer, r, ps), c # "send"
         PROVE  Wares'[<<"task", t>>] = <<>>
    <3>1. Turned(t, c, NoBuffer, r, ps)
      BY <2>13, TurnTurned
    <3> QED BY <2>13, <3>1, <1>WaresThen DEF Shows, Turned
  <2>14. CASE /\ \E k \in 1 .. Len(sent) : ReadBack(sent[k], bytes, result)
              /\ buffer_in_packets(Slices(buf[t], result.packets))
              /\ Turn(t, "acquire", NoBuffer, buf[t], <<>>)
    <3>1. PICK k \in 1 .. Len(sent) : ReadBack(sent[k], bytes, result)
      BY <2>14
    <3>2. /\ Slices(buf[t], result.packets) \in Seq(Slice)
          /\ conn_buff \in Seq(Slice) /\ ack_buff \in Seq(Slice) /\ close_buff \in Seq(Slice)
      <4>1. /\ buf[t] \in Buffers /\ memory' = [memory EXCEPT ![buf[t]] = bytes]
            /\ memory' \in [Buffers -> Seq(Nat)]
        BY <2>1, <2>2, RecvIs
      <4>2. memory'[buf[t]] = bytes
        <5>1. memory \in [Buffers -> Seq(Nat)]
          BY DEF TypeInv
        <5> QED BY <4>1, <5>1, SMT
      <4>3. Group(Slices(buf[t], result.packets), memory', SentPackets)
        BY <3>1, <4>1, <4>2, SlicesGood
      <4> QED BY <4>3 DEF Group, All, GoodInv
    <3>3. PICK l \in {"data", "ack", "close"} :
             /\ Mix(Wares'[<<l, 0>>], Wares[<<l, 0>>], Slices(buf[t], result.packets))
             /\ \A j \in {"data", "ack", "close"} : \A i \in Nat :
                  <<j, i>> # <<l, 0>> => Wares'[<<j, i>>] = Wares[<<j, i>>]
      BY <2>3, <2>14, <3>2, <1>BufferedExact
    <3>4. PICK a : a = <<l, 0>>
      OBVIOUS
    <3>5. Mix(Wares'[a], Wares[a], Arriving(bytes))
      <4>1. Mix(Wares'[a], Wares[a], Slices(buf[t], result.packets))
        BY <3>3, <3>4
      <4>2. Mix(Wares'[a], Wares[a], result.packets)
        BY <4>1, <1>SlicesSame, <1>MixOf
      <4> QED BY <2>11, <3>1, <4>2
    <3>6. Wares'[<<"task", t>>] = Wares[<<"task", t>>]
      BY <2>6, <2>7, <2>13, <2>14
    <3>7. ASSUME NEW j \in Kinds \ {"socket"}, NEW i \in Nat, <<j, i>> # a
          PROVE  Wares'[<<j, i>>] = Wares[<<j, i>>]
      <4>1. j \in {"data", "ack", "close"} \/ j = "channel" \/ j = "task"
        BY <2>6
      <4>2. Wares'[<<"task", i>>] = Wares[<<"task", i>>]
        BY <2>9, <2>14, <3>6
      <4> QED BY <2>5, <3>3, <3>4, <3>7, <4>1, <4>2
    <3>8. Drawn(Wares', Wares, "socket", a)
      BY <2>4, <3>5, <3>7 DEF Drawn
    <3> QED BY <2>6, <2>8, <3>4, <3>8
  <2>15. ASSUME NEW c, NEW r, NEW ps, Turn(t, c, NoBuffer, r, ps), c # "send",
                UNCHANGED buffered, result.outcome # "Ok"
         PROVE  ExactInv'
    <3>1. Arriving(bytes) = <<>>
      BY <2>1, <2>2, <2>15 DEF Arriving
    <3>2. Wares'[<<"task", t>>] = <<>>
      BY <2>13, <2>15
    <3>3. Mix(Wares'[<<"task", t>>], <<>>, Arriving(bytes))
      BY <3>1, <3>2, NoNums
    <3> QED BY <2>10, <2>15, <3>3
  <2>16. \/ /\ \E k \in 1 .. Len(sent) : ReadBack(sent[k], bytes, result)
            /\ UNCHANGED buffered
            /\ Turn(t, "send", NoBuffer, buf[t], Slices(buf[t], result.packets))
         \/ /\ \E k \in 1 .. Len(sent) : ReadBack(sent[k], bytes, result)
            /\ buffer_in_packets(Slices(buf[t], result.packets))
            /\ Turn(t, "acquire", NoBuffer, buf[t], <<>>)
         \/ /\ result.outcome # "Ok" /\ UNCHANGED buffered
            /\ \/ Turn(t, "ended", NoBuffer, NoBuffer, <<>>)
               \/ \E ps : Turn(t, "acquire", NoBuffer, buf[t], ps)
    BY <2>1, <2>2, RecvIs
  <2>17. CASE /\ result.outcome # "Ok" /\ UNCHANGED buffered
              /\ \/ Turn(t, "ended", NoBuffer, NoBuffer, <<>>)
                 \/ \E ps : Turn(t, "acquire", NoBuffer, buf[t], ps)
    BY <2>6, <2>15, <2>17
  <2> QED BY <2>12, <2>14, <2>16, <2>17

<1> SUFFICES ASSUME NetInv, TypeInv, GoodInv, Owned, ExactInv, [Next]_vars
             PROVE  ExactInv'
  OBVIOUS
<1>1. ASSUME n' = n, sent' = sent, socket' = socket, tasks' = tasks, channel' = channel,
             consumed' = consumed, UNCHANGED buffered
      PROVE  ExactInv'
  <2>1. pc' = pc /\ packets' = packets
    BY <1>1 DEF tasks
  <2>2. \A i \in Nat : Wares'[<<"socket", i>>] = Wares[<<"socket", i>>]
    BY <1>1, <1>SocketFrame
  <2> QED BY <1>1, <2>1, <2>2, <1>ExactFrame
<1>2. CASE \E d \in Shapes : PeerSends(d)
  BY <1>2, <1>PeerSendsExact
<1>3. CASE \E b \in Strays : StrayArrives(b)
  BY <1>3, <1>StrayArrivesExact
<1>4. ASSUME NEW t \in Tasks, TaskStep(t) \/ RecvError(t)
      PROVE  ExactInv'
  <2>0. /\ "recv" # "send" /\ "ended" # "send" /\ "acquire" # "send"
        /\ t \in Nat
    BY SMT DEF Tasks, NetInv
  <2>1. CASE Acquire(t)
    <3>1. \E b : Turn(t, "recv", b, NoBuffer, packets[t])
      BY <2>1, AcquireTurn
    <3>2. /\ pc[t] # "send" /\ channel' = channel /\ UNCHANGED buffered /\ sent' = sent
          /\ consumed' = consumed /\ socket' = socket
      BY <2>0, <2>1 DEF Acquire, network
    <3> QED BY <2>0, <3>1, <3>2, <1>TurnExact
  <2>2. CASE RecvError(t)
    <3>1. Turn(t, "ended", NoBuffer, NoBuffer, <<>>)
      BY <2>2 DEF RecvError, End, Turn, network
    <3>2. /\ pc[t] # "send" /\ channel' = channel /\ UNCHANGED buffered /\ sent' = sent
          /\ consumed' = consumed /\ socket' = socket
      BY <2>0, <2>2 DEF RecvError, network
    <3> QED BY <2>0, <3>1, <3>2, <1>TurnExact
  <2> QED BY <1>4, <2>0, <2>1, <2>2, <1>RecvExact, <1>SendExact DEF TaskStep
<1>5. CASE RxRecv
  BY <1>5, <1>RxRecvExact
<1>6. CASE RxSpins
  BY <1>1, <1>6 DEF RxSpins, network
<1>7. CASE \E i \in DOMAIN conn_buff : Consume(i)
  BY <1>7, <1>ConsumeExact
<1>8. CASE UNCHANGED vars
  BY <1>1, <1>8 DEF vars, network
<1> QED BY <1>2, <1>3, <1>4, <1>5, <1>6, <1>7, <1>8 DEF Next, RxStep

(* What the invariant says of the slots.                                   *)
LEMMA ExactImplies ==
  NetInv /\ GoodInv /\ ExactInv => NothingLostOrRepeated

(* Every place is a site.                                                  *)
<1>PlacesAreSites.
    ASSUME NetInv, GoodInv
    PROVE  Places \subseteq Sites
  <2> USE <1>PlacesAreSites
  <2>1. DOMAIN socket \subseteq Nat
    <3>1. socket \in Seq(Seq(Nat))
      BY DEF NetInv
    <3> QED BY <3>1, SMT
  <2>2. DOMAIN channel \subseteq Nat
    <3>1. channel \in Seq(Seq(Slice))
      BY DEF GoodInv
    <3> QED BY <3>1, SMT
  <2>3. Tasks \subseteq Nat
    BY SMT DEF NetInv, Tasks
  <2>4. ASSUME NEW K, K \subseteq Kinds, NEW I, I \subseteq Nat
        PROVE  K \X I \subseteq Sites
    <3>1. ASSUME NEW x \in K \X I
          PROVE  x \in Sites
      <4>1. PICK k \in K, i \in I : x = <<k, i>>
        BY SMT
      <4> QED BY <2>4, <4>1, SiteIs
    <3> QED BY <3>1
  <2>5. /\ {"socket"} \subseteq Kinds /\ {"task"} \subseteq Kinds /\ {"channel"} \subseteq Kinds
        /\ {"data", "ack", "close"} \subseteq Kinds /\ {0} \subseteq Nat
    BY SMT DEF Kinds
  <2>6. {"socket"} \X DOMAIN socket \subseteq Sites
    BY <2>1, <2>4, <2>5
  <2>7. {"task"} \X {t \in Tasks : pc[t] = "send"} \subseteq Sites
    <3>1. {t \in Tasks : pc[t] = "send"} \subseteq Nat
      BY <2>3
    <3> QED BY <2>4, <2>5, <3>1
  <2>8. {"channel"} \X DOMAIN channel \subseteq Sites
    BY <2>2, <2>4, <2>5
  <2>9. {"data", "ack", "close"} \X {0} \subseteq Sites
    BY <2>4, <2>5
  <2> QED BY <2>6, <2>7, <2>8, <2>9 DEF Places

<1> SUFFICES ASSUME NetInv, GoodInv, ExactInv
             PROVE  NothingLostOrRepeated
  OBVIOUS
<1> DEFINE numbers == [s \in Slots |-> Number(At(s[1])[s[2]])]
<1>1. ASSUME NEW s
      PROVE  s \in Slots <=> \E x \in Places : \E i \in DOMAIN At(x) : s = <<x, i>>
  BY SMT DEF Slots
<1>2. ASSUME NEW x \in Places
      PROVE  x \in Sites /\ Wares[x] = At(x)
  BY <1>PlacesAreSites DEF Wares
<1>3. ASSUME NEW x \in Places, NEW i \in DOMAIN At(x)
      PROVE  <<x, i>> \in Slots /\ numbers[<<x, i>>] = Number(At(x)[i])
  <2>1. <<x, i>> \in Slots
    BY <1>1
  <2> QED BY <2>1, SMT
<1>4. DOMAIN numbers = Slots
  OBVIOUS
<1> HIDE DEF numbers
<1>5. ASSUME NEW a \in Slots, NEW b \in Slots, numbers[a] = numbers[b]
      PROVE  a = b
  <2>1. PICK x \in Places : \E i \in DOMAIN At(x) : a = <<x, i>>
    BY <1>1
  <2>2. PICK i \in DOMAIN At(x) : a = <<x, i>>
    BY <2>1
  <2>3. PICK y \in Places : \E j \in DOMAIN At(y) : b = <<y, j>>
    BY <1>1
  <2>4. PICK j \in DOMAIN At(y) : b = <<y, j>>
    BY <2>3
  <2>5. Number(At(x)[i]) = Number(At(y)[j])
    BY <1>3, <1>5, <2>2, <2>4
  <2>6. PICK v : v = Number(At(x)[i]) /\ v = Number(At(y)[j])
    BY <2>5
  <2>7. v \in Nums(At(x)) /\ v \in Nums(At(y))
    BY <2>6, InNums
  <2>8. x = y
    BY <1>2, <2>7 DEF ExactInv, Exact
  <2>9. Distinct(At(x))
    BY <1>2 DEF ExactInv, Exact
  <2>10. i = j
    BY <2>5, <2>8, <2>9 DEF Distinct
  <2> QED BY <2>2, <2>4, <2>8, <2>10
<1>6. ASSUME NEW v
      PROVE  v \in Range(numbers) <=> \E x \in Sites : v \in Nums(Wares[x])
  <2>1. ASSUME v \in Range(numbers)
        PROVE  \E x \in Sites : v \in Nums(Wares[x])
    <3>1. PICK a \in Slots : v = numbers[a]
      BY <1>4, <2>1 DEF Range
    <3>2. PICK x \in Places : \E i \in DOMAIN At(x) : a = <<x, i>>
      BY <1>1
    <3>3. PICK i \in DOMAIN At(x) : a = <<x, i>>
      BY <3>2
    <3>4. v = Number(At(x)[i])
      BY <1>3, <3>1, <3>3
    <3>5. v \in Nums(At(x))
      BY <3>4, InNums
    <3> QED BY <1>2, <3>5
  <2>2. ASSUME NEW x \in Sites, v \in Nums(Wares[x])
        PROVE  v \in Range(numbers)
    <3>1. x \in Places
      BY <2>2, NoNums DEF Wares
    <3>2. PICK i \in DOMAIN At(x) : v = Number(At(x)[i])
      BY <1>2, <2>2, <3>1, InNums
    <3>3. <<x, i>> \in Slots /\ numbers[<<x, i>>] = v
      BY <1>3, <3>1, <3>2
    <3> QED BY <1>4, <3>3 DEF Range
  <2> QED BY <2>1, <2>2
<1>7. IsInjective(numbers)
  BY <1>4, <1>5 DEF IsInjective
<1>8. Range(numbers) \cap consumed = {}
  <2>1. \A v : ~(v \in Range(numbers) /\ v \in consumed)
    BY <1>6 DEF ExactInv, Exact
  <2> QED BY <2>1
<1>9. Range(numbers) \cup consumed = SentNumbers
  <2>1. \A v : v \in Range(numbers) \/ v \in consumed <=> v \in SentNumbers
    BY <1>6 DEF ExactInv, Exact
  <2> QED BY <2>1
<1> QED BY <1>7, <1>8, <1>9 DEF NothingLostOrRepeated, numbers, SentNumbers

-----------------------------------------------------------------------------
(* What is used of finite sets.                                            *)
Counting ==
  /\ IsFiniteSet({}) /\ Cardinality({}) = 0
  /\ \A k \in Nat : IsFiniteSet(1 .. k) /\ Cardinality(1 .. k) = k
  /\ \A S : \A T \in SUBSET S : IsFiniteSet(S) =>
       IsFiniteSet(T) /\ Cardinality(T) <= Cardinality(S)
  /\ \A S, T : \A f \in Injection(S, T) : IsFiniteSet(T) =>
       Cardinality(S) <= Cardinality(T)
  /\ \A S : IsFiniteSet(S) => Cardinality(S) \in Nat
  /\ \A S, x : IsFiniteSet(S) /\ x \notin S =>
       IsFiniteSet(S \cup {x}) /\ Cardinality(S \cup {x}) = Cardinality(S) + 1
  /\ \A S, x : IsFiniteSet(S) =>
       /\ IsFiniteSet(S \ {x})
       /\ Cardinality(S \ {x}) = IF x \in S THEN Cardinality(S) - 1 ELSE Cardinality(S)

(* How many tasks can have ended: every datagram in the socket that will   *)
(* end the task that receives it is one of the strays, and so is every one *)
(* that has ended a task, and every error of the socket.                   *)
Hits(s, B) == {i \in 1 .. Len(s) : s[i] \in B}

Events == {from_bytes_into(b).outcome : b \in Strays} \cup {"error"}

FatalEvents == {e \in Events : Fatal(e)}

Doomed ==
  {b \in Seq(Nat) : from_bytes_into(b).outcome # "Ok" /\ Fatal(from_bytes_into(b).outcome)}

EndInv ==
  /\ strays \in Seq(Events) /\ IsFiniteSet(Ended)
  /\ Cardinality(Ended) + Cardinality(Hits(socket, Doomed))
       <= Cardinality(Hits(strays, FatalEvents))
  /\ rx = "spinning" => Ended = Tasks

(* The count holds at the start, every step keeps it, and it is enough.    *)
LEMMA EndSteps ==
  Inductive /\ Counting =>
    /\ Init => EndInv
    /\ NetInv /\ TypeInv /\ EndInv /\ [Next]_vars => EndInv'
    /\ NetInv /\ EndInv => EndsOnlyByStrays
<1> SUFFICES ASSUME Inductive, Counting
             PROVE  /\ Init => EndInv
                    /\ NetInv /\ TypeInv /\ EndInv /\ [Next]_vars => EndInv'
                    /\ NetInv /\ EndInv => EndsOnlyByStrays
  OBVIOUS

(* The facts about finite sets, one by one.                                *)
<1>Empty. IsFiniteSet({}) /\ Cardinality({}) = 0
  BY DEF Counting
<1>Interval. \A k \in Nat : IsFiniteSet(1 .. k) /\ Cardinality(1 .. k) = k
  BY DEF Counting
<1>Subset. \A S : \A T \in SUBSET S : IsFiniteSet(S) =>
         IsFiniteSet(T) /\ Cardinality(T) <= Cardinality(S)
  BY DEF Counting
<1>Injection. \A S, T : \A f \in Injection(S, T) : IsFiniteSet(T) =>
         Cardinality(S) <= Cardinality(T)
  BY DEF Counting
<1>Count. \A S : IsFiniteSet(S) => Cardinality(S) \in Nat
  BY DEF Counting
<1>More. \A S, x : IsFiniteSet(S) /\ x \notin S =>
         IsFiniteSet(S \cup {x}) /\ Cardinality(S \cup {x}) = Cardinality(S) + 1
  BY DEF Counting
<1>Less. \A S, x : IsFiniteSet(S) =>
         /\ IsFiniteSet(S \ {x})
         /\ Cardinality(S \ {x}) = IF x \in S THEN Cardinality(S) - 1 ELSE Cardinality(S)
  BY DEF Counting

(* The hits of a sequence are finitely many, at most as many as elements.  *)
<1>HitsFinite.
    ASSUME NEW s, NEW B, Len(s) \in Nat
    PROVE  /\ IsFiniteSet(Hits(s, B)) /\ Cardinality(Hits(s, B)) \in Nat
           /\ Cardinality(Hits(s, B)) <= Len(s)
  <2> USE <1>HitsFinite
  <2>1. IsFiniteSet(1 .. Len(s)) /\ Cardinality(1 .. Len(s)) = Len(s)
    BY <1>Interval
  <2>2. Hits(s, B) \in SUBSET (1 .. Len(s))
    BY DEF Hits
  <2>3. IsFiniteSet(Hits(s, B)) /\ Cardinality(Hits(s, B)) <= Len(s)
    BY <2>1, <2>2, <1>Subset
  <2> QED BY <2>3, <1>Count

(* An element more that is a hit.                                          *)
<1>OneHitMore.
    ASSUME NEW s, NEW r, NEW e, NEW B, Longer(r, s, e), e \in B
    PROVE  Cardinality(Hits(r, B)) = Cardinality(Hits(s, B)) + 1
  <2> USE <1>OneHitMore
  <2>1. PICK l \in Nat : l = Len(s) /\ Len(r) = l + 1 /\ r[l + 1] = e
    BY DEF Longer
  <2>2. \A i \in 1 .. l : r[i] = s[i]
    BY <2>1 DEF Longer
  <2>3. IsFiniteSet(Hits(s, B)) /\ l + 1 \notin Hits(s, B)
    <3>1. l + 1 \notin 1 .. l
      BY SMT
    <3> QED BY <2>1, <3>1, <1>HitsFinite DEF Hits
  <2>4. \A i : i \in 1 .. l + 1 <=> i \in 1 .. l \/ i = l + 1
    BY SMT
  <2>5. Hits(r, B) = Hits(s, B) \cup {l + 1}
    BY <2>1, <2>2, <2>4 DEF Hits
  <2>6. Cardinality(Hits(s, B) \cup {l + 1}) = Cardinality(Hits(s, B)) + 1
    BY <2>3, <1>More
  <2> QED BY <2>5, <2>6

(* An element more that is none.                                           *)
<1>NoHitMore.
    ASSUME NEW s, NEW r, NEW e, NEW B, Longer(r, s, e), e \notin B
    PROVE  Cardinality(Hits(r, B)) = Cardinality(Hits(s, B))
  <2> USE <1>NoHitMore
  <2>1. PICK l \in Nat : l = Len(s) /\ Len(r) = l + 1 /\ r[l + 1] = e
    BY DEF Longer
  <2>2. \A i \in 1 .. l : r[i] = s[i]
    BY <2>1 DEF Longer
  <2>3. \A i : i \in 1 .. l + 1 <=> i \in 1 .. l \/ i = l + 1
    BY SMT
  <2>4. Hits(r, B) = Hits(s, B)
    BY <2>1, <2>2, <2>3 DEF Hits
  <2> QED BY <2>4

(* The first element gone.                                                 *)
<1>HitsShorter.
    ASSUME NEW s, NEW r, NEW e, NEW B, Shorter(r, s, e)
    PROVE  /\ Cardinality(Hits(r, B)) <= Cardinality(Hits(s, B))
           /\ e \in B => Cardinality(Hits(r, B)) + 1 <= Cardinality(Hits(s, B))
  <2> USE <1>HitsShorter
  <2>1. /\ Len(s) \in Nat /\ Len(r) \in Nat /\ s[1] = e /\ 1 \in 1 .. Len(s)
        /\ \A i \in 1 .. Len(r) : i \in Nat \ {0} /\ r[i] = s[i + 1] /\ i + 1 \in 1 .. Len(s)
    BY DEF Shorter
  <2>2. PICK H, R : H = Hits(s, B) /\ R = Hits(r, B)
    OBVIOUS
  <2>3. IsFiniteSet(H) /\ Cardinality(H) \in Nat /\ IsFiniteSet(R) /\ Cardinality(R) \in Nat
    BY <2>1, <2>2, <1>HitsFinite
  <2>4. /\ IsFiniteSet(H \ {1})
        /\ Cardinality(H \ {1}) = IF 1 \in H THEN Cardinality(H) - 1 ELSE Cardinality(H)
    BY <2>3, <1>Less
  <2>5. PICK f : f = [i \in R |-> i + 1]
    OBVIOUS
  <2>6. \A i \in R : i \in Nat \ {0} /\ i + 1 \in H
    BY <2>1, <2>2 DEF Hits
  <2>7. f \in Injection(R, H \ {1})
    <3>1. \A i \in R : i + 1 \in H \ {1}
      BY <2>6, SMTT(30)
    <3>2. f \in [R -> H \ {1}]
      BY <2>5, <3>1
    <3>3. \A i, j \in R : f[i] = f[j] => i = j
      BY <2>5, <2>6, SMTT(30)
    <3> QED BY <3>2, <3>3 DEF Injection, IsInjective
  <2>8. Cardinality(R) <= Cardinality(H \ {1})
    BY <2>4, <2>7, <1>Injection
  <2>9. e \in B => 1 \in H
    BY <2>1, <2>2 DEF Hits
  <2>10. Cardinality(R) <= Cardinality(H) /\ (e \in B => Cardinality(R) + 1 <= Cardinality(H))
    BY <2>3, <2>4, <2>8, <2>9, SMTT(30)
  <2> QED BY <2>2, <2>10

(* Nothing has ended at the start.                                         *)
<1>EndInit.
    Init => EndInv
  <2> SUFFICES ASSUME Init PROVE EndInv
    OBVIOUS
  <2>1. strays = <<>> /\ socket = <<>> /\ rx # "spinning" /\ \A t \in Tasks : pc[t] # "ended"
    BY DEF Init
  <2>2. Ended = {}
    BY <2>1 DEF Ended
  <2>3. <<>> \in Seq(Events) /\ Len(<<>>) = 0 /\ 1 .. 0 = {}
    BY SMT
  <2>4. Hits(socket, Doomed) = {} /\ Hits(strays, FatalEvents) = {}
    BY <2>1, <2>3 DEF Hits
  <2>5. Cardinality({}) + Cardinality({}) <= Cardinality({}) /\ IsFiniteSet({})
    BY <1>Empty, SMT
  <2> QED BY <2>1, <2>2, <2>3, <2>4, <2>5 DEF EndInv

(* A task more has ended, or none.                                         *)
<1>EndedBy.
    ASSUME NetInv, TypeInv, EndInv, NEW t \in Tasks, NEW c, NEW b, NEW r, NEW ps,
           Turn(t, c, b, r, ps), pc[t] # "ended"
    PROVE  /\ c # "ended" => Ended' = Ended
           /\ c = "ended" => /\ IsFiniteSet(Ended') /\ rx # "spinning"
                             /\ Cardinality(Ended') = Cardinality(Ended) + 1
  <2> USE <1>EndedBy
  <2>1. /\ Tasks' = Tasks /\ pc'[t] = c
        /\ \A u \in Tasks \ {t} : pc'[u] = pc[u]
    BY TurnIs
  <2>2. IsFiniteSet(Ended) /\ t \notin Ended /\ (rx = "spinning" => Ended = Tasks)
    BY DEF EndInv, Ended
  <2>3. ASSUME c # "ended"
        PROVE  Ended' = Ended
    BY <2>1, <2>2, <2>3 DEF Ended
  <2>4. ASSUME c = "ended"
        PROVE  Ended' = Ended \cup {t}
    BY <2>1, <2>2, <2>4 DEF Ended
  <2>5. /\ IsFiniteSet(Ended \cup {t})
        /\ Cardinality(Ended \cup {t}) = Cardinality(Ended) + 1
    BY <2>2, <1>More
  <2> QED BY <2>2, <2>3, <2>4, <2>5

(* The peer's datagrams end nobody.                                        *)
<1>PeerSendsEnd.
    ASSUME NetInv, EndInv, NEW d \in Shapes, PeerSends(d)
    PROVE  EndInv'
  <2> USE <1>PeerSendsEnd
  <2>1. PICK g \in Datagram : socket' = Append(socket, serialise_datagram(g))
    BY NewDatagram
  <2>2. PICK b : b = serialise_datagram(g) /\ b \in Seq(Nat) /\ from_bytes_into(b).outcome = "Ok"
    <3>1. g \in Seq(Packet) /\ g # <<>>
      BY DEF Datagram
    <3> QED BY <3>1, DatagramRead DEF ReadBack
  <2>3. Longer(socket', socket, b)
    <3>1. socket \in Seq(Seq(Nat))
      BY DEF NetInv
    <3>2. Longer(Append(socket, b), socket, b)
      BY <2>2, <3>1, Appended
    <3> QED BY <2>1, <2>2, <3>2
  <2>4. Cardinality(Hits(socket', Doomed)) = Cardinality(Hits(socket, Doomed))
    <3>1. b \notin Doomed
      BY <2>2 DEF Doomed
    <3> QED BY <2>3, <3>1, <1>NoHitMore, SMTT(30)
  <2>5. n' = n /\ pc' = pc /\ strays' = strays /\ rx' = rx
    BY DEF PeerSends, tasks
  <2>6. Ended' = Ended /\ Tasks' = Tasks /\ Doomed' = Doomed /\ FatalEvents' = FatalEvents
    BY <2>5 DEF Ended, Tasks, Doomed, FatalEvents, Fatal
  <2> QED BY <2>4, <2>5, <2>6 DEF EndInv

(* A stray datagram that is to end a task is counted when it arrives.      *)
<1>StrayArrivesEnd.
    ASSUME NetInv, EndInv, NEW b \in Strays, StrayArrives(b)
    PROVE  EndInv'
  <2> USE <1>StrayArrivesEnd
  <2>1. PICK e : e = from_bytes_into(b).outcome
    OBVIOUS
  <2>2. /\ n' = n /\ pc' = pc /\ rx' = rx
        /\ socket' = Append(socket, b) /\ strays' = Append(strays, e)
    BY <2>1 DEF StrayArrives, tasks
  <2>3. b \in Seq(Nat) /\ e # "Ok" /\ e \in Events
    BY <2>1, ReaderAssumption DEF Events
  <2>4. socket \in Seq(Seq(Nat)) /\ strays \in Seq(Events)
    BY DEF NetInv, EndInv
  <2>5. Longer(socket', socket, b) /\ Longer(strays', strays, e) /\ strays' \in Seq(Events)
    <3>1. Longer(Append(socket, b), socket, b)
      BY <2>3, <2>4, Appended
    <3>2. Longer(Append(strays, e), strays, e) /\ Append(strays, e) \in Seq(Events)
      BY <2>3, <2>4, Appended
    <3> QED BY <2>2, <3>1, <3>2
  <2>6. b \in Doomed <=> e \in FatalEvents
    BY <2>1, <2>3 DEF Doomed, FatalEvents
  <2>7. PICK x, y, z : /\ x = Cardinality(Ended) /\ y = Cardinality(Hits(socket, Doomed))
                       /\ z = Cardinality(Hits(strays, FatalEvents))
    OBVIOUS
  <2>8. x \in Nat /\ y \in Nat /\ z \in Nat /\ x + y <= z
    <3>1. Len(socket) \in Nat /\ Len(strays) \in Nat
      BY <2>5 DEF Longer
    <3>2. x \in Nat /\ y \in Nat /\ z \in Nat
      BY <2>7, <3>1, <1>HitsFinite, <1>Count DEF EndInv
    <3> QED BY <2>7, <3>2 DEF EndInv
  <2>9. Cardinality(Ended) + Cardinality(Hits(socket', Doomed))
          <= Cardinality(Hits(strays', FatalEvents))
    <3>1. CASE b \in Doomed
      <4>1. /\ Cardinality(Hits(socket', Doomed)) = y + 1
            /\ Cardinality(Hits(strays', FatalEvents)) = z + 1
        BY <2>5, <2>6, <2>7, <3>1, <1>OneHitMore
      <4>2. x + (y + 1) <= z + 1
        BY <2>8, SMT
      <4> QED BY <2>7, <4>1, <4>2
    <3>2. CASE b \notin Doomed
      <4>1. /\ Cardinality(Hits(socket', Doomed)) = Cardinality(Hits(socket, Doomed))
            /\ Cardinality(Hits(strays', FatalEvents)) = Cardinality(Hits(strays, FatalEvents))
        BY <2>5, <2>6, <3>2, <1>NoHitMore, SMT
      <4> QED BY <4>1 DEF EndInv
    <3> QED BY <3>1, <3>2, SMTT(30)
  <2>10. Ended' = Ended /\ Tasks' = Tasks /\ Doomed' = Doomed /\ FatalEvents' = FatalEvents
    BY <2>2 DEF Ended, Tasks, Doomed, FatalEvents, Fatal
  <2> QED BY <2>2, <2>5, <2>9, <2>10 DEF EndInv

(* A task ends by a datagram that no longer is in the socket.              *)
<1>RecvEnd.
    ASSUME NetInv, TypeInv, EndInv, NEW t \in Tasks, Recv(t)
    PROVE  EndInv'
  <2> USE <1>RecvEnd
  <2>1. PICK result : result = from_bytes_into(Head(socket))
    OBVIOUS
  <2>2. /\ pc[t] = "recv" /\ n' = n /\ strays' = strays /\ rx' = rx
        /\ \E c, r, ps : /\ Turn(t, c, NoBuffer, r, ps)
                         /\ c = "ended" => result.outcome # "Ok" /\ Fatal(result.outcome)
    <3>1. "send" # "ended" /\ "acquire" # "ended"
      OBVIOUS
    <3>2. pc[t] = "recv" /\ n' = n /\ strays' = strays /\ rx' = rx
      BY <2>1, RecvIs
    <3>3. \/ Turn(t, "send", NoBuffer, buf[t], Slices(buf[t], result.packets))
          \/ \E ps : Turn(t, "acquire", NoBuffer, buf[t], ps)
          \/ /\ Turn(t, "ended", NoBuffer, NoBuffer, <<>>)
             /\ result.outcome # "Ok" /\ Fatal(result.outcome)
      BY <2>1, RecvIs
    <3> QED BY <3>1, <3>2, <3>3
  <2>3. PICK c, r, ps : /\ Turn(t, c, NoBuffer, r, ps)
                        /\ c = "ended" => result.outcome # "Ok" /\ Fatal(result.outcome)
    BY <2>2
  <2>4. Shorter(socket', socket, Head(socket)) /\ Head(socket) \in Seq(Nat)
    BY RecvTakes
  <2>5. PICK w, x, y, z : /\ x = Cardinality(Ended) /\ y = Cardinality(Hits(socket, Doomed))
                          /\ z = Cardinality(Hits(strays, FatalEvents))
                          /\ w = Cardinality(Hits(socket', Doomed))
    OBVIOUS
  <2>6. w \in Nat /\ x \in Nat /\ y \in Nat /\ z \in Nat /\ x + y <= z
    <3>1. Len(socket) \in Nat /\ Len(socket') \in Nat
      BY <2>4, SMT DEF Shorter
    <3>2. Len(strays) \in Nat
      BY LengthOf DEF EndInv
    <3>3. w \in Nat /\ y \in Nat /\ z \in Nat
      BY <2>5, <3>1, <3>2, <1>HitsFinite
    <3>4. x \in Nat
      BY <2>5, <1>Count DEF EndInv
    <3> QED BY <2>5, <3>3, <3>4 DEF EndInv
  <2>7. w <= y /\ (Head(socket) \in Doomed => w + 1 <= y)
    BY <2>4, <2>5, <1>HitsShorter
  <2>8. Tasks' = Tasks /\ Doomed' = Doomed /\ FatalEvents' = FatalEvents
    BY <2>2 DEF Tasks, Doomed, FatalEvents, Fatal
  <2>9. CASE c = "ended"
    <3>1. Head(socket) \in Doomed
      BY <2>1, <2>3, <2>4, <2>9 DEF Doomed
    <3>2. IsFiniteSet(Ended') /\ rx # "spinning" /\ Cardinality(Ended') = x + 1
      BY <2>2, <2>3, <2>5, <2>9, <1>EndedBy
    <3>3. (x + 1) + w <= z
      BY <2>6, <2>7, <3>1, SMT
    <3> QED BY <2>2, <2>5, <2>8, <3>2, <3>3 DEF EndInv
  <2>10. CASE c # "ended"
    <3>1. Ended' = Ended
      BY <2>2, <2>3, <2>10, <1>EndedBy
    <3>2. x + w <= z
      BY <2>6, <2>7, SMT
    <3> QED BY <2>2, <2>5, <2>8, <3>1, <3>2 DEF EndInv
  <2> QED BY <2>9, <2>10, SMT

(* An error of the socket ends one task.                                   *)
<1>RecvErrorEnd.
    ASSUME NetInv, TypeInv, EndInv, NEW t \in Tasks, RecvError(t)
    PROVE  EndInv'
  <2> USE <1>RecvErrorEnd
  <2>1. /\ n' = n /\ socket' = socket /\ rx' = rx /\ pc[t] = "recv"
        /\ strays' = Append(strays, "error") /\ Turn(t, "ended", NoBuffer, NoBuffer, <<>>)
    BY DEF RecvError, End, Turn, network
  <2>2. "error" \in Events /\ "error" \in FatalEvents /\ strays \in Seq(Events)
    BY DEF Events, FatalEvents, Fatal, EndInv
  <2>3. Longer(strays', strays, "error") /\ strays' \in Seq(Events)
    <3>1. /\ Longer(Append(strays, "error"), strays, "error")
          /\ Append(strays, "error") \in Seq(Events)
      BY <2>2, Appended
    <3> QED BY <2>1, <3>1
  <2>4. PICK x, y, z : /\ x = Cardinality(Ended) /\ y = Cardinality(Hits(socket, Doomed))
                       /\ z = Cardinality(Hits(strays, FatalEvents))
    OBVIOUS
  <2>5. x \in Nat /\ y \in Nat /\ z \in Nat /\ x + y <= z
    <3>1. Len(strays) \in Nat /\ Len(socket) \in Nat
      BY <2>3, LengthOf DEF NetInv, Longer
    <3>2. y \in Nat /\ z \in Nat
      BY <2>4, <3>1, <1>HitsFinite
    <3>3. x \in Nat
      BY <2>4, <1>Count DEF EndInv
    <3> QED BY <2>4, <3>2, <3>3 DEF EndInv
  <2>6. Cardinality(Hits(strays', FatalEvents)) = z + 1
    BY <2>2, <2>3, <2>4, <1>OneHitMore
  <2>7. IsFiniteSet(Ended') /\ rx # "spinning" /\ Cardinality(Ended') = x + 1
    <3>1. "recv" # "ended"
      OBVIOUS
    <3> QED BY <2>1, <2>4, <3>1, <1>EndedBy
  <2>8. (x + 1) + y <= z + 1
    BY <2>5, SMT
  <2>9. Tasks' = Tasks /\ Doomed' = Doomed /\ FatalEvents' = FatalEvents
    BY <2>1 DEF Tasks, Doomed, FatalEvents, Fatal
  <2> QED BY <2>1, <2>3, <2>4, <2>6, <2>7, <2>8, <2>9 DEF EndInv

(* Every step keeps the count.                                             *)
<1>EndKept.
    ASSUME NetInv, TypeInv, EndInv, [Next]_vars
    PROVE  EndInv'
  <2> USE <1>EndKept
  <2>1. ASSUME n' = n, socket' = socket, strays' = strays, rx' = rx, Ended' = Ended
        PROVE  EndInv'
    <3>1. Tasks' = Tasks /\ Doomed' = Doomed /\ FatalEvents' = FatalEvents
      BY <2>1 DEF Tasks, Doomed, FatalEvents, Fatal
    <3> QED BY <2>1, <3>1 DEF EndInv
  <2>2. ASSUME n' = n, pc' = pc
        PROVE  Ended' = Ended /\ Tasks' = Tasks
    BY <2>2 DEF Ended, Tasks
  <2>3. CASE \E d \in Shapes : PeerSends(d)
    BY <2>3, <1>PeerSendsEnd
  <2>4. CASE \E b \in Strays : StrayArrives(b)
    BY <2>4, <1>StrayArrivesEnd
  <2>5. ASSUME NEW t \in Tasks, TaskStep(t) \/ RecvError(t)
        PROVE  EndInv'
    <3>0. "acquire" # "ended" /\ "recv" # "ended" /\ "send" # "ended"
      OBVIOUS
    <3>1. CASE Acquire(t)
      <4>1. PICK b : Turn(t, "recv", b, NoBuffer, packets[t])
        BY <3>1, AcquireTurn
      <4>2. /\ pc[t] = "acquire" /\ n' = n /\ socket' = socket /\ strays' = strays /\ rx' = rx
        BY <3>1 DEF Acquire, network
      <4>3. Ended' = Ended
        BY <3>0, <4>1, <4>2, <1>EndedBy
      <4> QED BY <2>1, <4>2, <4>3
    <3>2. CASE Recv(t)
      BY <3>2, <1>RecvEnd
    <3>3. CASE Send(t)
      <4>1. Turn(t, "acquire", buf[t], recycle[t], <<>>)
        BY <3>3, Unturned DEF Send, Turn, network
      <4>2. /\ pc[t] = "send" /\ n' = n /\ socket' = socket /\ strays' = strays /\ rx' = rx
        BY <3>3 DEF Send, network
      <4>3. Ended' = Ended
        BY <3>0, <4>1, <4>2, <1>EndedBy
      <4> QED BY <2>1, <4>2, <4>3
    <3>4. CASE RecvError(t)
      BY <3>4, <1>RecvErrorEnd
    <3> QED BY <2>5, <3>1, <3>2, <3>3, <3>4 DEF TaskStep
  <2>6. CASE RxRecv
    BY <2>1, <2>2, <2>6 DEF RxRecv, network, tasks
  <2>7. CASE RxSpins
    <3>1. n' = n /\ socket' = socket /\ strays' = strays /\ pc' = pc
      BY <2>7 DEF RxSpins, network, tasks
    <3>2. \A t \in Tasks : pc[t] = "ended"
      BY <2>7 DEF RxSpins
    <3>3. Ended = Tasks
      BY <3>2 DEF Ended
    <3>4. Ended' = Ended /\ Tasks' = Tasks
      BY <2>2, <3>1
    <3>5. Doomed' = Doomed /\ FatalEvents' = FatalEvents
      BY <3>1 DEF Doomed, FatalEvents, Fatal
    <3> QED BY <3>1, <3>3, <3>4, <3>5 DEF EndInv
  <2>8. CASE \E i \in DOMAIN conn_buff : Consume(i)
    BY <2>1, <2>2, <2>8 DEF Consume, network, tasks
  <2>9. CASE UNCHANGED vars
    BY <2>1, <2>2, <2>9 DEF vars, network, tasks
  <2> QED BY <2>3, <2>4, <2>5, <2>6, <2>7, <2>8, <2>9 DEF Next, RxStep

(* The count bounds the ended tasks, and spinning needs n of them.         *)
<1>EndImplies.
    ASSUME NetInv, EndInv
    PROVE  EndsOnlyByStrays
  <2> USE <1>EndImplies
  <2>1. Len(strays) \in Nat /\ DOMAIN strays = 1 .. Len(strays)
    BY LengthOf DEF EndInv
  <2>2. \A i \in 1 .. Len(strays) : strays[i] \in Events
    BY ItemOf DEF EndInv
  <2>3. {i \in DOMAIN strays : Fatal(strays[i])} = Hits(strays, FatalEvents)
    BY <2>1, <2>2 DEF Hits, FatalEvents
  <2>4. PICK x, y, z : /\ x = Cardinality(Ended) /\ y = Cardinality(Hits(socket, Doomed))
                       /\ z = Cardinality(Hits(strays, FatalEvents))
    OBVIOUS
  <2>5. x \in Nat /\ y \in Nat /\ z \in Nat /\ x + y <= z /\ z <= Len(strays)
    <3>1. Len(socket) \in Nat
      BY LengthOf DEF NetInv
    <3>2. y \in Nat /\ z \in Nat /\ z <= Len(strays)
      BY <2>1, <2>4, <3>1, <1>HitsFinite
    <3>3. x \in Nat
      BY <2>4, <1>Count DEF EndInv
    <3> QED BY <2>4, <3>2, <3>3 DEF EndInv
  <2>6. x <= z /\ x <= Len(strays)
    BY <2>1, <2>5, SMT
  <2>7. ASSUME rx = "spinning"
        PROVE  Len(strays) >= n
    <3>1. Ended = 1 .. n
      BY <2>7 DEF EndInv, Tasks
    <3>2. Cardinality(1 .. n) = n
      BY <1>Interval, SMT DEF NetInv
    <3>3. x = n
      BY <2>4, <3>1, <3>2
    <3> QED BY <2>1, <2>6, <3>3, SMT DEF NetInv
  <2> QED BY <2>3, <2>4, <2>6, <2>7 DEF EndsOnlyByStrays

<1> QED BY <1>EndInit, <1>EndKept, <1>EndImplies

-----------------------------------------------------------------------------
\* The theorems about well-founded orders and finite sets.

Library == INSTANCE FiniteSetTheorems

(* A set of naturals that is not empty has a smallest element.             *)
LEMMA SmallestOf ==
  ASSUME NEW T \in SUBSET Nat, T # {}
  PROVE  \E x \in T : \A y \in T : x <= y
<1>1. PICK x \in T : \A y \in T : ~(<<y, x>> \in Library!OpToRel(<, Nat))
  BY Library!NatLessThanWellFounded, Library!WFMin
<1>2. ASSUME NEW y \in T
      PROVE  x <= y
  <2>1. ~(<<y, x>> \in {ss \in Nat \X Nat : ss[1] < ss[2]})
    BY <1>1, SMT DEF Library!OpToRel
  <2> QED BY <2>1, SMT
<1> QED BY <1>2

(* So there is induction.                                                  *)
LEMMA InductiveHolds ==
  Inductive
<1> SUFFICES ASSUME NEW T \in SUBSET Nat, 0 \in T, \A k \in T : k + 1 \in T, Nat \ T # {}
             PROVE  FALSE
  BY DEF Inductive
<1>1. PICK x \in Nat \ T : \A y \in Nat \ T : x <= y
  BY SmallestOf
<1>2. x - 1 \in Nat /\ ~(x <= x - 1) /\ x = (x - 1) + 1
  BY <1>1, SMT
<1>3. x - 1 \in T
  BY <1>1, <1>2
<1> QED BY <1>1, <1>2, <1>3

(* The instance's finite sets are the ones of the specification.           *)
LEMMA SameFinite ==
  ASSUME NEW S
  PROVE  IsFiniteSet(S) = Library!IsFiniteSet(S)
BY DEF IsFiniteSet, Library!IsFiniteSet

(* And so is the number of their elements.                                 *)
LEMMA SameCardinality ==
  ASSUME NEW S
  PROVE  Cardinality(S) = Library!Cardinality(S)
BY DEF Cardinality, Library!Cardinality, IsFiniteSet, Library!IsFiniteSet

(* A finite set has a number of elements, and a subset at most as many.    *)
LEMMA FiniteSubset ==
  ASSUME NEW S, IsFiniteSet(S)
  PROVE  /\ Cardinality(S) \in Nat
         /\ \A T \in SUBSET S : IsFiniteSet(T) /\ Cardinality(T) <= Cardinality(S)
<1>1. Library!IsFiniteSet(S)
  BY SameFinite
<1>2. Library!Cardinality(S) \in Nat
  BY <1>1, Library!FS_CardinalityType
<1>3. ASSUME NEW T \in SUBSET S
      PROVE  Library!IsFiniteSet(T) /\ Library!Cardinality(T) <= Library!Cardinality(S)
  BY <1>1, Library!FS_Subset
<1> QED BY <1>2, <1>3, SameFinite, SameCardinality

(* A set into which another one goes one to one is not the smaller.        *)
LEMMA FiniteInjection ==
  ASSUME NEW S, NEW T, NEW f \in Injection(S, T), IsFiniteSet(T)
  PROVE  Cardinality(S) <= Cardinality(T)
<1>1. Library!IsFiniteSet(T) /\ f \in Library!Injection(S, T)
  BY SameFinite DEF Injection, IsInjective, Library!Injection, Library!IsInjective
<1>2. Library!Cardinality(S) <= Library!Cardinality(T)
  BY <1>1, Library!FS_Injection
<1> QED BY <1>2, SameCardinality

(* The empty set has no elements.                                          *)
LEMMA FiniteEmpty ==
  IsFiniteSet({}) /\ Cardinality({}) = 0
BY Library!FS_EmptySet, SameFinite, SameCardinality

(* An element more.                                                        *)
LEMMA FiniteMore ==
  ASSUME NEW S, NEW x, IsFiniteSet(S), x \notin S
  PROVE  IsFiniteSet(S \cup {x}) /\ Cardinality(S \cup {x}) = Cardinality(S) + 1
<1>1. Library!IsFiniteSet(S)
  BY SameFinite
<1>2. /\ Library!IsFiniteSet(S \cup {x})
      /\ Library!Cardinality(S \cup {x}) = Library!Cardinality(S) + 1
  BY <1>1, Library!FS_AddElement
<1> QED BY <1>2, SameFinite, SameCardinality

(* An element less.                                                        *)
LEMMA FiniteLess ==
  ASSUME NEW S, NEW x, IsFiniteSet(S)
  PROVE  /\ IsFiniteSet(S \ {x})
         /\ Cardinality(S \ {x}) = IF x \in S THEN Cardinality(S) - 1 ELSE Cardinality(S)
<1>1. Library!IsFiniteSet(S)
  BY SameFinite
<1>2. /\ Library!IsFiniteSet(S \ {x})
      /\ Library!Cardinality(S \ {x})
           = IF x \in S THEN Library!Cardinality(S) - 1 ELSE Library!Cardinality(S)
  BY <1>1, Library!FS_RemoveElement
<1> QED BY <1>2, SameFinite, SameCardinality

(* The first k numbers are k.                                              *)
LEMMA FiniteInterval ==
  ASSUME NEW k \in Nat
  PROVE  IsFiniteSet(1 .. k) /\ Cardinality(1 .. k) = k
<1>1. 1 \in Int /\ k \in Int
  BY SMT
<1>2. Library!IsFiniteSet(1 .. k) /\ Library!Cardinality(1 .. k) = k
  BY <1>1, Library!FS_Interval, SMTT(30)
<1> QED BY <1>2, SameFinite, SameCardinality

(* The library gives what is used of finite sets.                          *)
LEMMA CountingHolds ==
  Counting
BY FiniteEmpty, FiniteInterval, FiniteSubset, FiniteInjection, FiniteMore, FiniteLess DEF Counting

-----------------------------------------------------------------------------
(* BluefinPacket::from_bytes_into undoes serialise_into: a datagram of any *)
(* number of packets of any types and sizes is read without error, as the  *)
(* packets that were written, each payload a slice of the datagram.        *)
THEOREM DatagramRoundTrip ==
  ASSUME NEW ps \in Seq(Packet), ps # <<>>
  PROVE  /\ serialise_datagram(ps) \in Seq(Nat)
         /\ ReadBack(ps, serialise_datagram(ps), from_bytes_into(serialise_datagram(ps)))
BY InductiveHolds, DatagramRead

(* Every receive task that has ended was ended by a datagram or a socket   *)
(* error of its own, whatever the number of tasks, datagrams and errors,   *)
(* and the buffering task spins only after n of them (worker/              *)
(* conn_reader.rs, tx_impl, recv_and_buffer_inline and rx_impl).           *)
THEOREM EndsOnlyByStraysHolds ==
  Spec => []EndsOnlyByStrays
<1>1. Init => NetInv /\ TypeInv /\ EndInv
  BY NetInit, TypeInit, InductiveHolds, CountingHolds, EndSteps
<1>2. NetInv /\ TypeInv /\ EndInv /\ [Next]_vars => (NetInv /\ TypeInv /\ EndInv)'
  BY NetKept, TypeKept, InductiveHolds, CountingHolds, EndSteps
<1>3. NetInv /\ TypeInv /\ EndInv => EndsOnlyByStrays
  BY InductiveHolds, CountingHolds, EndSteps
<1> QED BY <1>1, <1>2, <1>3, PTL DEF Spec

(* Whatever the number of tasks and buffers, the shapes of the datagrams   *)
(* and the bounds: a packet in a task's hands, in the channel or in a      *)
(* buffer is one the peer sent, header and payload, although the buffers   *)
(* its payload lies in are received into again, and it is in the buffer of *)
(* its type (worker/conn_reader.rs, tx_impl, rx_impl, buffer_in_packets).  *)
THEOREM BufferedAsSentHolds ==
  Spec => []BufferedAsSent
<1>1. Init => NetInv /\ TypeInv /\ GoodInv /\ Owned
  BY NetInit, TypeInit, GoodInit, OwnedInit
<1>2. NetInv /\ TypeInv /\ GoodInv /\ Owned /\ [Next]_vars
        => (NetInv /\ TypeInv /\ GoodInv /\ Owned)'
  BY InductiveHolds, NetKept, TypeKept, GoodKept, OwnedKept
<1>3. GoodInv => BufferedAsSent
  BY GoodImplies
<1> QED BY <1>1, <1>2, <1>3, PTL DEF Spec

(* Whatever the number of tasks, the shapes and the bounds, and whichever  *)
(* tasks end in between: the number of every packet the peer has sent is   *)
(* in exactly one place, once, or the application has consumed it          *)
(* (worker/conn_reader.rs, tx_impl, rx_impl, recv_and_buffer_inline).      *)
THEOREM NothingLostOrRepeatedHolds ==
  Spec => []NothingLostOrRepeated
<1>1. Init => NetInv /\ TypeInv /\ GoodInv /\ Owned /\ ExactInv
  BY NetInit, TypeInit, GoodInit, OwnedInit, ExactInit
<1>2. NetInv /\ TypeInv /\ GoodInv /\ Owned /\ ExactInv /\ [Next]_vars
        => (NetInv /\ TypeInv /\ GoodInv /\ Owned /\ ExactInv)'
  BY InductiveHolds, NetKept, TypeKept, GoodKept, OwnedKept, ExactKept
<1>3. NetInv /\ GoodInv /\ ExactInv => NothingLostOrRepeated
  BY ExactImplies
<1> QED BY <1>1, <1>2, <1>3, PTL DEF Spec
=============================================================================
