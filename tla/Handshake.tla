----------------------------- MODULE Handshake ------------------------------
(***************************************************************************)
(* Connection establishment: BluefinServer::accept (net/server.rs) and     *)
(* BluefinClient::connect (net/client.rs), the reader of a listening       *)
(* socket (ReaderTxChannel, worker/reader.rs) that routes or queues        *)
(* hellos, and the handshake slot of a ConnectionBuffer                    *)
(* (net/connection.rs).  The messages are ClientHello, ServerHello and     *)
(* ClientAck, and then the first data packet of the client, which may      *)
(* overtake the ClientAck.                                                 *)
(*                                                                         *)
(* Connection ids are random numbers: here every accept() and every        *)
(* connect() has its own.  Id 0 is None.  The network loses, repeats and   *)
(* reorders packets; on a prompt network a timeout (3 s) fires only when   *)
(* nothing is on its way.                                                  *)
(*                                                                         *)
(* accept() and connect() change the ConnectionManager and send in one     *)
(* step each: the entries they touch are looked up for a packet that was   *)
(* routed before or that answers what they send.                           *)
(***************************************************************************)
EXTENDS Integers, Sequences

CONSTANTS
  Clients,              \* connect() calls, one of each client
  Accepts,              \* accept() calls of the server
  ClientNumbers,        \* packet numbers that connect() may draw
  ServerNumbers,        \* packet numbers that accept() may draw
  MAX_QUEUED_HELLOS,    \* 64
  MAX_BUFFER_SIZE,      \* of OrderedBytes
  MaxLosses, MaxDuplicates, MaxDrops,   \* bound: lost, repeated packets; dropped accepts
  Networks,             \* the networks considered: prompt (TRUE) or not (FALSE)
  Server, None

Ids == Accepts \cup Clients
Packets == [to : Clients \cup {Server}, kind : {"ClientHello", "ServerHello", "ClientAck", "Data"},
            src : Ids, dst : Ids \cup {None}, pn : Nat]

ASSUME HandshakeAssumption ==
  /\ None \notin Packets
  /\ {Server, None} \cap (Clients \cup Accepts) = {} /\ Clients \cap Accepts = {}
  /\ (ClientNumbers \cup ServerNumbers) \subseteq Nat
  /\ {MAX_QUEUED_HELLOS, MAX_BUFFER_SIZE} \subseteq Nat \ {0}
  /\ {MaxLosses, MaxDuplicates, MaxDrops} \subseteq Nat /\ Networks \subseteq BOOLEAN

VARIABLES
  net, lost, duplicated, prompt,
  pending_accept_ids, hello_queue,    \* HelloState
  conn_manager,         \* the server's entries <<accept, client or None>>
  buffer,               \* id -> its ConnectionBuffer: packet, addr, start
  ring,                 \* accept -> numbers in its OrderedBytes
  pc,                   \* id -> where its accept() or connect() is
  number,               \* id -> the packet_number it drew
  peer,                 \* id -> dst_conn_id
  drops, overflows,     \* history: accepts dropped, hellos that found the queue full
  from_queue,           \* history: accepts that took a queued hello
  arrived               \* history: accept -> data numbers that arrived for it

network == <<lost, duplicated, prompt>>
hello_state == <<pending_accept_ids, hello_queue>>
calls == <<pc, number, peer>>
history == <<drops, overflows, from_queue, arrived>>
vars == <<net, network, hello_state, conn_manager, buffer, ring, calls, history>>

Packet(to, kind, src, dst, pn) == [to |-> to, kind |-> kind, src |-> src, dst |-> dst, pn |-> pn]
Send(p) == net' = net \cup {p}

Init ==
  /\ net = {} /\ lost = 0 /\ duplicated = 0 /\ prompt \in Networks
  /\ pending_accept_ids = <<>> /\ hello_queue = <<>>
  /\ conn_manager = {}
  /\ buffer = [i \in Ids |-> [packet |-> None, addr |-> None, start |-> 0]]
  /\ ring = [a \in Accepts |-> {}]
  /\ pc = [i \in Ids |-> "idle"]
  /\ number = [i \in Ids |-> 0] /\ peer = [i \in Ids |-> None]
  /\ drops = 0 /\ overflows = 0
  /\ from_queue = {} /\ arrived = [a \in Accepts |-> {}]

-----------------------------------------------------------------------------
(* ConnectionBuffer::buffer_in_packet and buffer_in_addr.  The slot takes  *)
(* one packet; the first one ever fixes where the data stream starts.      *)
\* Mutant: every packet of the handshake sets the start number.
BufferResetsStart(b, p, ahead) ==
  IF b.packet # None THEN b
  ELSE [packet |-> p, addr |-> IF b.addr = None THEN p.src ELSE b.addr,
        start |-> p.pn + ahead]

buffer_in_packet(b, p, ahead) ==
  IF b.packet # None THEN b
  ELSE [packet |-> p, addr |-> IF b.addr = None THEN p.src ELSE b.addr,
        start |-> IF b.start = 0 THEN p.pn + ahead ELSE b.start]

\* HandshakeConnectionBuffer::poll is ready, and takes the packet.
Ready(i, kind) == pc[i] = kind /\ buffer[i].packet # None /\ buffer[i].addr # None
Taken(i) == [buffer EXCEPT ![i].packet = None]

(* A timeout of a prompt network: no packet is under way, in the network   *)
(* or in a buffer whose owner is about to take it.                         *)
Quiet == net = {} /\ \A i \in Ids : pc[i] \in {"hello", "ack"} => buffer[i].packet = None

-----------------------------------------------------------------------------
(* accept().  It takes &mut self: one at a time.                           *)
Idle == \A a \in Accepts : pc[a] \notin {"hello", "ack"}

(* What accept() does with a ClientHello: check its number, rename the     *)
(* connection and answer.  An error leaves the entry as it was.            *)
\* Mutant: the entry under the new name is forgotten.
AnswerUnregistered(a, p) ==
  /\ peer' = [peer EXCEPT ![a] = p.src]
  /\ conn_manager' = conn_manager \ {<<a, None>>}
  /\ pc' = [pc EXCEPT ![a] = "ack"]
  /\ Send(Packet(p.src, "ServerHello", a, p.src, number'[a]))

Answer(a, p) ==
  /\ peer' = [peer EXCEPT ![a] = p.src]
  /\ \/ /\ p.pn = 0                               \* UnexpectedPacketNumberError
        /\ conn_manager' = conn_manager \cup {<<a, None>>}
        /\ pc' = [pc EXCEPT ![a] = "error"]
        /\ UNCHANGED net
     \/ /\ p.pn # 0
        /\ conn_manager' = (conn_manager \ {<<a, None>>}) \cup {<<a, p.src>>}
        /\ pc' = [pc EXCEPT ![a] = "ack"]
        /\ Send(Packet(p.src, "ServerHello", a, p.src, number'[a]))

AcceptQueued(a) ==
  /\ hello_queue # <<>>
  /\ hello_queue' = Tail(hello_queue)
  /\ Answer(a, Head(hello_queue))
  /\ from_queue' = from_queue \cup {a}
  /\ UNCHANGED pending_accept_ids

\* Mutant: a slot is registered without a look at the queue.
AcceptIgnoresQueue(a) ==
  /\ pending_accept_ids' = Append(pending_accept_ids, a)
  /\ conn_manager' = conn_manager \cup {<<a, None>>}
  /\ pc' = [pc EXCEPT ![a] = "hello"]
  /\ UNCHANGED <<net, hello_queue, peer, from_queue>>

AcceptWaits(a) ==
  /\ hello_queue = <<>>
  /\ pending_accept_ids' = Append(pending_accept_ids, a)
  /\ conn_manager' = conn_manager \cup {<<a, None>>}
  /\ pc' = [pc EXCEPT ![a] = "hello"]
  /\ UNCHANGED <<net, hello_queue, peer, from_queue>>

accept(a) ==
  /\ pc[a] = "idle" /\ Idle
  /\ \E n \in ServerNumbers : number' = [number EXCEPT ![a] = n]
  /\ AcceptQueued(a) \/ AcceptWaits(a)
  /\ UNCHANGED <<network, buffer, ring, drops, overflows, arrived>>

TakeClientHello(a) ==
  /\ Ready(a, "hello")
  /\ buffer' = Taken(a)
  /\ UNCHANGED number
  /\ Answer(a, buffer[a].packet)
  /\ UNCHANGED <<network, hello_state, ring, history>>

(* The client ack must have the number after the hello's.                  *)
TakeClientAck(a) ==
  /\ Ready(a, "ack")
  /\ buffer' = Taken(a)
  /\ pc' = [pc EXCEPT ![a] =
              IF buffer[a].packet.pn = number[peer[a]] + 1 THEN "ok" ELSE "error"]
  /\ UNCHANGED <<net, network, hello_state, conn_manager, ring, number, peer, history>>

\* Mutant: the result of read_with_timeout is ignored.
AcceptTimeoutIgnored(a) ==
  /\ pc[a] = "ack" /\ buffer[a].packet = None /\ (prompt => Quiet)
  /\ pc' = [pc EXCEPT ![a] = "ok"]
  /\ UNCHANGED <<net, network, hello_state, conn_manager, buffer, ring, number, peer, history>>

AcceptTimeout(a) ==
  /\ pc[a] = "ack" /\ buffer[a].packet = None /\ (prompt => Quiet)
  /\ pc' = [pc EXCEPT ![a] = "timed_out"]
  /\ UNCHANGED <<net, network, hello_state, conn_manager, buffer, ring, number, peer, history>>

\* The application drops the future, in a timeout() or a select!.
DropAccept(a) ==
  /\ pc[a] \in {"hello", "ack"} /\ drops < MaxDrops
  /\ drops' = drops + 1
  /\ pc' = [pc EXCEPT ![a] = "dropped"]
  /\ UNCHANGED <<net, network, hello_state, conn_manager, buffer, ring, number, peer,
                 overflows, from_queue, arrived>>

-----------------------------------------------------------------------------
(* HandshakeHandler::begin leaves ClientStart and refuses a second call:   *)
(* each client connects once.                                              *)
begin(c) ==
  /\ pc[c] = "idle"
  /\ pc' = [pc EXCEPT ![c] = "hello"]

connect(c) ==
  /\ begin(c)
  /\ \E n \in ClientNumbers :
       /\ number' = [number EXCEPT ![c] = n]
       /\ Send(Packet(Server, "ClientHello", c, None, n))
  /\ UNCHANGED <<network, hello_state, conn_manager, buffer, ring, peer, history>>

TakeServerHello(c) ==
  LET p == buffer[c].packet
  IN /\ Ready(c, "hello")
     /\ buffer' = Taken(c)
     /\ peer' = [peer EXCEPT ![c] = p.src]
     /\ IF p.pn = 0                                \* UnexpectedPacketNumberError
        THEN pc' = [pc EXCEPT ![c] = "error"] /\ UNCHANGED net
        ELSE /\ pc' = [pc EXCEPT ![c] = "ok"]
             /\ Send(Packet(Server, "ClientAck", c, p.src, number[c] + 1))
     /\ UNCHANGED <<network, hello_state, conn_manager, ring, number, history>>

ConnectTimeout(c) ==
  /\ pc[c] = "hello" /\ buffer[c].packet = None /\ (prompt => Quiet)
  /\ pc' = [pc EXCEPT ![c] = "timed_out"]
  /\ UNCHANGED <<net, network, hello_state, conn_manager, buffer, ring, number, peer, history>>

\* The first packet of the connected client's writer.
SendData(c) ==
  /\ pc[c] = "ok"
  /\ LET p == Packet(Server, "Data", c, peer[c], number[c] + 2)
     IN /\ p \notin net /\ p.pn \notin arrived[peer[c]]
        /\ Send(p)
  /\ UNCHANGED <<network, hello_state, conn_manager, buffer, ring, calls, history>>

-----------------------------------------------------------------------------
(* ReaderTxChannel::run.                                                   *)
Arrive(p) ==
  /\ \/ net' = net \ {p} /\ UNCHANGED duplicated
     \/ /\ duplicated < MaxDuplicates
        /\ duplicated' = duplicated + 1
        /\ UNCHANGED net
  /\ UNCHANGED <<lost, prompt>>

RouteHello(p) ==
  LET id == Head(pending_accept_ids)
  IN /\ pending_accept_ids # <<>>
     /\ pending_accept_ids' = Tail(pending_accept_ids)
     /\ buffer' = IF <<id, None>> \in conn_manager
                  THEN [buffer EXCEPT ![id] = buffer_in_packet(@, p, 2)] ELSE buffer
     /\ UNCHANGED <<hello_queue, overflows>>

\* Mutant: a hello that no accept() waits for is dropped.
HelloDropped(p) ==
  /\ pending_accept_ids = <<>>
  /\ UNCHANGED <<hello_state, buffer, overflows>>

QueueHello(p) ==
  /\ pending_accept_ids = <<>>
  /\ IF Len(hello_queue) < MAX_QUEUED_HELLOS
     THEN hello_queue' = Append(hello_queue, p) /\ UNCHANGED overflows
     ELSE overflows' = overflows + 1 /\ UNCHANGED hello_queue
  /\ UNCHANGED <<pending_accept_ids, buffer>>

handle_hello_single(p) ==
  /\ p.kind = "ClientHello" /\ Arrive(p)
  /\ RouteHello(p) \/ QueueHello(p)
  /\ UNCHANGED <<conn_manager, ring, calls, drops, from_queue, arrived>>

(* A client ack fills the slot of its connection.  Once accept() returned  *)
(* the connected socket gets it instead, and its number lies before the    *)
(* start of the ring.                                                      *)
BufferClientAck(p) ==
  /\ p.kind = "ClientAck" /\ Arrive(p)
  /\ buffer' = IF <<p.dst, p.src>> \in conn_manager /\ pc[p.dst] # "ok"
               THEN [buffer EXCEPT ![p.dst] = buffer_in_packet(@, p, 2)] ELSE buffer
  /\ UNCHANGED <<hello_state, conn_manager, ring, calls, history>>

(* OrderedBytes refuses what lies before its start or beyond its size.     *)
BufferData(p) ==
  LET start == buffer[p.dst].start
  IN /\ p.kind = "Data" /\ Arrive(p)
     /\ ring' = IF <<p.dst, p.src>> \in conn_manager
                   /\ p.pn \in start .. start + MAX_BUFFER_SIZE - 1
                THEN [ring EXCEPT ![p.dst] = @ \cup {p.pn}] ELSE ring
     /\ arrived' = [arrived EXCEPT ![p.dst] = @ \cup {p.pn}]
     /\ UNCHANGED <<hello_state, conn_manager, buffer, calls, drops, overflows, from_queue>>

(* The client's reader finds its entry until connect() renamed it.         *)
BufferServerHello(p) ==
  /\ p.kind = "ServerHello" /\ Arrive(p)
  /\ buffer' = IF pc[p.dst] \in {"hello", "timed_out", "error"}
               THEN [buffer EXCEPT ![p.dst] = buffer_in_packet(@, p, 1)] ELSE buffer
  /\ UNCHANGED <<hello_state, conn_manager, ring, calls, history>>

ServerReader ==
  \E p \in net : handle_hello_single(p) \/ BufferClientAck(p) \/ BufferData(p)

ClientReader == \E p \in net : BufferServerHello(p)

Lose ==
  /\ lost < MaxLosses /\ lost' = lost + 1
  /\ \E p \in net : net' = net \ {p}
  /\ UNCHANGED <<duplicated, prompt, hello_state, conn_manager, buffer, ring, calls, history>>

Next ==
  \/ \E a \in Accepts : \/ accept(a) \/ TakeClientHello(a) \/ TakeClientAck(a)
                        \/ AcceptTimeout(a) \/ DropAccept(a)
  \/ \E c \in Clients :
       connect(c) \/ TakeServerHello(c) \/ ConnectTimeout(c) \/ SendData(c)
  \/ ServerReader \/ ClientReader \/ Lose

Spec == Init /\ [][Next]_vars

-----------------------------------------------------------------------------
TypeOK ==
  /\ net \subseteq Packets /\ prompt \in BOOLEAN
  /\ lost \in 0 .. MaxLosses /\ duplicated \in 0 .. MaxDuplicates /\ drops \in 0 .. MaxDrops
  /\ pending_accept_ids \in Seq(Accepts)
  /\ hello_queue \in Seq(Packets) /\ Len(hello_queue) <= MAX_QUEUED_HELLOS
  /\ conn_manager \subseteq Accepts \X (Clients \cup {None})
  /\ buffer \in [Ids -> [packet : Packets \cup {None}, addr : Ids \cup {None}, start : Nat]]
  /\ ring \in [Accepts -> SUBSET Nat] /\ arrived \in [Accepts -> SUBSET Nat]
  /\ pc \in [Ids -> {"idle", "hello", "ack", "ok", "error", "timed_out", "dropped"}]
  /\ number \in [Ids -> Nat] /\ peer \in [Ids -> Ids \cup {None}]
  /\ overflows \in Nat /\ from_queue \subseteq Accepts

(* No hello waits in the queue while an accept() waits for one: "checking  *)
(* pending_accept_ids and pushing to / popping from hello_queue is atomic" *)
(* (net/mod.rs:34), whatever calls were dropped before.                    *)
NoHelloPassedOver == hello_queue = <<>> \/ pending_accept_ids = <<>>

(* An accept() that returned a connection has the client that it names as  *)
(* its peer, and that client has connected to it and to no other: neither  *)
(* repeated hellos, nor late acks, nor timed-out or dropped calls pair     *)
(* wrongly.                                                                *)
BothSidesAgree ==
  /\ TypeOK
  /\ \A a \in Accepts :
        pc[a] = "ok" => peer[a] \in Clients /\ pc[peer[a]] = "ok" /\ peer[peer[a]] = a

(* The data of a connection starts at the number that its peer starts      *)
(* from: at the client always, and at a server that took the hello from    *)
(* its slot.  So no data is refused, not even data that comes before the   *)
(* client ack.                                                             *)
FirstDataExpected ==
  /\ \A c \in Clients : pc[c] = "ok" => buffer[c].start = number[peer[c]] + 1
  /\ \A a \in Accepts \ from_queue : ring[a] = arrived[a]

(* connect() does not time out in vain: if nothing is lost, dropped or     *)
(* slow it does so only while its hello waits for an accept().             *)
Smooth == prompt /\ lost = 0 /\ drops = 0 /\ overflows = 0
TimesOutOnlyUnaccepted ==
  [][\A c \in Clients :
       Smooth /\ number[c] # 0 /\ pc[c] # "timed_out" /\ pc'[c] = "timed_out" =>
         \E i \in DOMAIN hello_queue : hello_queue[i].src = c]_vars

(* No connection stays half open: if nothing is lost, dropped or slow,     *)
(* accept() gives up on the client ack only if that client is not          *)
(* connected to it.                                                        *)
NoHalfOpen ==
  [][\A a \in Accepts :
       Smooth /\ pc[a] # "timed_out" /\ pc'[a] = "timed_out" =>
         ~(pc[peer[a]] = "ok" /\ peer[peer[a]] = a)]_vars

(* "For servers, we set in advance that the start number is the first      *)
(* client hello we get + 2" (connection.rs:148).  A hello that accept()    *)
(* takes from hello_queue is not buffered, so that the client ack, whose   *)
(* number is one higher, sets it.                                          *)
StartIsHelloPlusTwo ==
  \A a \in Accepts : pc[a] = "ok" => buffer[a].start = number[peer[a]] + 2
=============================================================================
