-------------------------- MODULE HandshakeProofs ---------------------------
(***************************************************************************)
(* Hellos and accepts meet, and they pair rightly, for any number of       *)
(* clients and accept() calls, any losses, repetitions and dropped calls.  *)
(*                                                                         *)
(* Pairing follows from what a packet proves about its sender for as long  *)
(* as it exists (Legit), from what the handshake slot of an accept() may   *)
(* hold at each place the call can be (Slots), and from the entries of the *)
(* ConnectionManager naming the peer that accept() answered (Entries).     *)
(*                                                                         *)
(* That data starts where the peer counts from follows from the number     *)
(* that every packet and slot carries being the one its sender drew        *)
(* (DInv); that nobody times out in vain, from the packet that a call is   *)
(* waiting for being somewhere as long as nothing was lost (AInv, HInv).   *)
(***************************************************************************)
EXTENDS Handshake, TLAPS

\* The larger leaves take longer than the provers' default limits.
USE SMTT(30), ZenonT(30)

(* A number two above another one is not zero.                             *)
LEMMA TwoMore ==
  \A m \in Nat : m + 2 # 0
OBVIOUS

\* The slots of a ConnectionBuffer.
BufferType == [packet : Packets \cup {None}, addr : Ids \cup {None}, start : Nat]

IsHello(p) == p.kind = "ClientHello" /\ p.src \in Clients

\* The client that sent p is connected to accept a.
Committed(p, a) == p.src \in Clients /\ pc[p.src] = "ok" /\ peer[p.src] = a

Legit(p) ==
  /\ p.kind = "ClientHello" => p.src \in Clients
  /\ p.kind = "ServerHello" => p.src \in Accepts /\ p.dst \in Clients
  /\ p.kind \in {"ClientAck", "Data"} => p.dst \in Accepts /\ Committed(p, p.dst)

Packed ==
  /\ \A p \in net : Legit(p)
  /\ \A i \in DOMAIN hello_queue : IsHello(hello_queue[i])

\* What a full slot holds, by the place of its accept() or connect().
Slots ==
  /\ \A a \in Accepts :
       /\ pc[a] = "idle" => buffer[a].packet = None
       /\ pc[a] = "hello" /\ buffer[a].packet # None => IsHello(buffer[a].packet)
       /\ pc[a] = "ack" /\ buffer[a].packet # None =>
            buffer[a].packet.src = peer[a] /\ Committed(buffer[a].packet, a)
  /\ \A c \in Clients : buffer[c].packet # None => buffer[c].packet.src \in Accepts

Entries ==
  /\ \A a \in Accepts : <<a, None>> \in conn_manager => pc[a] \notin {"idle", "ack"}
  /\ \A a \in Accepts, c \in Clients :
       <<a, c>> \in conn_manager => peer[a] = c /\ pc[a] \notin {"idle", "hello"}

Peers ==
  /\ \A c \in Clients : pc[c] = "ok" => peer[c] \in Accepts
  /\ \A a \in Accepts :
       pc[a] = "ok" => peer[a] \in Clients /\ pc[peer[a]] = "ok" /\ peer[peer[a]] = a

IInv == TypeOK /\ Packed /\ Slots /\ Entries /\ Peers

-----------------------------------------------------------------------------
(* The assumption, one constant at a time.                                 *)
LEMMA Constants ==
  /\ None \notin Clients /\ None \notin Accepts /\ Clients \cap Accepts = {}
  /\ ClientNumbers \subseteq Nat /\ ServerNumbers \subseteq Nat
  /\ MAX_QUEUED_HELLOS \in Nat
  /\ MaxLosses \in Nat /\ MaxDuplicates \in Nat /\ MaxDrops \in Nat
  /\ Networks \subseteq BOOLEAN
BY HandshakeAssumption

(* The fields of a packet.                                                 *)
LEMMA PacketFields ==
  ASSUME NEW to \in Clients \cup {Server},
         NEW kind \in {"ClientHello", "ServerHello", "ClientAck", "Data"},
         NEW src \in Ids, NEW dst \in Ids \cup {None}, NEW pn \in Nat
  PROVE  /\ Packet(to, kind, src, dst, pn) \in Packets
         /\ Packet(to, kind, src, dst, pn).kind = kind
         /\ Packet(to, kind, src, dst, pn).src = src
         /\ Packet(to, kind, src, dst, pn).dst = dst
BY DEF Packet, Packets

(* buffer_in_packet keeps a full slot and fills an empty one.              *)
LEMMA BufferFacts ==
  ASSUME NEW b \in BufferType, NEW p \in Packets, NEW ahead \in Nat
  PROVE  /\ buffer_in_packet(b, p, ahead) \in BufferType
         /\ \/ buffer_in_packet(b, p, ahead) = b
            \/ buffer_in_packet(b, p, ahead).packet = p
BY DEF buffer_in_packet, BufferType, Packets

(* Taking the packet leaves the other slots alone.                         *)
LEMMA TakenFacts ==
  ASSUME TypeOK, NEW i \in Ids
  PROVE  /\ Taken(i) \in [Ids -> BufferType]
         /\ Taken(i)[i].packet = None
         /\ \A j \in Ids : j # i => Taken(i)[j] = buffer[j]
BY Zenon DEF Taken, TypeOK, BufferType

(* The first element and the rest of a sequence.                           *)
LEMMA QueueFacts ==
  ASSUME NEW S, NEW s \in Seq(S), s # <<>>
  PROVE  /\ Head(s) \in S /\ Head(s) = s[1] /\ 1 \in DOMAIN s
         /\ Tail(s) \in Seq(S) /\ Len(Tail(s)) = Len(s) - 1
         /\ \A i \in DOMAIN Tail(s) : i + 1 \in DOMAIN s /\ Tail(s)[i] = s[i + 1]
OBVIOUS

(* The invariant holds before any call.                                    *)
LEMMA InitIInv == Init => IInv
BY Constants DEF Init, IInv, TypeOK, Packed, Slots, Entries, Peers, Ids, Packets, Legit

(* What a packet, a slot or an entry says of a client stays true as long   *)
(* as connected clients stay connected to the same accept().               *)
LEMMA Stable ==
  ASSUME \A c \in Clients : pc[c] = "ok" => pc'[c] = "ok" /\ peer'[c] = peer[c]
  PROVE  /\ \A p, a : Committed(p, a) => Committed(p, a)'
         /\ \A p : Legit(p) => Legit(p)'
BY DEF Committed, Legit

(* accept() answers a hello: the slot a is empty or has just been emptied. *)
LEMMA AnswerIInv ==
  ASSUME IInv, NEW a \in Accepts, NEW p \in Packets, IsHello(p), Answer(a, p),
         pc[a] \in {"idle", "hello"}, number' \in [Ids -> Nat],
         buffer' \in [Ids -> BufferType], buffer'[a].packet = None,
         \A j \in Ids : j # a => buffer'[j] = buffer[j],
         \/ UNCHANGED hello_state
         \/ /\ hello_queue # <<>> /\ hello_queue' = Tail(hello_queue)
            /\ UNCHANGED pending_accept_ids,
         from_queue' \subseteq Accepts,
         UNCHANGED <<network, ring, drops, overflows, arrived>>
  PROVE  IInv'
<1> USE Constants
<1> TypeOK /\ Packed /\ Slots /\ Entries /\ Peers
  BY DEF IInv
<1> a \in Ids /\ Clients \subseteq Ids /\ Accepts \subseteq Ids /\ a \notin Clients
  BY DEF Ids
<1> p.src \in Clients
  BY DEF IsHello
<1>1. /\ peer' = [peer EXCEPT ![a] = p.src]
      /\ pc' \in [Ids -> {"idle", "hello", "ack", "ok", "error", "timed_out", "dropped"}]
      /\ pc'[a] \in {"error", "ack"}
      /\ \A i \in Ids : i # a => pc'[i] = pc[i]
  BY Zenon DEF Answer, TypeOK
<1>2. peer' \in [Ids -> Ids \cup {None}] /\ peer'[a] = p.src
      /\ \A i \in Ids : i # a => peer'[i] = peer[i]
  BY <1>1 DEF TypeOK
<1>3. \A c \in Clients : pc'[c] = pc[c] /\ peer'[c] = peer[c]
  BY <1>1, <1>2
<1>4. \A q \in net' : q \in net \/ /\ q \in Packets /\ q.kind = "ServerHello"
                                   /\ q.src = a /\ q.dst = p.src
  <2> DEFINE q == Packet(p.src, "ServerHello", a, p.src, number'[a])
  <2>1. q \in Packets /\ q.kind = "ServerHello" /\ q.src = a /\ q.dst = p.src
    BY PacketFields
  <2>2. net' = net \/ net' = net \cup {q}
    BY DEF Answer, Send
  <2> HIDE DEF q
  <2> QED BY <2>1, <2>2
<1>5. hello_queue' \in Seq(Packets) /\ Len(hello_queue') <= MAX_QUEUED_HELLOS
      /\ \A i \in DOMAIN hello_queue' : IsHello(hello_queue'[i])
  <2>1. CASE UNCHANGED hello_state
    BY <2>1 DEF hello_state, TypeOK, Packed
  <2>2. CASE hello_queue # <<>> /\ hello_queue' = Tail(hello_queue)
    <3>1. /\ hello_queue' \in Seq(Packets) /\ Len(hello_queue') = Len(hello_queue) - 1
          /\ \A i \in DOMAIN hello_queue' : /\ i + 1 \in DOMAIN hello_queue
                                            /\ hello_queue'[i] = hello_queue[i + 1]
      BY <2>2, QueueFacts DEF TypeOK
    <3>2. \A i \in DOMAIN hello_queue' : IsHello(hello_queue'[i])
      BY <3>1 DEF Packed
    <3>3. Len(hello_queue) \in Nat /\ Len(hello_queue) <= MAX_QUEUED_HELLOS
      BY DEF TypeOK
    <3> QED BY <3>1, <3>2, <3>3
  <2> QED BY <2>1, <2>2
<1>6. /\ \A x \in conn_manager' : x \in conn_manager \/ x \in {<<a, None>>, <<a, p.src>>}
      /\ <<a, None>> \in conn_manager' => pc'[a] = "error"
      /\ pc'[a] = "error" => \A x \in conn_manager' : x \in conn_manager \/ x = <<a, None>>
  BY DEF Answer, TypeOK
<1>a. TypeOK'
  <2>1. net' \subseteq Packets
    BY <1>4 DEF TypeOK
  <2>2. conn_manager' \subseteq Accepts \X (Clients \cup {None})
    BY <1>6 DEF TypeOK
  <2>3. pending_accept_ids' = pending_accept_ids
    BY DEF hello_state
  <2> QED BY <1>1, <1>2, <1>5, <2>1, <2>2, <2>3, Zenon DEF TypeOK, network, BufferType
<1>b. Packed'
  <2>1. \A q \in net' : Legit(q)'
    <3> TAKE q \in net'
    <3>1. CASE q \in net
      BY <1>3, <3>1, Stable DEF Packed
    <3>2. CASE q.kind = "ServerHello" /\ q.src = a /\ q.dst = p.src
      BY <3>2 DEF Legit
    <3> QED BY <1>4, <3>1, <3>2
  <2> QED BY <1>5, <2>1 DEF Packed, IsHello
<1>c. Slots'
  <2>1. ASSUME NEW x \in Accepts, x # a
        PROVE  /\ pc'[x] = pc[x] /\ peer'[x] = peer[x] /\ buffer'[x] = buffer[x]
    BY <1>1, <1>2, <2>1
  <2>2. \A c \in Clients : buffer'[c] = buffer[c]
    OBVIOUS
  <2> QED BY <1>3, <2>1, <2>2, Stable DEF Slots, IsHello
<1>d. Entries'
  <2>1. \A c \in Clients : <<a, c>> \notin conn_manager
    BY DEF Entries
  <2>2. \A x \in Accepts : <<x, None>> \in conn_manager' => pc'[x] \notin {"idle", "ack"}
    BY <1>1, <1>6, Zenon DEF Entries
  <2>3. ASSUME NEW x \in Accepts, NEW c \in Clients, <<x, c>> \in conn_manager'
        PROVE  peer'[x] = c /\ pc'[x] \notin {"idle", "hello"}
    <3>1. CASE x = a
      BY <1>1, <1>2, <1>6, <2>1, <2>3, <3>1
    <3>2. CASE x # a
      <4>1. pc'[x] = pc[x] /\ peer'[x] = peer[x]
        BY <1>1, <1>2, <3>2, Zenon
      <4>2. <<x, c>> # <<a, None>> /\ <<x, c>> # <<a, p.src>>
        BY <3>2
      <4>3. <<x, c>> \in conn_manager
        BY <1>6, <2>3, <4>2, Zenon
      <4> QED BY <4>1, <4>3, Zenon DEF Entries
    <3> QED BY <3>1, <3>2
  <2> QED BY <2>2, <2>3 DEF Entries
<1>e. Peers'
  BY <1>1, <1>2, <1>3, SMTT(30) DEF Peers
<1> QED BY <1>a, <1>b, <1>c, <1>d, <1>e DEF IInv

(* A reader takes p from the network and puts it into slot i, or not: what *)
(* it puts there is what the owner of the slot waits for.                  *)
LEMMA BufferIInv ==
  ASSUME IInv, NEW p \in net, Arrive(p), UNCHANGED <<conn_manager, calls>>,
         NEW i, NEW ahead \in Nat,
         \/ buffer' = buffer
         \/ /\ i \in Ids /\ buffer' = [buffer EXCEPT ![i] = buffer_in_packet(@, p, ahead)]
            /\ i \in Accepts => /\ pc[i] # "idle"
                                /\ pc[i] = "hello" => IsHello(p)
                                /\ pc[i] = "ack" => p.src = peer[i] /\ Committed(p, i)
            /\ i \in Clients => p.src \in Accepts
  PROVE  /\ net' \subseteq Packets /\ duplicated' \in 0 .. MaxDuplicates
         /\ UNCHANGED <<lost, prompt>>
         /\ buffer' \in [Ids -> BufferType]
         /\ \A q \in net' : Legit(q)'
         /\ Slots' /\ Entries' /\ Peers'
<1> USE Constants
<1> TypeOK /\ Packed /\ Slots /\ Entries /\ Peers
  BY DEF IInv
<1> Clients \subseteq Ids /\ Accepts \subseteq Ids
  BY DEF Ids
<1>1. net' \subseteq net /\ duplicated' \in 0 .. MaxDuplicates /\ UNCHANGED <<lost, prompt>>
  BY DEF Arrive, TypeOK
<1>2. pc' = pc /\ peer' = peer /\ conn_manager' = conn_manager
  BY DEF calls
<1>3. (\A r, a : Committed(r, a) => Committed(r, a)') /\ (\A q \in net' : Legit(q)')
  BY <1>1, <1>2, Stable DEF Packed
<1>4. Entries' /\ Peers'
  BY <1>2 DEF Entries, Peers
<1>5. p \in Packets /\ buffer \in [Ids -> BufferType] /\ net \subseteq Packets
  BY DEF TypeOK, BufferType
<1>6. CASE buffer' = buffer
  BY <1>1, <1>2, <1>3, <1>4, <1>5, <1>6, Zenon DEF Slots, IsHello
<1>7. CASE buffer' # buffer
  <2>1. i \in Ids /\ buffer' = [buffer EXCEPT ![i] = buffer_in_packet(buffer[i], p, ahead)]
    BY <1>7
  <2>2. /\ buffer' \in [Ids -> BufferType]
        /\ \A j \in Ids : j # i => buffer'[j] = buffer[j]
        /\ buffer'[i] = buffer[i] \/ buffer'[i].packet = p
    BY <1>5, <2>1, BufferFacts
  <2>3. /\ i \in Accepts => /\ pc[i] # "idle"
                            /\ pc[i] = "hello" => IsHello(p)
                            /\ pc[i] = "ack" => p.src = peer[i] /\ Committed(p, i)
        /\ i \in Clients => p.src \in Accepts
    BY <1>7
  <2>4. ASSUME NEW a \in Accepts
        PROVE  /\ pc'[a] = "idle" => buffer'[a].packet = None
               /\ pc'[a] = "hello" /\ buffer'[a].packet # None => IsHello(buffer'[a].packet)
               /\ pc'[a] = "ack" /\ buffer'[a].packet # None =>
                    buffer'[a].packet.src = peer'[a] /\ Committed(buffer[a].packet, a)'
    <3>1. CASE buffer'[a] = buffer[a]
      BY <1>2, <3>1 DEF Slots, Committed
    <3>2. CASE a = i /\ buffer'[a].packet = p
      BY <1>2, <2>3, <3>2 DEF Committed
    <3> QED BY Zenon, <2>2, <3>1, <3>2
  <2>5. ASSUME NEW c \in Clients
        PROVE  buffer'[c].packet # None => buffer'[c].packet.src \in Accepts
    <3>1. CASE buffer'[c] = buffer[c]
      BY <3>1 DEF Slots
    <3>2. CASE c = i /\ buffer'[c].packet = p
      BY Zenon, <2>3, <3>2
    <3> QED BY <2>2, <3>1, <3>2
  <2>6. Slots'
    BY <2>4, <2>5 DEF Slots, IsHello
  <2> QED BY <1>1, <1>3, <1>4, <1>5, <2>2, <2>6
<1> QED BY <1>6, <1>7

(* Every step of a call, of a reader and of the network preserves it.      *)
LEMMA StepIInv == IInv /\ [Next]_vars => IInv'
<1> SUFFICES ASSUME IInv, [Next]_vars
             PROVE  IInv'
  OBVIOUS
<1> TypeOK /\ Packed /\ Slots /\ Entries /\ Peers
  BY DEF IInv
<1> USE Constants
<1> Clients \subseteq Ids /\ Accepts \subseteq Ids
  BY DEF Ids
<1>b. buffer \in [Ids -> BufferType]
  BY DEF TypeOK, BufferType
<1>1. ASSUME NEW a \in Accepts, accept(a)
      PROVE  IInv'
  <2>1. pc[a] = "idle" /\ number' \in [Ids -> Nat]
    BY <1>1 DEF accept, TypeOK
  <2>2. CASE AcceptQueued(a)
    <3> DEFINE p == Head(hello_queue)
    <3>1. p \in Packets /\ IsHello(p)
      BY <2>2, QueueFacts DEF AcceptQueued, TypeOK, Packed
    <3>2. /\ Answer(a, p) /\ hello_queue # <<>> /\ hello_queue' = Tail(hello_queue)
          /\ UNCHANGED pending_accept_ids /\ from_queue' \subseteq Accepts
      BY <2>2 DEF AcceptQueued, TypeOK
    <3>3. buffer' = buffer /\ buffer'[a].packet = None
      BY <1>1, <2>1 DEF accept, Slots
    <3> HIDE DEF p
    <3> QED BY <1>1, <1>b, <2>1, <3>1, <3>2, <3>3, AnswerIInv DEF accept
  <2>3. CASE AcceptWaits(a)
    <3>1. /\ pc' = [pc EXCEPT ![a] = "hello"] /\ conn_manager' = conn_manager \cup {<<a, None>>}
          /\ UNCHANGED <<net, hello_queue, peer, from_queue, network, buffer, ring, drops,
                         overflows, arrived>>
      BY <1>1, <2>3 DEF accept, AcceptWaits
    <3>2. pending_accept_ids' \in Seq(Accepts)
      BY <2>3 DEF AcceptWaits, TypeOK
    <3>3. \A c \in Clients : pc'[c] = pc[c] /\ peer'[c] = peer[c]
      BY <3>1 DEF TypeOK
    <3>4. TypeOK'
      BY <2>1, <3>1, <3>2, SMTT(30) DEF TypeOK, network
    <3>5. Packed'
      BY <3>1, <3>3, Stable DEF Packed, IsHello
    <3>6. Slots'
      BY <2>1, <3>1, <3>3, Stable DEF Slots, IsHello, TypeOK
    <3>7. Entries'
      BY <2>1, <3>1 DEF Entries, TypeOK
    <3>8. Peers'
      BY <2>1, <3>1, <3>3 DEF Peers, TypeOK
    <3> QED BY <3>4, <3>5, <3>6, <3>7, <3>8 DEF IInv
  <2> QED BY <1>1, <2>2, <2>3 DEF accept
<1>2. ASSUME NEW a \in Accepts, TakeClientHello(a)
      PROVE  IInv'
  <2> DEFINE p == buffer[a].packet
  <2>1. pc[a] = "hello" /\ p # None
    BY <1>2, Zenon DEF TakeClientHello, Ready
  <2>2. p \in Packets /\ IsHello(p)
    BY <1>b, <2>1 DEF Slots, BufferType
  <2>3. /\ Answer(a, p) /\ buffer' = Taken(a) /\ UNCHANGED number /\ UNCHANGED hello_state
        /\ UNCHANGED <<network, ring, drops, overflows, arrived>> /\ UNCHANGED from_queue
    BY <1>2 DEF TakeClientHello, history
  <2>4. number' \in [Ids -> Nat] /\ from_queue' \subseteq Accepts
    BY <2>3 DEF TypeOK
  <2> HIDE DEF p
  <2> QED BY Zenon, <2>1, <2>2, <2>3, <2>4, TakenFacts, AnswerIInv
<1>3. ASSUME NEW a \in Accepts, TakeClientAck(a)
      PROVE  IInv'
  <2>1. /\ pc[a] = "ack" /\ buffer[a].packet # None /\ buffer' = Taken(a)
        /\ \E to \in {"ok", "error"} : pc' = [pc EXCEPT ![a] = to]
        /\ UNCHANGED <<net, network, hello_state, conn_manager, ring, number, peer, history>>
    BY <1>3, Zenon DEF TakeClientAck, Ready
  <2>2. peer[a] \in Clients /\ pc[peer[a]] = "ok" /\ peer[peer[a]] = a
    BY <2>1 DEF Slots, Committed
  <2>3. \A c \in Clients : pc'[c] = pc[c] /\ peer'[c] = peer[c]
    BY <2>1 DEF TypeOK
  <2>4. TypeOK'
    <3>1. buffer' \in [Ids -> BufferType]
      BY <2>1, TakenFacts
    <3>2. pc' \in [Ids -> {"idle", "hello", "ack", "ok", "error", "timed_out", "dropped"}]
      BY <2>1 DEF TypeOK
    <3> QED BY <2>1, <3>1, <3>2 DEF TypeOK, network, hello_state, history, BufferType
  <2>5. Packed'
    BY <2>1, <2>3, Stable, SMTT(30) DEF Packed, IsHello, hello_state
  <2>6. Slots'
    <3>1. \A x \in Accepts : pc'[x] \in {"idle", "hello", "ack"} => x # a /\ pc'[x] = pc[x]
      BY <2>1 DEF TypeOK
    <3>2. /\ \A x \in Ids : x # a => buffer'[x] = buffer[x]
          /\ peer' = peer /\ a \notin Clients
          /\ \A p, x : Committed(p, x) => Committed(p, x)'
      BY <2>1, <2>3, TakenFacts, Stable
    <3> QED BY <3>1, <3>2 DEF Slots, IsHello
  <2>7. Entries'
    BY <2>1 DEF Entries, TypeOK
  <2>8. Peers'
    BY <2>1, <2>2, <2>3 DEF Peers, TypeOK
  <2> QED BY <2>4, <2>5, <2>6, <2>7, <2>8 DEF IInv
<1>4. ASSUME NEW a \in Accepts, AcceptTimeout(a) \/ DropAccept(a)
      PROVE  IInv'
  <2>1. /\ pc[a] \in {"hello", "ack"}
        /\ \E to \in {"timed_out", "dropped"} : pc' = [pc EXCEPT ![a] = to]
        /\ UNCHANGED <<net, network, hello_state, conn_manager, buffer, ring, number, peer,
                       overflows, from_queue, arrived>>
    BY <1>4 DEF AcceptTimeout, DropAccept, history
  <2>2. drops' \in 0 .. MaxDrops
    BY <1>4 DEF AcceptTimeout, DropAccept, history, TypeOK
  <2>3. \A c \in Clients : pc'[c] = pc[c] /\ peer'[c] = peer[c]
    BY <2>1 DEF TypeOK
  <2>4. TypeOK'
    BY <2>1, <2>2, SMTT(30) DEF TypeOK, network, hello_state
  <2>5. Packed'
    BY <2>1, <2>3, Stable, Zenon DEF Packed, IsHello, hello_state
  <2>6. Slots'
    <3>1. \A x \in Accepts : pc'[x] \in {"idle", "hello", "ack"} => pc'[x] = pc[x]
      BY <2>1 DEF TypeOK
    <3>2. /\ buffer' = buffer /\ peer' = peer
          /\ \A p, x : Committed(p, x) => Committed(p, x)'
      BY <2>1, <2>3, Stable
    <3> QED BY <3>1, <3>2 DEF Slots, IsHello
  <2>7. Entries'
    BY <2>1 DEF Entries, TypeOK
  <2>8. Peers'
    BY <2>1, <2>3 DEF Peers, TypeOK
  <2> QED BY <2>4, <2>5, <2>6, <2>7, <2>8 DEF IInv
<1>5. ASSUME NEW c \in Clients, connect(c)
      PROVE  IInv'
  <2>1. /\ pc[c] = "idle" /\ pc' = [pc EXCEPT ![c] = "hello"]
        /\ UNCHANGED <<network, hello_state, conn_manager, buffer, ring, peer, history>>
    BY <1>5 DEF connect, begin
  <2>2. PICK n \in ClientNumbers : /\ number' = [number EXCEPT ![c] = n]
                                   /\ Send(Packet(Server, "ClientHello", c, None, n))
    BY <1>5, Zenon DEF connect
  <2> DEFINE q == Packet(Server, "ClientHello", c, None, n)
  <2>3. q \in Packets /\ q.kind = "ClientHello" /\ q.src = c
    <3>1. c \in Ids /\ n \in Nat
      OBVIOUS
    <3>2. Server \in Clients \cup {Server} /\ None \in Ids \cup {None}
      OBVIOUS
    <3> QED BY <3>1, <3>2, SMTT(30) DEF Packet, Packets
  <2>4. net' = net \cup {q}
    BY <2>2 DEF Send
  <2> HIDE DEF q
  <2>5. /\ \A a \in Accepts : pc'[a] = pc[a]
        /\ \A x \in Clients : pc'[x] = "ok" <=> pc[x] = "ok"
    BY <2>1 DEF TypeOK
  <2>6. TypeOK'
    BY <2>1, <2>2, <2>3, <2>4, Zenon DEF TypeOK, network, hello_state, history
  <2>7. Packed'
    <3>1. Legit(q)'
      BY <2>3, Zenon DEF Legit
    <3> QED BY <2>1, <2>4, <2>5, <3>1, Stable DEF Packed, IsHello, hello_state
  <2>8. Slots'
    BY <2>1, <2>5, Stable, Zenon DEF Slots, IsHello
  <2>9. Entries' /\ Peers'
    BY <2>1, <2>5 DEF Entries, Peers
  <2> QED BY <2>6, <2>7, <2>8, <2>9 DEF IInv
<1>6. ASSUME NEW c \in Clients, TakeServerHello(c)
      PROVE  IInv'
  <2>p. PICK p : p = buffer[c].packet
    OBVIOUS
  <2>n. PICK n \in Nat : n = number[c] + 1
    BY DEF TypeOK
  <2>q. PICK q : q = Packet(Server, "ClientAck", c, p.src, n)
    OBVIOUS
  <2>1. /\ pc[c] = "hello" /\ p # None /\ buffer' = Taken(c)
        /\ peer' = [peer EXCEPT ![c] = p.src]
        /\ \/ pc' = [pc EXCEPT ![c] = "error"] /\ net' = net
           \/ pc' = [pc EXCEPT ![c] = "ok"] /\ net' = net \cup {q}
        /\ UNCHANGED <<network, hello_state, conn_manager, ring, number, history>>
    BY <1>6, <2>p, <2>n, <2>q, Zenon DEF TakeServerHello, Ready, Send
  <2>2. p.src \in Accepts
    BY <2>1, <2>p, Zenon DEF Slots
  <2>3. q \in Packets /\ q.kind = "ClientAck" /\ q.src = c /\ q.dst = p.src
    <3>1. c \in Ids /\ p.src \in Ids \cup {None} /\ Server \in Clients \cup {Server}
      BY Zenon, <2>2
    <3> QED BY <2>q, <3>1 DEF Packet, Packets
  <2>4. /\ \A a \in Accepts : pc'[a] = pc[a] /\ peer'[a] = peer[a] /\ a # c
        /\ \A x \in Clients : x # c => pc'[x] = pc[x] /\ peer'[x] = peer[x]
        /\ peer'[c] = p.src
    BY <2>1 DEF TypeOK
  <2>5. \A x \in Clients : pc[x] = "ok" => pc'[x] = "ok" /\ peer'[x] = peer[x]
    BY Zenon, <2>1, <2>4
  <2>6. TypeOK'
    <3>1. buffer' \in [Ids -> BufferType]
      BY Zenon, <2>1, TakenFacts
    <3>2. net' \subseteq Packets
      BY <2>1, <2>3, Zenon DEF TypeOK
    <3>3. pc' \in [Ids -> {"idle", "hello", "ack", "ok", "error", "timed_out", "dropped"}]
      BY <2>1, Zenon DEF TypeOK
    <3>4. peer' \in [Ids -> Ids \cup {None}]
      BY <2>1, <2>2 DEF TypeOK
    <3> QED BY <2>1, <3>1, <3>2, <3>3, <3>4
            DEF TypeOK, network, hello_state, history, BufferType
  <2>7. Packed'
    <3>1. \A r \in net : Legit(r)'
      BY <2>5, Stable, Zenon DEF Packed
    <3>2. net' = net \/ (net' = net \cup {q} /\ pc'[c] = "ok")
      BY <2>1 DEF TypeOK
    <3>3. pc'[c] = "ok" => Legit(q)'
      BY <2>2, <2>3, <2>4 DEF Legit, Committed
    <3>4. \A r \in net' : Legit(r)'
      BY <3>1, <3>2, <3>3
    <3>5. hello_queue' = hello_queue
      BY <2>1, Zenon DEF hello_state
    <3> QED BY <3>4, <3>5 DEF Packed, IsHello
  <2>8. Slots'
    <3>1. \A x \in Ids : x # c => buffer'[x] = buffer[x]
      BY <2>1, TakenFacts
    <3>2. buffer'[c].packet = None
      BY Zenon, <2>1, TakenFacts
    <3>3. \A r, x : Committed(r, x) => Committed(r, x)'
      BY Zenon, <2>5, Stable
    <3> QED BY <2>4, <3>1, <3>2, <3>3 DEF Slots, IsHello
  <2>9. Entries' /\ Peers'
    BY <2>1, <2>2, <2>4, <2>5 DEF Entries, Peers
  <2> QED BY <2>6, <2>7, <2>8, <2>9 DEF IInv
<1>7. ASSUME NEW c \in Clients, ConnectTimeout(c)
      PROVE  IInv'
  <2>1. /\ pc[c] = "hello" /\ pc' = [pc EXCEPT ![c] = "timed_out"]
        /\ UNCHANGED <<net, network, hello_state, conn_manager, buffer, ring, number, peer,
                       history>>
    BY <1>7 DEF ConnectTimeout
  <2>2. /\ \A a \in Accepts : pc'[a] = pc[a]
        /\ \A x \in Clients : pc'[x] = "ok" <=> pc[x] = "ok"
    BY <2>1, Zenon DEF TypeOK
  <2>3. TypeOK'
    BY <2>1, Zenon DEF TypeOK, network, hello_state, history
  <2>4. Packed' /\ Slots'
    BY <2>1, <2>2, Stable DEF Packed, Slots, IsHello, hello_state
  <2>5. Entries' /\ Peers'
    BY <2>1, <2>2 DEF Entries, Peers
  <2> QED BY <2>3, <2>4, <2>5 DEF IInv
<1>8. ASSUME NEW c \in Clients, SendData(c)
      PROVE  IInv'
  <2>n. PICK n \in Nat : n = number[c] + 2
    BY DEF TypeOK
  <2>q. PICK q : q = Packet(Server, "Data", c, peer[c], n)
    OBVIOUS
  <2>1. /\ pc[c] = "ok" /\ net' = net \cup {q}
        /\ UNCHANGED <<network, hello_state, conn_manager, buffer, ring, calls, history>>
    BY <1>8, <2>n, <2>q, Zenon DEF SendData, Send
  <2>2. peer[c] \in Accepts
    BY <2>1, Zenon DEF Peers
  <2>3. q \in Packets /\ q.kind = "Data" /\ q.src = c /\ q.dst = peer[c]
    <3>1. c \in Ids /\ peer[c] \in Ids \cup {None} /\ Server \in Clients \cup {Server}
      BY Zenon, <2>2
    <3> QED BY <2>q, <3>1 DEF Packet, Packets
  <2>4. Legit(q)
    BY <2>1, <2>2, <2>3, Zenon DEF Legit, Committed
  <2>5. TypeOK'
    BY <2>1, <2>3, Zenon DEF TypeOK, network, hello_state, calls, history
  <2>6. Packed'
    BY <2>1, <2>4, Stable, Zenon DEF Packed, IsHello, hello_state, calls
  <2>7. Slots' /\ Entries' /\ Peers'
    BY <2>1 DEF Slots, Entries, Peers, IsHello, Committed, calls
  <2> QED BY <2>5, <2>6, <2>7 DEF IInv
<1>9. ASSUME NEW p \in net, handle_hello_single(p)
      PROVE  IInv'
  <2>1. /\ IsHello(p) /\ p \in Packets /\ Arrive(p) /\ UNCHANGED <<conn_manager, calls>>
        /\ UNCHANGED <<ring, drops, from_queue, arrived>>
    BY <1>9 DEF handle_hello_single, Packed, Legit, IsHello, TypeOK
  <2>2. CASE RouteHello(p)
    <3>i. PICK i : i = Head(pending_accept_ids)
      OBVIOUS
    <3>1. /\ i \in Accepts /\ pending_accept_ids' \in Seq(Accepts)
          /\ UNCHANGED <<hello_queue, overflows>>
      BY <2>2, <3>i, QueueFacts, Zenon DEF RouteHello, TypeOK
    <3>2. \/ buffer' = buffer
          \/ /\ <<i, None>> \in conn_manager
             /\ buffer' = [buffer EXCEPT ![i] = buffer_in_packet(@, p, 2)]
      BY <2>2, <3>i DEF RouteHello
    <3>3. <<i, None>> \in conn_manager => pc[i] # "idle" /\ pc[i] # "ack"
      BY <3>1 DEF Entries
    <3>4. i \in Ids /\ i \notin Clients /\ 2 \in Nat
      BY Zenon, <3>1
    <3>5. /\ net' \subseteq Packets /\ duplicated' \in 0 .. MaxDuplicates
          /\ UNCHANGED <<lost, prompt>>
          /\ buffer' \in [Ids -> BufferType]
          /\ \A q \in net' : Legit(q)'
          /\ Slots' /\ Entries' /\ Peers'
      BY Zenon, <2>1, <3>2, <3>3, <3>4, BufferIInv
    <3>6. TypeOK'
      BY <2>1, <3>1, <3>5, Zenon DEF TypeOK, calls, BufferType
    <3>7. Packed'
      BY <3>1, <3>5, Zenon DEF Packed, IsHello
    <3> QED BY <3>5, <3>6, <3>7 DEF IInv
  <2>3. CASE QueueHello(p)
    <3>1. UNCHANGED <<pending_accept_ids, buffer>>
      BY <2>3, SMTT(30) DEF QueueHello
    <3>2. /\ net' \subseteq Packets /\ duplicated' \in 0 .. MaxDuplicates
          /\ UNCHANGED <<lost, prompt>>
          /\ buffer' \in [Ids -> BufferType]
          /\ \A q \in net' : Legit(q)'
          /\ Slots' /\ Entries' /\ Peers'
      BY <2>1, <3>1, BufferIInv
    <3>a. /\ hello_queue \in Seq(Packets) /\ Len(hello_queue) <= MAX_QUEUED_HELLOS
          /\ overflows \in Nat
      BY DEF TypeOK
    <3>b. \/ /\ Len(hello_queue) < MAX_QUEUED_HELLOS
             /\ hello_queue' = Append(hello_queue, p) /\ overflows' = overflows
          \/ hello_queue' = hello_queue /\ overflows' = overflows + 1
      BY <2>3, SMTT(30) DEF QueueHello
    <3>3. /\ hello_queue' \in Seq(Packets) /\ Len(hello_queue') <= MAX_QUEUED_HELLOS
          /\ overflows' \in Nat
      BY <2>1, <3>a, <3>b, SMTT(30)
    <3>4. \A k \in DOMAIN hello_queue' : IsHello(hello_queue'[k])
      <4>1. \A k \in DOMAIN hello_queue' :
              \/ k \in DOMAIN hello_queue /\ hello_queue'[k] = hello_queue[k]
              \/ hello_queue'[k] = p
        BY <2>1, <3>a, <3>b, SMTT(30)
      <4> QED BY <2>1, <4>1 DEF Packed
    <3>5. TypeOK'
      BY <2>1, <3>1, <3>2, <3>3, Zenon DEF TypeOK, calls, BufferType
    <3>6. Packed'
      BY <3>2, <3>4, Zenon DEF Packed, IsHello
    <3> QED BY <3>2, <3>5, <3>6 DEF IInv
  <2> QED BY <1>9, <2>2, <2>3 DEF handle_hello_single
<1>10. ASSUME NEW p \in net, BufferClientAck(p)
       PROVE  IInv'
  <2>1. /\ p.src \in Clients /\ p.dst \in Accepts /\ Committed(p, p.dst) /\ Arrive(p)
        /\ UNCHANGED <<conn_manager, calls>> /\ UNCHANGED <<hello_state, ring, history>>
    BY <1>10, Zenon DEF BufferClientAck, Packed, Legit, Committed
  <2>2. \/ buffer' = buffer
        \/ /\ <<p.dst, p.src>> \in conn_manager
           /\ buffer' = [buffer EXCEPT ![p.dst] = buffer_in_packet(@, p, 2)]
    BY <1>10, Zenon DEF BufferClientAck
  <2>3. <<p.dst, p.src>> \in conn_manager =>
          peer[p.dst] = p.src /\ pc[p.dst] # "idle" /\ pc[p.dst] # "hello"
    BY <2>1 DEF Entries
  <2>4. p.dst \in Ids /\ p.dst \notin Clients /\ 2 \in Nat
    BY Zenon, <2>1
  <2>5. /\ net' \subseteq Packets /\ duplicated' \in 0 .. MaxDuplicates
        /\ UNCHANGED <<lost, prompt>>
        /\ buffer' \in [Ids -> BufferType]
        /\ \A q \in net' : Legit(q)'
        /\ Slots' /\ Entries' /\ Peers'
    BY Zenon, <2>1, <2>2, <2>3, <2>4, BufferIInv
  <2>6. TypeOK'
    BY <2>1, <2>5, Zenon DEF TypeOK, calls, hello_state, history, BufferType
  <2>7. Packed'
    BY <2>1, <2>5, Zenon DEF Packed, IsHello, hello_state
  <2> QED BY <2>5, <2>6, <2>7 DEF IInv
<1>11. ASSUME NEW p \in net, BufferData(p)
       PROVE  IInv'
  <2>1. /\ p.dst \in Accepts /\ p.pn \in Nat /\ Arrive(p) /\ UNCHANGED buffer
        /\ UNCHANGED <<conn_manager, calls>>
        /\ UNCHANGED <<hello_state, drops, overflows, from_queue>>
    BY <1>11, Zenon DEF BufferData, Packed, Legit, TypeOK, Packets
  <2>2. /\ net' \subseteq Packets /\ duplicated' \in 0 .. MaxDuplicates
        /\ UNCHANGED <<lost, prompt>>
        /\ buffer' \in [Ids -> BufferType]
        /\ \A q \in net' : Legit(q)'
        /\ Slots' /\ Entries' /\ Peers'
    BY Zenon, <2>1, BufferIInv
  <2>3. ring' \in [Accepts -> SUBSET Nat] /\ arrived' \in [Accepts -> SUBSET Nat]
    <3>1. \/ ring' = ring
          \/ ring' = [ring EXCEPT ![p.dst] = @ \cup {p.pn}]
      BY <1>11 DEF BufferData
    <3>2. arrived' = [arrived EXCEPT ![p.dst] = @ \cup {p.pn}]
      BY <1>11 DEF BufferData
    <3>3. ring \in [Accepts -> SUBSET Nat] /\ arrived \in [Accepts -> SUBSET Nat]
      BY DEF TypeOK
    <3>4. ring[p.dst] \cup {p.pn} \in SUBSET Nat /\ arrived[p.dst] \cup {p.pn} \in SUBSET Nat
      BY <2>1, <3>3
    <3>5. ring' \in [Accepts -> SUBSET Nat]
      BY <3>1, <3>3, <3>4
    <3>6. arrived' \in [Accepts -> SUBSET Nat]
      BY Zenon, <3>2, <3>3, <3>4
    <3> QED BY Zenon, <3>5, <3>6
  <2>4. TypeOK'
    BY <2>1, <2>2, <2>3, Zenon DEF TypeOK, calls, hello_state, BufferType
  <2>5. Packed'
    BY <2>1, <2>2, Zenon DEF Packed, IsHello, hello_state
  <2> QED BY <2>2, <2>4, <2>5 DEF IInv
<1>12. ASSUME NEW p \in net, BufferServerHello(p)
       PROVE  IInv'
  <2>1. /\ p.src \in Accepts /\ p.dst \in Clients /\ Arrive(p)
        /\ UNCHANGED <<conn_manager, calls>> /\ UNCHANGED <<hello_state, ring, history>>
    BY <1>12 DEF BufferServerHello, Packed, Legit
  <2>2. \/ buffer' = buffer
        \/ buffer' = [buffer EXCEPT ![p.dst] = buffer_in_packet(@, p, 1)]
    BY <1>12 DEF BufferServerHello
  <2>3. p.dst \in Ids /\ p.dst \notin Accepts /\ 1 \in Nat
    BY Zenon, <2>1
  <2>4. /\ net' \subseteq Packets /\ duplicated' \in 0 .. MaxDuplicates
        /\ UNCHANGED <<lost, prompt>>
        /\ buffer' \in [Ids -> BufferType]
        /\ \A q \in net' : Legit(q)'
        /\ Slots' /\ Entries' /\ Peers'
    BY Zenon, <2>1, <2>2, <2>3, BufferIInv
  <2>5. TypeOK'
    BY <2>1, <2>4 DEF TypeOK, calls, hello_state, history, BufferType
  <2>6. Packed'
    BY <2>1, <2>4 DEF Packed, IsHello, hello_state
  <2> QED BY <2>4, <2>5, <2>6 DEF IInv
<1>13. ASSUME Lose
       PROVE  IInv'
  <2>1. /\ net' \subseteq net /\ lost' \in 0 .. MaxLosses
        /\ UNCHANGED <<duplicated, prompt, hello_state, conn_manager, buffer, ring, calls,
                       history>>
    BY <1>13, SMTT(30) DEF Lose, TypeOK
  <2>2. TypeOK'
    BY <2>1, Zenon DEF TypeOK, calls, hello_state, history
  <2>3. Packed'
    BY <2>1, Stable, Zenon DEF Packed, IsHello, hello_state, calls
  <2>4. Slots' /\ Entries' /\ Peers'
    BY <2>1, Zenon DEF Slots, Entries, Peers, IsHello, Committed, calls
  <2> QED BY <2>2, <2>3, <2>4, Zenon DEF IInv
<1>14. ASSUME UNCHANGED vars
       PROVE  IInv'
  <2>1. TypeOK'
    BY <1>14, Zenon DEF TypeOK, vars, network, calls, hello_state, history
  <2>2. Packed'
    BY <1>14, Zenon DEF Packed, Legit, Committed, IsHello, vars, hello_state, calls
  <2>3. Slots' /\ Entries' /\ Peers'
    BY <1>14 DEF Slots, Entries, Peers, IsHello, Committed, vars, calls
  <2> QED BY <2>1, <2>2, <2>3 DEF IInv
<1> QED BY <1>1, <1>2, <1>3, <1>4, <1>5, <1>6, <1>7, <1>8, <1>9, <1>10, <1>11, <1>12,
           <1>13, <1>14 DEF Next, ServerReader, ClientReader

(* The strengthened invariant.                                             *)
THEOREM Invariance == Spec => []IInv
BY InitIInv, StepIInv, PTL DEF Spec

(* accept() and connect() pair rightly, whatever is lost, repeated,        *)
(* reordered, dropped or timed out, for any number of clients and calls.   *)
THEOREM PairingCorrect == Spec => []BothSidesAgree
<1>1. IInv => BothSidesAgree
  BY DEF IInv, Peers, BothSidesAgree
<1> QED BY <1>1, Invariance, PTL

(* A hello and an accept() never wait at the same time: each of the two    *)
(* looks for the other before it queues, in one critical section.          *)
THEOREM MeetingCorrect == Spec => []NoHelloPassedOver
<1>1. Init => NoHelloPassedOver
  BY Zenon DEF Init, NoHelloPassedOver
<1>2. TypeOK /\ NoHelloPassedOver /\ [Next]_vars => NoHelloPassedOver'
  <2> SUFFICES ASSUME TypeOK, NoHelloPassedOver, [Next]_vars
               PROVE  NoHelloPassedOver'
    OBVIOUS
  <2>1. ASSUME NEW a \in Accepts, accept(a)
        PROVE  NoHelloPassedOver'
    <3>1. CASE AcceptQueued(a)
      BY <3>1 DEF AcceptQueued, NoHelloPassedOver
    <3>2. CASE AcceptWaits(a)
      BY <3>2 DEF AcceptWaits, NoHelloPassedOver
    <3> QED BY <2>1, <3>1, <3>2 DEF accept
  <2>2. ASSUME NEW p \in net, handle_hello_single(p)
        PROVE  NoHelloPassedOver'
    <3>1. CASE RouteHello(p)
      BY <3>1 DEF RouteHello, NoHelloPassedOver
    <3>2. CASE QueueHello(p)
      BY <3>2 DEF QueueHello, NoHelloPassedOver
    <3> QED BY <2>2, <3>1, <3>2 DEF handle_hello_single
  <2>3. CASE UNCHANGED hello_state
    BY <2>3 DEF hello_state, NoHelloPassedOver
  <2> QED BY Zenon, <2>1, <2>2, <2>3
          DEF Next, ServerReader, ClientReader, TakeClientHello, TakeClientAck, AcceptTimeout,
              DropAccept, connect, TakeServerHello, ConnectTimeout, SendData,
              BufferClientAck, BufferData, BufferServerHello, Lose, vars
<1>3. IInv => TypeOK
  BY DEF IInv
<1> QED BY <1>1, <1>2, <1>3, Invariance, PTL DEF Spec

-----------------------------------------------------------------------------
(* The inductive invariant of the data's start.  Numbers that were drawn   *)
(* are not drawn again, so that a packet says which number its sender      *)
(* drew (Sent); the slot of a call is empty or was filled once, and the    *)
(* packet in it fixed the start (Fresh).                                   *)
Drawn(i) == pc[i] # "idle"

Sent(p) ==
  /\ p.kind \in {"ClientHello", "ServerHello", "Data"} => p.src \in Ids /\ Drawn(p.src)
  /\ p.kind \in {"ClientHello", "ServerHello"} => p.pn = number[p.src]
  /\ p.kind = "ServerHello" =>
       p.src \in Accepts /\ p.dst \in Clients /\ <<p.src, p.dst>> \in conn_manager
  /\ p.kind = "Data" => p.pn = number[p.src] + 2

\* The slot b was never filled, or holds the first packet it got, of this kind.
Fresh(b, kind, ahead) ==
  IF b.packet = None THEN b.start = 0
  ELSE Sent(b.packet) /\ b.packet.kind = kind /\ b.start = b.packet.pn + ahead

AcceptStart(a) ==
  /\ pc[a] = "idle" => buffer[a].packet = None /\ buffer[a].start = 0
  /\ pc[a] = "hello" => Fresh(buffer[a], "ClientHello", 2)

EntryStart(a, c) ==
  /\ Drawn(a) /\ Drawn(c)
  /\ a \in from_queue \/ buffer[a].start = number[c] + 2

ClientStart(c) ==
  /\ pc[c] = "idle" => buffer[c].packet = None /\ buffer[c].start = 0
  /\ pc[c] = "hello" => /\ Fresh(buffer[c], "ServerHello", 1)
                        /\ buffer[c].packet # None => buffer[c].packet.dst = c
  /\ pc[c] = "ok" => /\ buffer[c].start = number[peer[c]] + 1
                     /\ <<peer[c], c>> \in conn_manager

DInv ==
  /\ \A p \in net : Sent(p)
  /\ \A i \in DOMAIN hello_queue : Sent(hello_queue[i])
  /\ \A a \in Accepts : AcceptStart(a)
  /\ \A a \in Accepts, c \in Clients : <<a, c>> \in conn_manager => EntryStart(a, c)
  /\ \A c \in Clients : ClientStart(c)
  /\ \A a \in Accepts \ from_queue : ring[a] = arrived[a]

(* Where the packets are that somebody waits for, if none was lost: the    *)
(* client ack of a connected client, ...                                   *)
AckUnderWay(c) ==
  \/ \E p \in net : p.kind = "ClientAck" /\ p.src = c /\ p.dst = peer[c]
  \/ buffer[peer[c]].packet # None

AInv == lost = 0 => \A c \in Clients : pc[c] = "ok" /\ pc[peer[c]] = "ack" => AckUnderWay(c)

\* An accept() that waits for an ack has answered a client.
Partnered == \A a \in Accepts : pc[a] = "ack" => peer[a] \in Clients

(* ... and the hello of a client that is waiting, or the answer to it.     *)
HelloUnderWay(c) ==
  \/ \E p \in net : p.kind = "ClientHello" /\ p.src = c
  \/ \E i \in DOMAIN hello_queue : hello_queue[i].src = c
  \/ \E a \in Accepts : pc[a] = "hello" /\ buffer[a].packet # None /\ buffer[a].packet.src = c
  \/ \E p \in net : p.kind = "ServerHello" /\ p.dst = c
  \/ buffer[c].packet # None

\* accept() calls are not dropped: at most one is waiting, its slot empty.
OneWaits ==
  drops = 0 =>
    \A i \in DOMAIN pending_accept_ids :
      LET a == pending_accept_ids[i]
      IN i = 1 /\ pc[a] = "hello" /\ buffer[a].packet = None /\ <<a, None>> \in conn_manager

HInv ==
  /\ OneWaits
  /\ lost = 0 /\ drops = 0 /\ overflows = 0 =>
       \A c \in Clients : pc[c] = "hello" /\ number[c] # 0 => HelloUnderWay(c)

-----------------------------------------------------------------------------
(* A slot that is not filled holds no packet, and a ring has room.         *)
LEMMA SlotConstants ==
  None \notin Packets /\ MAX_BUFFER_SIZE \in Nat /\ MAX_BUFFER_SIZE >= 1
BY HandshakeAssumption

(* buffer_in_packet keeps a full slot; it fills an empty one, whose start  *)
(* it sets if it was not set.                                              *)
LEMMA BufferStart ==
  ASSUME NEW b \in BufferType, NEW p \in Packets, NEW ahead \in Nat,
         NEW r, r = buffer_in_packet(b, p, ahead)
  PROVE  /\ r.packet # None
         /\ b.packet # None => r = b
         /\ b.packet = None => r.packet = p
         /\ b.packet = None /\ b.start = 0 => r.start = p.pn + ahead
         /\ b.start # 0 => r.start = b.start
<1>1. CASE b.packet # None
  BY <1>1 DEF buffer_in_packet, BufferType
<1>2. CASE b.packet = None
  <2>1. r = [packet |-> p, addr |-> IF b.addr = None THEN p.src ELSE b.addr,
             start |-> IF b.start = 0 THEN p.pn + ahead ELSE b.start]
    BY <1>2 DEF buffer_in_packet
  <2>2. r.packet = p /\ r.start = IF b.start = 0 THEN p.pn + ahead ELSE b.start
    BY <2>1
  <2>3. p # None
    BY SlotConstants, Zenon
  <2> QED BY <1>2, <2>2, <2>3, Zenon
<1> QED BY <1>1, <1>2

(* Numbers, once drawn, stay, and so do the entries of named connections.  *)
Grows ==
  /\ \A i \in Ids : Drawn(i) => Drawn(i)' /\ number'[i] = number[i]
  /\ \A a \in Accepts, c \in Clients : <<a, c>> \in conn_manager => <<a, c>> \in conn_manager'

(* What a packet says of the number of its sender stays true.              *)
LEMMA SentStays ==
  ASSUME Grows, NEW p, Sent(p)
  PROVE  Sent(p)'
<1>1. p.kind \in {"ClientHello", "ServerHello", "Data"} =>
        Drawn(p.src)' /\ number'[p.src] = number[p.src]
  BY Zenon DEF Sent, Grows
<1>2. p.kind = "ServerHello" => <<p.src, p.dst>> \in conn_manager'
  BY Zenon DEF Sent, Grows
<1>3. p.kind \in {"ClientHello", "ServerHello"} => p.pn = number'[p.src]
  BY <1>1, Zenon DEF Sent
<1>4. p.kind = "Data" => p.pn = number'[p.src] + 2
  BY <1>1, Zenon DEF Sent
<1> QED BY <1>1, <1>2, <1>3, <1>4, Zenon DEF Sent

(* A slot that nobody touched.                                             *)
LEMMA FreshStays ==
  ASSUME Grows, NEW b, NEW kind, NEW ahead, Fresh(b, kind, ahead)
  PROVE  Fresh(b, kind, ahead)'
<1>1. Sent(b.packet) => Sent(b.packet)'
  BY SentStays, Zenon
<1> QED BY <1>1, Zenon DEF Fresh

(* An accept() whose place and slot did not change.                        *)
LEMMA AcceptStays ==
  ASSUME Grows, NEW a, AcceptStart(a), pc'[a] = pc[a], buffer'[a] = buffer[a]
  PROVE  AcceptStart(a)'
<1>1. PICK b : b = buffer[a] /\ b = buffer'[a]
  OBVIOUS
<1>2. pc[a] = "hello" => Fresh(b, "ClientHello", 2)'
  BY <1>1, FreshStays, Zenon DEF AcceptStart
<1>3. pc'[a] = "hello" => Fresh(buffer[a], "ClientHello", 2)'
  BY <1>1, <1>2, Zenon DEF Fresh, Sent
<1> QED BY <1>3, Zenon DEF AcceptStart

(* An entry that was there, and whose start did not change.                *)
LEMMA EntryStays ==
  ASSUME Grows, NEW a \in Ids, NEW c \in Ids, EntryStart(a, c),
         from_queue \subseteq from_queue',
         a \in from_queue' \/ buffer'[a].start = buffer[a].start
  PROVE  EntryStart(a, c)'
<1>1. Drawn(a)' /\ Drawn(c)' /\ number'[c] = number[c]
  BY Zenon DEF Grows, EntryStart
<1> QED BY <1>1, Zenon DEF EntryStart

(* A connect() whose place, slot and peer did not change.                  *)
LEMMA ClientStays ==
  ASSUME Grows, NEW c \in Clients, ClientStart(c), pc[c] = "ok" => peer[c] \in Accepts,
         \A a \in Accepts : <<a, c>> \in conn_manager => Drawn(a),
         pc'[c] = pc[c], buffer'[c] = buffer[c], peer'[c] = peer[c]
  PROVE  ClientStart(c)'
<1>1. PICK b : b = buffer[c] /\ b = buffer'[c]
  OBVIOUS
<1>2. pc[c] = "hello" => Fresh(b, "ServerHello", 1)'
  BY <1>1, FreshStays, Zenon DEF ClientStart
<1>3. pc'[c] = "hello" => Fresh(buffer[c], "ServerHello", 1)'
  BY <1>1, <1>2, Zenon DEF Fresh, Sent
<1>4. pc[c] = "ok" => /\ <<peer[c], c>> \in conn_manager' /\ number'[peer[c]] = number[peer[c]]
  <2> HAVE pc[c] = "ok"
  <2>1. peer[c] \in Accepts /\ <<peer[c], c>> \in conn_manager
    BY Zenon DEF ClientStart
  <2>2. Drawn(peer[c]) /\ peer[c] \in Ids
    BY <2>1, Zenon DEF Ids
  <2> QED BY <2>1, <2>2, Zenon DEF Grows
<1> QED BY <1>3, <1>4, Zenon DEF ClientStart

(* The slots, entries and packets that a step touches are as the invariant *)
(* wants them.                                                             *)
DFrame ==
  /\ Grows
  /\ from_queue \subseteq from_queue'
  /\ \A p \in net' : p \in net \/ Sent(p)'
  /\ \A i \in DOMAIN hello_queue' :
       \/ \E j \in DOMAIN hello_queue : hello_queue'[i] = hello_queue[j]
       \/ Sent(hello_queue[i])'
  /\ \A a \in Accepts : AcceptStart(a)' \/ (pc'[a] = pc[a] /\ buffer'[a] = buffer[a])
  /\ \A a \in Accepts, c \in Clients : <<a, c>> \in conn_manager' =>
       \/ EntryStart(a, c)'
       \/ /\ <<a, c>> \in conn_manager
          /\ a \in from_queue' \/ buffer'[a].start = buffer[a].start
  /\ \A c \in Clients :
       \/ ClientStart(c)'
       \/ pc'[c] = pc[c] /\ buffer'[c] = buffer[c] /\ peer'[c] = peer[c]
  /\ \A a \in Accepts \ from_queue' : ring'[a] = arrived'[a]

(* A step that touches some of the slots and entries, and does right with  *)
(* those, keeps the invariant.                                             *)
LEMMA FrameDInv ==
  ASSUME IInv, DInv, DFrame
  PROVE  DInv'
<1> /\ Grows
    /\ from_queue \subseteq from_queue'
    /\ \A p \in net' : p \in net \/ Sent(p)'
    /\ \A i \in DOMAIN hello_queue' :
         \/ \E j \in DOMAIN hello_queue : hello_queue'[i] = hello_queue[j]
         \/ Sent(hello_queue[i])'
    /\ \A a \in Accepts : AcceptStart(a)' \/ (pc'[a] = pc[a] /\ buffer'[a] = buffer[a])
    /\ \A a \in Accepts, c \in Clients : <<a, c>> \in conn_manager' =>
         \/ EntryStart(a, c)'
         \/ /\ <<a, c>> \in conn_manager
            /\ a \in from_queue' \/ buffer'[a].start = buffer[a].start
    /\ \A c \in Clients :
         \/ ClientStart(c)'
         \/ pc'[c] = pc[c] /\ buffer'[c] = buffer[c] /\ peer'[c] = peer[c]
    /\ \A a \in Accepts \ from_queue' : ring'[a] = arrived'[a]
  BY Zenon DEF DFrame
<1>1. \A p : Sent(p) => Sent(p)'
  BY SentStays, Zenon
<1>2. \A p \in net' : Sent(p)'
  BY <1>1, Zenon DEF DInv
<1>3. ASSUME NEW i \in DOMAIN hello_queue'
      PROVE  Sent(hello_queue[i])'
  <2>1. CASE \E j \in DOMAIN hello_queue : hello_queue'[i] = hello_queue[j]
    <3>1. PICK j \in DOMAIN hello_queue : hello_queue'[i] = hello_queue[j]
      BY Zenon, <2>1
    <3>2. PICK q : q = hello_queue[j] /\ q = hello_queue'[i]
      BY <3>1
    <3>3. Sent(q)'
      BY <1>1, <3>2, Zenon DEF DInv
    <3> QED BY <3>2, <3>3, Zenon DEF Sent
  <2> QED BY <2>1
<1>4. \A a \in Accepts : AcceptStart(a)'
  BY AcceptStays, Zenon DEF DInv
<1>5. ASSUME NEW a \in Accepts, NEW c \in Clients, <<a, c>> \in conn_manager'
      PROVE  EntryStart(a, c)'
  <2>1. a \in Ids /\ c \in Ids
    BY Zenon DEF Ids
  <2>2. <<a, c>> \in conn_manager => EntryStart(a, c)
    BY Zenon DEF DInv
  <2> QED BY <1>5, <2>1, <2>2, EntryStays, Zenon
<1>6. ASSUME NEW c \in Clients
      PROVE  ClientStart(c)'
  <2>1. pc[c] = "ok" => peer[c] \in Accepts
    BY Zenon DEF IInv, Peers
  <2>2. \A a \in Accepts : <<a, c>> \in conn_manager => Drawn(a)
    BY Zenon DEF DInv, EntryStart
  <2>3. ClientStart(c)
    BY Zenon DEF DInv
  <2> QED BY <2>1, <2>2, <2>3, ClientStays, Zenon
<1> QED BY <1>2, <1>3, <1>4, <1>5, <1>6, Zenon DEF DInv

(* The sets of callers, and the types that the steps need.                 *)
LEMMA Known ==
  ASSUME IInv
  PROVE  /\ Clients \subseteq Ids /\ Accepts \subseteq Ids /\ Clients \cap Accepts = {}
         /\ None \notin Clients /\ None \notin Accepts
         /\ buffer \in [Ids -> BufferType] /\ number \in [Ids -> Nat] /\ net \subseteq Packets
         /\ DOMAIN pc = Ids /\ DOMAIN peer = Ids
BY Constants DEF IInv, TypeOK, BufferType, Ids

(* Nobody draws a number, and no entry of a named connection goes away.    *)
LEMMA GrowsQuietly ==
  ASSUME \A i \in Ids : Drawn(i) => Drawn(i)', number' = number, conn_manager \subseteq conn_manager'
  PROVE  Grows
BY Zenon DEF Grows

(* a answers the hello p, which fixed the start unless it came from the    *)
(* queue.                                                                  *)
Answers(a, p) ==
  /\ IsHello(p)
  /\ Sent(p)
  /\ Answer(a, p)
  /\ pc[a] \in {"idle", "hello"}
  /\ \A i \in Ids : i # a => number'[i] = number[i] /\ buffer'[i] = buffer[i]
  /\ Drawn(a) => number'[a] = number[a]
  /\ from_queue \subseteq from_queue'
  /\ a \in from_queue' \/ (Drawn(a) /\ buffer'[a].start = p.pn + 2)
  /\ \A i \in DOMAIN hello_queue' :
       \E j \in DOMAIN hello_queue : hello_queue'[i] = hello_queue[j]
  /\ UNCHANGED <<ring, arrived>>

(* accept() and TakeClientHello answer a hello: the entry gets the name of *)
(* the client, whose hello fixed the start unless it came from the queue.  *)
LEMMA AnswerDInv ==
  ASSUME IInv, DInv, NEW a \in Accepts, NEW p, Answers(a, p)
  PROVE  DInv'
<1> /\ IsHello(p)
    /\ Sent(p)
    /\ Answer(a, p)
    /\ pc[a] \in {"idle", "hello"}
    /\ \A i \in Ids : i # a => number'[i] = number[i] /\ buffer'[i] = buffer[i]
    /\ Drawn(a) => number'[a] = number[a]
    /\ from_queue \subseteq from_queue'
    /\ a \in from_queue' \/ (Drawn(a) /\ buffer'[a].start = p.pn + 2)
    /\ \A i \in DOMAIN hello_queue' :
         \E j \in DOMAIN hello_queue : hello_queue'[i] = hello_queue[j]
    /\ UNCHANGED <<ring, arrived>>
  BY Zenon DEF Answers
<1>1. /\ Clients \subseteq Ids /\ Accepts \subseteq Ids /\ Clients \cap Accepts = {}
      /\ None \notin Clients /\ DOMAIN pc = Ids /\ DOMAIN peer = Ids
  BY Zenon, Known
<1>2. a \in Ids /\ a \notin Clients /\ p.src \in Clients /\ p.src \in Ids /\ p.src # a /\ p.src # None
  BY <1>1, Zenon DEF IsHello
<1>3. /\ pc'[a] \in {"error", "ack"} /\ \A i \in Ids : i # a => pc'[i] = pc[i]
      /\ \A i \in Ids : i # a => peer'[i] = peer[i]
  BY <1>1, <1>2, Zenon DEF Answer
<1>4. \A c \in Clients : <<a, c>> \notin conn_manager
  BY Zenon DEF IInv, Entries
<1>5. \/ conn_manager' = conn_manager \cup {<<a, None>>} /\ net' = net
      \/ /\ conn_manager' = (conn_manager \ {<<a, None>>}) \cup {<<a, p.src>>}
         /\ net' = net \cup {Packet(p.src, "ServerHello", a, p.src, number'[a])}
  BY Zenon DEF Answer, Send
<1>6. Drawn(a)' /\ Drawn(p.src) /\ Drawn(p.src)' /\ p.pn = number[p.src] /\ number'[p.src] = number[p.src]
  <2>1. pc'[a] # "idle"
    BY Zenon, <1>3
  <2>2. Drawn(p.src) /\ p.pn = number[p.src]
    BY Zenon DEF Sent, IsHello
  <2> QED BY <1>2, <1>3, <2>1, <2>2, Zenon DEF Drawn
<1>7. Grows
  <2>1. ASSUME NEW i \in Ids, Drawn(i)
        PROVE  Drawn(i)' /\ number'[i] = number[i]
    <3>1. CASE i = a
      BY <1>6, <2>1, <3>1, Zenon
    <3>2. CASE i # a
      BY <1>3, <2>1, <3>2, Zenon DEF Drawn
    <3> QED BY <3>1, <3>2
  <2>2. ASSUME NEW x \in Accepts, NEW c \in Clients, <<x, c>> \in conn_manager
        PROVE  <<x, c>> \in conn_manager'
    <3>1. <<x, c>> # <<a, None>>
      BY Zenon, <1>1
    <3> QED BY <1>5, <2>2, <3>1, Zenon
  <2> QED BY <2>1, <2>2, Zenon DEF Grows
<1>8. ASSUME NEW q \in net'
      PROVE  q \in net \/ Sent(q)'
  <2>1. CASE q \in net
    BY <2>1
  <2>2. CASE q \notin net
    <3>1. /\ <<a, p.src>> \in conn_manager'
          /\ q = Packet(p.src, "ServerHello", a, p.src, number'[a])
      BY <1>5, <2>2, Zenon
    <3>2. q.kind = "ServerHello" /\ q.src = a /\ q.dst = p.src /\ q.pn = number'[a]
      BY <3>1, Zenon DEF Packet
    <3> QED BY <1>2, <1>6, <3>1, <3>2, Zenon DEF Sent
  <2> QED BY <2>1, <2>2
<1>9. ASSUME NEW x \in Accepts
      PROVE  AcceptStart(x)' \/ (pc'[x] = pc[x] /\ buffer'[x] = buffer[x])
  <2>1. CASE x = a
    <3>1. pc'[x] # "idle" /\ pc'[x] # "hello"
      BY <1>3, <2>1
    <3> QED BY <3>1, Zenon DEF AcceptStart
  <2>2. CASE x # a
    BY <1>1, <1>3, <2>2, Zenon
  <2> QED BY Zenon, <2>1, <2>2
<1>10. ASSUME NEW x \in Accepts, NEW c \in Clients, <<x, c>> \in conn_manager'
       PROVE  \/ EntryStart(x, c)'
              \/ /\ <<x, c>> \in conn_manager
                 /\ x \in from_queue' \/ buffer'[x].start = buffer[x].start
  <2>1. CASE <<x, c>> \in conn_manager
    <3>1. x # a
      BY <1>4, <2>1, Zenon
    <3>2. buffer'[x] = buffer[x]
      BY <1>1, <3>1, Zenon
    <3> QED BY <2>1, <3>2, Zenon
  <2>2. CASE <<x, c>> \notin conn_manager
    <3>1. <<x, c>> # <<a, None>>
      BY <1>1
    <3>2. <<x, c>> = <<a, p.src>>
      BY <1>5, <1>10, <2>2, <3>1, Zenon
    <3>3. x = a /\ c = p.src
      BY <3>2
    <3>4. a \in from_queue' \/ buffer'[a].start = number'[p.src] + 2
      BY <1>6, Zenon
    <3> QED BY <1>6, <3>3, <3>4, Zenon DEF EntryStart
  <2> QED BY <2>1, <2>2
<1>11. \A c \in Clients : pc'[c] = pc[c] /\ buffer'[c] = buffer[c] /\ peer'[c] = peer[c]
  BY <1>1, <1>2, <1>3, Zenon
<1>12. \A x \in Accepts \ from_queue' : ring'[x] = arrived'[x]
  BY Zenon DEF DInv
<1> QED
  <2>1. DFrame
    BY <1>7, <1>8, <1>9, <1>10, <1>11, <1>12, Zenon DEF DFrame
  <2> QED BY <2>1, FrameDInv, Zenon

(* A step that draws no number and fills no slot.                          *)
DQuiet ==
  /\ \A i \in Ids : Drawn(i) => Drawn(i)'
  /\ UNCHANGED <<number, conn_manager, hello_queue, from_queue, ring, arrived>>
  /\ \A q \in net' : q \in net \/ q.kind = "ClientAck" \/ Sent(q)'
  /\ \A i \in Ids : buffer'[i].start = buffer[i].start
  /\ \A a \in Accepts : \/ pc'[a] \notin {"idle", "hello"}
                        \/ pc'[a] = pc[a] /\ buffer'[a] = buffer[a]
  /\ \A c \in Clients : \/ ClientStart(c)'
                        \/ pc'[c] = pc[c] /\ buffer'[c] = buffer[c] /\ peer'[c] = peer[c]

(* A step of an accept() or connect() that draws no number, sends nothing  *)
(* that carries one and fills no slot.                                     *)
LEMMA QuietDInv ==
  ASSUME IInv, DInv, DQuiet
  PROVE  DInv'
<1> /\ \A i \in Ids : Drawn(i) => Drawn(i)'
    /\ UNCHANGED <<number, conn_manager, hello_queue, from_queue, ring, arrived>>
    /\ \A q \in net' : q \in net \/ q.kind = "ClientAck" \/ Sent(q)'
    /\ \A i \in Ids : buffer'[i].start = buffer[i].start
    /\ \A a \in Accepts : \/ pc'[a] \notin {"idle", "hello"}
                          \/ pc'[a] = pc[a] /\ buffer'[a] = buffer[a]
    /\ \A c \in Clients : \/ ClientStart(c)'
                          \/ pc'[c] = pc[c] /\ buffer'[c] = buffer[c] /\ peer'[c] = peer[c]
  BY Zenon DEF DQuiet
<1>1. Clients \subseteq Ids /\ Accepts \subseteq Ids
  BY Zenon, Known
<1>2. Grows
  BY GrowsQuietly
<1>3. \A q \in net' : q \in net \/ Sent(q)'
  <2> TAKE q \in net'
  <2>1. q.kind = "ClientAck" => q.kind \notin {"ClientHello", "ServerHello", "Data"}
    OBVIOUS
  <2>2. q.kind = "ClientAck" => Sent(q)'
    BY <2>1 DEF Sent
  <2> QED BY <2>2
<1>4. \A i \in DOMAIN hello_queue' : \E j \in DOMAIN hello_queue : hello_queue'[i] = hello_queue[j]
  OBVIOUS
<1>5. \A a \in Accepts : AcceptStart(a)' \/ (pc'[a] = pc[a] /\ buffer'[a] = buffer[a])
  BY Zenon DEF AcceptStart
<1>6. \A a \in Accepts, c \in Clients : <<a, c>> \in conn_manager' =>
        /\ <<a, c>> \in conn_manager
        /\ a \in from_queue' \/ buffer'[a].start = buffer[a].start
  BY <1>1, Zenon
<1>7. \A a \in Accepts \ from_queue' : ring'[a] = arrived'[a]
  BY Zenon DEF DInv
<1>8. from_queue \subseteq from_queue'
  OBVIOUS
<1> QED
  <2>1. DFrame
    BY <1>2, <1>3, <1>4, <1>5, <1>6, <1>7, <1>8, Zenon DEF DFrame
  <2> QED BY <2>1, FrameDInv, Zenon

\* A reader puts p into the slot i, of a call that takes such a packet, or nowhere.
Puts(p, i, ahead) ==
  \/ buffer' = buffer
  \/ /\ i \in Ids /\ buffer' = [buffer EXCEPT ![i] = buffer_in_packet(@, p, ahead)]
     /\ pc[i] # "idle"
     /\ i \in Accepts /\ pc[i] = "hello" => p.kind = "ClientHello" /\ ahead = 2
     /\ i \in Clients => /\ pc[i] # "ok" /\ p.kind = "ServerHello" /\ ahead = 1
                         /\ p.dst = i

(* A reader takes p from the network and buffers, queues or drops it.      *)
LEMMA ReaderDInv ==
  ASSUME IInv, DInv, NEW p \in net, Arrive(p), UNCHANGED <<conn_manager, calls, from_queue>>,
         NEW i, NEW ahead \in Nat, Puts(p, i, ahead),
         \A k \in DOMAIN hello_queue' :
           \/ \E j \in DOMAIN hello_queue : hello_queue'[k] = hello_queue[j]
           \/ hello_queue'[k] = p,
         \A a \in Accepts \ from_queue : ring'[a] = arrived'[a]
  PROVE  DInv'
<1>1. /\ Clients \subseteq Ids /\ Accepts \subseteq Ids /\ Clients \cap Accepts = {}
      /\ buffer \in [Ids -> BufferType] /\ number \in [Ids -> Nat] /\ p \in Packets
  BY Known
<1>2. pc' = pc /\ number' = number /\ peer' = peer /\ conn_manager' = conn_manager
      /\ from_queue' = from_queue /\ net' \subseteq net
  BY DEF calls, Arrive
<1>3. Grows
  BY <1>2, Zenon DEF Grows, Drawn
<1>4. Sent(p) /\ Sent(p)'
  BY <1>3, SentStays, Zenon DEF DInv
<1>5. ASSUME NEW k \in DOMAIN hello_queue'
      PROVE  \/ \E j \in DOMAIN hello_queue : hello_queue'[k] = hello_queue[j]
             \/ Sent(hello_queue[k])'
  <2>1. CASE hello_queue'[k] = p
    BY <1>4, <2>1, Zenon DEF Sent
  <2> QED BY <2>1
<1>6. CASE buffer' = buffer
  <2>1. \A a \in Accepts : pc'[a] = pc[a] /\ buffer'[a] = buffer[a]
    BY <1>2, <1>6, Zenon
  <2>2. \A c \in Clients : pc'[c] = pc[c] /\ buffer'[c] = buffer[c] /\ peer'[c] = peer[c]
    BY <1>2, <1>6, Zenon
  <2> QED
    <3>1. DFrame
      BY <1>2, <1>3, <1>5, <1>6, <2>1, <2>2, Zenon DEF DFrame
    <3> QED BY <3>1, FrameDInv, Zenon
<1>7. CASE buffer' # buffer
  <2>1. /\ i \in Ids /\ buffer' = [buffer EXCEPT ![i] = buffer_in_packet(buffer[i], p, ahead)]
        /\ pc[i] # "idle"
        /\ i \in Accepts /\ pc[i] = "hello" => p.kind = "ClientHello" /\ ahead = 2
        /\ i \in Clients => /\ pc[i] # "ok" /\ p.kind = "ServerHello" /\ ahead = 1
                            /\ p.dst = i
    BY <1>7, Zenon DEF Puts
  <2>2. PICK r : r = buffer_in_packet(buffer[i], p, ahead)
    OBVIOUS
  <2>3. buffer'[i] = r /\ \A j \in Ids : j # i => buffer'[j] = buffer[j]
    BY <1>1, <2>1, <2>2, Zenon
  <2>4. /\ r.packet # None
        /\ buffer[i].packet # None => r = buffer[i]
        /\ buffer[i].packet = None => r.packet = p
        /\ buffer[i].packet = None /\ buffer[i].start = 0 => r.start = p.pn + ahead
        /\ buffer[i].start # 0 => r.start = buffer[i].start
    <3>1. buffer[i] \in BufferType /\ p \in Packets /\ ahead \in Nat
      BY Zenon, <1>1, <2>1
    <3> QED BY <2>2, <3>1, BufferStart, SMTT(20)
  <2>5. ASSUME NEW kind, Fresh(buffer[i], kind, ahead), p.kind = kind
        PROVE  Fresh(buffer[i], kind, ahead)'
    <3>1. CASE buffer[i].packet # None
      <4>1. Fresh(r, kind, ahead)
        BY <2>4, <2>5, <3>1, Zenon
      <4>2. Fresh(r, kind, ahead)'
        BY <1>3, <4>1, FreshStays, Zenon
      <4> QED BY <2>3, <4>2, Zenon DEF Fresh, Sent
    <3>2. CASE buffer[i].packet = None
      <4>1. buffer[i].start = 0
        BY <2>5, <3>2, Zenon DEF Fresh
      <4>2. r.packet = p /\ r.start = p.pn + ahead
        BY <2>4, <3>2, <4>1, Zenon
      <4>3. Sent(r.packet)'
        BY <1>4, <4>2, Zenon
      <4>4. Fresh(r, kind, ahead)'
        BY <2>4, <2>5, <4>2, <4>3, Zenon DEF Fresh
      <4> QED BY <2>3, <4>4, Zenon DEF Fresh, Sent
    <3> QED BY Zenon, <3>1, <3>2
  <2>6. ASSUME NEW a \in Accepts
        PROVE  AcceptStart(a)' \/ (pc'[a] = pc[a] /\ buffer'[a] = buffer[a])
    <3>1. CASE a # i
      BY <1>1, <1>2, <2>3, <3>1, Zenon
    <3>2. CASE a = i
      <4>1. AcceptStart(i)
        BY <3>2, Zenon DEF DInv
      <4>2. pc[i] = "hello" => Fresh(buffer[i], "ClientHello", 2)'
        BY <2>1, <2>5, <3>2, <4>1, Zenon DEF AcceptStart
      <4> QED BY <1>2, <2>1, <3>2, <4>2, Zenon DEF AcceptStart
    <3> QED BY Zenon, <3>1, <3>2
  <2>7. ASSUME NEW a \in Accepts, NEW c \in Clients, <<a, c>> \in conn_manager'
        PROVE  /\ <<a, c>> \in conn_manager
               /\ a \in from_queue' \/ buffer'[a].start = buffer[a].start
    <3>1. <<a, c>> \in conn_manager
      BY <1>2, <2>7, Zenon
    <3>2. CASE a # i
      BY <1>1, <2>3, <3>1, <3>2, Zenon
    <3>3. CASE a = i
      <4>1. a \in from_queue \/ buffer[a].start = number[c] + 2
        BY <3>1, Zenon DEF DInv, EntryStart
      <4>2. number[c] \in Nat
        BY Zenon, <1>1
      <4>3. number[c] + 2 # 0
        BY <4>2, TwoMore, Zenon
      <4> QED BY <1>2, <2>3, <2>4, <3>1, <3>3, <4>1, <4>3, Zenon
    <3> QED BY Zenon, <3>2, <3>3
  <2>8. ASSUME NEW c \in Clients
        PROVE  \/ ClientStart(c)'
               \/ pc'[c] = pc[c] /\ buffer'[c] = buffer[c] /\ peer'[c] = peer[c]
    <3>1. CASE c # i
      BY <1>1, <1>2, <2>3, <3>1, Zenon
    <3>2. CASE c = i
      <4>1. ClientStart(i)
        BY <3>2, Zenon DEF DInv
      <4>2. pc[i] = "hello" => Fresh(buffer[i], "ServerHello", 1)'
        BY <2>1, <2>5, <3>2, <4>1, Zenon DEF ClientStart
      <4>3. pc[i] = "hello" => buffer'[i].packet.dst = i
        BY <2>1, <2>3, <2>4, <3>2, <4>1, Zenon DEF ClientStart
      <4> QED BY <1>2, <2>1, <3>2, <4>2, <4>3, Zenon DEF ClientStart
    <3> QED BY Zenon, <3>1, <3>2
  <2> QED
    <3>1. DFrame
      BY <1>2, <1>3, <1>5, <2>6, <2>7, <2>8, Zenon DEF DFrame
    <3> QED BY <3>1, FrameDInv, Zenon
<1> QED BY <1>6, <1>7

(* Data that arrives finds its entry, and the start is its number.         *)
LEMMA DataArrives ==
  ASSUME IInv, DInv, NEW p \in net, BufferData(p), NEW a \in Accepts \ from_queue
  PROVE  ring'[a] = arrived'[a]
<1>1. /\ p.kind = "Data" /\ arrived' = [arrived EXCEPT ![p.dst] = @ \cup {p.pn}]
      /\ ring' = IF <<p.dst, p.src>> \in conn_manager
                    /\ p.pn \in buffer[p.dst].start .. buffer[p.dst].start + MAX_BUFFER_SIZE - 1
                 THEN [ring EXCEPT ![p.dst] = @ \cup {p.pn}] ELSE ring
  BY Zenon DEF BufferData
<1>2. ring[a] = arrived[a] /\ DOMAIN ring = Accepts /\ DOMAIN arrived = Accepts
  BY Zenon DEF DInv, IInv, TypeOK
<1>3. CASE a # p.dst
  <2>1. arrived'[a] = arrived[a] /\ ring'[a] = ring[a]
    BY <1>1, <1>2, <1>3, Zenon
  <2> QED BY Zenon, <1>2, <2>1
<1>4. CASE a = p.dst
  <2>1. p.src \in Clients /\ pc[p.src] = "ok" /\ peer[p.src] = a
    BY <1>1, <1>4, Zenon DEF IInv, Packed, Legit, Committed
  <2>2. <<a, p.src>> \in conn_manager
    BY <2>1, Zenon DEF DInv, ClientStart
  <2>3. buffer[a].start = number[p.src] + 2
    BY <2>1, <2>2, Zenon DEF DInv, EntryStart
  <2>4. p.pn = number[p.src] + 2
    BY <1>1, Zenon DEF DInv, Sent
  <2>5. number[p.src] \in Nat
    BY Zenon, <2>1, Known
  <2>6. p.pn \in buffer[a].start .. buffer[a].start + MAX_BUFFER_SIZE - 1
    BY <2>3, <2>4, <2>5, SlotConstants
  <2>7. ring' = [ring EXCEPT ![a] = @ \cup {p.pn}]
    BY <1>1, <1>4, <2>2, <2>6, Zenon
  <2> QED BY <1>1, <1>2, <1>4, <2>7, Zenon
<1> QED BY <1>3, <1>4

(* The invariant holds before any call.                                    *)
LEMMA InitDInv == Init => DInv
<1> SUFFICES ASSUME Init
             PROVE  DInv
  OBVIOUS
<1>1. /\ net = {} /\ hello_queue = <<>> /\ conn_manager = {} /\ ring = arrived
      /\ \A i \in Ids : pc[i] = "idle" /\ buffer[i].packet = None /\ buffer[i].start = 0
  BY DEF Init
<1>2. Accepts \subseteq Ids /\ Clients \subseteq Ids
  BY Zenon DEF Ids
<1> QED BY <1>1, <1>2 DEF DInv, AcceptStart, ClientStart

(* Every step keeps the invariant of the data's start.                     *)
LEMMA StepDInv == IInv /\ DInv /\ [Next]_vars => DInv'
<1> SUFFICES ASSUME IInv, DInv, [Next]_vars
             PROVE  DInv'
  OBVIOUS
<1> /\ Clients \subseteq Ids /\ Accepts \subseteq Ids /\ Clients \cap Accepts = {}
    /\ None \notin Clients /\ None \notin Accepts
    /\ buffer \in [Ids -> BufferType] /\ number \in [Ids -> Nat] /\ net \subseteq Packets
    /\ DOMAIN pc = Ids /\ DOMAIN peer = Ids
  BY Known
<1>1. ASSUME NEW a \in Accepts, accept(a)
      PROVE  DInv'
  <2>1. /\ pc[a] = "idle" /\ buffer' = buffer /\ ring' = ring /\ arrived' = arrived
        /\ \A i \in Ids : i # a => number'[i] = number[i]
    BY <1>1, Zenon DEF accept
  <2>2. ~Drawn(a)
    BY <2>1, Zenon DEF Drawn
  <2>3. CASE AcceptQueued(a)
    <3>1. /\ hello_queue # <<>> /\ hello_queue' = Tail(hello_queue)
          /\ Answer(a, Head(hello_queue)) /\ from_queue' = from_queue \cup {a}
      BY <2>3, Zenon DEF AcceptQueued
    <3>2. hello_queue \in Seq(Packets)
      BY Zenon DEF IInv, TypeOK
    <3>3. /\ Head(hello_queue) = hello_queue[1] /\ 1 \in DOMAIN hello_queue
          /\ \A i \in DOMAIN hello_queue' :
               \E j \in DOMAIN hello_queue : hello_queue'[i] = hello_queue[j]
      BY <3>1, <3>2, QueueFacts
    <3>4. IsHello(Head(hello_queue)) /\ Sent(Head(hello_queue))
      BY <3>3, Zenon DEF IInv, Packed, DInv
    <3>5. from_queue \subseteq from_queue' /\ a \in from_queue'
      BY <3>1
    <3>6. \A i \in Ids : i # a => number'[i] = number[i] /\ buffer'[i] = buffer[i]
      BY <2>1, Zenon
    <3> QED
      <4>1. Answers(a, Head(hello_queue))
        BY <2>1, <2>2, <3>1, <3>3, <3>4, <3>5, <3>6, Zenon DEF Answers
      <4> QED BY <4>1, AnswerDInv, Zenon
  <2>4. CASE AcceptWaits(a)
    <3>1. /\ net' = net /\ hello_queue' = hello_queue /\ peer' = peer /\ from_queue' = from_queue
          /\ conn_manager' = conn_manager \cup {<<a, None>>}
          /\ pc' = [pc EXCEPT ![a] = "hello"]
      BY <2>4, Zenon DEF AcceptWaits
    <3>2. pc'[a] = "hello" /\ \A i \in Ids : i # a => pc'[i] = pc[i]
      BY <3>1, Zenon
    <3>3. Grows
      <4>1. ASSUME NEW i \in Ids, Drawn(i)
            PROVE  Drawn(i)' /\ number'[i] = number[i]
        BY <2>1, <2>2, <3>2, <4>1, Zenon DEF Drawn
      <4>2. conn_manager \subseteq conn_manager'
        BY Zenon, <3>1
      <4> QED BY <4>1, <4>2, Zenon DEF Grows
    <3>4. AcceptStart(a)'
      <4>1. buffer'[a].packet = None /\ buffer'[a].start = 0
        BY <2>1, Zenon DEF DInv, AcceptStart
      <4> QED BY <4>1, <3>2, Zenon DEF AcceptStart, Fresh
    <3>5. \A x \in Accepts : AcceptStart(x)' \/ (pc'[x] = pc[x] /\ buffer'[x] = buffer[x])
      BY <2>1, <3>2, <3>4, Zenon
    <3>6. \A x \in Accepts, c \in Clients : <<x, c>> \in conn_manager' =>
            /\ <<x, c>> \in conn_manager
            /\ x \in from_queue' \/ buffer'[x].start = buffer[x].start
      BY <2>1, <3>1
    <3>7. \A c \in Clients : pc'[c] = pc[c] /\ buffer'[c] = buffer[c] /\ peer'[c] = peer[c]
      BY <2>1, <3>1, <3>2
    <3>8. \A x \in Accepts \ from_queue' : ring'[x] = arrived'[x]
      BY <2>1, <3>1, Zenon DEF DInv
    <3> QED
      <4>1. DFrame
        BY <3>1, <3>3, <3>5, <3>6, <3>7, <3>8, Zenon DEF DFrame
      <4> QED BY <4>1, FrameDInv, Zenon
  <2> QED BY Zenon, <1>1, <2>3, <2>4 DEF accept
<1>2. ASSUME NEW a \in Accepts, TakeClientHello(a)
      PROVE  DInv'
  <2>1. /\ pc[a] = "hello" /\ buffer[a].packet # None /\ buffer' = Taken(a) /\ number' = number
        /\ Answer(a, buffer[a].packet) /\ hello_queue' = hello_queue
        /\ ring' = ring /\ from_queue' = from_queue /\ arrived' = arrived
    BY <1>2, Zenon DEF TakeClientHello, Ready, hello_state, history
  <2>2. /\ Sent(buffer[a].packet) /\ buffer[a].start = buffer[a].packet.pn + 2
    BY <2>1, Zenon DEF DInv, AcceptStart, Fresh
  <2>3. IsHello(buffer[a].packet)
    BY <2>1, Zenon DEF IInv, Slots
  <2>4. /\ buffer'[a].start = buffer[a].start
        /\ \A i \in Ids : i # a => number'[i] = number[i] /\ buffer'[i] = buffer[i]
    BY <2>1, Zenon DEF Taken, BufferType
  <2>5. Drawn(a) /\ pc[a] \in {"idle", "hello"}
    BY <2>1, Zenon DEF Drawn
  <2>6. \A i \in DOMAIN hello_queue' :
          \E j \in DOMAIN hello_queue : hello_queue'[i] = hello_queue[j]
    BY <2>1, Zenon
  <2> QED
    <3>1. Answers(a, buffer[a].packet)
      BY <2>1, <2>2, <2>3, <2>4, <2>5, <2>6, Zenon DEF Answers
    <3> QED BY <3>1, AnswerDInv, Zenon
<1>3. ASSUME NEW a \in Accepts, TakeClientAck(a) \/ AcceptTimeout(a) \/ DropAccept(a)
      PROVE  DInv'
  <2>1. /\ UNCHANGED <<number, conn_manager, hello_queue, from_queue, ring, arrived>>
        /\ net' = net /\ peer' = peer
        /\ \E x \in {"ok", "error", "timed_out", "dropped"} : pc' = [pc EXCEPT ![a] = x]
        /\ buffer' = buffer \/ buffer' = Taken(a)
    BY <1>3 DEF TakeClientAck, AcceptTimeout, DropAccept, hello_state, history
  <2>2. pc'[a] \in {"ok", "error", "timed_out", "dropped"} /\ \A i \in Ids : i # a => pc'[i] = pc[i]
    BY <2>1, Zenon
  <2>3. /\ \A i \in Ids : buffer'[i].start = buffer[i].start
        /\ \A i \in Ids : i # a => buffer'[i] = buffer[i]
    <3>1. CASE buffer' = buffer
      BY <3>1, Zenon
    <3>2. CASE buffer' = Taken(a)
      BY <3>2, Zenon DEF Taken, BufferType
    <3> QED BY <2>1, <3>1, <3>2
  <2>4. pc'[a] # "idle" /\ pc'[a] \notin {"idle", "hello"}
    BY <2>2
  <2>5. \A i \in Ids : Drawn(i) => Drawn(i)'
    BY <2>2, <2>4, Zenon DEF Drawn
  <2>6. \A x \in Accepts : \/ pc'[x] \notin {"idle", "hello"}
                           \/ pc'[x] = pc[x] /\ buffer'[x] = buffer[x]
    BY <2>2, <2>3, <2>4, Zenon
  <2>7. \A c \in Clients : pc'[c] = pc[c] /\ buffer'[c] = buffer[c] /\ peer'[c] = peer[c]
    BY <2>1, <2>2, <2>3
  <2> QED
    <3>1. DQuiet
      BY <2>1, <2>3, <2>5, <2>6, <2>7, Zenon DEF DQuiet
    <3> QED BY <3>1, QuietDInv, Zenon
<1>4. ASSUME NEW c \in Clients, connect(c)
      PROVE  DInv'
  <2>1. PICK n \in ClientNumbers :
          /\ number' = [number EXCEPT ![c] = n]
          /\ net' = net \cup {Packet(Server, "ClientHello", c, None, n)}
    BY <1>4, Zenon DEF connect, Send
  <2>2. /\ pc[c] = "idle" /\ pc' = [pc EXCEPT ![c] = "hello"] /\ buffer' = buffer
        /\ UNCHANGED <<hello_queue, conn_manager, ring, peer, from_queue, arrived>>
    BY <1>4, Zenon DEF connect, begin, hello_state, history
  <2>3. /\ pc'[c] = "hello" /\ \A i \in Ids : i # c => pc'[i] = pc[i] /\ number'[i] = number[i]
        /\ number'[c] = n
    BY <2>1, <2>2, Zenon
  <2>4. ~Drawn(c) /\ Drawn(c)'
    BY <2>2, <2>3, Zenon DEF Drawn
  <2>5. Grows
    <3>1. ASSUME NEW i \in Ids, Drawn(i)
          PROVE  Drawn(i)' /\ number'[i] = number[i]
      BY <2>3, <2>4, <3>1, Zenon DEF Drawn
    <3> QED BY <2>2, <3>1, Zenon DEF Grows
  <2>6. ASSUME NEW q \in net'
        PROVE  q \in net \/ Sent(q)'
    <3>1. CASE q \in net
      BY <3>1
    <3>2. CASE q = Packet(Server, "ClientHello", c, None, n)
      <4>1. q.kind = "ClientHello" /\ q.src = c /\ q.pn = n
        BY <3>2, Zenon DEF Packet
      <4>2. q.kind # "ServerHello" /\ q.kind # "Data"
        BY <4>1
      <4> QED BY <2>3, <2>4, <4>1, <4>2, Zenon DEF Sent
    <3> QED BY <2>1, <2>6, <3>1, <3>2, Zenon
  <2>7. ClientStart(c)'
    <3>1. buffer'[c].packet = None /\ buffer'[c].start = 0
      BY <2>2, Zenon DEF DInv, ClientStart
    <3> QED BY <3>1, <2>3 DEF ClientStart, Fresh
  <2>8. \A x \in Clients : \/ ClientStart(x)'
                           \/ pc'[x] = pc[x] /\ buffer'[x] = buffer[x] /\ peer'[x] = peer[x]
    BY <2>2, <2>3, <2>7, Zenon
  <2>9. \A a \in Accepts : pc'[a] = pc[a] /\ buffer'[a] = buffer[a]
    BY Zenon, <2>2, <2>3
  <2>10. \A a \in Accepts \ from_queue' : ring'[a] = arrived'[a]
    BY <2>2, Zenon DEF DInv
  <2>11. \A i \in DOMAIN hello_queue' :
           \E j \in DOMAIN hello_queue : hello_queue'[i] = hello_queue[j]
    BY <2>2, Zenon
  <2> QED
    <3>1. DFrame
      BY <2>2, <2>5, <2>6, <2>8, <2>9, <2>10, <2>11, Zenon DEF DFrame
    <3> QED BY <3>1, FrameDInv, Zenon
<1>5. ASSUME NEW c \in Clients, TakeServerHello(c)
      PROVE  DInv'
  <2>1. PICK p : p = buffer[c].packet
    OBVIOUS
  <2>2. /\ pc[c] = "hello" /\ p # None /\ buffer' = Taken(c) /\ peer' = [peer EXCEPT ![c] = p.src]
        /\ UNCHANGED <<number, conn_manager, hello_queue, from_queue, ring, arrived>>
    BY <1>5, <2>1, Zenon DEF TakeServerHello, Ready, hello_state, history
  <2>3. \/ p.pn = 0 /\ pc' = [pc EXCEPT ![c] = "error"] /\ net' = net
        \/ /\ pc' = [pc EXCEPT ![c] = "ok"]
           /\ net' = net \cup {Packet(Server, "ClientAck", c, p.src, number[c] + 1)}
    BY <1>5, <2>1, Zenon DEF TakeServerHello, Send
  <2>4. /\ Sent(p) /\ p.kind = "ServerHello" /\ buffer[c].start = p.pn + 1 /\ p.dst = c
    BY <2>1, <2>2, Zenon DEF DInv, ClientStart, Fresh
  <2>5. p.pn = number[p.src] /\ <<p.src, c>> \in conn_manager
    BY <2>4, Zenon DEF Sent
  <2>6. /\ pc'[c] \in {"error", "ok"} /\ \A i \in Ids : i # c => pc'[i] = pc[i] /\ peer'[i] = peer[i]
        /\ peer'[c] = p.src
    BY <2>2, <2>3, Zenon
  <2>7. pc'[c] # "idle" /\ pc'[c] # "hello"
    BY <2>6
  <2>8. /\ \A i \in Ids : buffer'[i].start = buffer[i].start
        /\ \A i \in Ids : i # c => buffer'[i] = buffer[i]
    BY <2>2, Zenon DEF Taken, BufferType
  <2>9. ClientStart(c)'
    <3>1. buffer'[c].start = number'[peer'[c]] + 1
      BY <2>2, <2>4, <2>5, <2>6, <2>8, Zenon
    <3>2. <<peer'[c], c>> \in conn_manager'
      BY <2>2, <2>5, <2>6, Zenon
    <3> QED BY <2>7, <3>1, <3>2, Zenon DEF ClientStart
  <2>10. \A q \in net' : q \in net \/ q.kind = "ClientAck"
    <3>1. Packet(Server, "ClientAck", c, p.src, number[c] + 1).kind = "ClientAck"
      BY DEF Packet
    <3> QED BY <2>3, <3>1, Zenon
  <2>11. \A i \in Ids : Drawn(i) => Drawn(i)'
    BY <2>6, <2>7, Zenon DEF Drawn
  <2>12. \A a \in Accepts : pc'[a] = pc[a] /\ buffer'[a] = buffer[a]
    BY <2>6, <2>8
  <2>13. \A x \in Clients : \/ ClientStart(x)'
                            \/ pc'[x] = pc[x] /\ buffer'[x] = buffer[x] /\ peer'[x] = peer[x]
    BY <2>6, <2>8, <2>9, Zenon
  <2> QED
    <3>1. DQuiet
      BY <2>2, <2>8, <2>10, <2>11, <2>12, <2>13, Zenon DEF DQuiet
    <3> QED BY <3>1, QuietDInv, Zenon
<1>6. ASSUME NEW c \in Clients, ConnectTimeout(c)
      PROVE  DInv'
  <2>1. /\ UNCHANGED <<number, conn_manager, hello_queue, from_queue, ring, arrived>>
        /\ net' = net /\ peer' = peer /\ buffer' = buffer
        /\ pc' = [pc EXCEPT ![c] = "timed_out"]
    BY <1>6, Zenon DEF ConnectTimeout, hello_state, history
  <2>2. pc'[c] = "timed_out" /\ \A i \in Ids : i # c => pc'[i] = pc[i]
    BY <2>1, Zenon
  <2>3. pc'[c] # "idle" /\ pc'[c] # "hello" /\ pc'[c] # "ok"
    BY <2>2
  <2>4. ClientStart(c)'
    BY <2>3, Zenon DEF ClientStart
  <2>5. \A i \in Ids : Drawn(i) => Drawn(i)'
    BY <2>2, <2>3, Zenon DEF Drawn
  <2>6. \A a \in Accepts : pc'[a] = pc[a] /\ buffer'[a] = buffer[a]
    BY <2>1, <2>2
  <2>7. \A x \in Clients : \/ ClientStart(x)'
                           \/ pc'[x] = pc[x] /\ buffer'[x] = buffer[x] /\ peer'[x] = peer[x]
    BY <2>1, <2>2, <2>4, Zenon
  <2> QED
    <3>1. DQuiet
      BY <2>1, <2>5, <2>6, <2>7, Zenon DEF DQuiet
    <3> QED BY <3>1, QuietDInv, Zenon
<1>7. ASSUME NEW c \in Clients, SendData(c)
      PROVE  DInv'
  <2>1. /\ pc[c] = "ok" /\ net' = net \cup {Packet(Server, "Data", c, peer[c], number[c] + 2)}
        /\ UNCHANGED <<number, conn_manager, hello_queue, from_queue, ring, arrived>>
        /\ pc' = pc /\ peer' = peer /\ buffer' = buffer
    BY <1>7, Zenon DEF SendData, Send, hello_state, calls, history
  <2>2. Drawn(c)'
    BY <2>1 DEF Drawn
  <2>3. ASSUME NEW q \in net'
        PROVE  q \in net \/ Sent(q)'
    <3>1. CASE q \in net
      BY <3>1
    <3>2. CASE q = Packet(Server, "Data", c, peer[c], number[c] + 2)
      <4>1. q.kind = "Data" /\ q.src = c /\ q.pn = number[c] + 2
        BY <3>2 DEF Packet
      <4>2. q.kind \notin {"ClientHello", "ServerHello"} /\ q.kind # "ServerHello"
        BY <4>1
      <4> QED BY <2>1, <2>2, <4>1, <4>2, Zenon DEF Sent
    <3> QED BY <2>1, <2>3, <3>1, <3>2, Zenon
  <2>4. \A i \in Ids : Drawn(i) => Drawn(i)'
    BY <2>1, Zenon DEF Drawn
  <2> QED
    <3>1. DQuiet
      BY <2>1, <2>3, <2>4, Zenon DEF DQuiet
    <3> QED BY <3>1, QuietDInv, Zenon
<1>8. ASSUME NEW p \in net, handle_hello_single(p)
      PROVE  DInv'
  <2>1. /\ p.kind = "ClientHello" /\ Arrive(p) /\ UNCHANGED <<conn_manager, calls, from_queue>>
        /\ ring' = ring /\ arrived' = arrived
    BY <1>8, Zenon DEF handle_hello_single
  <2>2. \A a \in Accepts \ from_queue : ring'[a] = arrived'[a]
    BY <2>1, Zenon DEF DInv
  <2>3. CASE RouteHello(p)
    <3>1. PICK id : id = Head(pending_accept_ids)
      OBVIOUS
    <3>2. /\ pending_accept_ids # <<>> /\ hello_queue' = hello_queue
          /\ buffer' = IF <<id, None>> \in conn_manager
                       THEN [buffer EXCEPT ![id] = buffer_in_packet(@, p, 2)] ELSE buffer
      BY <2>3, <3>1, Zenon DEF RouteHello
    <3>3. id \in Accepts /\ id \in Ids /\ id \notin Clients
      <4>1. pending_accept_ids \in Seq(Accepts)
        BY Zenon DEF IInv, TypeOK
      <4>2. id \in Accepts
        BY <3>1, <3>2, <4>1, QueueFacts
      <4> QED BY <4>2
    <3>4. <<id, None>> \in conn_manager => pc[id] # "idle"
      BY <3>3, Zenon DEF IInv, Entries
    <3>5. \A k \in DOMAIN hello_queue' :
            \E j \in DOMAIN hello_queue : hello_queue'[k] = hello_queue[j]
      BY <3>2, Zenon
    <3>6. 2 \in Nat
      OBVIOUS
    <3>7. CASE <<id, None>> \in conn_manager
      <4>1. /\ buffer' = [buffer EXCEPT ![id] = buffer_in_packet(@, p, 2)] /\ pc[id] # "idle"
        BY <3>2, <3>4, <3>7, Zenon
      <4>2. Puts(p, id, 2)
        BY <2>1, <3>3, <4>1, Zenon DEF Puts
      <4> QED BY <2>1, <2>2, <3>5, <3>6, <4>2, ReaderDInv, Zenon
    <3>8. CASE <<id, None>> \notin conn_manager
      <4>1. buffer' = buffer
        BY <3>2, <3>8, Zenon
      <4>2. Puts(p, id, 2)
        BY <4>1, Zenon DEF Puts
      <4> QED BY <2>1, <2>2, <3>5, <3>6, <4>2, ReaderDInv, Zenon
    <3> QED BY <3>7, <3>8
  <2>4. CASE QueueHello(p)
    <3>1. buffer' = buffer /\ (hello_queue' = hello_queue \/ hello_queue' = Append(hello_queue, p))
      BY <2>4, Zenon DEF QueueHello
    <3>2. hello_queue \in Seq(Packets)
      BY Zenon DEF IInv, TypeOK
    <3>3. \A k \in DOMAIN hello_queue' :
            \/ \E j \in DOMAIN hello_queue : hello_queue'[k] = hello_queue[j]
            \/ hello_queue'[k] = p
      BY <3>1, <3>2
    <3>4. 2 \in Nat
      OBVIOUS
    <3>5. Puts(p, None, 2)
      BY <3>1, Zenon DEF Puts
    <3> QED BY <2>1, <2>2, <3>3, <3>4, <3>5, ReaderDInv, Zenon
  <2> QED BY <1>8, <2>3, <2>4, Zenon DEF handle_hello_single
<1>9. ASSUME NEW p \in net, BufferClientAck(p)
      PROVE  DInv'
  <2>1. /\ p.kind = "ClientAck" /\ Arrive(p) /\ UNCHANGED <<conn_manager, calls, from_queue>>
        /\ ring' = ring /\ arrived' = arrived /\ hello_queue' = hello_queue
        /\ buffer' = IF <<p.dst, p.src>> \in conn_manager /\ pc[p.dst] # "ok"
                     THEN [buffer EXCEPT ![p.dst] = buffer_in_packet(@, p, 2)] ELSE buffer
    BY <1>9, Zenon DEF BufferClientAck, hello_state, history
  <2>2. \A a \in Accepts \ from_queue : ring'[a] = arrived'[a]
    BY <2>1, Zenon DEF DInv
  <2>3. p.dst \in Accepts /\ p.src \in Clients /\ p.dst \in Ids /\ p.dst \notin Clients
    BY <2>1 DEF IInv, Packed, Legit, Committed
  <2>4. <<p.dst, p.src>> \in conn_manager => pc[p.dst] # "idle" /\ pc[p.dst] # "hello"
    BY <2>3 DEF IInv, Entries
  <2>5. \A k \in DOMAIN hello_queue' :
          \E j \in DOMAIN hello_queue : hello_queue'[k] = hello_queue[j]
    BY <2>1, Zenon
  <2>6. 2 \in Nat
    OBVIOUS
  <2>7. Puts(p, p.dst, 2)
    <3>1. CASE buffer' = buffer
      BY <3>1, Zenon DEF Puts
    <3>2. CASE buffer' # buffer
      BY <2>1, <2>3, <2>4, <3>2, Zenon DEF Puts
    <3> QED BY <3>1, <3>2
  <2> QED BY <2>1, <2>2, <2>5, <2>6, <2>7, ReaderDInv, Zenon
<1>10. ASSUME NEW p \in net, BufferData(p)
       PROVE  DInv'
  <2>1. /\ Arrive(p) /\ UNCHANGED <<conn_manager, calls, from_queue>>
        /\ buffer' = buffer /\ hello_queue' = hello_queue
    BY <1>10, Zenon DEF BufferData, hello_state
  <2>2. \A a \in Accepts \ from_queue : ring'[a] = arrived'[a]
    BY <1>10, DataArrives, Zenon
  <2>3. \A k \in DOMAIN hello_queue' :
          \E j \in DOMAIN hello_queue : hello_queue'[k] = hello_queue[j]
    BY <2>1, Zenon
  <2>4. 2 \in Nat
    OBVIOUS
  <2>5. Puts(p, None, 2)
    BY <2>1, Zenon DEF Puts
  <2> QED BY <2>1, <2>2, <2>3, <2>4, <2>5, ReaderDInv, Zenon
<1>11. ASSUME NEW p \in net, BufferServerHello(p)
       PROVE  DInv'
  <2>1. /\ p.kind = "ServerHello" /\ Arrive(p) /\ UNCHANGED <<conn_manager, calls, from_queue>>
        /\ ring' = ring /\ arrived' = arrived /\ hello_queue' = hello_queue
        /\ buffer' = IF pc[p.dst] \in {"hello", "timed_out", "error"}
                     THEN [buffer EXCEPT ![p.dst] = buffer_in_packet(@, p, 1)] ELSE buffer
    BY <1>11, Zenon DEF BufferServerHello, hello_state, history
  <2>2. \A a \in Accepts \ from_queue : ring'[a] = arrived'[a]
    BY <2>1, Zenon DEF DInv
  <2>3. p.dst \in Clients /\ p.dst \in Ids /\ p.dst \notin Accepts
    BY <2>1 DEF IInv, Packed, Legit
  <2>4. \A k \in DOMAIN hello_queue' :
          \E j \in DOMAIN hello_queue : hello_queue'[k] = hello_queue[j]
    BY <2>1, Zenon
  <2>5. 1 \in Nat
    OBVIOUS
  <2>6. Puts(p, p.dst, 1)
    <3>1. CASE buffer' = buffer
      BY <3>1, Zenon DEF Puts
    <3>2. CASE buffer' # buffer
      <4>1. /\ buffer' = [buffer EXCEPT ![p.dst] = buffer_in_packet(@, p, 1)]
            /\ pc[p.dst] \in {"hello", "timed_out", "error"}
        BY <2>1, <3>2, Zenon
      <4>2. pc[p.dst] # "idle" /\ pc[p.dst] # "ok"
        BY <4>1
      <4> QED BY <2>1, <2>3, <4>1, <4>2, Zenon DEF Puts
    <3> QED BY <3>1, <3>2
  <2> QED BY <2>1, <2>2, <2>4, <2>5, <2>6, ReaderDInv, Zenon
<1>12. ASSUME Lose \/ UNCHANGED vars
       PROVE  DInv'
  <2>1. /\ net' \subseteq net
        /\ UNCHANGED <<number, conn_manager, hello_queue, from_queue, ring, arrived>>
        /\ pc' = pc /\ peer' = peer /\ buffer' = buffer
    BY <1>12 DEF Lose, vars, hello_state, calls, history
  <2>2. \A i \in Ids : Drawn(i) => Drawn(i)'
    BY <2>1, Zenon DEF Drawn
  <2> QED
    <3>1. DQuiet
      BY <2>1, <2>2, Zenon DEF DQuiet
    <3> QED BY <3>1, QuietDInv, Zenon
<1> QED BY Zenon, <1>1, <1>2, <1>3, <1>4, <1>5, <1>6, <1>7, <1>8, <1>9, <1>10, <1>11, <1>12
        DEF Next, ServerReader, ClientReader

(* The invariant of the data's start.                                      *)
THEOREM StartInvariance == Spec => []DInv
BY InitDInv, StepDInv, Invariance, PTL DEF Spec

(* The start number of a connection is what its peer counts from: at the   *)
(* client, and at a server that took the hello from its slot; such a       *)
(* server refuses no data of its client, though it overtake the ack.       *)
THEOREM FirstDataCorrect == Spec => []FirstDataExpected
<1>1. DInv => FirstDataExpected
  BY Zenon DEF DInv, ClientStart, FirstDataExpected
<1> QED BY <1>1, StartInvariance, PTL

-----------------------------------------------------------------------------
(* What buffer_in_packet does to all slots: the full ones stay.            *)
LEMMA SlotsFill ==
  ASSUME IInv, NEW p \in net, NEW i \in Ids, NEW ahead \in Nat,
         buffer' = [buffer EXCEPT ![i] = buffer_in_packet(@, p, ahead)]
  PROVE  /\ buffer'[i].packet # None
         /\ buffer[i].packet = None => buffer'[i].packet = p
         /\ \A j \in Ids : j # i \/ buffer[j].packet # None => buffer'[j] = buffer[j]
<1>1. buffer \in [Ids -> BufferType] /\ p \in Packets /\ buffer[i] \in BufferType
  BY Known
<1>2. PICK r : r = buffer_in_packet(buffer[i], p, ahead)
  OBVIOUS
<1>3. buffer'[i] = r /\ \A j \in Ids : j # i => buffer'[j] = buffer[j]
  BY <1>1, <1>2, Zenon
<1>4. /\ r.packet # None
      /\ buffer[i].packet # None => r = buffer[i]
      /\ buffer[i].packet = None => r.packet = p
  BY <1>1, <1>2, BufferStart
<1> QED BY <1>3, <1>4, Zenon

(* Client acks stay in the network or go into their slots.                 *)
AFrame ==
  /\ lost' = 0 => lost = 0
  /\ \A c \in Clients : pc'[c] = "ok" /\ pc'[peer'[c]] = "ack" =>
       \/ AckUnderWay(c)'
       \/ pc[c] = "ok" /\ pc[peer[c]] = "ack" /\ peer'[c] = peer[c]
  /\ \A a \in Accepts : pc[a] = "ack" /\ pc'[a] = "ack" /\ buffer[a].packet # None =>
       buffer'[a].packet # None
  /\ \A p \in net : p.kind = "ClientAck" =>
       \/ p \in net'
       \/ pc[p.dst] = "ack" => buffer'[p.dst].packet # None

(* A step that keeps client acks, in the network or in their slots.        *)
LEMMA FrameAInv ==
  ASSUME IInv, AInv, AFrame
  PROVE  AInv'
<1> /\ lost' = 0 => lost = 0
    /\ \A c \in Clients : pc'[c] = "ok" /\ pc'[peer'[c]] = "ack" =>
         \/ AckUnderWay(c)'
         \/ pc[c] = "ok" /\ pc[peer[c]] = "ack" /\ peer'[c] = peer[c]
    /\ \A a \in Accepts : pc[a] = "ack" /\ pc'[a] = "ack" /\ buffer[a].packet # None =>
         buffer'[a].packet # None
    /\ \A p \in net : p.kind = "ClientAck" =>
         \/ p \in net'
         \/ pc[p.dst] = "ack" => buffer'[p.dst].packet # None
  BY Zenon DEF AFrame
<1> SUFFICES ASSUME lost' = 0, NEW c \in Clients, pc'[c] = "ok", pc'[peer'[c]] = "ack"
             PROVE  AckUnderWay(c)'
  BY Zenon DEF AInv
<1>1. CASE AckUnderWay(c)'
  BY <1>1
<1>2. CASE pc[c] = "ok" /\ pc[peer[c]] = "ack" /\ peer'[c] = peer[c]
  <2>1. AckUnderWay(c) /\ peer[c] \in Accepts
    BY <1>2, Zenon DEF AInv, IInv, Peers
  <2>2. CASE buffer[peer[c]].packet # None
    <3>1. buffer'[peer[c]].packet # None
      BY <1>2, <2>1, <2>2, Zenon
    <3> QED BY <1>2, <3>1, Zenon DEF AckUnderWay
  <2>3. ASSUME NEW p \in net, p.kind = "ClientAck", p.src = c, p.dst = peer[c]
        PROVE  AckUnderWay(c)'
    <3>0. p.dst = peer'[c]
      BY Zenon, <1>2, <2>3
    <3>1. CASE p \in net'
      BY <2>3, <3>0, <3>1, Zenon DEF AckUnderWay
    <3>2. CASE buffer'[p.dst].packet # None
      BY <3>0, <3>2 DEF AckUnderWay
    <3> QED BY <1>2, <2>3, <3>1, <3>2, Zenon
  <2> QED BY <2>1, <2>2, <2>3, Zenon DEF AckUnderWay
<1> QED BY <1>1, <1>2, Zenon

(* A connected client's accept() has answered it: it is past the hello.    *)
LEMMA Answered ==
  ASSUME IInv, DInv, NEW c \in Clients, pc[c] = "ok"
  PROVE  /\ peer[c] \in Accepts /\ <<peer[c], c>> \in conn_manager
         /\ pc[peer[c]] # "idle" /\ pc[peer[c]] # "hello"
<1>1. peer[c] \in Accepts /\ <<peer[c], c>> \in conn_manager
  BY Zenon DEF IInv, Peers, DInv, ClientStart
<1>2. pc[peer[c]] \notin {"idle", "hello"}
  BY <1>1, Zenon DEF IInv, Entries
<1> QED BY <1>1, <1>2

(* A step of accept a alone, with which it does not begin or go on to wait *)
(* for an ack that it has.                                                 *)
AcceptMoves(a) ==
  /\ lost' = lost
  /\ net \subseteq net'
  /\ pc[a] \in {"idle", "hello"} \/ pc'[a] # "ack"
  /\ \A i \in Ids : i # a => pc'[i] = pc[i] /\ peer'[i] = peer[i] /\ buffer'[i] = buffer[i]

(* A step of accept a that sends no client to "ok".                        *)
LEMMA AcceptAInv ==
  ASSUME IInv, DInv, AInv, NEW a \in Accepts, AcceptMoves(a)
  PROVE  AInv'
<1> /\ lost' = lost
    /\ net \subseteq net'
    /\ pc[a] \in {"idle", "hello"} \/ pc'[a] # "ack"
    /\ \A i \in Ids : i # a => pc'[i] = pc[i] /\ peer'[i] = peer[i] /\ buffer'[i] = buffer[i]
  BY Zenon DEF AcceptMoves
<1>1. Clients \subseteq Ids /\ Accepts \subseteq Ids /\ a \notin Clients
  BY Known
<1>2. ASSUME NEW c \in Clients, pc'[c] = "ok", pc'[peer'[c]] = "ack"
      PROVE  pc[c] = "ok" /\ pc[peer[c]] = "ack" /\ peer'[c] = peer[c]
  <2>1. pc[c] = "ok" /\ peer'[c] = peer[c]
    BY <1>1, <1>2, Zenon
  <2>2. peer[c] \in Accepts /\ pc[peer[c]] # "idle" /\ pc[peer[c]] # "hello"
    BY <2>1, Answered, Zenon
  <2>3. peer[c] # a
    BY <1>2, <2>1, <2>2
  <2> QED BY <1>1, <1>2, <2>1, <2>2, <2>3, Zenon
<1>3. ASSUME NEW x \in Accepts, pc[x] = "ack", pc'[x] = "ack", buffer[x].packet # None
      PROVE  buffer'[x].packet # None
  <2>1. x # a
    BY <1>3
  <2> QED BY <1>1, <1>3, <2>1, Zenon
<1> QED
  <2>1. AFrame
    BY <1>2, <1>3, Zenon DEF AFrame
  <2> QED BY <2>1, FrameAInv, Zenon

(* A step of client c alone, which is not connected then or whose ack is   *)
(* under way.                                                              *)
ClientMoves(c) ==
  /\ lost' = lost
  /\ net \subseteq net'
  /\ \A i \in Ids : i # c => pc'[i] = pc[i] /\ peer'[i] = peer[i] /\ buffer'[i] = buffer[i]
  /\ c \in Clients
  /\ pc'[c] = "ok" => AckUnderWay(c)'

(* A step that leaves accept() calls and their slots alone, and the        *)
(* clients other than c, which is not connected or whose ack is under way. *)
LEMMA ClientAInv ==
  ASSUME IInv, AInv, NEW c, ClientMoves(c)
  PROVE  AInv'
<1> /\ lost' = lost
    /\ net \subseteq net'
    /\ \A i \in Ids : i # c => pc'[i] = pc[i] /\ peer'[i] = peer[i] /\ buffer'[i] = buffer[i]
    /\ c \in Clients
    /\ pc'[c] = "ok" => AckUnderWay(c)'
  BY Zenon DEF ClientMoves
<1>1. Clients \subseteq Ids /\ Accepts \subseteq Ids /\ c \notin Accepts
  BY Known
<1>2. ASSUME NEW x \in Clients, pc'[x] = "ok", pc'[peer'[x]] = "ack"
      PROVE  \/ AckUnderWay(x)'
             \/ pc[x] = "ok" /\ pc[peer[x]] = "ack" /\ peer'[x] = peer[x]
  <2>1. CASE x = c
    BY <1>2, <2>1, Zenon
  <2>2. CASE x # c
    <3>1. pc[x] = "ok" /\ peer'[x] = peer[x]
      BY <1>1, <1>2, <2>2, Zenon
    <3>2. peer[x] \in Accepts
      BY <3>1, Zenon DEF IInv, Peers
    <3>3. peer[x] \in Ids /\ peer[x] # c
      BY <1>1, <3>2
    <3> QED BY <1>2, <3>1, <3>3, Zenon
  <2> QED BY <2>1, <2>2
<1>3. ASSUME NEW x \in Accepts
      PROVE  buffer'[x] = buffer[x]
  BY <1>1
<1> QED
  <2>1. AFrame
    BY <1>2, <1>3, Zenon DEF AFrame
  <2> QED BY <2>1, FrameAInv, Zenon

(* The readers: a packet leaves the network, an ack into its slot.         *)
LEMMA ReaderAInv ==
  ASSUME IInv, AInv, NEW p \in net, Arrive(p), UNCHANGED calls,
         \A a \in Accepts : buffer[a].packet # None => buffer'[a].packet # None,
         p.kind = "ClientAck" /\ pc[p.dst] = "ack" => buffer'[p.dst].packet # None
  PROVE  AInv'
<1>1. pc' = pc /\ peer' = peer /\ lost' = lost /\ \A q \in net : q = p \/ q \in net'
  BY DEF Arrive, calls
<1>2. \A q \in net : q.kind = "ClientAck" =>
        q \in net' \/ (pc[q.dst] = "ack" => buffer'[q.dst].packet # None)
  BY <1>1, Zenon
<1> QED
  <2>1. AFrame
    BY <1>1, <1>2, Zenon DEF AFrame
  <2> QED BY <2>1, FrameAInv, Zenon

(* No step loses the client ack of a waiting accept(), but Lose.           *)
LEMMA StepAInv == IInv /\ DInv /\ AInv /\ [Next]_vars => AInv'
<1> SUFFICES ASSUME IInv, DInv, AInv, [Next]_vars
             PROVE  AInv'
  OBVIOUS
<1> /\ Clients \subseteq Ids /\ Accepts \subseteq Ids /\ Clients \cap Accepts = {}
    /\ buffer \in [Ids -> BufferType] /\ DOMAIN pc = Ids /\ DOMAIN peer = Ids
  BY Known
<1>1. ASSUME NEW a \in Accepts, accept(a)
      PROVE  AInv'
  <2>1. pc[a] = "idle" /\ buffer' = buffer /\ lost' = lost
    BY <1>1, Zenon DEF accept, network
  <2>2. net \subseteq net' /\ \A i \in Ids : i # a => pc'[i] = pc[i] /\ peer'[i] = peer[i]
    <3>1. CASE AcceptQueued(a)
      BY <3>1, Zenon DEF AcceptQueued, Answer, Send
    <3>2. CASE AcceptWaits(a)
      BY <3>2, Zenon DEF AcceptWaits
    <3> QED BY <1>1, <3>1, <3>2, Zenon DEF accept
  <2>3. \A i \in Ids : i # a => pc'[i] = pc[i] /\ peer'[i] = peer[i] /\ buffer'[i] = buffer[i]
    BY <2>1, <2>2, Zenon
  <2> QED
    <3>1. AcceptMoves(a)
      BY <2>1, <2>2, <2>3, Zenon DEF AcceptMoves
    <3> QED BY <3>1, AcceptAInv, Zenon
<1>2. ASSUME NEW a \in Accepts, TakeClientHello(a)
      PROVE  AInv'
  <2>1. /\ pc[a] = "hello" /\ buffer' = Taken(a) /\ lost' = lost /\ Answer(a, buffer[a].packet)
    BY <1>2, Zenon DEF TakeClientHello, Ready, network
  <2>2. net \subseteq net' /\ \A i \in Ids : i # a => pc'[i] = pc[i] /\ peer'[i] = peer[i]
    BY <2>1, Zenon DEF Answer, Send
  <2>3. \A i \in Ids : i # a => pc'[i] = pc[i] /\ peer'[i] = peer[i] /\ buffer'[i] = buffer[i]
    BY <2>1, <2>2, Zenon DEF Taken, BufferType
  <2> QED
    <3>1. AcceptMoves(a)
      BY <2>1, <2>2, <2>3, Zenon DEF AcceptMoves
    <3> QED BY <3>1, AcceptAInv, Zenon
<1>3. ASSUME NEW a \in Accepts, TakeClientAck(a) \/ AcceptTimeout(a) \/ DropAccept(a)
      PROVE  AInv'
  <2>1. /\ net' = net /\ peer' = peer /\ lost' = lost
        /\ \E x \in {"ok", "error", "timed_out", "dropped"} : pc' = [pc EXCEPT ![a] = x]
        /\ buffer' = buffer \/ buffer' = Taken(a)
    BY <1>3 DEF TakeClientAck, AcceptTimeout, DropAccept, network
  <2>2. pc'[a] \in {"ok", "error", "timed_out", "dropped"} /\ \A i \in Ids : i # a => pc'[i] = pc[i]
    BY <2>1, Zenon
  <2>3. \A i \in Ids : i # a => buffer'[i] = buffer[i]
    <3>1. CASE buffer' = buffer
      BY <3>1, Zenon
    <3>2. CASE buffer' = Taken(a)
      BY <3>2, Zenon DEF Taken, BufferType
    <3> QED BY <2>1, <3>1, <3>2
  <2>4. pc'[a] # "ack"
    BY Zenon, <2>2
  <2>5. \A i \in Ids : i # a => pc'[i] = pc[i] /\ peer'[i] = peer[i] /\ buffer'[i] = buffer[i]
    BY <2>1, <2>2, <2>3, Zenon
  <2> QED
    <3>1. AcceptMoves(a)
      BY <2>1, <2>4, <2>5, Zenon DEF AcceptMoves
    <3> QED BY <3>1, AcceptAInv, Zenon
<1>4. ASSUME NEW c \in Clients, connect(c) \/ ConnectTimeout(c)
      PROVE  AInv'
  <2>1. /\ net \subseteq net' /\ peer' = peer /\ lost' = lost /\ buffer' = buffer
        /\ \E x \in {"hello", "timed_out"} : pc' = [pc EXCEPT ![c] = x]
    BY <1>4 DEF connect, begin, Send, ConnectTimeout, network
  <2>2. pc'[c] \in {"hello", "timed_out"} /\ \A i \in Ids : i # c => pc'[i] = pc[i]
    BY <2>1, Zenon
  <2>3. pc'[c] # "ok"
    BY Zenon, <2>2
  <2>4. \A i \in Ids : i # c => pc'[i] = pc[i] /\ peer'[i] = peer[i] /\ buffer'[i] = buffer[i]
    BY <2>1, <2>2, Zenon
  <2> QED
    <3>1. ClientMoves(c)
      BY <2>1, <2>3, <2>4, Zenon DEF ClientMoves
    <3> QED BY <3>1, ClientAInv, Zenon
<1>5. ASSUME NEW c \in Clients, TakeServerHello(c)
      PROVE  AInv'
  <2>1. PICK p : p = buffer[c].packet
    OBVIOUS
  <2>2. buffer' = Taken(c) /\ peer' = [peer EXCEPT ![c] = p.src] /\ lost' = lost
    BY <1>5, <2>1, Zenon DEF TakeServerHello, network
  <2>3. \/ pc' = [pc EXCEPT ![c] = "error"] /\ net' = net
        \/ /\ pc' = [pc EXCEPT ![c] = "ok"]
           /\ net' = net \cup {Packet(Server, "ClientAck", c, p.src, number[c] + 1)}
    BY <1>5, <2>1, Zenon DEF TakeServerHello, Send
  <2>4. /\ net \subseteq net' /\ peer'[c] = p.src
        /\ \A i \in Ids : i # c => pc'[i] = pc[i] /\ peer'[i] = peer[i] /\ buffer'[i] = buffer[i]
    BY <2>2, <2>3, Zenon DEF Taken, BufferType
  <2>5. pc'[c] = "ok" => AckUnderWay(c)'
    <3> HAVE pc'[c] = "ok"
    <3>1. PICK q : q = Packet(Server, "ClientAck", c, p.src, number[c] + 1)
      OBVIOUS
    <3>2. "ok" # "error"
      OBVIOUS
    <3>3. q \in net'
      BY <2>3, <3>1, <3>2, Zenon
    <3>4. q.kind = "ClientAck" /\ q.src = c /\ q.dst = p.src
      BY <3>1 DEF Packet
    <3> QED BY <2>4, <3>3, <3>4, Zenon DEF AckUnderWay
  <2> QED
    <3>1. ClientMoves(c)
      BY <2>2, <2>4, <2>5, Zenon DEF ClientMoves
    <3> QED BY <3>1, ClientAInv, Zenon
<1>6. ASSUME NEW c \in Clients, SendData(c)
      PROVE  AInv'
  <2>1. /\ net \subseteq net' /\ pc' = pc /\ peer' = peer /\ buffer' = buffer /\ lost' = lost
    BY <1>6, Zenon DEF SendData, Send, calls, network
  <2> QED
    <3>1. AFrame
      BY <2>1, Zenon DEF AFrame
    <3> QED BY <3>1, FrameAInv, Zenon
<1>7. ASSUME NEW p \in net, handle_hello_single(p)
      PROVE  AInv'
  <2>1. p.kind # "ClientAck" /\ Arrive(p) /\ UNCHANGED calls
    BY <1>7 DEF handle_hello_single
  <2>2. \A a \in Accepts : buffer[a].packet # None => buffer'[a].packet # None
    <3>1. CASE buffer' = buffer
      BY <3>1, Zenon
    <3>2. CASE buffer' # buffer
      <4>1. PICK id : id = Head(pending_accept_ids)
        OBVIOUS
      <4>2. /\ pending_accept_ids # <<>>
            /\ buffer' = [buffer EXCEPT ![id] = buffer_in_packet(@, p, 2)]
        BY <1>7, <3>2, <4>1, Zenon DEF handle_hello_single, RouteHello, QueueHello
      <4>3. pending_accept_ids \in Seq(Accepts)
        BY Zenon DEF IInv, TypeOK
      <4>4. id \in Ids /\ 2 \in Nat
        BY Zenon, <4>1, <4>2, <4>3, QueueFacts
      <4> QED BY <4>2, <4>4, SlotsFill, Zenon
    <3> QED BY <3>1, <3>2
  <2> QED BY <2>1, <2>2, ReaderAInv, Zenon
<1>8. ASSUME NEW p \in net, BufferClientAck(p)
      PROVE  AInv'
  <2>1. /\ p.kind = "ClientAck" /\ Arrive(p) /\ UNCHANGED calls
        /\ buffer' = IF <<p.dst, p.src>> \in conn_manager /\ pc[p.dst] # "ok"
                     THEN [buffer EXCEPT ![p.dst] = buffer_in_packet(@, p, 2)] ELSE buffer
    BY <1>8, Zenon DEF BufferClientAck
  <2>2. p.dst \in Accepts /\ p.src \in Clients /\ pc[p.src] = "ok" /\ peer[p.src] = p.dst
    BY <2>1 DEF IInv, Packed, Legit, Committed
  <2>3. <<p.dst, p.src>> \in conn_manager
    BY <2>2, Answered, Zenon
  <2>4. p.dst \in Ids /\ 2 \in Nat
    BY <2>2
  <2>5. CASE buffer' = buffer
    <3>1. pc[p.dst] = "ack" => buffer'[p.dst].packet # None
      <4> HAVE pc[p.dst] = "ack"
      <4>1. pc[p.dst] # "ok"
        OBVIOUS
      <4>2. buffer' = [buffer EXCEPT ![p.dst] = buffer_in_packet(@, p, 2)]
        BY <2>1, <2>3, <4>1, Zenon
      <4> QED BY <2>4, <4>2, SlotsFill, Zenon
    <3> QED BY <2>1, <2>5, <3>1, ReaderAInv, Zenon
  <2>6. CASE buffer' # buffer
    <3>1. buffer' = [buffer EXCEPT ![p.dst] = buffer_in_packet(@, p, 2)]
      BY <2>1, <2>6, Zenon
    <3>2. /\ buffer'[p.dst].packet # None
          /\ \A a \in Accepts : buffer[a].packet # None => buffer'[a].packet # None
      BY <2>4, <3>1, SlotsFill, Zenon
    <3> QED BY <2>1, <3>2, ReaderAInv, Zenon
  <2> QED BY <2>5, <2>6
<1>9. ASSUME NEW p \in net, BufferData(p)
      PROVE  AInv'
  <2>1. p.kind # "ClientAck" /\ Arrive(p) /\ UNCHANGED calls /\ buffer' = buffer
    BY <1>9 DEF BufferData
  <2> QED BY <2>1, ReaderAInv, Zenon
<1>10. ASSUME NEW p \in net, BufferServerHello(p)
       PROVE  AInv'
  <2>1. p.kind = "ServerHello" /\ Arrive(p) /\ UNCHANGED calls
    BY <1>10, Zenon DEF BufferServerHello
  <2>2. p.kind # "ClientAck" /\ p.dst \in Clients /\ p.dst \notin Accepts
    BY <2>1 DEF IInv, Packed, Legit
  <2>3. \A a \in Accepts : buffer'[a] = buffer[a]
    BY <1>10, <2>2 DEF BufferServerHello
  <2> QED BY <2>1, <2>2, <2>3, ReaderAInv, Zenon
<1>11. ASSUME Lose
       PROVE  AInv'
  <2>1. lost \in Nat /\ lost' = lost + 1
    BY <1>11, Constants DEF Lose, IInv, TypeOK
  <2>2. lost' # 0
    BY <2>1
  <2> QED BY <2>2, Zenon DEF AInv
<1>12. ASSUME UNCHANGED vars
       PROVE  AInv'
  BY <1>12, Zenon DEF AInv, AckUnderWay, vars, network, calls
<1> QED BY Zenon, <1>1, <1>2, <1>3, <1>4, <1>5, <1>6, <1>7, <1>8, <1>9, <1>10, <1>11, <1>12
        DEF Next, ServerReader, ClientReader

-----------------------------------------------------------------------------
(* The packets that carry the handshake of c stay where they are.          *)
HelloFrame(c) ==
  /\ \A p \in net : (p.kind = "ClientHello" /\ p.src = c)
                      \/ (p.kind = "ServerHello" /\ p.dst = c) =>
       p \in net' \/ HelloUnderWay(c)'
  /\ \A i \in DOMAIN hello_queue : hello_queue[i].src = c =>
       \/ \E j \in DOMAIN hello_queue' : hello_queue'[j] = hello_queue[i]
       \/ HelloUnderWay(c)'
  /\ \A a \in Accepts : pc[a] = "hello" /\ buffer[a].packet # None
                          /\ buffer[a].packet.src = c =>
       \/ pc'[a] = "hello" /\ buffer'[a] = buffer[a]
       \/ HelloUnderWay(c)'
  /\ buffer[c].packet # None => buffer'[c].packet # None \/ HelloUnderWay(c)'

(* The hello of a client stays under way if it stays where it is.          *)
LEMMA FrameHello ==
  ASSUME NEW c, HelloUnderWay(c), HelloFrame(c)
  PROVE  HelloUnderWay(c)'
<1> /\ \A p \in net : (p.kind = "ClientHello" /\ p.src = c)
                        \/ (p.kind = "ServerHello" /\ p.dst = c) =>
         p \in net' \/ HelloUnderWay(c)'
    /\ \A i \in DOMAIN hello_queue : hello_queue[i].src = c =>
         \/ \E j \in DOMAIN hello_queue' : hello_queue'[j] = hello_queue[i]
         \/ HelloUnderWay(c)'
    /\ \A a \in Accepts : pc[a] = "hello" /\ buffer[a].packet # None
                            /\ buffer[a].packet.src = c =>
         \/ pc'[a] = "hello" /\ buffer'[a] = buffer[a]
         \/ HelloUnderWay(c)'
    /\ buffer[c].packet # None => buffer'[c].packet # None \/ HelloUnderWay(c)'
  BY Zenon DEF HelloFrame
<1> SUFFICES ASSUME ~HelloUnderWay(c)'
             PROVE  FALSE
  BY Zenon
<1>1. ASSUME NEW p \in net, p.kind = "ClientHello", p.src = c
      PROVE  FALSE
  <2>1. p \in net'
    BY Zenon, <1>1
  <2> QED BY <1>1, <2>1, Zenon DEF HelloUnderWay
<1>2. ASSUME NEW p \in net, p.kind = "ServerHello", p.dst = c
      PROVE  FALSE
  <2>1. p \in net'
    BY Zenon, <1>2
  <2> QED BY <1>2, <2>1, Zenon DEF HelloUnderWay
<1>3. ASSUME NEW i \in DOMAIN hello_queue, hello_queue[i].src = c
      PROVE  FALSE
  <2>1. PICK j \in DOMAIN hello_queue' : hello_queue'[j] = hello_queue[i]
    BY <1>3
  <2>2. hello_queue'[j].src = c
    BY <1>3, <2>1
  <2> QED BY <2>1, <2>2, Zenon DEF HelloUnderWay
<1>4. ASSUME NEW a \in Accepts, pc[a] = "hello", buffer[a].packet # None, buffer[a].packet.src = c
      PROVE  FALSE
  <2>1. pc'[a] = "hello" /\ buffer'[a] = buffer[a]
    BY <1>4
  <2>2. buffer'[a].packet # None /\ buffer'[a].packet.src = c
    BY <1>4, <2>1
  <2> QED BY <2>1, <2>2, Zenon DEF HelloUnderWay
<1>5. ASSUME buffer[c].packet # None
      PROVE  FALSE
  <2>1. buffer'[c].packet # None
    BY <1>5
  <2> QED BY <2>1, Zenon DEF HelloUnderWay
<1> QED BY <1>1, <1>2, <1>3, <1>4, <1>5, Zenon DEF HelloUnderWay

\* An accept() that waits for a hello, as OneWaits wants it.
Waiting(a) == pc[a] = "hello" /\ buffer[a].packet = None /\ <<a, None>> \in conn_manager

(* Nobody starts or stops waiting.                                         *)
LEMMA FrameOne ==
  ASSUME IInv, OneWaits, drops' = 0 => drops = 0, pending_accept_ids' = pending_accept_ids,
         \A a \in Accepts : Waiting(a) => Waiting(a)'
  PROVE  OneWaits'
<1> SUFFICES ASSUME drops' = 0, NEW i \in DOMAIN pending_accept_ids
             PROVE  i = 1 /\ Waiting(pending_accept_ids[i])'
  BY Zenon DEF OneWaits, Waiting
<1>1. i = 1 /\ Waiting(pending_accept_ids[i])
  BY Zenon DEF OneWaits, Waiting
<1>2. pending_accept_ids[i] \in Accepts
  <2>1. pending_accept_ids \in Seq(Accepts)
    BY Zenon DEF IInv, TypeOK
  <2> QED BY <2>1
<1>3. PICK a \in Accepts : a = pending_accept_ids[i] /\ a = pending_accept_ids'[i]
  BY <1>2
<1>4. Waiting(a)'
  BY <1>1, <1>3, Zenon
<1> QED BY <1>1, <1>3, <1>4, Zenon DEF Waiting

\* Nothing was lost, dropped or refused.
Whole == lost = 0 /\ drops = 0 /\ overflows = 0

(* The two parts of the invariant after a step.                            *)
LEMMA FrameHInv ==
  ASSUME HInv, Whole' => Whole, OneWaits',
         \A c \in Clients : Whole /\ pc'[c] = "hello" /\ number'[c] # 0 =>
           \/ HelloUnderWay(c)'
           \/ pc[c] = "hello" /\ number'[c] = number[c] /\ (HelloUnderWay(c) => HelloUnderWay(c)')
  PROVE  HInv'
<1>1. ASSUME Whole', NEW c \in Clients, pc'[c] = "hello", number'[c] # 0
      PROVE  HelloUnderWay(c)'
  <2>1. pc[c] = "hello" /\ number[c] # 0 => HelloUnderWay(c)
    BY <1>1, Zenon DEF HInv, Whole
  <2> QED BY <1>1, <2>1, Zenon
<1> QED BY <1>1, Zenon DEF HInv, Whole

(* An accept() that answers the hello p of the only client whose hello it  *)
(* takes away: the answer is under way then.                               *)
LEMMA AnswerHello ==
  ASSUME NEW a \in Accepts, NEW p, p.kind = "ClientHello", Sent(p), Answer(a, p),
         p.src \in Clients, number[p.src] # 0
  PROVE  net \subseteq net' /\ HelloUnderWay(p.src)'
<1>1. p.pn # 0
  BY Zenon DEF Sent
<1>2. PICK q : q = Packet(p.src, "ServerHello", a, p.src, number'[a])
  OBVIOUS
<1>3. net' = net \cup {q}
  BY <1>1, <1>2, Zenon DEF Answer, Send
<1>4. q.kind = "ServerHello" /\ q.dst = p.src
  BY <1>2 DEF Packet
<1> QED BY <1>3, <1>4, Zenon DEF HelloUnderWay

(* accept() takes or awaits a hello.                                       *)
LEMMA AcceptHInv ==
  ASSUME IInv, DInv, HInv, NEW a \in Accepts, accept(a)
  PROVE  HInv'
<1> /\ Clients \subseteq Ids /\ Accepts \subseteq Ids /\ Clients \cap Accepts = {}
    /\ DOMAIN pc = Ids /\ DOMAIN peer = Ids /\ number \in [Ids -> Nat]
  BY Known
<1>1. /\ pc[a] = "idle" /\ Idle /\ buffer' = buffer /\ UNCHANGED <<lost, drops, overflows>>
      /\ \A i \in Ids : i # a => number'[i] = number[i]
  BY Zenon DEF accept, network
<1>2. Whole' => Whole
  BY <1>1, Zenon DEF Whole
<1>3. pending_accept_ids \in Seq(Accepts)
  BY Zenon DEF IInv, TypeOK
<1>4. drops = 0 => pending_accept_ids = <<>>
  <2>1. SUFFICES ASSUME drops = 0, pending_accept_ids # <<>>
                 PROVE  FALSE
    OBVIOUS
  <2>2. 1 \in DOMAIN pending_accept_ids /\ pending_accept_ids[1] \in Accepts
    BY <1>3, <2>1
  <2>3. pc[pending_accept_ids[1]] = "hello"
    BY <2>1, <2>2, Zenon DEF HInv, OneWaits
  <2> QED BY <1>1, <2>2, <2>3 DEF Idle
<1>5. CASE AcceptQueued(a)
  <2>1. /\ hello_queue # <<>> /\ hello_queue' = Tail(hello_queue)
        /\ Answer(a, Head(hello_queue)) /\ pending_accept_ids' = pending_accept_ids
    BY <1>5, Zenon DEF AcceptQueued
  <2>2. OneWaits'
    BY <1>1, <1>4, <2>1 DEF OneWaits
  <2>3. hello_queue \in Seq(Packets)
    BY Zenon DEF IInv, TypeOK
  <2>4. /\ Head(hello_queue) = hello_queue[1] /\ 1 \in DOMAIN hello_queue
        /\ \A i \in DOMAIN hello_queue : i # 1 =>
             \E j \in DOMAIN hello_queue' : hello_queue'[j] = hello_queue[i]
    <3>1. Head(hello_queue) = hello_queue[1] /\ 1 \in DOMAIN hello_queue
      BY <2>1, <2>3, QueueFacts
    <3>2. ASSUME NEW i \in DOMAIN hello_queue, i # 1
          PROVE  i - 1 \in DOMAIN hello_queue' /\ hello_queue'[i - 1] = hello_queue[i]
      <4>1. /\ Len(hello_queue) \in Nat /\ i \in 1 .. Len(hello_queue)
            /\ DOMAIN hello_queue' = 1 .. Len(hello_queue) - 1
            /\ \A k \in 1 .. Len(hello_queue) - 1 : hello_queue'[k] = hello_queue[k + 1]
        BY <2>1, <2>3, <3>2
      <4>2. i - 1 \in 1 .. Len(hello_queue) - 1 /\ (i - 1) + 1 = i
        BY <3>2, <4>1
      <4> QED BY <4>1, <4>2, Zenon
    <3> QED BY <3>1, <3>2, Zenon
  <2>5. IsHello(Head(hello_queue)) /\ Sent(Head(hello_queue))
    BY <2>4, Zenon DEF IInv, Packed, DInv
  <2>6. PICK h : h = Head(hello_queue)
    OBVIOUS
  <2>7. h.kind = "ClientHello" /\ h.src \in Clients /\ Sent(h) /\ Answer(a, h) /\ h = hello_queue[1]
    BY <2>1, <2>4, <2>5, <2>6, Zenon DEF IsHello
  <2>8. net \subseteq net' /\ \A i \in Ids : i # a => pc'[i] = pc[i]
    BY <2>7, Zenon DEF Answer, Send
  <2>9. ASSUME NEW c \in Clients, pc'[c] = "hello", number'[c] # 0
        PROVE  \/ HelloUnderWay(c)'
               \/ /\ pc[c] = "hello" /\ number'[c] = number[c]
                  /\ HelloUnderWay(c) => HelloUnderWay(c)'
    <3>1. c \in Ids /\ c # a
      OBVIOUS
    <3>2. pc[c] = "hello" /\ number'[c] = number[c]
      BY <1>1, <2>8, <2>9, <3>1, Zenon
    <3>3. CASE h.src = c
      BY <2>7, <2>9, <3>2, <3>3, AnswerHello, Zenon
    <3>4. CASE h.src # c
      <4> SUFFICES ASSUME HelloUnderWay(c)
                   PROVE  HelloUnderWay(c)'
        BY <3>2, Zenon
      <4>1. \A i \in DOMAIN hello_queue : hello_queue[i].src = c =>
              \E j \in DOMAIN hello_queue' : hello_queue'[j] = hello_queue[i]
        BY <2>4, <2>7, <3>4, Zenon
      <4>2. \A x \in Accepts : pc[x] = "hello" => pc'[x] = "hello" /\ buffer'[x] = buffer[x]
        BY Zenon, <1>1, <2>8
      <4> QED
        <5>1. HelloFrame(c)
          BY <1>1, <2>8, <4>1, <4>2, Zenon DEF HelloFrame
        <5> QED BY <5>1, FrameHello, Zenon
    <3> QED BY <3>3, <3>4
  <2> QED BY <1>2, <2>2, <2>9, FrameHInv, Zenon
<1>6. CASE AcceptWaits(a)
  <2>1. /\ net' = net /\ hello_queue' = hello_queue
        /\ pending_accept_ids' = Append(pending_accept_ids, a)
        /\ conn_manager' = conn_manager \cup {<<a, None>>}
        /\ pc' = [pc EXCEPT ![a] = "hello"]
    BY <1>6, Zenon DEF AcceptWaits
  <2>2. pc'[a] = "hello" /\ \A i \in Ids : i # a => pc'[i] = pc[i]
    BY <2>1, Zenon
  <2>3. OneWaits'
    <3> SUFFICES ASSUME drops' = 0, NEW i \in DOMAIN pending_accept_ids'
                 PROVE  i = 1 /\ Waiting(pending_accept_ids[i])'
      BY Zenon DEF OneWaits, Waiting
    <3>1. pending_accept_ids = <<>>
      BY <1>1, <1>4
    <3>2. i = 1 /\ pending_accept_ids'[i] = a
      BY <1>3, <2>1, <3>1
    <3>3. buffer'[a].packet = None
      BY <1>1, Zenon DEF IInv, Slots
    <3> QED BY <2>1, <2>2, <3>2, <3>3, Zenon DEF Waiting
  <2>4. ASSUME NEW c \in Clients, pc'[c] = "hello"
        PROVE  /\ pc[c] = "hello" /\ number'[c] = number[c]
               /\ HelloUnderWay(c) => HelloUnderWay(c)'
    <3>1. pc[c] = "hello" /\ number'[c] = number[c]
      BY Zenon, <1>1, <2>2, <2>4
    <3>2. \A x \in Accepts : pc[x] = "hello" => pc'[x] = "hello" /\ buffer'[x] = buffer[x]
      BY <1>1, <2>2
    <3>3. HelloUnderWay(c) => HelloUnderWay(c)'
      <4>1. HelloFrame(c)
        BY <1>1, <2>1, <3>2, Zenon DEF HelloFrame
      <4> QED BY <4>1, FrameHello, Zenon
    <3> QED BY Zenon, <3>1, <3>3
  <2> QED BY <1>2, <2>3, <2>4, FrameHInv, Zenon
<1> QED BY <1>5, <1>6, Zenon DEF accept

(* TakeClientHello: the accept() was not waiting any more.                 *)
LEMMA TakeHelloHInv ==
  ASSUME IInv, DInv, HInv, NEW a \in Accepts, TakeClientHello(a)
  PROVE  HInv'
<1> /\ Clients \subseteq Ids /\ Accepts \subseteq Ids /\ Clients \cap Accepts = {}
    /\ buffer \in [Ids -> BufferType] /\ DOMAIN pc = Ids /\ DOMAIN peer = Ids
  BY Known
<1>1. PICK p : p = buffer[a].packet
  OBVIOUS
<1>2. /\ pc[a] = "hello" /\ p # None /\ buffer' = Taken(a) /\ number' = number /\ Answer(a, p)
      /\ UNCHANGED <<lost, drops, overflows, pending_accept_ids, hello_queue>>
  BY <1>1, Zenon DEF TakeClientHello, Ready, network, hello_state, history
<1>3. p.kind = "ClientHello" /\ p.src \in Clients /\ Sent(p)
  BY <1>1, <1>2, Zenon DEF DInv, AcceptStart, Fresh, IInv, Slots, IsHello
<1>4. Whole' => Whole
  BY <1>2, Zenon DEF Whole
<1>5. /\ net \subseteq net' /\ \A i \in Ids : i # a => pc'[i] = pc[i] /\ buffer'[i] = buffer[i]
  BY <1>2, Zenon DEF Answer, Send, Taken, BufferType
<1>6. \A x \in Accepts : Waiting(x) => Waiting(x)'
  <2> TAKE x \in Accepts
  <2> HAVE Waiting(x)
  <2>1. x # a
    BY <1>1, <1>2, Zenon DEF Waiting
  <2>2. <<x, None>> # <<a, None>>
    BY <2>1
  <2>3. <<x, None>> \in conn_manager'
    BY <1>2, <2>2, Zenon DEF Answer, Waiting
  <2> QED BY <1>5, <2>1, <2>3, Zenon DEF Waiting
<1>7. OneWaits'
  BY <1>2, <1>6, FrameOne, Zenon DEF HInv
<1>8. ASSUME NEW c \in Clients, pc'[c] = "hello", number'[c] # 0
      PROVE  \/ HelloUnderWay(c)'
             \/ /\ pc[c] = "hello" /\ number'[c] = number[c]
                /\ HelloUnderWay(c) => HelloUnderWay(c)'
  <2>1. c \in Ids /\ c # a
    OBVIOUS
  <2>2. pc[c] = "hello" /\ number'[c] = number[c] /\ buffer'[c] = buffer[c]
    BY <1>2, <1>5, <1>8, <2>1, Zenon
  <2>3. CASE p.src = c
    BY <1>2, <1>3, <1>8, <2>2, <2>3, AnswerHello, Zenon
  <2>4. CASE p.src # c
    <3>1. \A x \in Accepts : pc[x] = "hello" /\ buffer[x].packet # None /\ buffer[x].packet.src = c =>
            pc'[x] = "hello" /\ buffer'[x] = buffer[x]
      BY <1>1, <1>5, <2>4, Zenon
    <3>2. HelloUnderWay(c) => HelloUnderWay(c)'
      <4>1. HelloFrame(c)
        BY <1>2, <1>5, <2>2, <3>1, Zenon DEF HelloFrame
      <4> QED BY <4>1, FrameHello, Zenon
    <3> QED BY <2>2, <3>2
  <2> QED BY Zenon, <2>3, <2>4
<1> QED BY <1>4, <1>7, <1>8, FrameHInv, Zenon

(* A step of the caller i alone, that hides no hello.                      *)
CallerMoves(i) ==
  /\ Whole' => Whole
  /\ drops' = 0 => drops = 0
  /\ UNCHANGED <<hello_state, conn_manager>>
  /\ net \subseteq net'
  /\ \A j \in Ids : j # i => pc'[j] = pc[j] /\ buffer'[j] = buffer[j] /\ number'[j] = number[j]
  /\ i \in Accepts => pc[i] # "hello"
  /\ i \in Clients /\ pc'[i] = "hello" /\ number'[i] # 0 => HelloUnderWay(i)'

(* A step of the caller i that hides no hello: its slot was full only if   *)
(* it is full or its call is not waiting for a hello any more.             *)
LEMMA CallerHInv ==
  ASSUME IInv, HInv, NEW i \in Ids, CallerMoves(i)
  PROVE  HInv'
<1> /\ Whole' => Whole
    /\ drops' = 0 => drops = 0
    /\ UNCHANGED <<hello_state, conn_manager>>
    /\ net \subseteq net'
    /\ \A j \in Ids : j # i => pc'[j] = pc[j] /\ buffer'[j] = buffer[j] /\ number'[j] = number[j]
    /\ i \in Accepts => pc[i] # "hello"
    /\ i \in Clients /\ pc'[i] = "hello" /\ number'[i] # 0 => HelloUnderWay(i)'
  BY Zenon DEF CallerMoves
<1>1. Clients \subseteq Ids /\ Accepts \subseteq Ids /\ Clients \cap Accepts = {}
  BY Zenon, Known
<1>2. hello_queue' = hello_queue /\ pending_accept_ids' = pending_accept_ids
      /\ conn_manager' = conn_manager
  BY Zenon DEF hello_state
<1>3. \A a \in Accepts : pc[a] = "hello" => pc'[a] = "hello" /\ buffer'[a] = buffer[a]
  BY <1>1, Zenon
<1>4. \A a \in Accepts : Waiting(a) => Waiting(a)'
  BY <1>2, <1>3, Zenon DEF Waiting
<1>5. OneWaits'
  BY <1>2, <1>4, FrameOne, Zenon DEF HInv
<1>6. ASSUME NEW c \in Clients, pc'[c] = "hello", number'[c] # 0
      PROVE  \/ HelloUnderWay(c)'
             \/ /\ pc[c] = "hello" /\ number'[c] = number[c]
                /\ HelloUnderWay(c) => HelloUnderWay(c)'
  <2>1. CASE c = i
    BY <1>6, <2>1, Zenon
  <2>2. CASE c # i
    <3>1. pc[c] = "hello" /\ number'[c] = number[c] /\ buffer'[c] = buffer[c]
      BY <1>1, <1>6, <2>2, Zenon
    <3>2. HelloUnderWay(c) => HelloUnderWay(c)'
      <4>1. HelloFrame(c)
        BY <1>2, <1>3, <3>1, Zenon DEF HelloFrame
      <4> QED BY <4>1, FrameHello, Zenon
    <3> QED BY <3>1, <3>2
  <2> QED BY <2>1, <2>2
<1> QED BY <1>5, <1>6, FrameHInv, Zenon

(* A reader that finds a place for p: full slots and the queue stay.       *)
LEMMA ReaderHInv ==
  ASSUME IInv, HInv, NEW p \in net, Arrive(p), UNCHANGED <<calls, conn_manager, drops>>,
         Whole' => Whole, OneWaits',
         \A j \in Ids : buffer[j].packet # None => buffer'[j] = buffer[j],
         \A k \in DOMAIN hello_queue : \E j \in DOMAIN hello_queue' : hello_queue'[j] = hello_queue[k],
         p.kind = "ClientHello" /\ Whole' => HelloUnderWay(p.src)',
         p.kind = "ServerHello" /\ pc[p.dst] = "hello" => HelloUnderWay(p.dst)'
  PROVE  HInv'
<1>1. Clients \subseteq Ids /\ Accepts \subseteq Ids
  BY Zenon, Known
<1>2. pc' = pc /\ number' = number /\ \A q \in net : q = p \/ q \in net'
  BY DEF Arrive, calls
<1>3. ASSUME Whole', NEW c \in Clients, pc'[c] = "hello", number'[c] # 0
      PROVE  HelloUnderWay(c)'
  <2>1. HelloUnderWay(c)
    BY <1>2, <1>3, Zenon DEF HInv, Whole
  <2>2. \A a \in Accepts : pc[a] = "hello" /\ buffer[a].packet # None =>
          pc'[a] = "hello" /\ buffer'[a] = buffer[a]
    BY <1>1, <1>2, Zenon
  <2>3. buffer[c].packet # None => buffer'[c].packet # None
    BY <1>1, Zenon
  <2>4. \A q \in net : (q.kind = "ClientHello" /\ q.src = c)
                         \/ (q.kind = "ServerHello" /\ q.dst = c) =>
          q \in net' \/ HelloUnderWay(c)'
    BY <1>2, <1>3, Zenon
  <2> QED
    <3>1. HelloFrame(c)
      BY <2>1, <2>2, <2>3, <2>4, Zenon DEF HelloFrame
    <3> QED BY <2>1, <3>1, FrameHello, Zenon
<1> QED BY <1>3, Zenon DEF HInv, Whole

(* handle_hello: the first accept() that waits gets the hello, or it is    *)
(* queued.                                                                 *)
LEMMA HelloHInv ==
  ASSUME IInv, HInv, NEW p \in net, handle_hello_single(p)
  PROVE  HInv'
<1> Clients \subseteq Ids /\ Accepts \subseteq Ids
  BY Known
<1>1. /\ p.kind = "ClientHello" /\ Arrive(p) /\ UNCHANGED <<calls, conn_manager, drops>>
  BY Zenon DEF handle_hello_single
<1>2. p.kind # "ServerHello" /\ lost' = lost /\ drops' = drops /\ pc' = pc
  BY <1>1 DEF Arrive, calls
<1>3. CASE RouteHello(p)
  <2>1. PICK id : id = Head(pending_accept_ids)
    OBVIOUS
  <2>2. /\ pending_accept_ids # <<>> /\ pending_accept_ids' = Tail(pending_accept_ids)
        /\ hello_queue' = hello_queue /\ overflows' = overflows
        /\ buffer' = IF <<id, None>> \in conn_manager
                     THEN [buffer EXCEPT ![id] = buffer_in_packet(@, p, 2)] ELSE buffer
    BY <1>3, <2>1, Zenon DEF RouteHello
  <2>3. pending_accept_ids \in Seq(Accepts)
    BY Zenon DEF IInv, TypeOK
  <2>4. /\ id \in Accepts /\ id = pending_accept_ids[1] /\ 1 \in DOMAIN pending_accept_ids
        /\ 2 \in Nat
    BY <2>1, <2>2, <2>3, QueueFacts
  <2>5. Whole' => Whole
    BY <1>2, <2>2, Zenon DEF Whole
  <2>6. OneWaits'
    <3> SUFFICES ASSUME drops' = 0
                 PROVE  DOMAIN pending_accept_ids' = {}
      BY Zenon DEF OneWaits
    <3>1. \A i \in DOMAIN pending_accept_ids : i = 1
      BY <1>2, Zenon DEF HInv, OneWaits
    <3>2. Len(pending_accept_ids) < 2
      <4>1. Len(pending_accept_ids) \in Nat
            /\ DOMAIN pending_accept_ids = 1 .. Len(pending_accept_ids)
        BY <2>3
      <4> QED BY <3>1, <4>1
    <3> QED BY <2>2, <2>3, <3>2
  <2>7. \A j \in Ids : buffer[j].packet # None => buffer'[j] = buffer[j]
    <3>1. CASE buffer' = buffer
      BY <3>1, Zenon
    <3>2. CASE buffer' = [buffer EXCEPT ![id] = buffer_in_packet(@, p, 2)]
      BY <2>4, <3>2, SlotsFill, Zenon
    <3> QED BY <2>2, <3>1, <3>2, Zenon
  <2>8. Whole' => HelloUnderWay(p.src)'
    <3> HAVE Whole'
    <3>1. pc[id] = "hello" /\ buffer[id].packet = None /\ <<id, None>> \in conn_manager
      BY <2>4, <2>5, Zenon DEF Whole, HInv, OneWaits
    <3>2. buffer' = [buffer EXCEPT ![id] = buffer_in_packet(@, p, 2)]
      BY <2>2, <3>1, Zenon
    <3>3. buffer'[id].packet # None /\ buffer'[id].packet = p
      BY <2>4, <3>1, <3>2, SlotsFill, Zenon
    <3> QED BY <1>2, <2>4, <3>1, <3>3, Zenon DEF HelloUnderWay
  <2>9. \A k \in DOMAIN hello_queue : \E j \in DOMAIN hello_queue' : hello_queue'[j] = hello_queue[k]
    BY <2>2, Zenon
  <2> QED BY <1>1, <1>2, <2>5, <2>6, <2>7, <2>8, <2>9, ReaderHInv, Zenon
<1>4. CASE QueueHello(p)
  <2>1. /\ pending_accept_ids' = pending_accept_ids /\ buffer' = buffer
        /\ \/ hello_queue' = Append(hello_queue, p) /\ overflows' = overflows
           \/ overflows' = overflows + 1 /\ hello_queue' = hello_queue
    BY <1>4, Zenon DEF QueueHello
  <2>2. overflows \in Nat /\ hello_queue \in Seq(Packets)
    BY Zenon DEF IInv, TypeOK
  <2>3. overflows' = 0 => overflows = 0 /\ hello_queue' = Append(hello_queue, p)
    BY <2>1, <2>2
  <2>4. Whole' => Whole
    BY <1>2, <2>3, Zenon DEF Whole
  <2>5. \A a \in Accepts : Waiting(a) => Waiting(a)'
    BY <1>1, <1>2, <2>1, Zenon DEF Waiting
  <2>6. OneWaits'
    BY <1>2, <2>1, <2>5, FrameOne, Zenon DEF HInv
  <2>7. \A k \in DOMAIN hello_queue : \E j \in DOMAIN hello_queue' : hello_queue'[j] = hello_queue[k]
    <3> TAKE k \in DOMAIN hello_queue
    <3>1. k \in DOMAIN hello_queue' /\ hello_queue'[k] = hello_queue[k]
      BY <2>1, <2>2
    <3> QED BY <3>1
  <2>8. Whole' => HelloUnderWay(p.src)'
    <3> HAVE Whole'
    <3>1. hello_queue' = Append(hello_queue, p)
      BY <2>3, Zenon DEF Whole
    <3>2. Len(hello_queue) + 1 \in DOMAIN hello_queue' /\ hello_queue'[Len(hello_queue) + 1] = p
      BY <2>2, <3>1
    <3> QED BY <3>2, Zenon DEF HelloUnderWay
  <2> QED BY <1>1, <1>2, <2>1, <2>4, <2>6, <2>7, <2>8, ReaderHInv, Zenon
<1> QED BY <1>3, <1>4, Zenon DEF handle_hello_single

(* The hello of a waiting client stays under way, and one accept() waits.  *)
LEMMA StepHInv == IInv /\ DInv /\ HInv /\ [Next]_vars => HInv'
<1> SUFFICES ASSUME IInv, DInv, HInv, [Next]_vars
             PROVE  HInv'
  OBVIOUS
<1> /\ Clients \subseteq Ids /\ Accepts \subseteq Ids /\ Clients \cap Accepts = {}
    /\ buffer \in [Ids -> BufferType] /\ number \in [Ids -> Nat]
    /\ DOMAIN pc = Ids /\ DOMAIN peer = Ids
  BY Zenon, Known
<1>1. ASSUME NEW a \in Accepts, TakeClientAck(a) \/ AcceptTimeout(a)
      PROVE  HInv'
  <2>1. /\ pc[a] = "ack" /\ net' = net /\ UNCHANGED <<hello_state, conn_manager, number>>
        /\ UNCHANGED <<lost, drops, overflows>>
        /\ \E x : pc' = [pc EXCEPT ![a] = x]
        /\ buffer' = buffer \/ buffer' = Taken(a)
    BY <1>1 DEF TakeClientAck, AcceptTimeout, Ready, network, history
  <2>2. pc[a] # "hello" /\ a \notin Clients /\ a \in Ids
    BY <2>1
  <2>3. \A i \in Ids : i # a => buffer'[i] = buffer[i]
    <3>1. CASE buffer' = buffer
      BY <3>1, Zenon
    <3>2. CASE buffer' = Taken(a)
      BY <3>2, Zenon DEF Taken, BufferType
    <3> QED BY <2>1, <3>1, <3>2
  <2>4. \A i \in Ids : i # a => pc'[i] = pc[i] /\ buffer'[i] = buffer[i] /\ number'[i] = number[i]
    BY <2>1, <2>3, Zenon
  <2>5. Whole' => Whole
    BY <2>1, Zenon DEF Whole
  <2> QED
    <3>1. CallerMoves(a)
      BY <2>1, <2>2, <2>4, <2>5, Zenon DEF CallerMoves
    <3> QED BY <3>1, CallerHInv, Zenon
<1>2. ASSUME NEW a \in Accepts, DropAccept(a)
      PROVE  HInv'
  <2>1. drops' = drops + 1 /\ drops \in Nat
    BY <1>2, Constants DEF DropAccept, IInv, TypeOK
  <2>2. drops' # 0
    BY <2>1
  <2> QED BY <2>2, Zenon DEF HInv, OneWaits
<1>3. ASSUME NEW c \in Clients, connect(c)
      PROVE  HInv'
  <2>1. PICK n \in ClientNumbers :
          /\ number' = [number EXCEPT ![c] = n]
          /\ net' = net \cup {Packet(Server, "ClientHello", c, None, n)}
    BY <1>3, Zenon DEF connect, Send
  <2>2. /\ pc' = [pc EXCEPT ![c] = "hello"] /\ buffer' = buffer
        /\ UNCHANGED <<hello_state, conn_manager>> /\ UNCHANGED <<lost, drops, overflows>>
    BY <1>3, Zenon DEF connect, begin, network, history
  <2>3. \A i \in Ids : i # c => pc'[i] = pc[i] /\ buffer'[i] = buffer[i] /\ number'[i] = number[i]
    BY <2>1, <2>2, Zenon
  <2>4. HelloUnderWay(c)'
    <3>1. PICK q : q = Packet(Server, "ClientHello", c, None, n)
      OBVIOUS
    <3>2. q.kind = "ClientHello" /\ q.src = c
      BY <3>1, Zenon DEF Packet
    <3> QED BY <2>1, <3>1, <3>2, Zenon DEF HelloUnderWay
  <2>5. Whole' => Whole
    BY <2>2, Zenon DEF Whole
  <2>6. c \in Ids /\ c \notin Accepts /\ net \subseteq net'
    BY Zenon, <2>1
  <2> QED
    <3>1. CallerMoves(c)
      BY <2>2, <2>3, <2>4, <2>5, <2>6, Zenon DEF CallerMoves
    <3> QED BY <3>1, CallerHInv, Zenon
<1>4. ASSUME NEW c \in Clients, TakeServerHello(c) \/ ConnectTimeout(c)
      PROVE  HInv'
  <2>1. /\ net \subseteq net' /\ UNCHANGED <<hello_state, conn_manager, number>>
        /\ UNCHANGED <<lost, drops, overflows>>
        /\ \E x \in {"error", "ok", "timed_out"} : pc' = [pc EXCEPT ![c] = x]
        /\ buffer' = buffer \/ buffer' = Taken(c)
    BY <1>4, Zenon DEF TakeServerHello, ConnectTimeout, Send, network, history
  <2>2. pc'[c] \in {"error", "ok", "timed_out"} /\ \A i \in Ids : i # c => pc'[i] = pc[i]
    BY <2>1, Zenon
  <2>3. pc'[c] # "hello" /\ c \in Ids /\ c \notin Accepts
    BY Zenon, <2>2
  <2>4. \A i \in Ids : i # c => buffer'[i] = buffer[i]
    <3>1. CASE buffer' = buffer
      BY <3>1, Zenon
    <3>2. CASE buffer' = Taken(c)
      BY <3>2, Zenon DEF Taken, BufferType
    <3> QED BY <2>1, <3>1, <3>2
  <2>5. \A i \in Ids : i # c => pc'[i] = pc[i] /\ buffer'[i] = buffer[i] /\ number'[i] = number[i]
    BY <2>1, <2>2, <2>4, Zenon
  <2>6. Whole' => Whole
    BY <2>1, Zenon DEF Whole
  <2> QED
    <3>1. CallerMoves(c)
      BY <2>1, <2>3, <2>5, <2>6, Zenon DEF CallerMoves
    <3> QED BY <3>1, CallerHInv, Zenon
<1>5. ASSUME NEW c \in Clients, SendData(c)
      PROVE  HInv'
  <2>1. /\ net \subseteq net' /\ UNCHANGED <<hello_state, conn_manager, number, buffer, pc>>
        /\ UNCHANGED <<lost, drops, overflows>> /\ pc[c] = "ok"
    BY <1>5, Zenon DEF SendData, Send, calls, network, history
  <2>2. Whole' => Whole
    BY <2>1, Zenon DEF Whole
  <2>3. c \in Ids /\ c \notin Accepts /\ pc'[c] # "hello"
    BY Zenon, <2>1
  <2> QED
    <3>1. CallerMoves(c)
      BY <2>1, <2>2, <2>3, Zenon DEF CallerMoves
    <3> QED BY <3>1, CallerHInv, Zenon
<1>6. ASSUME NEW p \in net, BufferClientAck(p) \/ BufferData(p)
      PROVE  HInv'
  <2>1. /\ p.kind \in {"ClientAck", "Data"} /\ Arrive(p) /\ UNCHANGED <<calls, conn_manager, drops>>
        /\ hello_queue' = hello_queue /\ pending_accept_ids' = pending_accept_ids
        /\ overflows' = overflows
        /\ \/ buffer' = buffer
           \/ /\ buffer' = [buffer EXCEPT ![p.dst] = buffer_in_packet(@, p, 2)]
              /\ <<p.dst, p.src>> \in conn_manager
    BY <1>6, Zenon DEF BufferClientAck, BufferData, hello_state, history
  <2>2. /\ p.dst \in Accepts /\ p.dst \in Ids /\ p.src \in Clients /\ 2 \in Nat
        /\ p.kind # "ClientHello" /\ p.kind # "ServerHello"
    BY <2>1, Zenon DEF IInv, Packed, Legit, Committed
  <2>3. <<p.dst, p.src>> \in conn_manager => pc[p.dst] # "hello"
    BY <2>2, Zenon DEF IInv, Entries
  <2>4. pc' = pc /\ lost' = lost /\ conn_manager' = conn_manager /\ drops' = drops
    BY Zenon, <2>1 DEF Arrive, calls
  <2>5. /\ \A j \in Ids : buffer[j].packet # None => buffer'[j] = buffer[j]
        /\ \A a \in Accepts : pc[a] = "hello" => buffer'[a] = buffer[a]
    <3>1. CASE buffer' = buffer
      BY <3>1, Zenon
    <3>2. CASE buffer' # buffer
      <4>1. /\ buffer' = [buffer EXCEPT ![p.dst] = buffer_in_packet(@, p, 2)]
            /\ pc[p.dst] # "hello"
        BY <2>1, <2>3, <3>2, Zenon
      <4>2. \A j \in Ids : j # p.dst \/ buffer[j].packet # None => buffer'[j] = buffer[j]
        BY <2>2, <4>1, SlotsFill, Zenon
      <4> QED BY <4>1, <4>2
    <3> QED BY <3>1, <3>2
  <2>6. Whole' => Whole
    BY <2>1, <2>4, Zenon DEF Whole
  <2>7. \A a \in Accepts : Waiting(a) => Waiting(a)'
    BY <2>4, <2>5, Zenon DEF Waiting
  <2>8. OneWaits'
    BY <2>1, <2>4, <2>7, FrameOne, Zenon DEF HInv
  <2>9. \A k \in DOMAIN hello_queue : \E j \in DOMAIN hello_queue' : hello_queue'[j] = hello_queue[k]
    BY <2>1, Zenon
  <2> QED BY <2>1, <2>2, <2>5, <2>6, <2>8, <2>9, ReaderHInv, Zenon
<1>7. ASSUME NEW p \in net, BufferServerHello(p)
      PROVE  HInv'
  <2>1. /\ p.kind = "ServerHello" /\ Arrive(p) /\ UNCHANGED <<calls, conn_manager, drops>>
        /\ hello_queue' = hello_queue /\ pending_accept_ids' = pending_accept_ids
        /\ overflows' = overflows
        /\ buffer' = IF pc[p.dst] \in {"hello", "timed_out", "error"}
                     THEN [buffer EXCEPT ![p.dst] = buffer_in_packet(@, p, 1)] ELSE buffer
    BY <1>7, Zenon DEF BufferServerHello, hello_state, history
  <2>2. p.dst \in Clients /\ p.dst \in Ids /\ p.dst \notin Accepts /\ p.kind # "ClientHello" /\ 1 \in Nat
    BY <2>1, Zenon DEF IInv, Packed, Legit
  <2>3. pc' = pc /\ lost' = lost /\ conn_manager' = conn_manager /\ drops' = drops
    BY <2>1, Zenon DEF Arrive, calls
  <2>4. /\ \A j \in Ids : buffer[j].packet # None => buffer'[j] = buffer[j]
        /\ \A a \in Accepts : buffer'[a] = buffer[a]
    <3>1. CASE buffer' = buffer
      BY <3>1, Zenon
    <3>2. CASE buffer' # buffer
      <4>1. /\ buffer' = [buffer EXCEPT ![p.dst] = buffer_in_packet(@, p, 1)]
        BY <2>1, <3>2, Zenon
      <4>2. \A j \in Ids : j # p.dst \/ buffer[j].packet # None => buffer'[j] = buffer[j]
        BY <2>2, <4>1, SlotsFill, Zenon
      <4> QED BY <2>2, <4>2
    <3> QED BY <3>1, <3>2
  <2>5. pc[p.dst] = "hello" => HelloUnderWay(p.dst)'
    <3> HAVE pc[p.dst] = "hello"
    <3>1. pc[p.dst] \in {"hello", "timed_out", "error"}
      OBVIOUS
    <3>2. buffer' = [buffer EXCEPT ![p.dst] = buffer_in_packet(@, p, 1)]
      BY <2>1, <3>1, Zenon
    <3>3. buffer'[p.dst].packet # None
      BY <2>2, <3>2, SlotsFill, Zenon
    <3> QED BY <3>3, Zenon DEF HelloUnderWay
  <2>6. Whole' => Whole
    BY <2>1, <2>3, Zenon DEF Whole
  <2>7. \A a \in Accepts : Waiting(a) => Waiting(a)'
    BY <2>3, <2>4, Zenon DEF Waiting
  <2>8. OneWaits'
    BY <2>1, <2>3, <2>7, FrameOne, Zenon DEF HInv
  <2>9. \A k \in DOMAIN hello_queue : \E j \in DOMAIN hello_queue' : hello_queue'[j] = hello_queue[k]
    BY <2>1, Zenon
  <2> QED BY <2>1, <2>2, <2>4, <2>5, <2>6, <2>8, <2>9, ReaderHInv, Zenon
<1>8. ASSUME Lose
      PROVE  HInv'
  <2>1. /\ lost \in Nat /\ lost' = lost + 1
        /\ UNCHANGED <<pending_accept_ids, conn_manager, buffer, pc, drops>>
    BY <1>8, Constants DEF Lose, IInv, TypeOK, hello_state, calls, history
  <2>2. lost' # 0
    BY <2>1
  <2>3. \A a \in Accepts : Waiting(a) => Waiting(a)'
    BY <2>1, Zenon DEF Waiting
  <2>4. OneWaits'
    BY <2>1, <2>3, FrameOne, Zenon DEF HInv
  <2> QED BY <2>2, <2>4, Zenon DEF HInv
<1>9. ASSUME UNCHANGED vars
      PROVE  HInv'
  BY <1>9, Zenon DEF HInv, OneWaits, HelloUnderWay, vars, network, hello_state, calls, history
<1> QED BY Zenon, <1>1, <1>2, <1>3, <1>4, <1>5, <1>6, <1>7, <1>8, <1>9, AcceptHInv, TakeHelloHInv,
           HelloHInv DEF Next, ServerReader, ClientReader

(* Init, where nobody waits.                                               *)
LEMMA InitWays == Init => AInv /\ HInv
<1> SUFFICES ASSUME Init
             PROVE  AInv /\ HInv
  OBVIOUS
<1>1. /\ pending_accept_ids = <<>>
      /\ \A c \in Clients : pc[c] # "ok" /\ pc[c] # "hello"
  BY DEF Init, Ids
<1>2. DOMAIN pending_accept_ids = {}
  BY <1>1
<1> QED BY <1>1, <1>2, Zenon DEF AInv, HInv, OneWaits

(* The packets that somebody waits for are under way.                      *)
THEOREM WaysInvariance == Spec => [](AInv /\ HInv)
<1>1. IInv /\ DInv /\ (AInv /\ HInv) /\ [Next]_vars => (AInv /\ HInv)'
  BY Zenon, StepAInv, StepHInv
<1> QED BY <1>1, InitWays, Invariance, StartInvariance, PTL DEF Spec

(* Only a timeout makes a call time out, and if nothing is slow it does so *)
(* only when nothing is under way.                                         *)
LEMMA TimesOutQuietly ==
  ASSUME IInv, [Next]_vars, NEW i \in Ids, pc[i] # "timed_out", pc'[i] = "timed_out"
  PROVE  /\ i \in Clients => pc[i] = "hello"
         /\ i \in Accepts => pc[i] = "ack"
         /\ prompt => Quiet
<1> /\ Clients \subseteq Ids /\ Accepts \subseteq Ids /\ Clients \cap Accepts = {}
    /\ DOMAIN pc = Ids
  BY Known
<1> USE DEF Ids
<1>1. ASSUME NEW a \in Accepts, accept(a) \/ TakeClientHello(a) \/ TakeClientAck(a) \/ DropAccept(a)
      PROVE  FALSE
  <2>1. PICK x \in {"error", "ack", "hello", "ok", "dropped"} : pc' = [pc EXCEPT ![a] = x]
    BY <1>1, Zenon DEF accept, AcceptQueued, AcceptWaits, Answer, TakeClientHello, TakeClientAck, DropAccept
  <2>2. x # "timed_out"
    OBVIOUS
  <2> QED BY <2>1, <2>2, Zenon
<1>2. ASSUME NEW c \in Clients, connect(c) \/ TakeServerHello(c)
      PROVE  FALSE
  <2>1. PICK x \in {"error", "hello", "ok"} : pc' = [pc EXCEPT ![c] = x]
    BY <1>2, Zenon DEF connect, begin, TakeServerHello
  <2>2. x # "timed_out"
    OBVIOUS
  <2> QED BY <2>1, <2>2, Zenon
<1>3. pc' # pc
  BY Zenon
<1>4. ASSUME NEW a \in Accepts, AcceptTimeout(a)
      PROVE  i = a /\ pc[a] = "ack" /\ (prompt => Quiet)
  BY <1>4, Zenon DEF AcceptTimeout
<1>5. ASSUME NEW c \in Clients, ConnectTimeout(c)
      PROVE  i = c /\ pc[c] = "hello" /\ (prompt => Quiet)
  BY <1>5, Zenon DEF ConnectTimeout
<1>6. \/ \E a \in Accepts : AcceptTimeout(a)
      \/ \E c \in Clients : ConnectTimeout(c)
  BY <1>1, <1>2, <1>3, Zenon
     DEF Next, ServerReader, ClientReader, SendData, handle_hello_single, BufferClientAck,
         BufferData, BufferServerHello, Lose, vars, calls
<1> QED BY Zenon, <1>4, <1>5, <1>6

(* connect() times out in vain only while its hello waits in the queue.    *)
THEOREM ConnectsInTime == Spec => TimesOutOnlyUnaccepted
<1>1. IInv /\ HInv /\ [Next]_vars =>
        [\A c \in Clients :
           Smooth /\ number[c] # 0 /\ pc[c] # "timed_out" /\ pc'[c] = "timed_out" =>
             \E i \in DOMAIN hello_queue : hello_queue[i].src = c]_vars
  <2> SUFFICES ASSUME IInv, HInv, [Next]_vars, NEW c \in Clients, Smooth, number[c] # 0,
                      pc[c] # "timed_out", pc'[c] = "timed_out"
               PROVE  \E i \in DOMAIN hello_queue : hello_queue[i].src = c
    BY Zenon
  <2>1. c \in Ids /\ Accepts \subseteq Ids
    BY Known
  <2>2. pc[c] = "hello" /\ prompt /\ lost = 0 /\ drops = 0 /\ overflows = 0
    BY <2>1, TimesOutQuietly, Zenon DEF Smooth
  <2>3. Quiet
    BY <2>1, <2>2, TimesOutQuietly, Zenon
  <2>4. HelloUnderWay(c)
    BY <2>2, Zenon DEF HInv
  <2>5. net = {} /\ \A i \in Ids : pc[i] = "hello" => buffer[i].packet = None
    BY <2>3 DEF Quiet
  <2> QED BY <2>1, <2>2, <2>4, <2>5, Zenon DEF HelloUnderWay
<1> QED BY <1>1, Invariance, WaysInvariance, PTL DEF Spec, TimesOutOnlyUnaccepted

(* An accept() that waits for an ack knows its client.                     *)
LEMMA StepPartnered == IInv /\ Partnered /\ [Next]_vars => Partnered'
<1> SUFFICES ASSUME IInv, Partnered, [Next]_vars
             PROVE  Partnered'
  OBVIOUS
<1> /\ Clients \subseteq Ids /\ Accepts \subseteq Ids /\ Clients \cap Accepts = {}
    /\ DOMAIN pc = Ids /\ DOMAIN peer = Ids
  BY Known
<1>1. ASSUME NEW a \in Accepts, NEW p, IsHello(p), Answer(a, p)
      PROVE  Partnered'
  <2>1. peer'[a] \in Clients /\ \A i \in Ids : i # a => pc'[i] = pc[i] /\ peer'[i] = peer[i]
    BY <1>1, Zenon DEF Answer, IsHello
  <2> QED BY <2>1, Zenon DEF Partnered
<1>2. ASSUME NEW i \in Ids, NEW x, pc' = [pc EXCEPT ![i] = x], x # "ack",
             \A j \in Ids : j # i => peer'[j] = peer[j]
      PROVE  Partnered'
  <2>1. pc'[i] # "ack" /\ \A j \in Ids : j # i => pc'[j] = pc[j] /\ peer'[j] = peer[j]
    BY <1>2, Zenon
  <2> QED BY <2>1, Zenon DEF Partnered
<1>3. ASSUME NEW a \in Accepts, accept(a)
      PROVE  Partnered'
  <2>1. CASE AcceptQueued(a)
    <3>1. hello_queue \in Seq(Packets) /\ hello_queue # <<>> /\ Answer(a, Head(hello_queue))
      BY <2>1, Zenon DEF AcceptQueued, IInv, TypeOK
    <3>2. Head(hello_queue) = hello_queue[1] /\ 1 \in DOMAIN hello_queue
      BY <3>1, QueueFacts
    <3>3. IsHello(Head(hello_queue))
      BY <3>2, Zenon DEF IInv, Packed
    <3> QED BY <1>1, <3>1, <3>3, Zenon
  <2>2. CASE AcceptWaits(a)
    <3>1. pc' = [pc EXCEPT ![a] = "hello"] /\ peer' = peer
      BY <2>2, Zenon DEF AcceptWaits
    <3>2. "hello" # "ack" /\ a \in Ids /\ \A j \in Ids : j # a => peer'[j] = peer[j]
      BY <3>1
    <3> QED BY <1>2, <3>1, <3>2, Zenon
  <2> QED BY <1>3, <2>1, <2>2, Zenon DEF accept
<1>4. ASSUME NEW a \in Accepts, TakeClientHello(a)
      PROVE  Partnered'
  <2>1. IsHello(buffer[a].packet) /\ Answer(a, buffer[a].packet)
    BY <1>4, Zenon DEF TakeClientHello, Ready, IInv, Slots
  <2> QED BY <1>1, <2>1, Zenon
<1>5. ASSUME NEW i \in Ids, TakeClientAck(i) \/ AcceptTimeout(i) \/ DropAccept(i) \/ connect(i)
                              \/ TakeServerHello(i) \/ ConnectTimeout(i)
      PROVE  Partnered'
  <2>1. /\ \E x \in {"ok", "error", "timed_out", "dropped", "hello"} : pc' = [pc EXCEPT ![i] = x]
        /\ peer' = peer \/ \E y : peer' = [peer EXCEPT ![i] = y]
    BY <1>5, Zenon DEF TakeClientAck, AcceptTimeout, DropAccept, connect, begin, TakeServerHello,
                ConnectTimeout
  <2>2. PICK x \in {"ok", "error", "timed_out", "dropped", "hello"} : pc' = [pc EXCEPT ![i] = x]
    BY <2>1, Zenon
  <2>3. x # "ack"
    OBVIOUS
  <2>4. \A j \in Ids : j # i => peer'[j] = peer[j]
    BY <2>1, Zenon
  <2> QED BY <1>2, <2>2, <2>3, <2>4, Zenon
<1>6. ASSUME pc' = pc, peer' = peer
      PROVE  Partnered'
  BY <1>6, Zenon DEF Partnered
<1>7. \A a \in Accepts : a \in Ids
  OBVIOUS
<1>8. \A c \in Clients : c \in Ids
  OBVIOUS
<1> QED BY <1>3, <1>4, <1>5, <1>6, <1>7, <1>8, Zenon
        DEF Next, ServerReader, ClientReader, SendData, handle_hello_single, BufferClientAck,
            BufferData, BufferServerHello, Lose, vars, calls

(* accept() gives up on the ack only of a client not connected to it.      *)
THEOREM NoneHalfOpen == Spec => NoHalfOpen
<1>1. IInv /\ AInv /\ Partnered /\ [Next]_vars =>
        [\A a \in Accepts :
           Smooth /\ pc[a] # "timed_out" /\ pc'[a] = "timed_out" =>
             ~(pc[peer[a]] = "ok" /\ peer[peer[a]] = a)]_vars
  <2> SUFFICES ASSUME IInv, AInv, Partnered, [Next]_vars, NEW a \in Accepts, Smooth,
                      pc[a] # "timed_out", pc'[a] = "timed_out",
                      pc[peer[a]] = "ok", peer[peer[a]] = a
               PROVE  FALSE
    BY Zenon
  <2>1. a \in Ids /\ Accepts \subseteq Ids /\ Clients \cap Accepts = {}
    BY Zenon, Known
  <2>2. pc[a] = "ack" /\ prompt /\ lost = 0
    BY <2>1, TimesOutQuietly, Zenon DEF Smooth
  <2>3. Quiet
    BY <2>1, <2>2, TimesOutQuietly, Zenon
  <2>4. peer[a] \in Clients
    BY <2>2, Zenon DEF Partnered
  <2>5. AckUnderWay(peer[a])
    BY <2>2, <2>4, Zenon DEF AInv
  <2>6. net = {} /\ buffer[a].packet = None
    BY <2>1, <2>2, <2>3 DEF Quiet
  <2> QED BY <2>5, <2>6 DEF AckUnderWay
<1>2. Init => Partnered
  BY DEF Init, Partnered, Ids
<1> QED BY <1>1, <1>2, StepPartnered, Invariance, StartInvariance, WaysInvariance, PTL
        DEF Spec, NoHalfOpen
=============================================================================
