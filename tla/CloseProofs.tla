---------------------------- MODULE CloseProofs -----------------------------
(***************************************************************************)
(* The safety of the graceful close, for every number of attempts, every   *)
(* capacity of the FinAck channel and any losses and duplicates.           *)
(*                                                                         *)
(* OkMeansPeerSawFin is not inductive: between the peer's buffer_in_fin    *)
(* and the Ok lie the conn_reader of the peer, its FinAck channel, the     *)
(* network and the CloseBuffer.  Evidence says of each of these places     *)
(* that what is there was caused by a Fin the peer has shown its readers.  *)
(*                                                                         *)
(* That close() gives up only against a peer that has closed is a count:   *)
(* on a prompt network an attempt is used up only by a loss, as long as    *)
(* the Fin or its answer is somewhere (Retries).                           *)
(***************************************************************************)
EXTENDS Close, TLAPS

\* The larger leaves take longer than the provers' default limits.
USE SMTT(30), ZenonT(30)

\* Whoever holds a FinAck, or asks for one, has it from an observed Fin.
Evidence ==
  \A e \in Ends :
    /\ incoming[e] # None => peer_fin_observed[e]
    /\ fin_ack_queue[e] # <<>> => peer_fin_observed[e]
    /\ state[e].st = "PeerFinReceived" => peer_fin_observed[e]
    /\ received_fin_ack_for[e] # None => peer_fin_observed[Peer(e)]
    /\ pc[e] = "acked" => peer_fin_observed[Peer(e)]
    /\ \A p \in net : p.to = e /\ p.kind = "FinAck" => peer_fin_observed[Peer(e)]
    /\ \A p \in net : p.to = e /\ p.kind = "Fin" => attempt[Peer(e)] > 0

\* Where close() is tells whether the connection is Closed.
Phases ==
  \A e \in Ends :
    /\ pc[e] = "done" <=> state[e].st = "Closed"
    /\ pc[e] = "done" <=> result[e] # None
    /\ pc[e] \in {"idle", "send"} => attempt[e] < MAX_FIN_ATTEMPTS

IInv == OkMeansPeerSawFin /\ EndsOnlyByClosing /\ Evidence /\ Phases

\* Every Fin, every FinAck and everything made from one names the one Fin
\* its sender has: no step ever sees the number of another.
Numbered ==
  \A e \in Ends :
    /\ \A p \in net : p.to = e /\ p.kind = "FinAck" => p.pn = FinNumber[e]
    /\ \A p \in net : p.to = Peer(e) /\ p.kind = "Fin" => p.pn = FinNumber[e]
    /\ incoming[Peer(e)] \in {None, FinNumber[e]}
    /\ \A i \in 1 .. Len(fin_ack_queue[Peer(e)]) : fin_ack_queue[Peer(e)][i] = FinNumber[e]
    /\ received_fin_ack_for[e] \in {None, FinNumber[e]}
    /\ state[Peer(e)].st = "PeerFinReceived" => state[Peer(e)].pn = FinNumber[e]

\* close() waits exactly while the FinAck has not come: its wake-up is
\* neither lost nor spurious.
Wakes ==
  \A e \in Ends :
    /\ pc[e] = "check" /\ ~waiting[e] => received_fin_ack_for[e] = FinNumber[e]
    /\ pc[e] = "await" => (waiting[e] <=> received_fin_ack_for[e] # FinNumber[e])

\* The Fin of e, or the answer to it, is still somewhere.
OnWay(e) ==
  \/ \E p \in net : p.to = Peer(e) /\ p.kind = "Fin"
  \/ incoming[Peer(e)] # None
  \/ fin_ack_queue[Peer(e)] # <<>>
  \/ \E p \in net : p.to = e /\ p.kind = "FinAck"
  \/ received_fin_ack_for[e] = FinNumber[e]

\* On a prompt network an attempt ends without an answer only by a loss.
Accounted(e) ==
  /\ pc[e] = "idle" => attempt[e] = 0
  /\ pc[e] = "send" => attempt[e] <= lost
  /\ pc[e] \in {"register", "check", "await"} =>
       attempt[e] <= lost \/ (attempt[e] <= lost + 1 /\ OnWay(e))
  /\ pc[e] = "timed_out" \/ result[e] = "TimedOut" => MAX_FIN_ATTEMPTS <= lost

Retries == prompt => \A e \in Ends : state[Peer(e)].st = "Closed" \/ Accounted(e)

RInv == Numbered /\ Wakes /\ Retries

(* The two endpoints: each is the peer of the other.                       *)
LEMMA Peers ==
  \A e \in Ends : Peer(e) \in Ends /\ Peer(e) # e /\ Peer(Peer(e)) = e
BY CloseAssumption DEF Ends, Peer

(* The assumption, one constant at a time.                                 *)
LEMMA Constants ==
  /\ MAX_FIN_ATTEMPTS \in Nat /\ MAX_FIN_ATTEMPTS > 0 /\ FinAckBound \in Nat
  /\ MaxLosses \in Nat /\ MaxDuplicates \in Nat
  /\ \A e \in Ends : FinNumber[e] \in Nat
  /\ None \notin Nat /\ None # "Ok" /\ None # "TimedOut"
BY CloseAssumption

(* The fields of a packet.                                                 *)
LEMMA PacketFields ==
  ASSUME NEW to \in Ends, NEW kind \in {"Fin", "FinAck"}, NEW pn \in Nat
  PROVE  /\ Packet(to, kind, pn) \in [to : Ends, kind : {"Fin", "FinAck"}, pn : Nat]
         /\ Packet(to, kind, pn).to = to
         /\ Packet(to, kind, pn).kind = kind
BY DEF Packet

(* The fields of a CloseState.                                             *)
LEMMA StateFields ==
  ASSUME NEW st \in {"Active", "PeerFinReceived", "LocalFinSent", "Closed"}, NEW pn \in Nat
  PROVE  /\ At(st, pn) \in [st : {"Active", "PeerFinReceived", "LocalFinSent", "Closed"},
                            pn : Nat]
         /\ At(st, pn).st = st
BY DEF At

(* The invariant holds before any packet was sent.                         *)
LEMMA InitIInv == Init => IInv
BY CloseAssumption, Peers
   DEF Init, IInv, TypeOK, OkMeansPeerSawFin, EndsOnlyByClosing, Evidence, Phases, At

(* Every step of close(), of the conn_reader, of the FinAck task and of    *)
(* the network preserves it.                                               *)
LEMMA StepIInv == IInv /\ [Next]_vars => IInv'
<1> SUFFICES ASSUME IInv, [Next]_vars
             PROVE  IInv'
  OBVIOUS
<1> TypeOK /\ OkMeansPeerSawFin /\ EndsOnlyByClosing /\ Evidence /\ Phases
  BY DEF IInv, EndsOnlyByClosing
<1> USE Constants, Peers
<1>1. ASSUME NEW e \in Ends, CallClose(e)
      PROVE  IInv'
  <2>1. TypeOK'
    BY <1>1, Zenon DEF CallClose, record_local_fin_sent, At, TypeOK, Phases, network, reader
  <2>2. Evidence'
    BY <1>1 DEF CallClose, record_local_fin_sent, At, TypeOK, Evidence, network, reader
  <2>3. Phases'
    <3>1. \A x \in Ends : state'[x].st = "Closed" <=> state[x].st = "Closed"
      BY <1>1, StateFields, ZenonT(40) DEF CallClose, record_local_fin_sent, TypeOK
    <3>2. \A x \in Ends : \/ pc'[x] = pc[x]
                          \/ pc[x] = "idle" /\ pc'[x] = "send"
      BY <1>1 DEF CallClose, TypeOK
    <3>3. \A x \in Ends : pc[x] = "idle" => attempt[x] < MAX_FIN_ATTEMPTS
      BY DEF Phases
    <3> QED BY <1>1, <3>1, <3>2, <3>3 DEF CallClose, Phases
  <2>4. OkMeansPeerSawFin' /\ EndsOnlyByClosing'
    BY <1>1, <2>1, <2>3, Zenon DEF CallClose, record_local_fin_sent, At, TypeOK, OkMeansPeerSawFin,
               EndsOnlyByClosing, Evidence, Phases, network, reader
  <2> QED BY <2>2, <2>3, <2>4 DEF IInv
<1>2. ASSUME NEW e \in Ends, SendFin(e)
      PROVE  IInv'
  <2> DEFINE q == Packet(Peer(e), "Fin", FinNumber[e])
  <2>a. /\ q \in [to : Ends, kind : {"Fin", "FinAck"}, pn : Nat]
        /\ q.to = Peer(e) /\ q.kind = "Fin"
    <3>1. Peer(e) \in Ends /\ FinNumber[e] \in Nat
      BY Zenon
    <3> QED BY <3>1, SMTT(30) DEF Packet
  <2>b. net' = net \cup {q}
    BY <1>2 DEF SendFin, Send
  <2> HIDE DEF q
  <2>c. attempt[e] \in Nat /\ attempt[e] < MAX_FIN_ATTEMPTS /\ pc[e] = "send"
    BY <1>2 DEF SendFin, TypeOK, Phases
  <2>d. \A x \in Ends : attempt'[x] = IF x = e THEN attempt[e] + 1 ELSE attempt[x]
    BY <1>2 DEF SendFin, TypeOK
  <2>e. attempt[e] + 1 \in 0 .. MAX_FIN_ATTEMPTS /\ attempt[e] + 1 > 0
    BY <2>c
  <2>f. \A x \in Ends : attempt[x] > 0 => attempt'[x] > 0
    BY <2>d, <2>e
  <2>1. TypeOK'
    <3>1. net' \subseteq [to : Ends, kind : {"Fin", "FinAck"}, pn : Nat]
      BY <2>a, <2>b DEF TypeOK
    <3>2. attempt' \in [Ends -> 0 .. MAX_FIN_ATTEMPTS]
      BY <1>2, <2>c, <2>e DEF SendFin, TypeOK
    <3> QED BY <1>2, <3>1, <3>2, Zenon DEF SendFin, TypeOK, network, buffer, reader
  <2>2. Evidence'
    <3>2. attempt'[e] > 0
      BY <2>d, <2>e
    <3>3. \A x \in Ends : \A r \in net' : r.to = x /\ r.kind = "Fin" => attempt'[Peer(x)] > 0
      BY <2>a, <2>b, <2>f, <3>2 DEF Evidence
    <3>4. \A x \in Ends : \A r \in net' :
            r.to = x /\ r.kind = "FinAck" => peer_fin_observed[Peer(x)]
      BY <2>a, <2>b DEF Evidence
    <3>5. \A x \in Ends : pc'[x] = "acked" => pc[x] = "acked"
      BY <1>2 DEF SendFin, TypeOK
    <3> QED BY <1>2, <3>3, <3>4, <3>5 DEF SendFin, Evidence, buffer, reader
  <2>3. Phases'
    BY <1>2, <2>c, Zenon DEF SendFin, TypeOK, Phases, buffer
  <2>4. OkMeansPeerSawFin' /\ EndsOnlyByClosing'
    BY <1>2, <2>1, <2>f DEF SendFin, OkMeansPeerSawFin, EndsOnlyByClosing, buffer
  <2> QED BY <2>2, <2>3, <2>4 DEF IInv
<1>3. ASSUME NEW e \in Ends, Register(e)
      PROVE  IInv'
  <2>1. TypeOK'
    BY <1>3, Zenon DEF Register, TypeOK, Phases, network, reader
  <2>2. Evidence'
    BY <1>3 DEF Register, TypeOK, Evidence, network, reader
  <2>3. Phases'
    BY <1>3 DEF Register, TypeOK, Phases, network, reader
  <2>4. OkMeansPeerSawFin' /\ EndsOnlyByClosing'
    BY <1>3, <2>1, <2>3, Zenon DEF Register, TypeOK, OkMeansPeerSawFin,
               EndsOnlyByClosing, Evidence, Phases, network, reader
  <2> QED BY <2>2, <2>3, <2>4 DEF IInv
<1>4. ASSUME NEW e \in Ends, CheckFinAck(e)
      PROVE  IInv'
  <2>1. TypeOK'
    BY <1>4, Zenon DEF CheckFinAck, AfterAttempt, TypeOK, Phases, network, buffer, reader
  <2>2. Evidence'
    BY <1>4 DEF CheckFinAck, AfterAttempt, TypeOK, Evidence, network, buffer, reader
  <2>3. Phases'
    BY <1>4 DEF CheckFinAck, AfterAttempt, TypeOK, Phases, network, buffer, reader
  <2>4. OkMeansPeerSawFin' /\ EndsOnlyByClosing'
    BY <1>4, <2>1, <2>3, Zenon DEF CheckFinAck, AfterAttempt, TypeOK, OkMeansPeerSawFin,
               EndsOnlyByClosing, Evidence, Phases, network, buffer, reader
  <2> QED BY <2>2, <2>3, <2>4 DEF IInv
<1>5. ASSUME NEW e \in Ends, Timeout(e)
      PROVE  IInv'
  <2>1. TypeOK'
    BY <1>5, Zenon DEF Timeout, AfterAttempt, TypeOK, Phases, network, reader
  <2>2. Evidence'
    BY <1>5 DEF Timeout, AfterAttempt, TypeOK, Evidence, network, reader
  <2>3. Phases'
    BY <1>5, Zenon DEF Timeout, AfterAttempt, TypeOK, Phases, network, reader
  <2>4. OkMeansPeerSawFin' /\ EndsOnlyByClosing'
    BY <1>5, <2>1, <2>3 DEF Timeout, AfterAttempt, TypeOK, OkMeansPeerSawFin,
               EndsOnlyByClosing, Evidence, Phases, network, reader
  <2> QED BY <2>2, <2>3, <2>4 DEF IInv
<1>6. ASSUME NEW e \in Ends, Finish(e)
      PROVE  IInv'
  <2>1. TypeOK'
    BY <1>6, Zenon DEF Finish, At, TypeOK, Phases, network, reader
  <2>2. Evidence'
    BY <1>6 DEF Finish, At, TypeOK, Evidence, network, reader
  <2>3. Phases'
    BY <1>6 DEF Finish, At, TypeOK, Phases, network, reader
  <2>4. OkMeansPeerSawFin' /\ EndsOnlyByClosing'
    <3>1. \A x \in Ends : result'[x] = "Ok" => result[x] = "Ok" \/ pc[x] = "acked"
      BY <1>6 DEF Finish, TypeOK
    <3> QED BY <1>6, <2>1, <2>3, <3>1
            DEF Finish, OkMeansPeerSawFin, EndsOnlyByClosing, Evidence, Phases
  <2> QED BY <2>2, <2>3, <2>4 DEF IInv
<1>7. ASSUME NEW e \in Ends, NEW p \in net, p.to = e, buffer_in_fin(e, p)
      PROVE  IInv'
  <2>a. /\ net' \subseteq net
        /\ p.pn \in Nat /\ attempt[Peer(e)] > 0
        /\ UNCHANGED <<lost, prompt, received_fin_ack_for, waiting, fin_ack_queue, closer>>
    BY <1>7, Zenon DEF buffer_in_fin, Arrive, TypeOK, Evidence
  <2>b. duplicated' \in 0 .. MaxDuplicates
    <3>1. duplicated \in 0 .. MaxDuplicates /\ MaxDuplicates \in Nat
      BY DEF TypeOK
    <3>2. duplicated' = duplicated \/ (duplicated < MaxDuplicates /\ duplicated' = duplicated + 1)
      BY <1>7 DEF buffer_in_fin, Arrive
    <3> QED BY <3>1, <3>2
  <2>c. /\ state' \in [Ends -> [st : {"Active", "PeerFinReceived", "LocalFinSent", "Closed"},
                                pn : Nat]]
        /\ \A x \in Ends : \/ state'[x] = state[x]
                           \/ /\ x = e /\ state'[x].st = "PeerFinReceived"
                              /\ state[x].st # "Closed" /\ peer_fin_observed'[x]
        /\ incoming' \in [Ends -> Nat \cup {None}]
        /\ peer_fin_observed' \in [Ends -> BOOLEAN]
        /\ \A x \in Ends : /\ peer_fin_observed[x] => peer_fin_observed'[x]
                           /\ peer_fin_observed'[x] => peer_fin_observed[x] \/ x = e
                           /\ incoming'[x] # None => incoming[x] # None \/ peer_fin_observed'[x]
    <3>1. CASE /\ state[e].st \in {"Active", "LocalFinSent"}
               /\ state' = [state EXCEPT ![e] = At("PeerFinReceived", p.pn)]
               /\ peer_fin_observed' = [peer_fin_observed EXCEPT ![e] = TRUE]
               /\ incoming' = [incoming EXCEPT ![e] = p.pn]
      BY <3>1, <2>a, StateFields, ZenonT(40) DEF TypeOK
    <3>2. CASE /\ state[e] = At("PeerFinReceived", p.pn)
               /\ incoming' = [incoming EXCEPT ![e] = p.pn]
               /\ UNCHANGED <<state, peer_fin_observed>>
      <4>1. peer_fin_observed[e]
        BY <3>2, <2>a, StateFields, ZenonT(40) DEF Evidence
      <4> QED BY <3>2, <4>1, <2>a, Zenon DEF TypeOK
    <3>3. CASE UNCHANGED <<state, peer_fin_observed, incoming>>
      BY <3>3 DEF TypeOK
    <3> QED BY <1>7, <3>1, <3>2, <3>3, Zenon DEF buffer_in_fin
  <2>1. TypeOK'
    BY <2>a, <2>b, <2>c, Zenon DEF TypeOK, closer
  <2>2. Evidence'
    BY <2>a, <2>c, ZenonT(40) DEF Evidence, closer
  <2>3. Phases'
    BY <2>a, <2>c DEF Phases, closer
  <2>4. OkMeansPeerSawFin' /\ EndsOnlyByClosing'
    BY <2>1, <2>3, <2>a, <2>c DEF OkMeansPeerSawFin, EndsOnlyByClosing, Phases, closer
  <2> QED BY <2>2, <2>3, <2>4 DEF IInv
<1>8. ASSUME NEW e \in Ends, NEW p \in net, p.to = e, buffer_in_fin_ack(e, p)
      PROVE  IInv'
  <2>1. TypeOK'
    <3>1. p.pn \in Nat /\ net' \subseteq net /\ duplicated' \in 0 .. MaxDuplicates
      BY <1>8 DEF buffer_in_fin_ack, Arrive, TypeOK
    <3> QED BY <1>8, <3>1, Zenon DEF buffer_in_fin_ack, Arrive, TypeOK, reader, closer
  <2>2. Evidence'
    BY <1>8, ZenonT(40) DEF buffer_in_fin_ack, Arrive, TypeOK, Evidence, reader, closer
  <2>3. Phases'
    BY <1>8 DEF buffer_in_fin_ack, Arrive, TypeOK, Phases, reader, closer
  <2>4. OkMeansPeerSawFin' /\ EndsOnlyByClosing'
    BY <1>8, <2>1, <2>3, Zenon DEF buffer_in_fin_ack, Arrive, TypeOK, OkMeansPeerSawFin,
               EndsOnlyByClosing, Evidence, Phases, reader, closer
  <2> QED BY <2>2, <2>3, <2>4 DEF IInv
<1>9. ASSUME NEW e \in Ends, QueueFinAck(e)
      PROVE  IInv'
  <2>1. TypeOK'
    <3>1. incoming[e] \in Nat /\ fin_ack_queue[e] \in Seq(Nat)
      BY <1>9 DEF QueueFinAck, TypeOK
    <3>2. Append(fin_ack_queue[e], incoming[e]) \in Seq(Nat)
          /\ Len(Append(fin_ack_queue[e], incoming[e])) = Len(fin_ack_queue[e]) + 1
      BY <3>1
    <3>3. /\ fin_ack_queue' \in [Ends -> Seq(Nat)]
          /\ \A x \in Ends : Len(fin_ack_queue'[x]) <= FinAckBound
      BY <1>9, <3>1, <3>2 DEF QueueFinAck, TypeOK
    <3> QED BY <1>9, <3>3, Zenon DEF QueueFinAck, TypeOK, network, buffer, closer
  <2>2. Evidence'
    BY <1>9, Zenon DEF QueueFinAck, TypeOK, Evidence, network, buffer, closer
  <2>3. Phases'
    BY <1>9 DEF QueueFinAck, TypeOK, Phases, network, buffer, closer
  <2>4. OkMeansPeerSawFin' /\ EndsOnlyByClosing'
    BY <1>9, <2>1, <2>3, Zenon DEF QueueFinAck, TypeOK, OkMeansPeerSawFin,
               EndsOnlyByClosing, Evidence, Phases, network, buffer, closer
  <2> QED BY <2>2, <2>3, <2>4 DEF IInv
<1>10. ASSUME NEW e \in Ends, send_fin_ack(e)
       PROVE  IInv'
  <2> DEFINE q == Packet(Peer(e), "FinAck", Head(fin_ack_queue[e]))
  <2>a. /\ Head(fin_ack_queue[e]) \in Nat
        /\ Tail(fin_ack_queue[e]) \in Seq(Nat)
        /\ Len(Tail(fin_ack_queue[e])) <= FinAckBound
    <3>1. /\ fin_ack_queue[e] \in Seq(Nat) /\ fin_ack_queue[e] # <<>>
          /\ Len(fin_ack_queue[e]) <= FinAckBound
      BY <1>10 DEF send_fin_ack, TypeOK
    <3>2. /\ Head(fin_ack_queue[e]) \in Nat /\ Tail(fin_ack_queue[e]) \in Seq(Nat)
          /\ Len(Tail(fin_ack_queue[e])) = Len(fin_ack_queue[e]) - 1
          /\ Len(fin_ack_queue[e]) \in Nat
      BY <3>1
    <3> QED BY <3>1, <3>2
  <2>b. /\ q \in [to : Ends, kind : {"Fin", "FinAck"}, pn : Nat]
        /\ q.to = Peer(e) /\ q.kind = "FinAck"
    <3>1. Peer(e) \in Ends
      BY Zenon
    <3> QED BY <2>a, <3>1, SMTT(30) DEF Packet
  <2>c. net' = net \cup {q} /\ peer_fin_observed[e]
    BY <1>10, Zenon DEF send_fin_ack, Send, Evidence
  <2> HIDE DEF q
  <2>1. TypeOK'
    <3>1. net' \subseteq [to : Ends, kind : {"Fin", "FinAck"}, pn : Nat]
      BY <2>b, <2>c DEF TypeOK
    <3>2. /\ fin_ack_queue' \in [Ends -> Seq(Nat)]
          /\ \A x \in Ends : Len(fin_ack_queue'[x]) <= FinAckBound
      BY <1>10, <2>a, Zenon DEF send_fin_ack, TypeOK
    <3> QED BY <1>10, <3>1, <3>2, Zenon DEF send_fin_ack, TypeOK, network, buffer, closer
  <2>2. Evidence'
    <3>1. \A x \in Ends : fin_ack_queue'[x] # <<>> => peer_fin_observed[x]
      BY <1>10, <2>c DEF send_fin_ack, TypeOK, Evidence
    <3>2. \A x \in Ends : \A r \in net' :
            /\ r.to = x /\ r.kind = "FinAck" => peer_fin_observed[Peer(x)]
            /\ r.to = x /\ r.kind = "Fin" => attempt[Peer(x)] > 0
      BY <2>b, <2>c DEF Evidence
    <3> QED BY <1>10, <3>1, <3>2, Zenon DEF send_fin_ack, Evidence, buffer, closer
  <2>3. Phases'
    BY <1>10 DEF send_fin_ack, Phases, buffer, closer
  <2>4. OkMeansPeerSawFin' /\ EndsOnlyByClosing'
    BY <1>10, <2>1 DEF send_fin_ack, OkMeansPeerSawFin, EndsOnlyByClosing, buffer, closer
  <2> QED BY <2>2, <2>3, <2>4 DEF IInv
<1>11. CASE Lose
  <2>1. TypeOK'
    <3>1. lost' \in 0 .. MaxLosses
      BY <1>11 DEF Lose, TypeOK
    <3> QED BY <1>11, <3>1, Zenon DEF Lose, TypeOK, buffer, reader, closer
  <2>2. Evidence'
    BY <1>11 DEF Lose, Evidence, buffer, reader, closer
  <2>3. Phases'
    BY <1>11 DEF Lose, Phases, buffer, closer
  <2>4. OkMeansPeerSawFin' /\ EndsOnlyByClosing'
    BY <1>11, <2>1, Zenon DEF Lose, OkMeansPeerSawFin, EndsOnlyByClosing, buffer, closer
  <2> QED BY <2>2, <2>3, <2>4 DEF IInv
<1>12. CASE UNCHANGED vars
  <2>1. TypeOK'
    BY <1>12, Zenon DEF TypeOK, vars, network, buffer, reader, closer
  <2>2. Evidence'
    BY <1>12 DEF Evidence, vars, buffer, reader, closer
  <2>3. Phases'
    BY <1>12, Zenon DEF Phases, vars, buffer, closer
  <2>4. OkMeansPeerSawFin' /\ EndsOnlyByClosing'
    BY <1>12, <2>1, Zenon DEF OkMeansPeerSawFin, EndsOnlyByClosing, vars, buffer, closer
  <2> QED BY <2>2, <2>3, <2>4 DEF IInv
<1> QED
  BY <1>1, <1>2, <1>3, <1>4, <1>5, <1>6, <1>7, <1>8, <1>9, <1>10, <1>11, <1>12
     DEF Next, CloseStep, ConnReader

(* The numbers hold before any packet was sent, and nobody waits.          *)
LEMMA InitRInv == Init => RInv
BY Constants, Peers DEF Init, RInv, Numbered, Wakes, Retries, Accounted, At

(* A step that leaves an endpoint's close() alone leaves its attempts      *)
(* accounted for, unless it removes the last trace of the Fin; then it     *)
(* must be a loss.                                                         *)
LEMMA AccountKept ==
  ASSUME TypeOK, NEW e \in Ends, Accounted(e),
         pc'[e] = pc[e], attempt'[e] = attempt[e], result'[e] = result[e],
         \/ lost' = lost /\ (OnWay(e) => OnWay(e)')
         \/ lost' = lost + 1
  PROVE  Accounted(e)'
<1>1. lost \in Nat /\ attempt[e] \in Nat /\ MAX_FIN_ATTEMPTS \in Nat
  BY Constants DEF TypeOK
<1>2. CASE lost' = lost /\ (OnWay(e) => OnWay(e)')
  BY <1>1, <1>2 DEF Accounted
<1>3. CASE lost' = lost + 1
  BY <1>1, <1>3 DEF Accounted
<1> QED BY <1>2, <1>3

(* A step that changes neither the network nor the two buffers keeps the   *)
(* traces of every Fin.                                                    *)
LEMMA TraceKept ==
  ASSUME NEW e \in Ends, net \subseteq net',
         UNCHANGED <<fin_ack_queue, incoming, received_fin_ack_for>>
  PROVE  OnWay(e) => OnWay(e)'
BY DEF OnWay

(* A sequence of equal numbers, and what is left of it.                    *)
LEMMA AllEqual ==
  ASSUME NEW v, NEW s \in Seq(Nat), s # <<>>, \A i \in 1 .. Len(s) : s[i] = v
  PROVE  Head(s) = v /\ \A i \in 1 .. Len(Tail(s)) : Tail(s)[i] = v
OBVIOUS

(* Every step preserves the numbers, the wake-ups and the account.         *)
LEMMA StepRInv == IInv /\ RInv /\ [Next]_vars => RInv'
<1> SUFFICES ASSUME IInv, RInv, [Next]_vars
             PROVE  RInv'
  OBVIOUS
<1> TypeOK /\ Phases /\ Numbered /\ Wakes /\ Retries
  BY DEF IInv, EndsOnlyByClosing, RInv
<1> USE Constants, Peers
<1>1. ASSUME NEW e \in Ends, CallClose(e)
      PROVE  RInv'
  <2>0. /\ UNCHANGED <<net, lost, prompt, received_fin_ack_for, waiting, reader, attempt, result>>
        /\ pc' = [pc EXCEPT ![e] = "send"] /\ pc[e] = "idle"
    BY <1>1, Zenon DEF CallClose, network
  <2>s. \A x \in Ends : state'[x].st = "PeerFinReceived" => state'[x] = state[x]
    BY <1>1, StateFields, ZenonT(40) DEF CallClose, record_local_fin_sent, TypeOK
  <2>c. \A x \in Ends : state[x].st = "Closed" => state'[x].st = "Closed"
    BY <1>1, StateFields, ZenonT(40) DEF CallClose, record_local_fin_sent, TypeOK
  <2>1. Numbered'
    BY <2>0, <2>s DEF Numbered, reader
  <2>2. Wakes'
    BY <2>0 DEF Wakes, TypeOK
  <2>3. Retries'
    <3> SUFFICES ASSUME prompt, NEW x \in Ends, state[Peer(x)].st # "Closed", Accounted(x)
                 PROVE  Accounted(x)'
      BY <2>0, <2>c, Zenon DEF Retries
    <3>1. CASE x = e
      BY <2>0, <3>1 DEF Accounted, TypeOK, Phases
    <3>2. CASE x # e
      BY <2>0, <3>2, AccountKept, TraceKept, Zenon DEF TypeOK, reader
    <3> QED BY Zenon, <3>1, <3>2
  <2> QED BY <2>1, <2>2, <2>3, Zenon DEF RInv
<1>2. ASSUME NEW e \in Ends, SendFin(e)
      PROVE  RInv'
  <2> DEFINE q == Packet(Peer(e), "Fin", FinNumber[e])
  <2>a. q.to = Peer(e) /\ q.kind = "Fin" /\ q.pn = FinNumber[e]
    BY DEF Packet
  <2>b. net' = net \cup {q}
    BY <1>2 DEF SendFin, Send
  <2> HIDE DEF q
  <2>0. /\ UNCHANGED <<lost, prompt, state, received_fin_ack_for, waiting, incoming, fin_ack_queue, result>>
        /\ pc' = [pc EXCEPT ![e] = "register"] /\ pc[e] = "send"
        /\ attempt' = [attempt EXCEPT ![e] = @ + 1]
    BY <1>2 DEF SendFin, network, buffer, reader
  <2>1. Numbered'
    BY <2>0, <2>a, <2>b DEF Numbered
  <2>2. Wakes'
    BY <2>0, Zenon DEF Wakes, TypeOK
  <2>3. Retries'
    <3> SUFFICES ASSUME prompt, NEW x \in Ends, state[Peer(x)].st # "Closed", Accounted(x)
                 PROVE  Accounted(x)'
      BY <2>0, Zenon DEF Retries
    <3>1. CASE x = e
      <4>1. OnWay(e)'
        BY <2>a, <2>b, Zenon DEF OnWay
      <4>2. attempt'[e] <= lost' + 1 /\ pc'[e] = "register" /\ result'[e] # "TimedOut"
        BY <2>0, <3>1 DEF Accounted, TypeOK, Phases
      <4> QED BY <3>1, <4>1, <4>2, Zenon DEF Accounted
    <3>2. CASE x # e
      BY <2>0, <2>b, <3>2, AccountKept, TraceKept, Zenon DEF TypeOK
    <3> QED BY <3>1, <3>2
  <2> QED BY <2>1, <2>2, <2>3 DEF RInv
<1>3. ASSUME NEW e \in Ends, Register(e)
      PROVE  RInv'
  <2>0. /\ UNCHANGED <<net, lost, prompt, state, received_fin_ack_for, incoming, fin_ack_queue, attempt, result>>
        /\ waiting' = [waiting EXCEPT ![e] = TRUE]
        /\ pc' = [pc EXCEPT ![e] = "check"] /\ pc[e] = "register"
    BY <1>3, Zenon DEF Register, network, reader
  <2>1. Numbered'
    BY <2>0, Zenon DEF Numbered
  <2>2. Wakes'
    BY <2>0, Zenon DEF Wakes, TypeOK
  <2>3. Retries'
    <3> SUFFICES ASSUME prompt, NEW x \in Ends, state[Peer(x)].st # "Closed", Accounted(x)
                 PROVE  Accounted(x)'
      BY <2>0, Zenon DEF Retries
    <3>1. CASE x = e
      BY <2>0, <3>1, TraceKept, Zenon DEF Accounted, TypeOK, Phases
    <3>2. CASE x # e
      BY <2>0, <3>2, AccountKept, TraceKept, Zenon DEF TypeOK
    <3> QED BY <3>1, <3>2
  <2> QED BY <2>1, <2>2, <2>3 DEF RInv
<1>4. ASSUME NEW e \in Ends, CheckFinAck(e)
      PROVE  RInv'
  <2>0. UNCHANGED <<net, lost, prompt, state, received_fin_ack_for, waiting, incoming, fin_ack_queue, attempt, result>>
    BY <1>4 DEF CheckFinAck, network, buffer, reader
  <2>a. /\ \/ pc'[e] = "acked"
           \/ pc[e] = "check" /\ pc'[e] = "await" /\ received_fin_ack_for[e] # FinNumber[e]
        /\ \A x \in Ends : x # e => pc'[x] = pc[x]
    BY <1>4, Zenon DEF CheckFinAck, TypeOK, Wakes
  <2>1. Numbered'
    BY <2>0, Zenon DEF Numbered
  <2>2. Wakes'
    BY <2>0, <2>a, Zenon DEF Wakes, TypeOK
  <2>3. Retries'
    <3> SUFFICES ASSUME prompt, NEW x \in Ends, state[Peer(x)].st # "Closed", Accounted(x)
                 PROVE  Accounted(x)'
      BY <2>0, Zenon DEF Retries
    <3>1. CASE x = e
      <4>1. result[e] # "TimedOut"
        BY <1>4, Zenon DEF CheckFinAck, Phases
      <4> QED BY <2>0, <2>a, <3>1, <4>1, TraceKept, Zenon DEF Accounted
    <3>2. CASE x # e
      BY Zenon, <2>0, <2>a, <3>2, AccountKept, TraceKept
    <3> QED BY <3>1, <3>2
  <2> QED BY <2>1, <2>2, <2>3 DEF RInv
<1>5. ASSUME NEW e \in Ends, Timeout(e)
      PROVE  RInv'
  <2>0. /\ UNCHANGED <<net, lost, prompt, state, received_fin_ack_for, incoming, fin_ack_queue, attempt, result>>
        /\ waiting' = [waiting EXCEPT ![e] = FALSE]
        /\ pc' = [pc EXCEPT ![e] = AfterAttempt(e)] /\ pc[e] = "await"
    BY <1>5 DEF Timeout, network, reader
  <2>a. AfterAttempt(e) \in {"send", "timed_out"}
    BY Zenon DEF AfterAttempt
  <2>1. Numbered'
    BY <2>0, Zenon DEF Numbered
  <2>2. Wakes'
    BY <2>0, <2>a, Zenon DEF Wakes, TypeOK
  <2>3. Retries'
    <3> SUFFICES ASSUME prompt, NEW x \in Ends, state[Peer(x)].st # "Closed", Accounted(x)
                 PROVE  Accounted(x)'
      BY <2>0, Zenon DEF Retries
    <3>1. CASE x = e
      <4>1. ~OnWay(e)
        BY <1>5, <3>1, Zenon DEF Timeout, Quiet, OnWay, Wakes
      <4>2. attempt[e] <= lost /\ attempt[e] \in Nat /\ lost \in Nat
        BY <2>0, <3>1, <4>1 DEF Accounted, TypeOK
      <4>3. pc'[e] = "timed_out" => MAX_FIN_ATTEMPTS <= lost
        BY <2>0, <4>2 DEF AfterAttempt, TypeOK
      <4>4. pc'[e] \in {"send", "timed_out"} /\ result[e] # "TimedOut"
        BY <2>0, <2>a, Zenon DEF TypeOK, Phases
      <4> QED BY <2>0, <3>1, <4>2, <4>3, <4>4, Zenon DEF Accounted
    <3>2. CASE x # e
      BY <2>0, <3>2, AccountKept, TraceKept, Zenon DEF TypeOK
    <3> QED BY <3>1, <3>2
  <2> QED BY <2>1, <2>2, <2>3 DEF RInv
<1>6. ASSUME NEW e \in Ends, Finish(e)
      PROVE  RInv'
  <2>0. /\ UNCHANGED <<net, lost, prompt, received_fin_ack_for, incoming, fin_ack_queue, attempt>>
        /\ state' = [state EXCEPT ![e] = At("Closed", 0)]
        /\ waiting' = [waiting EXCEPT ![e] = FALSE]
        /\ pc' = [pc EXCEPT ![e] = "done"] /\ pc[e] \in {"acked", "timed_out"}
        /\ result' = [result EXCEPT ![e] = IF pc[e] = "acked" THEN "Ok" ELSE "TimedOut"]
    BY <1>6, Zenon DEF Finish, network, reader
  <2>s. \A x \in Ends : state'[x] = state[x] \/ state'[x].st = "Closed"
    BY <2>0, StateFields DEF TypeOK
  <2>1. Numbered'
    BY <2>0, <2>s DEF Numbered
  <2>2. Wakes'
    BY <2>0, Zenon DEF Wakes, TypeOK
  <2>3. Retries'
    <3> SUFFICES ASSUME prompt, NEW x \in Ends, state[Peer(x)].st # "Closed", Accounted(x)
                 PROVE  Accounted(x)'
      BY <2>0, <2>s, Zenon DEF Retries
    <3>1. CASE x = e
      <4>1. pc'[e] = "done" /\ (result'[e] = "TimedOut" => pc[e] = "timed_out")
        BY <2>0, Zenon DEF TypeOK
      <4> QED BY <2>0, <3>1, <4>1, Zenon DEF Accounted
    <3>2. CASE x # e
      BY <2>0, <3>2, AccountKept, TraceKept, Zenon DEF TypeOK
    <3> QED BY <3>1, <3>2
  <2> QED BY <2>1, <2>2, <2>3 DEF RInv
<1>7. ASSUME NEW e \in Ends, NEW p \in net, p.to = e, buffer_in_fin(e, p)
      PROVE  RInv'
  <2>0. /\ UNCHANGED <<lost, prompt, received_fin_ack_for, waiting, fin_ack_queue, pc, attempt, result>>
        /\ net' \subseteq net /\ net \ {p} \subseteq net'
        /\ p.kind = "Fin"
    BY <1>7, Zenon DEF buffer_in_fin, Arrive, closer
  <2>a. p.pn = FinNumber[Peer(e)] /\ p.pn \in Nat
    BY <1>7, <2>0, Zenon DEF Numbered
  <2>s. /\ \A x \in Ends : \/ state'[x] = state[x]
                           \/ x = e /\ state'[x] = At("PeerFinReceived", p.pn)
        /\ \A x \in Ends : state[x].st = "Closed" => state'[x].st = "Closed"
        /\ \A x \in Ends : incoming'[x] = incoming[x] \/ (x = e /\ incoming'[x] = p.pn)
        /\ state'[e].st # "Closed" => incoming'[e] = p.pn
    <3>1. CASE /\ state[e].st \in {"Active", "LocalFinSent"}
               /\ state' = [state EXCEPT ![e] = At("PeerFinReceived", p.pn)]
               /\ incoming' = [incoming EXCEPT ![e] = p.pn]
      <4>1. \A x \in Ends : state'[x] = IF x = e THEN At("PeerFinReceived", p.pn) ELSE state[x]
        BY <3>1, Zenon DEF TypeOK
      <4>2. \A x \in Ends : incoming'[x] = IF x = e THEN p.pn ELSE incoming[x]
        BY <3>1, Zenon DEF TypeOK
      <4> QED BY Zenon, <3>1, <4>1, <4>2
    <3>2. CASE /\ state[e] = At("PeerFinReceived", p.pn)
               /\ incoming' = [incoming EXCEPT ![e] = p.pn]
               /\ UNCHANGED state
      BY <3>2, <2>a, StateFields DEF TypeOK
    <3>3. CASE /\ state[e].st \in {"PeerFinReceived", "Closed"}
               /\ state[e] # At("PeerFinReceived", p.pn)
               /\ UNCHANGED <<state, incoming>>
      <4>1. state[e].st = "PeerFinReceived" => state[e].pn = p.pn
        BY <2>a, Zenon DEF Numbered
      <4>2. state[e] = [st |-> state[e].st, pn |-> state[e].pn]
        BY Zenon DEF TypeOK
      <4>3. state[e].st = "Closed"
        BY <3>3, <4>1, <4>2, Zenon DEF At
      <4> QED BY Zenon, <3>3, <4>3
    <3> QED BY <1>7, <3>1, <3>2, <3>3, Zenon DEF buffer_in_fin
  <2>1. Numbered'
    <3>1. \A x \in Ends : state'[x].st = "PeerFinReceived" => state'[x].pn = FinNumber[Peer(x)]
      BY <2>s, <2>a DEF Numbered, At
    <3>2. \A x \in Ends : incoming'[x] \in {None, FinNumber[Peer(x)]}
      BY <2>s, <2>a DEF Numbered
    <3> QED BY <2>0, <3>1, <3>2 DEF Numbered
  <2>2. Wakes'
    BY <2>0, Zenon DEF Wakes
  <2>3. Retries'
    <3> SUFFICES ASSUME prompt, NEW x \in Ends, state'[Peer(x)].st # "Closed", Accounted(x)
                 PROVE  Accounted(x)'
      BY <2>0, <2>s, Zenon DEF Retries
    <3>1. OnWay(x) => OnWay(x)'
      <4>1. CASE Peer(x) = e
        BY <2>a, <2>s, <4>1, Zenon DEF OnWay
      <4>2. CASE Peer(x) # e
        BY <1>7, <2>0, <2>s, <4>2, Zenon DEF OnWay
      <4> QED BY Zenon, <4>1, <4>2
    <3> QED BY Zenon, <2>0, <3>1, AccountKept
  <2> QED BY <2>1, <2>2, <2>3, Zenon DEF RInv
<1>8. ASSUME NEW e \in Ends, NEW p \in net, p.to = e, buffer_in_fin_ack(e, p)
      PROVE  RInv'
  <2>0. /\ UNCHANGED <<lost, prompt, state, incoming, fin_ack_queue, pc, attempt, result>>
        /\ net' \subseteq net /\ net \ {p} \subseteq net'
        /\ p.kind = "FinAck"
        /\ received_fin_ack_for' = [received_fin_ack_for EXCEPT ![e] = p.pn]
        /\ waiting' = [waiting EXCEPT ![e] = FALSE]
    BY <1>8, Zenon DEF buffer_in_fin_ack, Arrive, reader, closer
  <2>a. p.pn = FinNumber[e]
    BY <1>8, <2>0, Zenon DEF Numbered
  <2>b. \A x \in Ends : received_fin_ack_for'[x] = IF x = e THEN FinNumber[e]
                                                   ELSE received_fin_ack_for[x]
    BY <2>0, <2>a, Zenon DEF TypeOK
  <2>1. Numbered'
    BY <2>0, <2>b DEF Numbered
  <2>2. Wakes'
    BY <2>0, <2>b, Zenon DEF Wakes, TypeOK
  <2>3. Retries'
    <3> SUFFICES ASSUME prompt, NEW x \in Ends, state[Peer(x)].st # "Closed", Accounted(x)
                 PROVE  Accounted(x)'
      BY <2>0, Zenon DEF Retries
    <3>1. OnWay(x) => OnWay(x)'
      BY <1>8, <2>0, <2>b, Zenon DEF OnWay
    <3> QED BY Zenon, <2>0, <3>1, AccountKept
  <2> QED BY <2>1, <2>2, <2>3 DEF RInv
<1>9. ASSUME NEW e \in Ends, QueueFinAck(e)
      PROVE  RInv'
  <2>0. /\ UNCHANGED <<net, lost, prompt, state, received_fin_ack_for, waiting, pc, attempt, result>>
        /\ incoming' = [incoming EXCEPT ![e] = None] /\ incoming[e] # None
    BY <1>9, Zenon DEF QueueFinAck, network, buffer, closer
  <2>a. /\ \A x \in Ends : x # e => fin_ack_queue'[x] = fin_ack_queue[x]
        /\ fin_ack_queue'[e] # <<>>
        /\ \A i \in 1 .. Len(fin_ack_queue'[e]) : fin_ack_queue'[e][i] = FinNumber[Peer(e)]
    <3>1. /\ fin_ack_queue[e] \in Seq(Nat) /\ incoming[e] = FinNumber[Peer(e)]
          /\ \A i \in 1 .. Len(fin_ack_queue[e]) : fin_ack_queue[e][i] = FinNumber[Peer(e)]
      BY <2>0 DEF TypeOK, Numbered
    <3>2. fin_ack_queue'[e] = IF Len(fin_ack_queue[e]) < FinAckBound
                              THEN Append(fin_ack_queue[e], incoming[e])
                              ELSE fin_ack_queue[e]
      BY <1>9, Zenon DEF QueueFinAck, TypeOK
    <3>3. /\ fin_ack_queue'[e] # <<>>
          /\ \A i \in 1 .. Len(fin_ack_queue'[e]) : fin_ack_queue'[e][i] = FinNumber[Peer(e)]
      <4>1. FinAckBound > 0
        BY CloseAssumption
      <4>2. CASE Len(fin_ack_queue[e]) < FinAckBound
        BY <3>1, <3>2, <4>2
      <4>3. CASE ~(Len(fin_ack_queue[e]) < FinAckBound)
        BY <3>1, <3>2, <4>1, <4>3
      <4> QED BY <4>2, <4>3
    <3>4. \A x \in Ends : x # e => fin_ack_queue'[x] = fin_ack_queue[x]
      BY <1>9, Zenon DEF QueueFinAck, TypeOK
    <3> QED BY Zenon, <3>3, <3>4
  <2>b. \A x \in Ends : incoming'[x] = IF x = e THEN None ELSE incoming[x]
    BY <2>0, Zenon DEF TypeOK
  <2>1. Numbered'
    BY <2>0, <2>a, <2>b DEF Numbered
  <2>2. Wakes'
    BY <2>0, Zenon DEF Wakes
  <2>3. Retries'
    <3> SUFFICES ASSUME prompt, NEW x \in Ends, state[Peer(x)].st # "Closed", Accounted(x)
                 PROVE  Accounted(x)'
      BY <2>0, Zenon DEF Retries
    <3>1. OnWay(x) => OnWay(x)'
      BY <2>0, <2>a, <2>b, Zenon DEF OnWay
    <3> QED BY Zenon, <2>0, <3>1, AccountKept
  <2> QED BY <2>1, <2>2, <2>3 DEF RInv
<1>10. ASSUME NEW e \in Ends, send_fin_ack(e)
       PROVE  RInv'
  <2> DEFINE q == Packet(Peer(e), "FinAck", Head(fin_ack_queue[e]))
  <2>0. /\ UNCHANGED <<lost, prompt, state, received_fin_ack_for, waiting, incoming, pc, attempt, result>>
        /\ net' = net \cup {q}
        /\ fin_ack_queue' = [fin_ack_queue EXCEPT ![e] = Tail(@)]
    BY <1>10, Zenon DEF send_fin_ack, Send, network, buffer, closer
  <2>a. q.to = Peer(e) /\ q.kind = "FinAck" /\ q.pn = Head(fin_ack_queue[e])
    BY Zenon DEF Packet
  <2> HIDE DEF q
  <2>b. /\ Head(fin_ack_queue[e]) = FinNumber[Peer(e)]
        /\ \A i \in 1 .. Len(Tail(fin_ack_queue[e])) : Tail(fin_ack_queue[e])[i] = FinNumber[Peer(e)]
    <3>1. /\ fin_ack_queue[e] \in Seq(Nat) /\ fin_ack_queue[e] # <<>>
          /\ \A i \in 1 .. Len(fin_ack_queue[e]) : fin_ack_queue[e][i] = FinNumber[Peer(e)]
      <4>1. Peer(e) \in Ends /\ Peer(Peer(e)) = e
        BY Zenon
      <4>2. \A i \in 1 .. Len(fin_ack_queue[Peer(Peer(e))]) :
              fin_ack_queue[Peer(Peer(e))][i] = FinNumber[Peer(e)]
        BY <4>1, Zenon DEF Numbered
      <4> QED BY <1>10, <4>1, <4>2, Zenon DEF send_fin_ack, TypeOK
    <3> QED BY <3>1, AllEqual, Zenon
  <2>c. \A x \in Ends : fin_ack_queue'[x] = IF x = e THEN Tail(fin_ack_queue[e])
                                            ELSE fin_ack_queue[x]
    BY <2>0 DEF TypeOK
  <2>1. Numbered'
    BY <2>0, <2>a, <2>b, <2>c DEF Numbered
  <2>2. Wakes'
    BY <2>0, Zenon DEF Wakes
  <2>3. Retries'
    <3> SUFFICES ASSUME prompt, NEW x \in Ends, state[Peer(x)].st # "Closed", Accounted(x)
                 PROVE  Accounted(x)'
      BY <2>0, Zenon DEF Retries
    <3>1. OnWay(x) => OnWay(x)'
      BY <2>0, <2>a, <2>c DEF OnWay
    <3> QED BY Zenon, <2>0, <3>1, AccountKept
  <2> QED BY <2>1, <2>2, <2>3 DEF RInv
<1>11. CASE Lose
  <2>0. /\ UNCHANGED <<prompt, state, received_fin_ack_for, waiting, incoming, fin_ack_queue, pc, attempt, result>>
        /\ net' \subseteq net /\ lost' = lost + 1
    BY <1>11, Zenon DEF Lose, buffer, reader, closer
  <2>1. Numbered'
    BY <2>0, Zenon DEF Numbered
  <2>2. Wakes'
    BY <2>0, Zenon DEF Wakes
  <2>3. Retries'
    BY <2>0, AccountKept, Zenon DEF Retries
  <2> QED BY <2>1, <2>2, <2>3, Zenon DEF RInv
<1>12. CASE UNCHANGED vars
  <2>0. UNCHANGED <<net, lost, prompt, state, received_fin_ack_for, waiting, incoming, fin_ack_queue, pc, attempt, result>>
    BY <1>12, Zenon DEF vars, network, buffer, reader, closer
  <2>1. Numbered'
    BY <2>0, Zenon DEF Numbered
  <2>2. Wakes'
    BY <2>0, Zenon DEF Wakes
  <2>3. Retries'
    BY <2>0, AccountKept, TraceKept DEF Retries
  <2> QED BY <2>1, <2>2, <2>3 DEF RInv
<1> QED
  BY <1>1, <1>2, <1>3, <1>4, <1>5, <1>6, <1>7, <1>8, <1>9, <1>10, <1>11, <1>12
     DEF Next, CloseStep, ConnReader

(* The inductive invariant holds throughout.                              *)
THEOREM Invariance == Spec => []IInv
BY InitIInv, StepIInv, PTL DEF Spec

(* close() returns Ok only to a caller whose peer has processed the Fin    *)
(* and shows its readers the end of the stream.                            *)
THEOREM OkCorrect == Spec => []OkMeansPeerSawFin
<1>1. IInv => OkMeansPeerSawFin
  BY DEF IInv
<1> QED BY <1>1, Invariance, PTL

(* The end of the stream is signalled only after the peer began to close,  *)
(* and a connection is Closed exactly once its own close() returned.       *)
THEOREM EndsCorrect == Spec => []EndsOnlyByClosing
<1>1. IInv => EndsOnlyByClosing
  BY DEF IInv
<1> QED BY <1>1, Invariance, PTL

(* On a prompt network that loses fewer packets than there are attempts    *)
(* close() gives up only against a peer that is already Closed, for every  *)
(* number of attempts and every capacity of the FinAck channel.            *)
THEOREM GivesUpCorrect == Spec => []GivesUpOnlyOnClosed
<1>1. IInv /\ RInv => GivesUpOnlyOnClosed
  <2> SUFFICES ASSUME IInv, RInv, prompt, lost < MAX_FIN_ATTEMPTS,
                      NEW e \in Ends, result[e] = "TimedOut", state[Peer(e)].st # "Closed"
               PROVE  FALSE
    BY DEF GivesUpOnlyOnClosed
  <2>1. Accounted(e)
    BY Zenon DEF RInv, Retries
  <2>2. lost \in Nat
    BY DEF IInv, EndsOnlyByClosing, TypeOK
  <2> QED BY <2>1, <2>2, Constants DEF Accounted
<1>2. Init => IInv /\ RInv
  BY InitIInv, InitRInv
<1>3. (IInv /\ RInv) /\ [Next]_vars => (IInv /\ RInv)'
  BY StepIInv, StepRInv
<1> QED BY <1>1, <1>2, <1>3, PTL DEF Spec
=============================================================================
