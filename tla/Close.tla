------------------------------- MODULE Close --------------------------------
(***************************************************************************)
(* The graceful close of a connection, on both endpoints: the Fin / FinAck *)
(* exchange of BluefinConnection::close (net/connection.rs), the           *)
(* CloseBuffer (net/close_handler.rs), the conn_reader that feeds it       *)
(* (worker/conn_reader.rs) and the task that sends FinAcks.  How close()   *)
(* drains the writer and numbers the Fin is module Writer; here the Fin of *)
(* an endpoint simply has a number.                                        *)
(*                                                                         *)
(* The network may reorder packets, duplicate and lose some of them.  On a *)
(* prompt network a round trip takes less than the 200 ms an attempt       *)
(* waits: a timeout fires only when no packet is on its way.               *)
(***************************************************************************)
EXTENDS Integers, Sequences

CONSTANTS
  A, B,               \* the endpoints
  Closers,            \* bound: the endpoints whose application calls close()
  FinNumber,          \* endpoint -> the packet number of its Fin
  MAX_FIN_ATTEMPTS,   \* 3
  FinAckBound,        \* capacity of the FinAck channel (8)
  MaxLosses,          \* bound: how many packets the network loses
  MaxDuplicates,      \* bound: how many it delivers twice
  Networks,           \* the networks considered: prompt (TRUE) or not (FALSE)
  None                \* Option::None

Ends == {A, B}
Peer(e) == IF e = A THEN B ELSE A

ASSUME CloseAssumption ==
  /\ A # B /\ Closers \subseteq Ends
  /\ FinNumber \in [Ends -> Nat]
  /\ {MAX_FIN_ATTEMPTS, FinAckBound} \subseteq Nat \ {0}
  /\ {MaxLosses, MaxDuplicates} \subseteq Nat /\ Networks \subseteq BOOLEAN
  /\ None \notin Nat \cup {"Ok", "TimedOut"}

VARIABLES
  net,                    \* packets on their way: [to, kind, pn]
  lost, duplicated,       \* how many packets were
  prompt,                 \* the network is prompt
  state,                  \* CloseBuffer.state: [st, pn]
  received_fin_ack_for, peer_fin_observed,
  waiting,                \* close() holds a Notified that was not notified yet
  fin_ack_queue,          \* the FinAck channel of each endpoint
  incoming,               \* conn_reader: None, or the FinAck it is about to queue
  pc, attempt, result,    \* close(): where it is, its attempts, what it returned
  registered              \* the connection is in the ConnectionManager

network == <<lost, duplicated, prompt>>
buffer == <<state, received_fin_ack_for, peer_fin_observed, waiting>>
closer == <<pc, attempt, result, registered>>
reader == <<fin_ack_queue, incoming>>
vars == <<net, network, buffer, reader, closer>>

Packet(to, kind, pn) == [to |-> to, kind |-> kind, pn |-> pn]
Send(p) == net' = net \cup {p}
At(st, pn) == [st |-> st, pn |-> pn]

-----------------------------------------------------------------------------
Init ==
  /\ net = {} /\ lost = 0 /\ duplicated = 0 /\ prompt \in Networks
  /\ state = [e \in Ends |-> At("Active", 0)]
  /\ received_fin_ack_for = [e \in Ends |-> None]
  /\ peer_fin_observed = [e \in Ends |-> FALSE]
  /\ waiting = [e \in Ends |-> FALSE]
  /\ fin_ack_queue = [e \in Ends |-> <<>>]
  /\ incoming = [e \in Ends |-> None]
  /\ pc = [e \in Ends |-> "idle"]
  /\ attempt = [e \in Ends |-> 0]
  /\ result = [e \in Ends |-> None]
  /\ registered = [e \in Ends |-> TRUE]

-----------------------------------------------------------------------------
(* close(), after the Fin's number was reserved.                           *)
record_local_fin_sent(e) ==
  state' = [state EXCEPT ![e] =
              IF @.st \in {"Active", "PeerFinReceived"}
              THEN At("LocalFinSent", FinNumber[e]) ELSE @]

CallClose(e) ==
  /\ pc[e] = "idle" /\ e \in Closers
  /\ record_local_fin_sent(e)
  /\ pc' = [pc EXCEPT ![e] = "send"]
  /\ UNCHANGED <<net, network, received_fin_ack_for, peer_fin_observed, waiting, reader,
                 attempt, result, registered>>

\* Mutant: an attempt is not counted.
SendFinUncounted(e) ==
  /\ pc[e] = "send"
  /\ Send(Packet(Peer(e), "Fin", FinNumber[e]))
  /\ pc' = [pc EXCEPT ![e] = "register"]
  /\ UNCHANGED <<network, buffer, reader, attempt, result, registered>>

SendFin(e) ==
  /\ pc[e] = "send"
  /\ Send(Packet(Peer(e), "Fin", FinNumber[e]))
  /\ attempt' = [attempt EXCEPT ![e] = @ + 1]
  /\ pc' = [pc EXCEPT ![e] = "register"]
  /\ UNCHANGED <<network, buffer, reader, result, registered>>

Register(e) ==
  /\ pc[e] = "register"
  /\ waiting' = [waiting EXCEPT ![e] = TRUE]
  /\ pc' = [pc EXCEPT ![e] = "check"]
  /\ UNCHANGED <<net, network, state, received_fin_ack_for, peer_fin_observed, reader,
                 attempt, result, registered>>

\* Where the loop goes when an attempt has brought nothing.
AfterAttempt(e) == IF attempt[e] < MAX_FIN_ATTEMPTS THEN "send" ELSE "timed_out"

\* received_fin_ack_for is read before the await and again after a wake-up.
CheckFinAck(e) ==
  /\ \/ pc[e] = "check"
     \/ pc[e] = "await" /\ ~waiting[e]
  /\ pc' = [pc EXCEPT ![e] =
              IF received_fin_ack_for[e] = FinNumber[e] THEN "acked"
              ELSE IF @ = "check" THEN "await" ELSE AfterAttempt(e)]
  /\ UNCHANGED <<net, network, buffer, reader, attempt, result, registered>>

Quiet == net = {} /\ \A e \in Ends : fin_ack_queue[e] = <<>> /\ incoming[e] = None

Timeout(e) ==
  /\ pc[e] = "await" /\ waiting[e]
  /\ prompt => Quiet
  /\ waiting' = [waiting EXCEPT ![e] = FALSE]
  /\ pc' = [pc EXCEPT ![e] = AfterAttempt(e)]
  /\ UNCHANGED <<net, network, state, received_fin_ack_for, peer_fin_observed, reader,
                 attempt, result, registered>>

\* mark_closed() and deregister_from_conn_manager().
Finish(e) ==
  /\ pc[e] \in {"acked", "timed_out"}
  /\ state' = [state EXCEPT ![e] = At("Closed", 0)]
  /\ waiting' = [waiting EXCEPT ![e] = FALSE]
  /\ registered' = [registered EXCEPT ![e] = FALSE]
  /\ result' = [result EXCEPT ![e] = IF pc[e] = "acked" THEN "Ok" ELSE "TimedOut"]
  /\ pc' = [pc EXCEPT ![e] = "done"]
  /\ UNCHANGED <<net, network, received_fin_ack_for, peer_fin_observed, reader, attempt>>

CloseStep(e) ==
  SendFin(e) \/ Register(e) \/ CheckFinAck(e) \/ Timeout(e) \/ Finish(e)

-----------------------------------------------------------------------------
(* buffer_in_close_packets, while it holds the close buffer: a Fin updates *)
(* the state, and the FinAck it asks for is taken out again at once.       *)
Arrive(p) ==
  /\ \/ net' = net \ {p} /\ UNCHANGED duplicated
     \/ /\ duplicated < MaxDuplicates
        /\ duplicated' = duplicated + 1
        /\ UNCHANGED net
  /\ UNCHANGED <<lost, prompt>>

\* Mutant: a Fin that crosses ours is answered but not shown to the readers.
CrossedFinUnseen(e, p) ==
  /\ p.kind = "Fin" /\ incoming[e] = None
  /\ Arrive(p)
  /\ state[e].st # "Closed"
  /\ state' = [state EXCEPT ![e] = At("PeerFinReceived", p.pn)]
  /\ peer_fin_observed' = [peer_fin_observed EXCEPT ![e] = @ \/ state[e].st = "Active"]
  /\ incoming' = [incoming EXCEPT ![e] = p.pn]
  /\ UNCHANGED <<received_fin_ack_for, waiting, fin_ack_queue, closer>>

\* Mutant: a retransmitted Fin is not acknowledged again.
FinAckedOnce(e, p) ==
  /\ p.kind = "Fin" /\ incoming[e] = None
  /\ Arrive(p)
  /\ IF state[e].st \in {"Active", "LocalFinSent"}
     THEN /\ state' = [state EXCEPT ![e] = At("PeerFinReceived", p.pn)]
          /\ peer_fin_observed' = [peer_fin_observed EXCEPT ![e] = TRUE]
          /\ incoming' = [incoming EXCEPT ![e] = p.pn]
     ELSE UNCHANGED <<state, peer_fin_observed, incoming>>
  /\ UNCHANGED <<received_fin_ack_for, waiting, fin_ack_queue, closer>>

\* Mutant: a late Fin takes a closed connection back to PeerFinReceived.
FinReopens(e, p) ==
  /\ p.kind = "Fin" /\ incoming[e] = None
  /\ Arrive(p)
  /\ state' = [state EXCEPT ![e] = At("PeerFinReceived", p.pn)]
  /\ peer_fin_observed' = [peer_fin_observed EXCEPT ![e] = TRUE]
  /\ incoming' = [incoming EXCEPT ![e] = p.pn]
  /\ UNCHANGED <<received_fin_ack_for, waiting, fin_ack_queue, closer>>

buffer_in_fin(e, p) ==
  /\ p.kind = "Fin" /\ incoming[e] = None
  /\ Arrive(p)
  /\ \/ /\ state[e].st \in {"Active", "LocalFinSent"}
        /\ state' = [state EXCEPT ![e] = At("PeerFinReceived", p.pn)]
        /\ peer_fin_observed' = [peer_fin_observed EXCEPT ![e] = TRUE]
        /\ incoming' = [incoming EXCEPT ![e] = p.pn]
     \/ /\ state[e] = At("PeerFinReceived", p.pn)
        /\ incoming' = [incoming EXCEPT ![e] = p.pn]
        /\ UNCHANGED <<state, peer_fin_observed>>
     \/ /\ state[e].st \in {"PeerFinReceived", "Closed"}
        /\ state[e] # At("PeerFinReceived", p.pn)
        /\ UNCHANGED <<state, peer_fin_observed, incoming>>
  /\ UNCHANGED <<received_fin_ack_for, waiting, fin_ack_queue, closer>>

\* try_send on the bounded channel, after the lock is released.
QueueFinAck(e) ==
  /\ incoming[e] # None
  /\ fin_ack_queue' = [fin_ack_queue EXCEPT ![e] =
                         IF Len(@) < FinAckBound THEN Append(@, incoming[e]) ELSE @]
  /\ incoming' = [incoming EXCEPT ![e] = None]
  /\ UNCHANGED <<net, network, buffer, closer>>

buffer_in_fin_ack(e, p) ==
  /\ p.kind = "FinAck" /\ incoming[e] = None
  /\ Arrive(p)
  /\ received_fin_ack_for' = [received_fin_ack_for EXCEPT ![e] = p.pn]
  /\ waiting' = [waiting EXCEPT ![e] = FALSE]
  /\ UNCHANGED <<state, peer_fin_observed, reader, closer>>

send_fin_ack(e) ==
  /\ fin_ack_queue[e] # <<>>
  /\ Send(Packet(Peer(e), "FinAck", Head(fin_ack_queue[e])))
  /\ fin_ack_queue' = [fin_ack_queue EXCEPT ![e] = Tail(@)]
  /\ UNCHANGED <<network, buffer, incoming, closer>>

ConnReader(e) ==
  \/ \E p \in net : p.to = e /\ (buffer_in_fin(e, p) \/ buffer_in_fin_ack(e, p))
  \/ QueueFinAck(e)

Lose ==
  /\ lost < MaxLosses
  /\ lost' = lost + 1
  /\ \E p \in net : net' = net \ {p}
  /\ UNCHANGED <<duplicated, prompt, buffer, reader, closer>>

Next ==
  \/ \E e \in Ends : CallClose(e) \/ CloseStep(e) \/ ConnReader(e) \/ send_fin_ack(e)
  \/ Lose

Spec == Init /\ [][Next]_vars

(* Every task that can run does; a packet that is not lost arrives.  The   *)
(* applications need not close.                                            *)
Fairness ==
  \A e \in Ends :
    WF_vars(CloseStep(e)) /\ WF_vars(ConnReader(e)) /\ WF_vars(send_fin_ack(e))

FairSpec == Spec /\ Fairness

-----------------------------------------------------------------------------
TypeOK ==
  /\ net \subseteq [to : Ends, kind : {"Fin", "FinAck"}, pn : Nat]
  /\ lost \in 0 .. MaxLosses /\ duplicated \in 0 .. MaxDuplicates /\ prompt \in BOOLEAN
  /\ state \in [Ends -> [st : {"Active", "PeerFinReceived", "LocalFinSent", "Closed"},
                        pn : Nat]]
  /\ received_fin_ack_for \in [Ends -> Nat \cup {None}]
  /\ peer_fin_observed \in [Ends -> BOOLEAN]
  /\ waiting \in [Ends -> BOOLEAN]
  /\ fin_ack_queue \in [Ends -> Seq(Nat)]
  /\ \A e \in Ends : Len(fin_ack_queue[e]) <= FinAckBound
  /\ incoming \in [Ends -> Nat \cup {None}]
  /\ pc \in [Ends -> {"idle", "send", "register", "check", "await", "acked", "timed_out",
                     "done"}]
  /\ attempt \in [Ends -> 0 .. MAX_FIN_ATTEMPTS]
  /\ result \in [Ends -> {None, "Ok", "TimedOut"}]
  /\ registered \in [Ends -> BOOLEAN]

(* When close() returns Ok the peer has taken the Fin: its readers see the *)
(* end of the stream (peer_fin_observed), however the Fins crossed and     *)
(* whatever was lost, duplicated or reordered.                             *)
OkMeansPeerSawFin ==
  \A e \in Ends : result[e] = "Ok" => peer_fin_observed[Peer(e)]

(* The end of the stream is never signalled to a reader whose peer did not *)
(* begin to close.  A connection is Closed once its own close() has        *)
(* returned, whatever arrives later, and by nothing else.  That is what    *)
(* mark_closed() and its callers do, and not what two comments say.        *)
(* is_closed() (connection.rs:552-555) is to be true also "because the     *)
(* peer's `Fin` arrived and the FIN/FIN-ACK exchange has been driven to    *)
(* completion": a side that only answers the peer's Fin stays in           *)
(* PeerFinReceived for ever.  record_local_fin_sent (close_handler.rs:     *)
(* 164-168): "from `PeerFinReceived` we go directly to `Closed`"; the code *)
(* goes to LocalFinSent and waits for the FinAck.                          *)
EndsOnlyByClosing ==
  /\ TypeOK
  /\ \A e \in Ends : /\ peer_fin_observed[e] => attempt[Peer(e)] > 0
                     /\ state[e].st = "Closed" <=> result[e] # None

(* The retransmissions of close() do their work: on a prompt network that  *)
(* loses fewer packets than there are attempts, close() gives up only if   *)
(* the peer has already finished a close() of its own: buffer_in_fin       *)
(* ignores a Fin in state Closed, although a peer "MUST send a `FinAck` in *)
(* response to the peer's `Fin`" (bluefin-protocol SKILL.md:212).          *)
GivesUpOnlyOnClosed ==
  prompt /\ lost < MAX_FIN_ATTEMPTS =>
    \A e \in Ends : result[e] = "TimedOut" => state[Peer(e)].st = "Closed"

(* close() returns: no loss, crossing or spurious wake-up keeps it in its  *)
(* loop for more than MAX_FIN_ATTEMPTS attempts.                           *)
CloseReturns == []<>(\A e \in Ends : pc[e] # "idle" => result[e] # None)
=============================================================================
