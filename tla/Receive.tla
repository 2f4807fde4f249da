------------------------------ MODULE Receive -------------------------------
(***************************************************************************)
(* How received packets reach the application: the conn_reader task        *)
(* (worker/conn_reader.rs) buffers data and observes the peer's Fin, the   *)
(* tasks in recv() or recv_bytes() (worker/reader.rs) poll for either,     *)
(* park behind the one waker of the ConnectionBuffer, and consume.         *)
(*                                                                         *)
(* The ring of module OrderedBytes appears as the set of buffered packets  *)
(* and the number of the next one to deliver, with whole packets instead   *)
(* of bytes.  Packets of the peer arrive in any order, any number of       *)
(* times or never, and so does its Fin.                                    *)
(*                                                                         *)
(* A BluefinConnection is Clone and its clones share one ConnectionBuffer, *)
(* so that several tasks may receive.  A read that panics does so with the *)
(* buffer's mutex locked and poisons it; everybody takes it with           *)
(* lock().unwrap(), and so panics in turn.                                 *)
(***************************************************************************)
EXTENDS Integers

CONSTANTS
  Readers,   \* the tasks that receive on (clones of) the connection
  Packets,   \* bound: the peer sends the packets 1 .. Packets
  None

ASSUME ReceiveAssumption == Packets \in Nat /\ None \notin Readers

VARIABLES
  buffered, next,     \* ordered_bytes: the packets held, the next to deliver
  peer_fin_observed,
  lock,               \* the mutex of the ConnectionBuffer: None or its holder
  waker,              \* ConnectionBuffer.waker: None or the task it wakes
  woken,              \* task -> it was woken since its last poll
  poisoned,           \* the mutex was held by a reader that panicked
  conn_reader,        \* where conn_reader is: "recv", "fin", "wake", "dead"
  clone,              \* the waker it took out of the buffer
  pc,                 \* where each reader is in its call
  ended,              \* history: a reader was told Ok(0)
  robbed              \* history: the readers since whose poll another one consumed

ring == <<buffered, next>>
mutex == <<lock, poisoned>>
producer == <<conn_reader, clone>>
history == <<ended, robbed>>
vars == <<ring, peer_fin_observed, mutex, waker, woken, producer, pc, history>>

peek == next \in buffered

\* The mutex can be taken and lock() returns Ok.
Lockable == lock = None /\ ~poisoned

Init ==
  /\ buffered = {} /\ next = 1
  /\ peer_fin_observed = FALSE
  /\ lock = None /\ poisoned = FALSE /\ waker = None
  /\ woken = [r \in Readers |-> FALSE]
  /\ conn_reader = "recv" /\ clone = None
  /\ pc = [r \in Readers |-> "idle"]
  /\ ended = FALSE /\ robbed = {}

-----------------------------------------------------------------------------
\* Mutant: only the first packet of an empty buffer wakes.
WakeIfWasEmpty(p) ==
  /\ conn_reader = "recv" /\ Lockable
  /\ buffered' = IF p < next THEN buffered ELSE buffered \cup {p}
  /\ clone' = IF buffered = {} THEN waker ELSE None
  /\ conn_reader' = "wake"
  /\ UNCHANGED <<next, peer_fin_observed, mutex, waker, woken, pc, history>>

\* Mutant: the waker is read without the buffer's lock.
TakeWakerUnlocked ==
  /\ conn_reader = "fin"
  /\ clone' = waker
  /\ conn_reader' = "wake"
  /\ UNCHANGED <<ring, peer_fin_observed, mutex, waker, woken, pc, history>>

\* Mutant: a packet already delivered is buffered again.
BufferDelivered(p) ==
  /\ conn_reader = "recv" /\ Lockable
  /\ buffered' = buffered \cup {p}
  /\ clone' = waker
  /\ conn_reader' = "wake"
  /\ UNCHANGED <<next, peer_fin_observed, mutex, waker, woken, pc, history>>

(* conn_reader.  A packet already delivered is refused; the waker is taken *)
(* out all the same.                                                       *)
buffer_in_data_packets(p) ==
  /\ conn_reader = "recv" /\ Lockable
  /\ buffered' = IF p < next THEN buffered ELSE buffered \cup {p}
  /\ clone' = waker
  /\ conn_reader' = "wake"
  /\ UNCHANGED <<next, peer_fin_observed, mutex, waker, woken, pc, history>>

\* buffer_in_close_packets: the flag is set under another lock, ...
ObserveFin ==
  /\ conn_reader = "recv"
  /\ peer_fin_observed' = TRUE
  /\ conn_reader' = "fin"
  /\ UNCHANGED <<ring, mutex, waker, woken, clone, pc, history>>

\* ... then the waker is taken out of the data buffer.
TakeWaker ==
  /\ conn_reader = "fin" /\ Lockable
  /\ clone' = waker
  /\ conn_reader' = "wake"
  /\ UNCHANGED <<ring, peer_fin_observed, mutex, waker, woken, pc, history>>

\* Wakes after the buffer was unlocked.
Wake ==
  /\ conn_reader = "wake"
  /\ woken' = [r \in Readers |-> woken[r] \/ r = clone]
  /\ clone' = None
  /\ conn_reader' = "recv"
  /\ UNCHANGED <<ring, peer_fin_observed, mutex, waker, pc, history>>

\* lock().unwrap() on the poisoned mutex: the task is gone, its packet too.
ConnReaderPanics ==
  /\ conn_reader \in {"recv", "fin"} /\ poisoned
  /\ conn_reader' = "dead"
  /\ UNCHANGED <<ring, peer_fin_observed, mutex, waker, woken, clone, pc, history>>

-----------------------------------------------------------------------------
(* recv() of task r: poll, then read.                                      *)
Goto(r, l) == pc' = [pc EXCEPT ![r] = l]

CallRecv(r) ==
  /\ pc[r] \in {"idle", "error"}
  /\ Goto(r, "poll")
  /\ UNCHANGED <<ring, peer_fin_observed, mutex, waker, woken, producer, history>>

\* poll: ready, or else keeps the buffer locked.
PollPeek(r) ==
  /\ pc[r] = "poll" /\ Lockable
  /\ woken' = [woken EXCEPT ![r] = FALSE]
  /\ robbed' = robbed \ {r}
  /\ \/ peek /\ Goto(r, "ready") /\ UNCHANGED lock
     \/ ~peek /\ Goto(r, "peeked") /\ lock' = r
  /\ UNCHANGED <<ring, peer_fin_observed, poisoned, waker, producer, ended>>

PollFin(r) ==
  /\ pc[r] = "peeked"
  /\ \/ peer_fin_observed /\ Goto(r, "ready") /\ lock' = None
     \/ ~peer_fin_observed /\ Goto(r, "parking") /\ UNCHANGED lock
  /\ UNCHANGED <<ring, peer_fin_observed, poisoned, waker, woken, producer, history>>

Park(r) ==
  /\ pc[r] = "parking"
  /\ waker' = r
  /\ lock' = None
  /\ Goto(r, "parked")
  /\ UNCHANGED <<ring, peer_fin_observed, poisoned, woken, producer, history>>

\* Mutant: a wake-up is taken as proof that there is something to read.
RepollTrusting(r) ==
  /\ pc[r] = "parked" /\ woken[r]
  /\ Goto(r, "ready")
  /\ UNCHANGED <<ring, peer_fin_observed, mutex, waker, woken, producer, history>>

Repoll(r) ==
  /\ pc[r] = "parked" /\ woken[r]
  /\ Goto(r, "poll")
  /\ UNCHANGED <<ring, peer_fin_observed, mutex, waker, woken, producer, history>>

\* The callers await recv() in a select!, which may drop it.
Cancel(r) ==
  /\ pc[r] = "parked"
  /\ Goto(r, "idle")
  /\ UNCHANGED <<ring, peer_fin_observed, mutex, waker, woken, producer, history>>

\* read, once the future is ready: is this the end of the stream?
LoadFin(r) ==
  /\ pc[r] = "ready"
  /\ Goto(r, IF peer_fin_observed THEN "eof" ELSE "consume")
  /\ UNCHANGED <<ring, peer_fin_observed, mutex, waker, woken, producer, history>>

ReturnEof(r) ==
  /\ pc[r] = "eof" /\ Lockable
  /\ Goto(r, IF peek THEN "consume" ELSE "idle")
  /\ ended' = (ended \/ ~peek)
  /\ UNCHANGED <<ring, peer_fin_observed, mutex, waker, woken, producer, robbed>>

\* consume hands out packets in order, as many as the caller has room for.
Consume(r) ==
  /\ pc[r] = "consume" /\ Lockable
  /\ \E last \in next .. Packets :
       /\ next .. last \subseteq buffered
       /\ next' = last + 1
       /\ buffered' = buffered \ (next .. last)
  /\ robbed' = Readers \ {r}
  /\ Goto(r, "idle")
  /\ UNCHANGED <<peer_fin_observed, mutex, waker, woken, producer, ended>>

\* There is nothing to consume: read panics in its second unwrap(), while the
\* guard of the first still holds the mutex; read_bytes returns the error.
ConsumeFails(r) ==
  /\ pc[r] = "consume" /\ Lockable /\ ~peek
  /\ \/ Goto(r, "panicked") /\ poisoned' = TRUE
     \/ Goto(r, "error") /\ UNCHANGED poisoned
  /\ UNCHANGED <<ring, peer_fin_observed, lock, waker, woken, producer, history>>

\* lock().unwrap() on the poisoned mutex.
LockPanics(r) ==
  /\ pc[r] \in {"poll", "eof", "consume"} /\ poisoned
  /\ Goto(r, "poisoned")
  /\ UNCHANGED <<ring, peer_fin_observed, mutex, waker, woken, producer, history>>

Recv(r) ==
  \/ PollPeek(r) \/ PollFin(r) \/ Park(r) \/ Repoll(r)
  \/ LoadFin(r) \/ ReturnEof(r) \/ Consume(r)
  \/ ConsumeFails(r) \/ LockPanics(r)

-----------------------------------------------------------------------------
ConnReader ==
  \/ ObserveFin \/ TakeWaker \/ Wake \/ ConnReaderPanics
  \/ \E p \in 1 .. Packets : buffer_in_data_packets(p)

Next == ConnReader \/ \E r \in Readers : CallRecv(r) \/ Recv(r) \/ Cancel(r)

Spec == Init /\ [][Next]_vars

(* The scheduler runs every task that can run; the peer need not send      *)
(* anything and the application need not receive.  The mutex may be taken  *)
(* and released by readers for ever while conn_reader waits for it: it     *)
(* gets it in the end.                                                     *)
FairSpec ==
  /\ Spec
  /\ WF_vars(Wake) /\ SF_vars(TakeWaker)
  /\ \A r \in Readers : WF_vars(Recv(r))

-----------------------------------------------------------------------------
TypeOK ==
  /\ buffered \subseteq next .. Packets /\ next \in 1 .. Packets + 1
  /\ peer_fin_observed \in BOOLEAN /\ ended \in BOOLEAN /\ robbed \subseteq Readers
  /\ lock \in Readers \cup {None} /\ poisoned \in BOOLEAN
  /\ waker \in Readers \cup {None} /\ clone \in Readers \cup {None}
  /\ woken \in [Readers -> BOOLEAN]
  /\ conn_reader \in {"recv", "fin", "wake", "dead"}
  /\ pc \in [Readers -> {"idle", "poll", "peeked", "parking", "parked", "ready", "eof",
                        "consume", "error", "panicked", "poisoned"}]

(* What a reader waits for: the next packet, or the end of the stream.     *)
Readable == peek \/ peer_fin_observed

(* Another reader has parked later and replaced the waker of r.            *)
Replaced(r) == waker \in Readers \ {r}

(* No wake-up is lost: while a reader sleeps in recv() although there is   *)
(* something for it, it was woken or conn_reader is on its way to do so.   *)
(* Two things take that away from a reader, and only if there is a second  *)
(* one: the buffer keeps one waker (set_waker_if_changed), so that the     *)
(* last reader to park is the only one that is woken, and a poisoned mutex *)
(* ends conn_reader.                                                       *)
NoSleepingReader ==
  \A r \in Readers : pc[r] = "parked" /\ Readable =>
    \/ woken[r] \/ conn_reader = "fin" \/ (conn_reader = "wake" /\ clone = r)
    \/ Replaced(r) \/ poisoned

(* The buffer is unlocked between the peek of poll and the consume of      *)
(* read.  recv() finds it empty there, and panics (recv_bytes: returns an  *)
(* error), only if another reader consumed after this one polled; packets, *)
(* the Fin and cancelled calls never do it.  conn_reader and the readers   *)
(* that panic on the poisoned mutex do so only after such a panic.  So a   *)
(* connection that one task receives on never fails in recv().             *)
FailsOnlyRobbed ==
  /\ \A r \in Readers : pc[r] \in {"panicked", "error"} => r \in robbed
  /\ conn_reader = "dead" \/ (\E r \in Readers : pc[r] = "poisoned") =>
       \E r \in Readers : pc[r] = "panicked"

(* A reader asleep when a packet it can deliver or the Fin is there does   *)
(* not sleep forever, unless another reader takes its place behind the     *)
(* waker or the mutex is poisoned.                                         *)
RecvReturns ==
  \A r \in Readers :
    pc[r] = "parked" /\ Readable ~> pc[r] # "parked" \/ Replaced(r) \/ poisoned

(* recv(): "Returns Ok(0) when the peer has gracefully closed the          *)
(* connection with a Fin and the receive buffer has been fully drained     *)
(* (end-of-stream). Subsequent calls also return Ok(0)."  A Fin may        *)
(* overtake data, which is then delivered after the end.                   *)
EofIsFinal == [][ended => next' = next]_vars
=============================================================================
