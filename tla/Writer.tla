------------------------------- MODULE Writer -------------------------------
(***************************************************************************)
(* The sending half of a connection: WriterHandler (worker/writer.rs) and  *)
(* the part of BluefinConnection::close (net/connection.rs) that drains it *)
(* and numbers the Fin.                                                    *)
(*                                                                         *)
(* The tasks of the application hold clones of the connection and call     *)
(* send, send_bytes_async, flush and close.  Two tasks of the library      *)
(* move the bytes on: the packetiser (the loop of read_data) and the       *)
(* sender it spawns.  They share the flume channels, the atomics           *)
(* pending_bytes, next_packet_num_shared and closed, and flush_notify;     *)
(* every access to one of these is a step of its own.                      *)
(*                                                                         *)
(* Payloads and data_queue are byte counts: what consume_data_into does    *)
(* with a queue depends on its total only (module Packetizer).             *)
(***************************************************************************)
EXTENDS Datagrams, FiniteSets, Functions, Sequences

CONSTANTS
  Tasks,                \* application tasks
  SendCalls,            \* bound: the send operations used, "send" and "send_async"
  Sizes,                \* bound: sizes of the payloads sent
  MaxSends,             \* bound: send calls altogether
  MaxFlushes,           \* bound: flush and close calls altogether
  DATA_CHANNEL_BOUND,   \* capacity of the data channel (4096)
  RecvLimit,            \* "limit" of read_data (20)
  BatchDatagrams,       \* datagrams per iteration of read_data (12)
  First,                \* next_packet_num at construction
  Cancels               \* the application may drop the future of a send

ASSUME WriterAssumption ==
  /\ IsFiniteSet(Tasks)
  /\ SendCalls \subseteq {"send", "send_async"}
  /\ Sizes \subseteq Nat /\ Cancels \in BOOLEAN
  /\ {MaxSends, MaxFlushes} \subseteq Nat
  /\ {DATA_CHANNEL_BOUND, RecvLimit, BatchDatagrams, First} \subseteq Nat \ {0}

VARIABLES
  op, pc, arg,          \* per task: the call in progress, where it is, and the
                        \* payload length or the number of the Fin
  sends, flushes,       \* calls made so far
  closed, pending_bytes, next_packet_num_shared,
  waiting,              \* tasks with a Notified not yet notified by flush_notify
  channel,              \* data channel: payload lengths
  pump,                 \* packetiser: pc, taken (b.len()), made (i)
  data_queue,           \* bytes in the packetiser's queue
  next_packet_num,      \* the packetiser's local counter
  send_queue,           \* datagrams on their way to the sender task
  sender,               \* sender: pc, bytes of the datagram just sent
  wire,                 \* what was written to the socket, in order
  enqueued, mark,       \* history: bytes accepted so far; per task, at the flush call
  dropped,              \* history: bytes of the sends dropped while they waited
  raced,                \* history: a send overlapped a close()
  left_behind           \* history: a flush may wait for what nobody will do

calls == <<op, pc, arg, sends, flushes>>
atomics == <<closed, pending_bytes, next_packet_num_shared, waiting>>
packetiser == <<pump, data_queue, next_packet_num>>
history == <<enqueued, mark, dropped, raced, left_behind>>
vars == <<calls, atomics, channel, packetiser, send_queue, sender, wire, history>>

Data(first, num, bytes) == [kind |-> "Data", first |-> first, num |-> num, bytes |-> bytes]
Fin(pn) == [kind |-> "Fin", first |-> pn, num |-> 1, bytes |-> 0]

Goto(t, label) == pc' = [pc EXCEPT ![t] = label]

\* The call of task t returns to the application.
Done(t) == Goto(t, "idle") /\ op' = [op EXCEPT ![t] = "none"]

-----------------------------------------------------------------------------
Init ==
  /\ op = [t \in Tasks |-> "none"]
  /\ pc = [t \in Tasks |-> "idle"]
  /\ arg = [t \in Tasks |-> 0]
  /\ sends = 0 /\ flushes = 0
  /\ closed = FALSE
  /\ pending_bytes = 0
  /\ next_packet_num_shared = First
  /\ waiting = {}
  /\ channel = <<>>
  /\ pump = [pc |-> "recv", taken |-> 0, made |-> 0]
  /\ data_queue = 0
  /\ next_packet_num = First
  /\ send_queue = <<>>
  /\ sender = [pc |-> "recv", bytes |-> 0]
  /\ wire = <<>>
  /\ enqueued = 0
  /\ mark = [t \in Tasks |-> 0]
  /\ dropped = 0 /\ raced = FALSE /\ left_behind = FALSE

-----------------------------------------------------------------------------
(* send_data and send_bytes ("send"), send_bytes_async ("send_async").     *)
CallSend(t, name, len) ==
  /\ op[t] = "none" /\ sends < MaxSends
  /\ sends' = sends + 1
  /\ IF closed
     THEN UNCHANGED <<op, pc, arg>>          \* ConnectionClosed
     ELSE /\ op' = [op EXCEPT ![t] = name]
          /\ arg' = [arg EXCEPT ![t] = len]
          /\ Goto(t, "count")
  /\ UNCHANGED <<flushes, atomics, channel, packetiser, send_queue, sender, wire, history>>

CountPending(t) ==
  /\ pc[t] = "count"
  /\ pending_bytes' = pending_bytes + arg[t]
  /\ Goto(t, "enqueue")
  /\ UNCHANGED <<op, arg, sends, flushes, closed, next_packet_num_shared, waiting,
                 channel, packetiser, send_queue, sender, wire, history>>

Enqueue(t) ==
  /\ pc[t] = "enqueue" /\ Len(channel) < DATA_CHANNEL_BOUND
  /\ channel' = Append(channel, arg[t])
  /\ enqueued' = enqueued + arg[t]
  /\ Done(t)
  /\ UNCHANGED <<arg, sends, flushes, atomics, packetiser, send_queue, sender, wire, mark,
                 dropped, raced, left_behind>>

\* try_send finds the channel full; send_async waits instead.
ChannelFull(t) ==
  /\ pc[t] = "enqueue" /\ op[t] = "send" /\ Len(channel) >= DATA_CHANNEL_BOUND
  /\ Goto(t, "undo")
  /\ UNCHANGED <<op, arg, sends, flushes, atomics, channel, packetiser, send_queue,
                 sender, wire, history>>

\* Mutant of UndoPending: the refused bytes stay counted.
UndoForgotten(t) ==
  /\ pc[t] = "undo"
  /\ Done(t)
  /\ UNCHANGED <<arg, sends, flushes, atomics, channel, packetiser, send_queue, sender,
                 wire, history>>

\* Nobody is notified, whatever the counter becomes.
UndoPending(t) ==
  /\ pc[t] = "undo"
  /\ pending_bytes' = pending_bytes - arg[t]
  /\ Done(t)                                  \* WriteError
  /\ left_behind' = (left_behind \/ (pending_bytes = arg[t] /\ waiting # {}))
  /\ UNCHANGED <<arg, sends, flushes, closed, next_packet_num_shared, waiting, channel,
                 packetiser, send_queue, sender, wire, enqueued, mark, dropped, raced>>

\* A send_bytes_async that waits for room is dropped, in a select! for example:
\* nothing was enqueued and nothing is undone.
CancelSend(t) ==
  /\ Cancels
  /\ pc[t] = "enqueue" /\ op[t] = "send_async" /\ Len(channel) >= DATA_CHANNEL_BOUND
  /\ Done(t)
  /\ dropped' = dropped + arg[t]
  /\ left_behind' = (left_behind \/ arg[t] > 0)
  /\ UNCHANGED <<arg, sends, flushes, atomics, channel, packetiser, send_queue, sender,
                 wire, enqueued, mark, raced>>

-----------------------------------------------------------------------------
(* flush(), alone or as the first step of close().                         *)
\* Mutant of CallFlush: close() does not flush.
CloseSkipsFlush(t, name) ==
  /\ op[t] = "none" /\ flushes < MaxFlushes
  /\ flushes' = flushes + 1
  /\ op' = [op EXCEPT ![t] = name]
  /\ Goto(t, IF name = "close" THEN "flushed" ELSE "check")
  /\ mark' = [mark EXCEPT ![t] = enqueued]
  /\ UNCHANGED <<arg, sends, atomics, channel, packetiser, send_queue, sender, wire,
                 enqueued, dropped, raced, left_behind>>

CallFlush(t, name) ==
  /\ op[t] = "none" /\ flushes < MaxFlushes
  /\ flushes' = flushes + 1
  /\ op' = [op EXCEPT ![t] = name]
  /\ Goto(t, "check")
  /\ mark' = [mark EXCEPT ![t] = enqueued]
  /\ UNCHANGED <<arg, sends, atomics, channel, packetiser, send_queue, sender, wire,
                 enqueued, dropped, raced, left_behind>>

\* Mutant of CheckPending: an empty channel is taken for a drained pipeline.
CheckChannel(t) ==
  /\ pc[t] \in {"check", "recheck"}
  /\ Goto(t, IF channel = <<>> THEN "flushed"
             ELSE IF pc[t] = "check" THEN "register" ELSE "await")
  /\ waiting' = IF channel = <<>> THEN waiting \ {t} ELSE waiting
  /\ UNCHANGED <<op, arg, sends, flushes, closed, pending_bytes, next_packet_num_shared,
                 channel, packetiser, send_queue, sender, wire, history>>

\* Both loads of pending_bytes: zero ends the flush, and drops the Notified.
CheckPending(t) ==
  /\ pc[t] \in {"check", "recheck"}
  /\ Goto(t, IF pending_bytes = 0 THEN "flushed"
             ELSE IF pc[t] = "check" THEN "register" ELSE "await")
  /\ waiting' = IF pending_bytes = 0 THEN waiting \ {t} ELSE waiting
  /\ UNCHANGED <<op, arg, sends, flushes, closed, pending_bytes, next_packet_num_shared,
                 channel, packetiser, send_queue, sender, wire, history>>

\* Mutant of Register: the counter is not read again before the await.
RegisterNoRecheck(t) ==
  /\ pc[t] = "register"
  /\ waiting' = waiting \cup {t}
  /\ Goto(t, "await")
  /\ UNCHANGED <<op, arg, sends, flushes, closed, pending_bytes, next_packet_num_shared,
                 channel, packetiser, send_queue, sender, wire, history>>

Register(t) ==
  /\ pc[t] = "register"
  /\ waiting' = waiting \cup {t}
  /\ Goto(t, "recheck")
  /\ UNCHANGED <<op, arg, sends, flushes, closed, pending_bytes, next_packet_num_shared,
                 channel, packetiser, send_queue, sender, wire, history>>

Woken(t) ==
  /\ pc[t] = "await" /\ t \notin waiting
  /\ Goto(t, "check")
  /\ UNCHANGED <<op, arg, sends, flushes, atomics, channel, packetiser, send_queue,
                 sender, wire, history>>

FlushReturns(t) ==
  /\ pc[t] = "flushed" /\ op[t] = "flush"
  /\ Done(t)
  /\ UNCHANGED <<arg, sends, flushes, atomics, channel, packetiser, send_queue, sender,
                 wire, history>>

-----------------------------------------------------------------------------
(* close() after its flush: mark_closed, reserve_close_packet_num, send_fin *)
(* (the exchange that follows is module Close).                             *)
MarkClosed(t) ==
  /\ pc[t] = "flushed" /\ op[t] = "close"
  /\ closed' = TRUE
  /\ Goto(t, "reserve")
  /\ raced' = (raced \/ enqueued > mark[t]
                      \/ \E u \in Tasks : pc[u] \in {"count", "enqueue"})
  /\ UNCHANGED <<op, arg, sends, flushes, pending_bytes, next_packet_num_shared, waiting,
                 channel, packetiser, send_queue, sender, wire, enqueued, mark, dropped,
                 left_behind>>

reserve_close_packet_num(t) ==
  /\ pc[t] = "reserve"
  /\ arg' = [arg EXCEPT ![t] = next_packet_num_shared]
  /\ next_packet_num_shared' = next_packet_num_shared + 1
  /\ Goto(t, "send_fin")
  /\ UNCHANGED <<op, sends, flushes, closed, pending_bytes, waiting, channel, packetiser,
                 send_queue, sender, wire, history>>

send_fin(t) ==
  /\ pc[t] = "send_fin"
  /\ wire' = Append(wire, Fin(arg[t]))
  /\ Done(t)
  /\ UNCHANGED <<arg, sends, flushes, atomics, channel, packetiser, send_queue, sender,
                 history>>

TaskStep(t) ==
  \/ CountPending(t) \/ Enqueue(t) \/ ChannelFull(t) \/ UndoPending(t)
  \/ CheckPending(t) \/ Register(t) \/ Woken(t) \/ FlushReturns(t)
  \/ MarkClosed(t) \/ reserve_close_packet_num(t) \/ send_fin(t)

-----------------------------------------------------------------------------
(* The packetiser: wait for a payload, drain up to RecvLimit of them, make *)
(* up to BatchDatagrams datagrams, publish the counter, wait again.        *)
Take ==
  /\ channel' = Tail(channel)
  /\ data_queue' = data_queue + Head(channel)
  /\ UNCHANGED <<calls, atomics, next_packet_num, send_queue, sender, wire, history>>

RecvFirst ==
  /\ pump.pc = "recv" /\ channel # <<>>
  /\ pump' = [pc |-> "drain", taken |-> 1, made |-> 0]
  /\ Take

CanDrain == pump.pc = "drain" /\ pump.taken < RecvLimit /\ channel # <<>>

RecvMore ==
  /\ CanDrain
  /\ pump' = [pump EXCEPT !.taken = @ + 1]
  /\ Take

Packing == pump.pc = "pack" \/ (pump.pc = "drain" /\ ~CanDrain)

CanPack == Packing /\ pump.made < BatchDatagrams

\* Mutant of Packetise: one number per datagram.
PacketiseOneNumber ==
  /\ CanPack
  /\ LET bytes == Packed(data_queue)
     IN  /\ bytes > 0
         /\ send_queue' = Append(send_queue, Data(next_packet_num, NumPackets(bytes), bytes))
         /\ next_packet_num' = next_packet_num + 1
         /\ data_queue' = data_queue - bytes
  /\ pump' = [pump EXCEPT !.pc = "pack", !.made = @ + 1]
  /\ UNCHANGED <<calls, atomics, channel, sender, wire, history>>

Packetise ==
  /\ CanPack
  /\ LET bytes == Packed(data_queue)
         num   == NumPackets(bytes)
     IN  /\ bytes > 0
         /\ send_queue' = Append(send_queue, Data(next_packet_num, num, bytes))
         /\ next_packet_num' = next_packet_num + num
         /\ data_queue' = data_queue - bytes
  /\ pump' = [pump EXCEPT !.pc = "pack", !.made = @ + 1]
  /\ UNCHANGED <<calls, atomics, channel, sender, wire, history>>

PublishNumber ==
  /\ Packing
  /\ data_queue = 0 \/ ~CanPack
  /\ next_packet_num_shared' = next_packet_num
  /\ pump' = [pc |-> "recv", taken |-> 0, made |-> 0]
  /\ left_behind' = (left_behind \/ data_queue > 0)
  /\ UNCHANGED <<calls, closed, pending_bytes, waiting, channel, data_queue,
                 next_packet_num, send_queue, sender, wire, enqueued, mark, dropped, raced>>

PumpStep == RecvFirst \/ RecvMore \/ Packetise \/ PublishNumber

-----------------------------------------------------------------------------
(* The sender task: write a datagram, account for its bytes, and notify if *)
(* the counter reached zero.                                               *)
WriteDatagram ==
  /\ sender.pc = "recv" /\ send_queue # <<>>
  /\ wire' = Append(wire, Head(send_queue))
  /\ send_queue' = Tail(send_queue)
  /\ sender' = [pc |-> "account", bytes |-> Head(send_queue).bytes]
  /\ UNCHANGED <<calls, atomics, channel, packetiser, history>>

AccountBytes ==
  /\ sender.pc = "account"
  /\ pending_bytes' = pending_bytes - sender.bytes
  /\ sender' = [pc |-> IF pending_bytes = sender.bytes THEN "notify" ELSE "recv",
                bytes |-> 0]
  /\ UNCHANGED <<calls, closed, next_packet_num_shared, waiting, channel, packetiser,
                 send_queue, wire, history>>

NotifyWaiters ==
  /\ sender.pc = "notify"
  /\ waiting' = {}
  /\ sender' = [sender EXCEPT !.pc = "recv"]
  /\ UNCHANGED <<calls, closed, pending_bytes, next_packet_num_shared, channel,
                 packetiser, send_queue, wire, history>>

SenderStep == WriteDatagram \/ AccountBytes \/ NotifyWaiters

-----------------------------------------------------------------------------
Next ==
  \/ \E t \in Tasks :
       \/ \E name \in SendCalls, len \in Sizes : CallSend(t, name, len)
       \/ \E name \in {"flush", "close"} : CallFlush(t, name)
       \/ TaskStep(t) \/ CancelSend(t)
  \/ PumpStep
  \/ SenderStep

Spec == Init /\ [][Next]_vars

(* tokio polls every task that can run; a socket that is not writable      *)
(* becomes so.  Nothing obliges the application to make a call.            *)
Fairness ==
  /\ \A t \in Tasks : WF_vars(TaskStep(t))
  /\ WF_vars(PumpStep)
  /\ WF_vars(SenderStep)

FairSpec == Spec /\ Fairness

-----------------------------------------------------------------------------
(* The types; pending_bytes never goes below zero, which the debug_assert  *)
(* in the sender task claims.                                              *)
TypeOK ==
  /\ op \in [Tasks -> {"none", "send", "send_async", "flush", "close"}]
  /\ pc \in [Tasks -> {"idle", "count", "enqueue", "undo", "check", "register",
                       "recheck", "await", "flushed", "reserve", "send_fin"}]
  /\ arg \in [Tasks -> Nat]
  /\ closed \in BOOLEAN
  /\ {pending_bytes, next_packet_num_shared, data_queue, next_packet_num} \subseteq Nat
  /\ waiting \subseteq Tasks
  /\ Len(channel) <= DATA_CHANNEL_BOUND
  /\ pump.pc \in {"recv", "drain", "pack"}
  /\ pump.taken \in 0 .. RecvLimit /\ pump.made \in 0 .. BatchDatagrams
  /\ sender.pc \in {"recv", "account", "notify"}
  /\ dropped \in Nat /\ raced \in BOOLEAN /\ left_behind \in BOOLEAN

Bytes(datagrams) == SumFunction([i \in DOMAIN datagrams |-> datagrams[i].bytes])
Counted == {t \in Tasks : pc[t] \in {"enqueue", "undo"}}

(* pending_bytes is exact: it counts the payload of every send under way,  *)
(* of the channel, of data_queue and of every datagram that the sender has *)
(* not accounted for, however the tasks interleave.  The one leak: the     *)
(* bytes of a send_bytes_async that was dropped while it waited for room   *)
(* stay counted.                                                           *)
PendingExact ==
  /\ TypeOK
  /\ pending_bytes =
       SumFunctionOnSet(arg, Counted) + SumFunction(channel) + data_queue
         + Bytes(send_queue) + sender.bytes + dropped

(* A flush that has seen zero means it: every byte accepted by a send      *)
(* before the flush was called has been written to the socket (the         *)
(* contract at writer.rs:467-469).                                         *)
FlushMeansOnWire ==
  \A t \in Tasks :
    pc[t] \in {"flushed", "reserve", "send_fin"} => Bytes(wire) >= mark[t]

\* The number of data packets in a sequence of datagrams.
DataPackets(datagrams) ==
  SumFunction([i \in DOMAIN datagrams |->
                 IF datagrams[i].kind = "Data" THEN datagrams[i].num ELSE 0])

(* Data packets go out in number order without gap or repetition, from the *)
(* first number of the handshake to the packetiser's counter: a datagram's *)
(* first number is First plus the number of data packets before it.        *)
NumbersConsecutive ==
  /\ \A i \in DOMAIN wire :
       wire[i].kind = "Data" => wire[i].first = First + DataPackets(SubSeq(wire, 1, i - 1))
  /\ \A i \in DOMAIN send_queue :
       send_queue[i].first = First + DataPackets(wire) + DataPackets(SubSeq(send_queue, 1, i - 1))
  /\ next_packet_num = First + DataPackets(wire) + DataPackets(send_queue)

(* The Fin is the last thing on the wire: a peer that has closed sends no  *)
(* data any more (bluefin-protocol SKILL.md:212).  Only a send that        *)
(* overlaps close(), which sets closed after its flush, can break this.    *)
NoDataAfterFin ==
  ~raced => \A i, j \in DOMAIN wire :
              wire[i].kind = "Fin" /\ wire[j].kind = "Data" => j < i

(* The number of the Fin lies after the number of every data packet        *)
(* (connection.rs:485-489).                                                *)
FinNumberAfterData ==
  \A i, j \in DOMAIN wire :
    wire[i].kind = "Fin" /\ wire[j].kind = "Data"
      => wire[j].first + wire[j].num - 1 < wire[i].first

(* A flush, alone or in close(), comes back.  It may wait for ever in three *)
(* cases only: a waiting send was dropped (its bytes stay counted), the     *)
(* counter was brought to zero by the undo of a refused send (nobody is     *)
(* notified), or a batch ended with bytes in data_queue (nobody packetises  *)
(* them before the next send), although "the wait is exactly as long as the *)
(* writer needs and never longer" (connection.rs:448).                      *)
FlushCompletes ==
  \A t \in Tasks : (op[t] \in {"flush", "close"}) ~> (op[t] = "none" \/ left_behind)
=============================================================================
