-------------------------------- MODULE Tool --------------------------------
(***************************************************************************)
(* bluefintool (bluefintool/src/main.rs): a line-oriented pipe between     *)
(* stdin/stdout and connections.  main waits for do_connect (one pipe, run *)
(* in place) or do_listen (a task per accepted connection, the first of    *)
(* which gets stdin); a task reads stdin; another waits for Ctrl-C.        *)
(*                                                                         *)
(* The library appears as what it promises the tool: a bounded queue of    *)
(* payloads that the writer puts on the wire in order, flush and close     *)
(* that wait for it (module Writer), close that returns in any case        *)
(* (module Close), recv that returns data, then 0 after the peer's Fin     *)
(* (module Receive).  As in module Writer, data may be left behind in the  *)
(* packetiser until the next send, and a flush then waits for it.  A line  *)
(* of stdin is its number.                                                 *)
(***************************************************************************)
EXTENDS Integers, Sequences

CONSTANTS
  Conns,        \* how many connections a listener accepts (bound)
  MaxLines,     \* bound: lines of stdin
  MaxChunks,    \* bound: what a peer sends, in recv results
  LINES,        \* capacity of the stdin channel (64)
  WRITER        \* capacity of the writer's data channel (4096)

ASSUME ToolAssumption == {Conns, LINES, WRITER} \subseteq Nat \ {0} /\ {MaxLines, MaxChunks} \subseteq Nat

VARIABLES
  mode, interactive,     \* listen or connect; stdin is a terminal
  main,                  \* where main is
  shutdown,              \* the watch: "no", "sent" (Ctrl-C) or "dropped"
  interrupted,           \* the process has caught a SIGINT
  typed, stdin_eof,      \* stdin: lines so far, whether it has ended
  garbled,               \* the first line that cannot be read, 0 for none
  reader,                \* the stdin task: its pc and the lines it has read
  lines,                 \* the stdin channel
  pipe, rx, reason,      \* per connection: run_pipe's pc, rx.is_some(), exit_reason
  queue, wire, fin,      \* sent lines: queued in the writer, on the wire; our Fin
  stalled,               \* per connection: the writer waits for the next send
  incoming, peer_fin     \* per connection: recv results due, the peer's Fin

options == <<mode, interactive>>
signals == <<shutdown, interrupted>>
stdin == <<typed, stdin_eof, garbled>>
pipes == <<pipe, rx, reason>>
writer == <<queue, wire, fin, stalled>>
peers == <<incoming, peer_fin>>
vars == <<options, main, signals, stdin, reader, lines, pipes, writer, peers>>

C == 1 .. Conns

Exited == main \in {"exit 0", "exit 1", "killed"}

\* Tasks run until the process exits or main has returned, which drops them.
Running == ~Exited /\ main # "dropping"

-----------------------------------------------------------------------------
Init ==
  /\ mode \in {"listen", "connect"}
  /\ interactive \in IF mode = "connect" THEN BOOLEAN ELSE {FALSE}   \* listen: only prompts
  /\ main = "start"
  /\ shutdown = "no" /\ interrupted = FALSE
  /\ typed = 0 /\ stdin_eof = FALSE /\ garbled = 0
  /\ reader = [pc |-> "none", read |-> 0]
  /\ lines = <<>>
  /\ pipe = [c \in C |-> "none"]
  /\ rx = [c \in C |-> FALSE]
  /\ reason = [c \in C |-> "none"]
  /\ queue = [c \in C |-> <<>>] /\ wire = [c \in C |-> <<>>]
  /\ fin = [c \in C |-> FALSE] /\ stalled = [c \in C |-> FALSE]
  /\ incoming = [c \in C |-> 0] /\ peer_fin = [c \in C |-> FALSE]

-----------------------------------------------------------------------------
(* The user and the peers.                                                 *)
\* A line may be one that read_line fails on: not UTF-8, or an I/O error.
TypeLine ==
  /\ ~Exited /\ ~stdin_eof /\ typed < MaxLines
  /\ typed' = typed + 1
  /\ garbled' \in IF garbled = 0 THEN {0, typed'} ELSE {garbled}
  /\ UNCHANGED <<options, main, signals, stdin_eof, reader, lines, pipes, writer, peers>>

StdinEnds ==
  /\ ~Exited /\ ~stdin_eof
  /\ stdin_eof' = TRUE
  /\ UNCHANGED <<options, main, signals, typed, garbled, reader, lines, pipes, writer, peers>>

\* Possible at any time.  Without tokio's handler it ends the process; the
\* handler stays once it is installed, whether or not a task is left to be told.
CtrlC ==
  /\ ~Exited
  /\ \/ shutdown = "dropped" /\ main' = "killed" /\ UNCHANGED interrupted
     \/ shutdown # "dropped" /\ interrupted' = TRUE /\ UNCHANGED main
  /\ UNCHANGED <<options, shutdown, stdin, reader, lines, pipes, writer, peers>>

\* run_pipe has the connection.
Open(c) == pipe[c] \notin {"none", "done", "failed"}

PeerSends(c) ==
  /\ Running /\ Open(c) /\ ~peer_fin[c] /\ incoming[c] < MaxChunks
  /\ incoming' = [incoming EXCEPT ![c] = @ + 1]
  /\ UNCHANGED <<options, main, signals, stdin, reader, lines, pipes, writer, peer_fin>>

PeerCloses(c) ==
  /\ Running /\ Open(c) /\ ~peer_fin[c]
  /\ peer_fin' = [peer_fin EXCEPT ![c] = TRUE]
  /\ UNCHANGED <<options, main, signals, stdin, reader, lines, pipes, writer, incoming>>

-----------------------------------------------------------------------------
(* The task that waits for Ctrl-C.  ctrl_c() installs the handler, or it   *)
(* fails and the task ends, and with it the sender of the watch.  That     *)
(* Ctrl-C ends the process until the task is polled is the case of a task  *)
(* that fails later.                                                       *)
NoHandler ==
  /\ Running /\ shutdown = "no" /\ ~interrupted
  /\ shutdown' = "dropped"
  /\ UNCHANGED <<options, main, interrupted, stdin, reader, lines, pipes, writer, peers>>

SendShutdown ==
  /\ Running /\ interrupted /\ shutdown = "no"
  /\ shutdown' = "sent"
  /\ UNCHANGED <<options, main, interrupted, stdin, reader, lines, pipes, writer, peers>>

-----------------------------------------------------------------------------
(* spawn_stdin_reader                                                      *)
ReadLine ==
  /\ Running /\ reader.pc = "read" /\ reader.read < typed /\ reader.read + 1 # garbled
  /\ reader' = [pc |-> "send", read |-> reader.read + 1]
  /\ UNCHANGED <<options, main, signals, stdin, lines, pipes, writer, peers>>

\* Ok(0) | Err(_) => break: a line that cannot be read ends the task like the end.
ReadEof ==
  /\ Running /\ reader.pc = "read"
  /\ \/ reader.read = typed /\ stdin_eof
     \/ reader.read + 1 = garbled
  /\ reader' = [reader EXCEPT !.pc = "done"]
  /\ UNCHANGED <<options, main, signals, stdin, lines, pipes, writer, peers>>

\* Waits for room; fails once the receiver is gone.
SendLine ==
  /\ Running /\ reader.pc = "send"
  /\ \/ /\ rx[1] /\ Len(lines) < LINES
        /\ lines' = Append(lines, reader.read)
        /\ reader' = [reader EXCEPT !.pc = "read"]
     \/ /\ ~rx[1]
        /\ reader' = [reader EXCEPT !.pc = "done"]
        /\ UNCHANGED lines
  /\ UNCHANGED <<options, main, signals, stdin, pipes, writer, peers>>

\* The blocking thread of tokio's stdin sits in read().
StdinBlocked == reader.pc = "read" /\ reader.read = typed /\ ~stdin_eof

-----------------------------------------------------------------------------
(* main, do_listen and do_connect                                          *)
\* A connection is handed to run_pipe; the first one gets stdin.
StartPipe(c) ==
  /\ pipe' = [pipe EXCEPT ![c] = "top"]
  /\ rx' = [rx EXCEPT ![c] = c = 1]
  /\ reader' = IF c = 1 THEN [reader EXCEPT !.pc = "read"] ELSE reader
  /\ UNCHANGED reason

StartConnect ==
  /\ main = "start" /\ mode = "connect"
  /\ StartPipe(1)
  /\ main' = "piping"
  /\ UNCHANGED <<options, signals, stdin, lines, writer, peers>>

StartListen ==
  /\ main = "start" /\ mode = "listen"
  /\ main' = "accepting"
  /\ UNCHANGED <<options, signals, stdin, reader, lines, pipes, writer, peers>>

\* connect() or bind() fails.
StartFails ==
  /\ main = "start"
  /\ main' = "exit 1"
  /\ UNCHANGED <<options, signals, stdin, reader, lines, pipes, writer, peers>>

Accept(c) ==
  /\ main = "accepting" /\ shutdown = "no"
  /\ pipe[c] = "none" /\ \A d \in 1 .. c - 1 : pipe[d] # "none"
  /\ StartPipe(c)
  /\ UNCHANGED <<options, main, signals, stdin, lines, writer, peers>>

StopAccepting ==
  /\ main = "accepting" /\ shutdown # "no"
  /\ main' = "returned"
  /\ UNCHANGED <<options, signals, stdin, reader, lines, pipes, writer, peers>>

PipeReturns ==
  /\ main = "piping" /\ pipe[1] \in {"done", "failed"}
  /\ main' = IF pipe[1] = "done" THEN "returned" ELSE "exit 1"
  /\ UNCHANGED <<options, signals, stdin, reader, lines, pipes, writer, peers>>

\* Mutant of Leave: main returns after a Ctrl-C as well.
LeaveNoExit ==
  /\ main = "returned"
  /\ main' = "dropping"
  /\ UNCHANGED <<options, signals, stdin, reader, lines, pipes, writer, peers>>

\* exit(0) after a Ctrl-C; otherwise main returns and the runtime is dropped.
Leave ==
  /\ main = "returned"
  /\ main' = IF shutdown = "sent" THEN "exit 0" ELSE "dropping"
  /\ UNCHANGED <<options, signals, stdin, reader, lines, pipes, writer, peers>>

\* Dropping the runtime waits for the blocking read of stdin.
RuntimeDropped ==
  /\ main = "dropping" /\ ~StdinBlocked
  /\ main' = "exit 0"
  /\ UNCHANGED <<options, signals, stdin, reader, lines, pipes, writer, peers>>

MainStep == StartConnect \/ StartListen \/ StopAccepting \/ PipeReturns \/ Leave \/ RuntimeDropped

-----------------------------------------------------------------------------
(* run_pipe                                                                *)
At(c, label) == Running /\ pipe[c] = label
Goto(c, label) == pipe' = [pipe EXCEPT ![c] = label]

\* The loop is left for "why"; what follows is the tail of run_pipe.
Break(c, label, why) == Goto(c, label) /\ reason' = [reason EXCEPT ![c] = why]

\* run_pipe is over, its receiver dropped.
Finish(c, label) == Goto(c, label) /\ rx' = [rx EXCEPT ![c] = FALSE]

Top(c) ==
  /\ At(c, "top")
  /\ IF shutdown = "sent" THEN Break(c, "close", "shutdown signal")
     ELSE Goto(c, IF rx[c] THEN "drain" ELSE "select") /\ UNCHANGED reason
  /\ UNCHANGED <<options, main, signals, stdin, reader, lines, rx, writer, peers>>

\* try_recv returns a line; conn.send takes it, or run_pipe returns its error.
\* A stalled packetiser has emptied its channel and goes on with the new line.
SendToPeer(c) ==
  /\ At(c, "drain") /\ lines # <<>>
  /\ lines' = Tail(lines)
  /\ IF Len(queue[c]) < WRITER \/ stalled[c]
     THEN /\ queue' = [queue EXCEPT ![c] = Append(@, Head(lines))]
          /\ stalled' = [stalled EXCEPT ![c] = FALSE]
          /\ UNCHANGED <<pipe, rx>>
     ELSE Finish(c, "failed") /\ UNCHANGED <<queue, stalled>>
  /\ UNCHANGED <<options, main, signals, stdin, reader, reason, wire, fin, peers>>

\* Mutant of DrainEnds: an empty channel is taken for a closed one.
DrainEndsEmpty(c) ==
  /\ At(c, "drain") /\ lines = <<>>
  /\ Goto(c, "flush")
  /\ UNCHANGED <<options, main, signals, stdin, reader, lines, rx, reason, writer, peers>>

\* try_recv finds the channel empty, or closed as well: stdin_eof.
DrainEnds(c) ==
  /\ At(c, "drain") /\ lines = <<>>
  /\ Goto(c, IF reader.pc = "done" THEN "flush" ELSE "select")
  /\ UNCHANGED <<options, main, signals, stdin, reader, lines, rx, reason, writer, peers>>

\* The flush at stdin's end has returned: close, or go on receiving only.
Flushed(c) ==
  /\ At(c, "flush") /\ queue[c] = <<>>
  /\ IF mode = "connect" /\ ~interactive
     THEN Break(c, "close", "stdin EOF") /\ UNCHANGED rx
     ELSE Finish(c, "select") /\ UNCHANGED reason
  /\ UNCHANGED <<options, main, signals, stdin, reader, lines, writer, peers>>

\* Mutant of SelectShutdown: leaves without closing, as after the peer's Fin.
SelectNoClose(c) ==
  /\ At(c, "select") /\ shutdown # "no"
  /\ Break(c, "linger", "shutdown signal")
  /\ UNCHANGED <<options, main, signals, stdin, reader, lines, rx, writer, peers>>

\* The biased select!: the watch first, then recv, then its timeout.  recv has
\* no error to return (ReaderRxChannel::read), so that arm is never taken.
SelectShutdown(c) ==
  /\ At(c, "select") /\ shutdown # "no"
  /\ Break(c, "close", "shutdown signal")
  /\ UNCHANGED <<options, main, signals, stdin, reader, lines, rx, writer, peers>>

Recv(c) ==
  /\ At(c, "select") /\ shutdown = "no" /\ incoming[c] > 0
  /\ incoming' = [incoming EXCEPT ![c] = @ - 1]
  /\ Goto(c, "top")
  /\ UNCHANGED <<options, main, signals, stdin, reader, lines, rx, reason, writer, peer_fin>>

RecvEof(c) ==
  /\ At(c, "select") /\ shutdown = "no" /\ incoming[c] = 0 /\ peer_fin[c]
  /\ Break(c, "linger", "peer closed (EOF)")
  /\ UNCHANGED <<options, main, signals, stdin, reader, lines, rx, writer, peers>>

Timeout(c) ==
  /\ At(c, "select") /\ shutdown = "no" /\ incoming[c] = 0 /\ ~peer_fin[c]
  /\ Goto(c, "top")
  /\ UNCHANGED <<options, main, signals, stdin, reader, lines, rx, reason, writer, peers>>

\* conn.close(): flush, Fin; it returns, with Ok or an error.
Close(c) ==
  /\ At(c, "close") /\ queue[c] = <<>>
  /\ fin' = [fin EXCEPT ![c] = TRUE]
  /\ Finish(c, "done")
  /\ UNCHANGED <<options, main, signals, stdin, reader, lines, reason, queue, wire, stalled, peers>>

\* The 100 ms for the task that answers the peer's Fin.
Linger(c) ==
  /\ At(c, "linger")
  /\ Finish(c, "done")
  /\ UNCHANGED <<options, main, signals, stdin, reader, lines, reason, writer, peers>>

PipeStep(c) ==
  \/ Top(c) \/ SendToPeer(c) \/ DrainEnds(c) \/ Flushed(c)
  \/ SelectShutdown(c) \/ Recv(c) \/ RecvEof(c) \/ Timeout(c)
  \/ Close(c) \/ Linger(c)

\* The library's writer.
WriterStep(c) ==
  /\ Running /\ queue[c] # <<>> /\ ~stalled[c]
  /\ wire' = [wire EXCEPT ![c] = Append(@, Head(queue[c]))]
  /\ queue' = [queue EXCEPT ![c] = Tail(@)]
  /\ UNCHANGED <<options, main, signals, stdin, reader, lines, pipes, fin, stalled, peers>>

\* More is queued than the packetiser's batch holds: the rest waits for a send.
Stall(c) ==
  /\ Running /\ queue[c] # <<>> /\ ~stalled[c]
  /\ stalled' = [stalled EXCEPT ![c] = TRUE]
  /\ UNCHANGED <<options, main, signals, stdin, reader, lines, pipes, queue, wire, fin, peers>>

-----------------------------------------------------------------------------
ReaderStep == ReadLine \/ ReadEof \/ SendLine

Next ==
  \/ TypeLine \/ StdinEnds \/ CtrlC
  \/ MainStep \/ StartFails \/ ReaderStep \/ NoHandler \/ SendShutdown
  \/ \E c \in C : \/ PeerSends(c) \/ PeerCloses(c) \/ Accept(c)
                  \/ PipeStep(c) \/ WriterStep(c) \/ Stall(c)

Spec == Init /\ [][Next]_vars

(* connect() returns (module Handshake), tasks that can run are polled.    *)
(* Nothing obliges the user to type or the peers to connect, send or close. *)
Fairness ==
  /\ WF_vars(MainStep) /\ WF_vars(ReaderStep) /\ WF_vars(SendShutdown)
  /\ \A c \in C : WF_vars(PipeStep(c)) /\ WF_vars(WriterStep(c))

FairSpec == Spec /\ Fairness

-----------------------------------------------------------------------------
(* The types of the variables.                                             *)
TypeOK ==
  /\ main \in {"start", "accepting", "piping", "returned", "dropping", "exit 0", "exit 1",
              "killed"}
  /\ shutdown \in {"no", "sent", "dropped"} /\ interrupted \in BOOLEAN
  /\ garbled \in 0 .. typed
  /\ reader.pc \in {"none", "read", "send", "done"} /\ reader.read \in 0 .. typed
  /\ pipe \in [C -> {"none", "top", "drain", "flush", "select", "close", "linger",
                     "done", "failed"}]
  /\ \A c \in C : Len(queue[c]) <= WRITER + 1
  /\ Len(lines) <= LINES

Upto(k) == [i \in 1 .. k |-> i]

(* The lines of stdin go to the peer once each and in order, and the Fin   *)
(* comes after all that were sent; at the end of a piped input that is     *)
(* every line ("flushes, calls close(), exits", SKILL.md of bluefintool),  *)
(* unless one of them cannot be read: the reader takes an error for the    *)
(* end, what follows is dropped, and the connection is closed for "stdin   *)
(* EOF" all the same.  SKILL.md:154-155 sends payload.bin that way, of     *)
(* which only the lines before the first that is not UTF-8 arrive.         *)
LinesBeforeFin ==
  /\ TypeOK
  /\ rx[1] => wire[1] \o queue[1] \o lines
                 \o (IF reader.pc = "send" THEN <<reader.read>> ELSE <<>>) = Upto(reader.read)
  /\ \A c \in C : fin[c] => queue[c] = <<>>
  /\ reason[1] = "stdin EOF" => \/ garbled = 0 /\ stdin_eof /\ wire[1] = Upto(typed)
                                \/ garbled # 0 /\ wire[1] = Upto(garbled - 1)

(* A process that ends with status 0 has sent its Fin, or seen the peer's, *)
(* on every connection - in connect mode.  A listener's accept loop        *)
(* returns at Ctrl-C and the process exits whatever its pipes are doing,   *)
(* although main.rs:600-603 has it drain everything via close().  Status 1 *)
(* means that the start or a send failed.                                  *)
AbandonsOnlyWhenListening ==
  /\ main = "exit 0" => \/ mode = "listen"
                        \/ \A c \in C : pipe[c] = "none" \/ fin[c] \/ peer_fin[c]
  /\ main = "exit 1" => \A c \in C : pipe[c] \in {"none", "failed"}

(* The pipe of connect mode waits in flush() or close() for data that was  *)
(* left behind in the packetiser, and looks at no signal while it does.    *)
FlushHangs == mode = "connect" /\ pipe[1] \in {"flush", "close"} /\ stalled[1]

(* The runtime is dropped under a read of stdin, without a Ctrl-C that     *)
(* main has seen.                                                          *)
StdinHangs == main = "dropping" /\ StdinBlocked /\ shutdown # "sent"

(* The process ends after a Ctrl-C, and in connect mode once its pipe is   *)
(* over, whatever the peers do - or it hangs for ever in one of two ways.  *)
(* A flush that never returns (FlushCompletes of module Writer) keeps the  *)
(* pipe from looking at the watch.  And a Ctrl-C is swallowed by the       *)
(* handler once main has looked at the watch for the last time: then, as   *)
(* without one, the process lives until a stdin that is still open yields  *)
(* a line or ends.  The bypass for that hang in main (623-628) is for a    *)
(* Ctrl-C that was passed on; after the peer's Fin there is none.          *)
ProcessEnds ==
  interrupted \/ (mode = "connect" /\ pipe[1] \in {"done", "failed"})
    ~> Exited \/ []FlushHangs \/ []StdinHangs
=============================================================================
