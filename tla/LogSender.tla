----------------------------- MODULE LogSender -----------------------------
(***************************************************************************)
(* One DBusLogSender (server/src/dbuslog_sender.c): the object which turns *)
(* log messages into packets and writes them to a non-blocking pipe whose  *)
(* other end belongs to one log client.                                    *)
(*                                                                         *)
(* Any thread may call dbus_log_sender_send, which works under the mutex.  *)
(* Everything else runs on the main thread.  The main thread does NOT hold *)
(* the mutex while it writes to the pipe, so it is given a program counter *)
(* which stops between the unlocked accesses that a concurrent send can    *)
(* observe: the write of the fixed part, the write of the message data and *)
(* the locked section that picks the next packet.                          *)
(***************************************************************************)
EXTENDS LogProtocol

CONSTANTS
  Threads,       (* Logging threads other than the main one.                *)
  MainLogs,      (* Whether the main thread logs, too.                      *)
  Lengths,       (* Message lengths, in units of the pipe (see LogProtocol). *)
  MaxMessages,   (* Bound on the number of messages accepted by the sender. *)
  PipeCapacity,  (* Units which fit into the pipe.                          *)
  PipeBuf,       (* PIPE_BUF: a write of so many units is not split.        *)
  Backlog,       (* Initial size limit of the queue, negative: unlimited.   *)
  Backlogs,      (* Limits which may be set later.                          *)
  KeepsReadfd,   (* The server retains its copy of the reading end.         *)
  Pings,         (* Whether dbus_log_sender_ping is used.                   *)
  Disposes       (* Whether the sender may be disposed while it is open.    *)

ASSUME SenderConstants ==
  /\ MainLogs \in BOOLEAN /\ KeepsReadfd \in BOOLEAN /\ Pings \in BOOLEAN
  /\ Disposes \in BOOLEAN
  /\ Lengths \subseteq Nat
  /\ MaxMessages \in Nat
  /\ PipeCapacity \in Nat \ {0} /\ PipeBuf \in 0..PipeCapacity
  /\ Backlog \in Int /\ Backlogs \subseteq Int

VARIABLES
  done,      (* No more messages are accepted.                              *)
  bye,       (* Bye is to be sent once the queue has been flushed.          *)
  io,        (* The writing end is open.                                    *)
  watch,     (* write_watch_id is not zero.                                 *)
  attached,  (* How many write watches the main loop really polls.          *)
  buffer,    (* Messages waiting for their turn.                            *)
  backlog,   (* Size limit of the buffer.                                   *)
  packet,    (* The packet being written.                                   *)
  written,   (* packet_written.                                             *)
  current,   (* current_message.                                            *)
  main,      (* What the main thread is doing inside the sender.            *)
  invokes,   (* Calls of schedule_write passed to the main context by other
                threads and not yet run (or about to be passed).            *)
  readers,   (* Who has the reading end of the pipe open.                   *)
  pipe,      (* Units in the pipe.                                          *)
  accepted,  (* History: number of messages accepted, also the last index.  *)
  dropped,   (* History: indices of messages given up by a full buffer.     *)
  wire       (* History: packets completely written, pings excepted.        *)

object  == <<done, bye, io, watch, attached, buffer, backlog, packet, written,
             current>>
history == <<accepted, dropped, wire>>
vars    == <<object, main, invokes, readers, pipe, history>>

-----------------------------------------------------------------------------
(* (mutant) Only the fixed part is waited for.                               *)
FixedWritten == packet.fixed <= written

AllWritten == packet.size = written

-----------------------------------------------------------------------------
(* GUtilRing, as the sender uses it                                          *)

Unlimited == -1
DefaultBacklog == 1000
NormalizeBacklog(n) ==
  IF n > 0 THEN n ELSE IF n = 0 THEN DefaultBacklog ELSE Unlimited

CanPut(ring) == backlog < 0 \/ Len(ring) < backlog

(* (mutants) A full buffer gives up nothing, or its first half.              *)
SparedAll == buffer
SparedNewest ==
  IF CanPut(buffer) THEN buffer
  ELSE SubSeq(buffer, Len(buffer) \div 2 + 1, Len(buffer))

(* A full buffer gives up the last half of its messages.                     *)
Spared ==
  IF CanPut(buffer) THEN buffer
  ELSE SubSeq(buffer, 1, Len(buffer) - Len(buffer) \div 2)

Put(ring, msg) == IF CanPut(ring) THEN Append(ring, msg) ELSE ring

IndicesOf(ring) == {ring[i].index : i \in 1..Len(ring)}

-----------------------------------------------------------------------------
(* The main thread                                                           *)

(* frames counts the nested calls of schedule_write; it is zero if write was *)
(* called by write_callback and nothing else.                                *)
Main == [pc : {"idle", "fixed", "data", "pick", "ping"}, frames : Nat]
Idle == [pc |-> "idle", frames |-> 0]
IsIdle == main.pc = "idle"

(* dbus_log_sender_schedule_write called with nothing below it.              *)
ScheduleWrite ==
  main' = IF io /\ ~watch
          THEN [pc |-> "fixed", frames |-> 1]
          ELSE Idle

(* (mutant) Nobody adds a watch for what is left to write.                   *)
ReturnUnwatched(more, open) ==
  /\ main' = Idle
  /\ attached' = attached - (IF main.frames = 0 /\ ~more THEN 1 ELSE 0)
  /\ watch' = (watch /\ more)

(* (mutant) A watch which removed itself leaves its id behind.                *)
ReturnStale(more, open) ==
  /\ main' = Idle
  /\ attached' = attached + (IF main.frames = 0 /\ ~more THEN -1 ELSE main.frames)
  /\ watch' = IF main.frames = 0 THEN watch ELSE open

(* dbus_log_sender_write returns `more' and all the frames return. Each      *)
(* schedule_write which got TRUE adds a watch if the channel is still there; *)
(* those which were interrupted by a nested one always get TRUE. A callback  *)
(* which gets FALSE has its watch removed.                                   *)
Return(more, open) ==
  LET adding == IF more \/ main.frames = 0 THEN main.frames
                                           ELSE main.frames - 1
      added  == IF open THEN adding ELSE 0
      over   == IF main.frames = 0 /\ ~more THEN 1 ELSE 0
  IN  /\ main' = Idle
      /\ attached' = attached + added - over
      /\ watch' = IF adding > 0 THEN open ELSE watch /\ more

(* dbus_log_sender_shutdown, less the removal of the watch.                  *)
Shutdown ==
  /\ packet' = NoPacket /\ written' = 0
  /\ done' = TRUE /\ bye' = FALSE
  /\ readers' = readers \ {"server"}
  /\ io' = FALSE

WriteFailed ==
  /\ Shutdown
  /\ Return(FALSE, FALSE)
  /\ UNCHANGED <<buffer, backlog, current, invokes, pipe, history>>

(* Hand n units to the pipe; a packet all of which is there is on the wire.  *)
Hand(units) ==
  /\ pipe' = pipe \o units
  /\ written' = written + Len(units)
  /\ wire' = IF written' = packet.size /\ packet.type # "PING"
             THEN Append(wire, packet) ELSE wire

(* What a write of n units to a non-blocking pipe does: EAGAIN if a write    *)
(* that is not split does not fit.                                           *)
Fitting(n) ==
  LET space == PipeCapacity - Len(pipe)
  IN  IF n <= space THEN n ELSE IF n <= PipeBuf THEN 0 ELSE space

(* The unlocked part of dbus_log_sender_write, up to the fixed part.         *)
WriteFixed ==
  /\ main.pc = "fixed"
  /\ \/ /\ written >= packet.size
        /\ main' = [main EXCEPT !.pc = "pick"]
        /\ UNCHANGED <<object, invokes, readers, pipe, history>>
     \/ /\ packet.fixed <= written /\ written < packet.size
        /\ main' = [main EXCEPT !.pc = "data"]
        /\ UNCHANGED <<object, invokes, readers, pipe, history>>
     \/ /\ written < packet.size /\ written < packet.fixed
        /\ IF readers = {} THEN WriteFailed
           ELSE /\ Hand(Units(packet, written, Fitting(packet.fixed - written)))
                /\ IF written' < packet.fixed
                   THEN Return(TRUE, TRUE)
                   ELSE /\ main' = [main EXCEPT !.pc = "data"]
                        /\ UNCHANGED <<watch, attached>>
                /\ UNCHANGED <<done, bye, io, buffer, backlog, packet, current,
                               invokes, readers, accepted, dropped>>

(* The rest of the unlocked part. The offset in the message is unsigned: if  *)
(* the packet was replaced after its fixed part had been written, the write  *)
(* starts far out of the bounds of the new message, and fails or sends trash.*)
WriteData ==
  /\ main.pc = "data"
  /\ \/ /\ written >= packet.size
        /\ main' = [main EXCEPT !.pc = "pick"]
        /\ UNCHANGED <<object, invokes, readers, pipe, history>>
     \/ /\ written < packet.size
        /\ readers = {} \/ written < packet.fixed
        /\ WriteFailed
     \/ /\ written < packet.size /\ readers # {}
        /\ LET n == Fitting(packet.size - written)
           IN  Hand(IF written < packet.fixed THEN [i \in 1..n |-> Garbage]
                    ELSE Units(packet, written, n))
        /\ IF written' < packet.size
           THEN Return(TRUE, TRUE)
           ELSE /\ main' = [main EXCEPT !.pc = "pick"]
                /\ UNCHANGED <<watch, attached>>
        /\ UNCHANGED <<done, bye, io, buffer, backlog, packet, current,
                       invokes, readers, accepted, dropped>>

(* The tail of write, after the next packet was prepared: schedule_write is  *)
(* called again, nested if no watch is there, and the result is TRUE.        *)
WriteNext ==
  /\ IF watch THEN Return(TRUE, TRUE)
     ELSE /\ main' = [main EXCEPT !.pc = "fixed", !.frames = @ + 1]
          /\ UNCHANGED <<watch, attached>>
  /\ UNCHANGED <<done, io, readers>>

(* (mutants) Bye does not wait for the queue, or is forgotten.               *)
ByeAtOnce == bye
ByeNever  == FALSE

ByeIsDue == buffer = <<>> /\ bye

(* The locked part of dbus_log_sender_write.                                 *)
PickNext ==
  /\ main.pc = "pick"
  /\ \/ /\ buffer # <<>>
        /\ current' = Head(buffer) /\ buffer' = Tail(buffer)
        /\ packet' = MessagePacket(Head(buffer)) /\ written' = 0
        /\ WriteNext
        /\ UNCHANGED bye
     \/ /\ ByeIsDue
        /\ current' = NoMsg /\ bye' = FALSE
        /\ packet' = ByePacket /\ written' = 0
        /\ WriteNext
        /\ UNCHANGED buffer
     \/ /\ buffer = <<>> /\ ~bye
        /\ current' = NoMsg
        /\ IF done THEN Shutdown
           ELSE /\ packet' = NoPacket /\ written' = 0
                /\ UNCHANGED <<done, bye, io, readers>>
        /\ Return(FALSE, ~done)
        /\ UNCHANGED buffer
  /\ UNCHANGED <<backlog, invokes, pipe, history>>

(* write_callback of any attached watch: the pipe has room.                  *)
WriteCallback ==
  /\ IsIdle /\ attached > 0 /\ io /\ Len(pipe) < PipeCapacity
  /\ main' = [pc |-> "fixed", frames |-> 0]
  /\ UNCHANGED <<object, invokes, readers, pipe, history>>

(* write_callback without G_IO_OUT: a full pipe nobody reads, or a channel   *)
(* that was closed with the watch left behind.                               *)
WriteCallbackHup ==
  /\ IsIdle /\ attached > 0
  /\ ~io \/ (readers = {} /\ Len(pipe) = PipeCapacity)
  /\ Shutdown
  /\ watch' = FALSE /\ attached' = attached - 1
  /\ UNCHANGED <<buffer, backlog, current, main, invokes, pipe, history>>

(* dbus_log_sender_schedule_write_in_context, from a source other threads    *)
(* attached.                                                                 *)
RunInvoke ==
  /\ IsIdle /\ invokes > 0
  /\ invokes' = invokes - 1
  /\ ScheduleWrite
  /\ UNCHANGED <<object, readers, pipe, history>>

-----------------------------------------------------------------------------
(* The interface                                                             *)

(* The critical section of dbus_log_sender_send.                             *)
Accept(length) ==
  LET msg == [index |-> accepted + 1, length |-> length]
      queued == Put(Spared, msg)
  IN  /\ ~done /\ accepted < MaxMessages
      /\ accepted' = accepted + 1
      /\ IF AllWritten
         THEN /\ current' = msg
              /\ packet' = MessagePacket(msg) /\ written' = 0
              /\ UNCHANGED <<buffer, dropped>>
         ELSE /\ buffer' = queued
              /\ dropped' = dropped \cup
                   ((IndicesOf(buffer) \cup {msg.index}) \ IndicesOf(queued))
              /\ UNCHANGED <<current, packet, written>>
      /\ UNCHANGED <<done, bye, io, watch, attached, backlog, readers, pipe, wire>>

(* (mutant) The main context is not told about the message.                  *)
ThreadSendQuietly(t, length) == Accept(length) /\ UNCHANGED <<invokes, main>>

(* On another thread the main context is asked to write. It happens after    *)
(* the mutex is released, but a source attached late is one run late.        *)
ThreadSend(t, length) ==
  /\ Accept(length)
  /\ invokes' = IF AllWritten THEN invokes + 1 ELSE invokes
  /\ UNCHANGED main

(* The main thread owns the context, schedule_write is called at once.       *)
MainSend(length) ==
  /\ MainLogs /\ IsIdle
  /\ Accept(length)
  /\ IF AllWritten THEN ScheduleWrite ELSE UNCHANGED main
  /\ UNCHANGED invokes

(* "Only ping if we have nothing pending"                                    *)
NothingIsPending == current = NoMsg /\ buffer = <<>>

(* dbus_log_sender_ping checks and fills the packet without the mutex.       *)
PingCheck ==
  /\ Pings /\ IsIdle
  /\ ~done /\ NothingIsPending
  /\ main' = [Idle EXCEPT !.pc = "ping"]
  /\ UNCHANGED <<object, invokes, readers, pipe, history>>

PingFill ==
  /\ main.pc = "ping"
  /\ packet' = PingPacket /\ written' = 0
  /\ ScheduleWrite
  /\ UNCHANGED <<done, bye, io, watch, attached, buffer, backlog, current,
                 invokes, readers, pipe, history>>

(* dbus_log_sender_close; its `bye' argument is not used.                    *)
Close ==
  /\ IsIdle /\ ~done
  /\ done' = TRUE
  /\ IF AllWritten /\ buffer = <<>>
     THEN /\ packet' = ByePacket /\ written' = 0 /\ bye' = FALSE
          /\ ScheduleWrite
     ELSE /\ bye' = TRUE
          /\ UNCHANGED <<packet, written, main>>
  /\ UNCHANGED <<io, watch, attached, buffer, backlog, current, invokes,
                 readers, pipe, history>>

(* dbus_log_sender_set_backlog. What the ring does with messages beyond the  *)
(* new limit is not in this repository: it may keep them or drop either end. *)
SetBacklog(n) ==
  /\ IsIdle
  /\ backlog' = NormalizeBacklog(n)
  /\ \/ UNCHANGED buffer
     \/ /\ backlog' > 0 /\ backlog' < Len(buffer)
        /\ \/ buffer' = SubSeq(buffer, 1, backlog')
           \/ buffer' = SubSeq(buffer, Len(buffer) - backlog' + 1, Len(buffer))
  /\ dropped' = dropped \cup (IndicesOf(buffer) \ IndicesOf(buffer'))
  /\ UNCHANGED <<done, bye, io, watch, attached, packet, written, current, main,
                 invokes, readers, pipe, accepted, wire>>

(* dbus_log_sender_dispose: the last reference is dropped while the pipe is  *)
(* open. A call pending in the main context holds a reference.               *)
Dispose ==
  /\ Disposes /\ IsIdle /\ invokes = 0 /\ io
  /\ Shutdown
  /\ watch' = FALSE /\ attached' = IF watch THEN attached - 1 ELSE attached
  /\ buffer' = <<>> /\ dropped' = dropped \cup IndicesOf(buffer)
  /\ UNCHANGED <<backlog, current, main, invokes, pipe, accepted, wire>>

-----------------------------------------------------------------------------
(* The other end of the pipe                                                 *)

PeerRead(n) ==
  /\ "client" \in readers /\ n \in 1..Len(pipe)
  /\ pipe' = SubSeq(pipe, n + 1, Len(pipe))
  /\ UNCHANGED <<object, main, invokes, readers, history>>

PeerClose ==
  /\ "client" \in readers
  /\ readers' = readers \ {"client"}
  /\ UNCHANGED <<object, main, invokes, pipe, history>>

-----------------------------------------------------------------------------
(* dbus_log_sender_new, followed by handing the descriptor to the client     *)
Init ==
  /\ done = FALSE /\ bye = FALSE /\ io = TRUE
  /\ watch = FALSE /\ attached = 0
  /\ buffer = <<>> /\ backlog = NormalizeBacklog(Backlog)
  /\ packet = NoPacket /\ written = 0 /\ current = NoMsg
  /\ main = Idle /\ invokes = 0
  /\ readers = IF KeepsReadfd THEN {"client", "server"} ELSE {"client"}
  /\ pipe = <<>>
  /\ accepted = 0 /\ dropped = {} /\ wire = <<>>

MainLoop == WriteCallback \/ WriteCallbackHup \/ RunInvoke
Writing  == WriteFixed \/ WriteData \/ PickNext \/ PingFill

SenderNext ==
  \/ MainLoop \/ Writing
  \/ \E t \in Threads, length \in Lengths : ThreadSend(t, length)
  \/ \E length \in Lengths : MainSend(length)
  \/ PingCheck \/ Close
  \/ \E n \in Backlogs : SetBacklog(n)
  \/ Dispose

Next ==
  \/ SenderNext
  \/ \E n \in 1..PipeCapacity : PeerRead(n)
  \/ PeerClose

Spec == Init /\ [][Next]_vars

(* The main loop runs and its callbacks finish; the client reads or leaves.  *)
MainFairness == WF_vars(MainLoop) /\ WF_vars(Writing)
PeerFairness == WF_vars((\E n \in 1..PipeCapacity : PeerRead(n)) \/ PeerClose)
FairSpec == Spec /\ MainFairness /\ PeerFairness

-----------------------------------------------------------------------------
(* Properties                                                                *)

(* The type invariant: every field of the object has a value the code can    *)
(* give it, the pipe is never overfilled, and no callback is counted twice.  *)
TypeOK ==
  /\ done \in BOOLEAN /\ bye \in BOOLEAN /\ io \in BOOLEAN /\ watch \in BOOLEAN
  /\ attached \in Nat /\ invokes \in Nat
  /\ buffer \in Seq(Message) /\ backlog \in Int
  /\ packet \in Packet /\ written \in Nat /\ current \in Message
  /\ main \in Main
  /\ readers \in SUBSET {"client", "server"}
  /\ pipe \in Seq(Unit) /\ Len(pipe) <= PipeCapacity
  /\ accepted \in Nat /\ dropped \in SUBSET Nat /\ wire \in Seq(Packet)

(* No lost wakeup: while the channel is open, an unfinished packet, a queued *)
(* message or an owed Bye always has somebody who is going to write it: an   *)
(* attached watch, a call pending in the main context, or the main thread    *)
(* which is inside write right now (schedule_write, send, close).            *)
NoLostWakeup ==
  io /\ (written < packet.size \/ buffer # <<>> \/ bye) =>
    attached > 0 \/ invokes > 0 \/ ~IsIdle

(* The places of the messages on the wire.                                   *)
Sent   == {i \in 1..Len(wire) : wire[i].type = "MESSAGE"}
OnWire == {wire[i].msg.index : i \in Sent}

(* Messages go in the order they were accepted in: those on the wire, the    *)
(* current one (which may be on the wire already), then the queue.           *)
InOrder ==
  /\ \A i, j \in Sent : i < j => wire[i].msg.index < wire[j].msg.index
  /\ current # NoMsg => \A i \in Sent : wire[i].msg.index <= current.index
  /\ \A i \in Sent, k \in 1..Len(buffer) : wire[i].msg.index < buffer[k].index
  /\ \A k \in 1..Len(buffer) : current.index < buffer[k].index
  /\ \A k, l \in 1..Len(buffer) : k < l => buffer[k].index < buffer[l].index

(* Every message dbus_log_sender_send accepted is on the wire, or is being   *)
(* sent, or waits in the queue, or was given up because the queue was full:  *)
(* none disappears. They go in the order they were accepted in, and Bye does *)
(* not go before the queue is flushed.                                       *)
NothingLost ==
  /\ 1..accepted \subseteq OnWire \cup dropped \cup IndicesOf(buffer) \cup {current.index}
  /\ InOrder
  /\ (\E i \in 1..Len(wire) : wire[i].type = "BYE") => 1..accepted = OnWire \cup dropped

(* Bye means "no more data to follow": nothing is on the wire after it, and  *)
(* once it is being sent no message is left in the sender.                   *)
ByeIsLast ==
  /\ \A i \in 1..Len(wire) : wire[i].type = "BYE" => i = Len(wire)
  /\ packet.type = "BYE" => buffer = <<>> /\ current = NoMsg /\ done /\ ~bye
  /\ packet.type = "MESSAGE" /\ written > 0 =>
       \A i \in 1..Len(wire) : wire[i].type # "BYE"

(* What the GASSERT in dbus_log_sender_send says: when a message is accepted *)
(* and no packet is being written, the sender holds no other message.        *)
SendFindsNoCurrent ==
  ~done /\ AllWritten /\ (IsIdle \/ Threads # {}) => current = NoMsg

(* The newest accepted message is never the one a full queue gives up, so    *)
(* that the client finds out about every loss from the next index it sees.   *)
NewestKept == accepted \notin dropped

(* write_watch_id tells the truth: it is set exactly while one watch is      *)
(* attached, so that shutdown leaves no callback behind to a freed object.   *)
OneWatch == attached = (IF watch /\ io THEN 1 ELSE 0) \/ ~IsIdle

(* A packet is replaced, or started again, only after all of it was written, *)
(* so that the client sees whole packets (unless the connection breaks).     *)
WholePackets ==
  [][(packet' # packet \/ written' < written) /\ io' => written = packet.size]_vars

(* Every accepted message eventually gets to the wire or is given up by a    *)
(* full queue, unless the connection breaks.                                 *)
EventuallySent ==
  \A i \in 1..MaxMessages : accepted >= i ~> (i \in OnWire \cup dropped \/ ~io)

(* Closing a sender eventually closes the pipe, and a client which is gone   *)
(* is eventually noticed if there is anything to send to it.                 *)
EventuallyClosed == done ~> ~io
=============================================================================
