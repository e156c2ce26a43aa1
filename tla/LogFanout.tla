----------------------------- MODULE LogFanout -----------------------------
(***************************************************************************)
(* The part of DBusLogCore (server/src/dbuslog_core.c) which gives a log   *)
(* message to the senders of all clients.  Senders are added and removed   *)
(* by the main thread; any thread may log.  The array of senders is never  *)
(* changed, it is replaced by a new one, so that a message goes to those   *)
(* senders which were there when it was logged.                            *)
(*                                                                         *)
(* A sender is what it is for the core: it takes messages until it is told *)
(* to close, and it emits CLOSED when its channel has gone, which may be   *)
(* in the middle of dbus_log_sender_send called by the main thread.        *)
(***************************************************************************)
EXTENDS Integers, Sequences, SequencesExt

CONSTANTS
  Threads,   (* Logging threads other than the main one.                    *)
  Main,      (* The main thread.                                            *)
  Senders,   (* Senders which may be created.                               *)
  MaxCalls,  (* Bound on the number of messages logged.                     *)
  Modulus,   (* Indices of messages are counted modulo this (2^32).         *)
  Backlogs   (* Values for dbus_log_core_set_backlog.                       *)

Loggers == Threads \cup {Main}

ASSUME FanoutConstants ==
  /\ Main \notin Threads
  /\ MaxCalls \in Nat /\ Modulus \in Nat \ {0} /\ Backlogs \subseteq Int

VARIABLES
  senders,         (* The array of senders.                                 *)
  handlers,        (* Keys of sender_signal_ids: CLOSED is connected.       *)
  status,          (* Of each sender.                                       *)
  limit,           (* The queue limit of each sender.                       *)
  backlog,         (* The queue limit of the core.                          *)
  next_msg_index,
  disposed,        (* The last reference to the core is gone.               *)
  log,             (* What each thread does inside dbus_log_core_log.       *)
  handling,        (* The main thread runs handlers of CLOSED inside of it. *)
  got,             (* History: what each sender was given and took.         *)
  audience,        (* History: the array at the time of each message.       *)
  overlapped       (* History: two threads have been logging at once.       *)

vars == <<senders, handlers, status, limit, backlog, next_msg_index, disposed, log,
          handling, got, audience, overlapped>>

Status == {"none", "open", "closing", "closed"}
Elements(array) == {array[i] : i \in 1..Len(array)}

Quiet == [pc |-> "idle", call |-> 0, snapshot |-> <<>>, next |-> 0, index |-> 0]

(* Handlers of CLOSED may call the core again (comments in                   *)
(* dbus_log_core_new_sender and dbus_log_core_remove_sender).                *)
MainIsFree == log[Main].pc = "idle" \/ handling

-----------------------------------------------------------------------------
(* Adding and removing senders                                               *)

Unlimited == -1
DefaultBacklog == 1000
NormalizeBacklog(n) ==
  IF n > 0 THEN n ELSE IF n = 0 THEN DefaultBacklog ELSE Unlimited

NewLimit == backlog

(* dbus_log_core_new_sender                                                  *)
NewSender(s) ==
  /\ MainIsFree /\ ~disposed /\ status[s] = "none"
  /\ status' = [status EXCEPT ![s] = "open"]
  /\ limit' = [limit EXCEPT ![s] = NewLimit]
  /\ senders' = Append(senders, s)
  /\ handlers' = handlers \cup {s}
  /\ UNCHANGED <<backlog, next_msg_index, log, got, audience, overlapped, disposed, handling>>

Position(s) ==
  CHOOSE i \in 1..Len(senders) : senders[i] = s /\ \A j \in 1..i - 1 : senders[j] # s

(* (mutant) The array loses its last sender.                                 *)
RemovalOfLast(s) ==
  IF s \in Elements(senders)
  THEN /\ senders' = RemoveAt(senders, Len(senders))
       /\ handlers' = handlers \ {s}
  ELSE UNCHANGED <<senders, handlers>>

(* dbus_log_core_remove_sender: nothing happens if it is not there.          *)
Removal(s) ==
  IF s \in Elements(senders)
  THEN /\ senders' = RemoveAt(senders, Position(s))
       /\ handlers' = handlers \ {s}
  ELSE UNCHANGED <<senders, handlers>>

RemoveSender(s) ==
  /\ MainIsFree /\ ~disposed /\ s \in Elements(senders)
  /\ Removal(s)
  /\ UNCHANGED <<status, limit, backlog, next_msg_index, log, got, audience, overlapped,
                 disposed, handling>>

(* A sender lets its channel go and emits CLOSED, which the core handles if  *)
(* it is still connected.                                                    *)
Closed(s) ==
  /\ status' = [status EXCEPT ![s] = "closed"]
  /\ IF s \in handlers THEN Removal(s) ELSE UNCHANGED <<senders, handlers>>

(* The main loop, or the owner of the sender, finds it cannot be written to, *)
(* or that its queue is flushed after it was closed.                         *)
SenderCloses(s) ==
  /\ MainIsFree /\ status[s] \in {"open", "closing"}
  /\ Closed(s)
  /\ UNCHANGED <<limit, backlog, next_msg_index, log, got, audience, overlapped, disposed,
                 handling>>

(* dbus_log_sender_close by the owner: nothing is taken any more, but the    *)
(* sender stays in the array until it has got rid of its queue.              *)
CloseSender(s) ==
  /\ MainIsFree /\ status[s] = "open"
  /\ status' = [status EXCEPT ![s] = "closing"]
  /\ UNCHANGED <<senders, handlers, limit, backlog, next_msg_index, log, got, audience,
                 overlapped, disposed, handling>>

(* dbus_log_core_dispose, which cannot come while a thread logs. The senders *)
(* which nobody else refers to close with it, and the core does not hear it. *)
Dispose ==
  /\ ~disposed /\ \A t \in Loggers : log[t].pc = "idle"
  /\ disposed' = TRUE
  /\ senders' = <<>> /\ handlers' = handlers \ Elements(senders)
  /\ \E unowned \in SUBSET Elements(senders) :
       status' = [s \in Senders |-> IF s \in unowned THEN "closed" ELSE status[s]]
  /\ UNCHANGED <<limit, backlog, next_msg_index, log, got, audience, overlapped, handling>>

(* dbus_log_core_set_backlog: nothing happens if it is what it was.          *)
SetBacklog(n) ==
  /\ MainIsFree /\ ~disposed /\ NormalizeBacklog(n) # backlog
  /\ backlog' = NormalizeBacklog(n)
  /\ limit' = [s \in Senders |->
                 IF s \in Elements(senders) THEN backlog' ELSE limit[s]]
  /\ UNCHANGED <<senders, handlers, status, next_msg_index, log, got, audience, overlapped,
                 disposed, handling>>

-----------------------------------------------------------------------------
(* Logging                                                                   *)

(* dbus_log_core_should_log, for a message which passes the filters, and the *)
(* snapshot of the array.                                                    *)
Begin(t) ==
  /\ log[t].pc = "idle" /\ ~disposed /\ Len(audience) < MaxCalls
  /\ senders # <<>>
  /\ log' = [log EXCEPT ![t] = [pc |-> "load", call |-> Len(audience) + 1,
                                snapshot |-> senders, next |-> 1, index |-> 0]]
  /\ audience' = Append(audience, Elements(senders))
  /\ overlapped' = (overlapped \/ \E u \in Loggers : log[u].pc # "idle")
  /\ UNCHANGED <<senders, handlers, status, limit, backlog, next_msg_index, got, disposed,
                 handling>>

(* (mutant) The index is not advanced.                                       *)
SameIndex(index) == index
NextIndex(index) == (index + 1) % Modulus

(* message->index = self->next_msg_index++ is a load and a store.            *)
LoadIndex(t) ==
  /\ log[t].pc = "load"
  /\ log' = [log EXCEPT ![t].pc = "store", ![t].index = next_msg_index]
  /\ UNCHANGED <<senders, handlers, status, limit, backlog, next_msg_index, got,
                 audience, overlapped, disposed, handling>>

StoreIndex(t) ==
  /\ log[t].pc = "store"
  /\ next_msg_index' = NextIndex(log[t].index)
  /\ log' = [log EXCEPT ![t].pc = "send"]
  /\ UNCHANGED <<senders, handlers, status, limit, backlog, got, audience, overlapped,
                 disposed, handling>>

(* (mutant) The loop runs over the array of the core itself.                 *)
ReceiversLive(t) == senders

Receivers(t) == log[t].snapshot

(* One turn of the loop in dbus_log_core_send. A sender which is not open    *)
(* takes nothing.                                                            *)
Give(t) ==
  LET s == Receivers(t)[log[t].next]
  IN  /\ log[t].pc = "send" /\ log[t].next <= Len(Receivers(t))
      /\ log' = [log EXCEPT ![t].next = @ + 1]
      /\ got' = IF status[s] = "open"
                THEN [got EXCEPT ![s] =
                        Append(@, [call |-> log[t].call, index |-> log[t].index])]
                ELSE got
      /\ UNCHANGED <<limit, backlog, next_msg_index, audience, overlapped, disposed>>

GiveAndGoOn(t) ==
  /\ Give(t)
  /\ UNCHANGED <<senders, handlers, status, handling>>

(* On the main thread the write may fail at once, the sender closes and the  *)
(* core replaces the array before the loop goes on.  Other handlers of       *)
(* CLOSED are next.                                                          *)
GiveAndClose ==
  /\ ~handling /\ Give(Main)
  /\ handling' = TRUE
  /\ LET s == Receivers(Main)[log[Main].next]
     IN  status[s] \in {"open", "closing"} /\ Closed(s)

(* All of the handlers have returned, and the loop goes on.                  *)
HandlersReturn ==
  /\ handling /\ handling' = FALSE
  /\ UNCHANGED <<senders, handlers, status, limit, backlog, next_msg_index, disposed, log,
                 got, audience, overlapped>>

Finish(t) ==
  /\ log[t].pc = "send" /\ log[t].next > Len(Receivers(t))
  /\ log' = [log EXCEPT ![t] = Quiet]
  /\ UNCHANGED <<senders, handlers, status, limit, backlog, next_msg_index, got,
                 audience, overlapped, disposed, handling>>

Log(t) ==
  /\ t = Main => ~handling
  /\ Begin(t) \/ LoadIndex(t) \/ StoreIndex(t) \/ GiveAndGoOn(t) \/ Finish(t)

-----------------------------------------------------------------------------
(* dbus_log_core_new                                                         *)
Init ==
  /\ senders = <<>> /\ handlers = {}
  /\ status = [s \in Senders |-> "none"]
  /\ limit = [s \in Senders |-> 0] /\ backlog = DefaultBacklog
  /\ next_msg_index = 0
  /\ log = [t \in Loggers |-> Quiet]
  /\ got = [s \in Senders |-> <<>>] /\ audience = <<>>
  /\ overlapped = FALSE /\ disposed = FALSE /\ handling = FALSE

Next ==
  \/ \E s \in Senders :
       NewSender(s) \/ RemoveSender(s) \/ SenderCloses(s) \/ CloseSender(s)
  \/ Dispose
  \/ \E n \in Backlogs : SetBacklog(n)
  \/ \E t \in Loggers : Log(t)
  \/ GiveAndClose
  \/ HandlersReturn

Spec == Init /\ [][Next]_vars

-----------------------------------------------------------------------------
(* Properties                                                                *)

(* A sender which has closed its channel is not kept in the array, and the   *)
(* core listens to a sender exactly as long as the sender is in the array,   *)
(* once, so that what a sender tells the core when it closes is never about  *)
(* somebody else or a freed core. All of them have the limit of the core.    *)
SendersMatch ==
  /\ \A s \in Elements(senders) : status[s] # "closed" /\ limit[s] = backlog
  /\ handlers = Elements(senders) /\ IsInjective(senders)

(* Each message reaches all the senders which were there when it was logged  *)
(* and are still open, each of them once, no matter which senders came or    *)
(* went while the loop was running.                                          *)
Finished(k) == \A t \in Loggers : log[t].call # k
CallsOf(s) == [i \in 1..Len(got[s]) |-> got[s][i].call]
Broadcast ==
  /\ \A s \in Senders : IsInjective(CallsOf(s))
  /\ \A k \in 1..Len(audience) : Finished(k) =>
       \A s \in audience[k] : status[s] = "open" => k \in Elements(CallsOf(s))

(* As long as no two threads have been logging at once, each sender gets     *)
(* consecutive indices from the time it was added; this is what the receiver *)
(* counts on when it computes how many messages it has missed. (Overlapping  *)
(* calls may load the same index, see LoadIndex.)                            *)
Consecutive ==
  ~overlapped => \A s \in Senders : \A i \in 1..Len(got[s]) - 1 :
    got[s][i + 1].index = (got[s][i].index + 1) % Modulus

=============================================================================
