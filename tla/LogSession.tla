----------------------------- MODULE LogSession -----------------------------
(***************************************************************************)
(* The sessions of DBusLogClient objects (client/src/dbuslog_client.c): an *)
(* object connects when the name of the service appears, asks for a stream *)
(* by itself (DBUSLOG_CLIENT_FLAG_AUTOSTART) or when it is told to, and    *)
(* has to make sense of answers which come late, in any number, or after   *)
(* the application has lost interest.                                      *)
(*                                                                         *)
(* All objects live in one process, so that the server knows all of them   *)
(* by one name and has one stream for them.  The server is what LogPeers   *)
(* shows of it.  What is read from streams is the matter of LogStream,     *)
(* here a stream is open, or its end can be read.                          *)
(***************************************************************************)
EXTENDS Integers, Sequences, FiniteSets

CONSTANTS
  Objects,   (* DBusLogClient objects.                                      *)
  MaxCalls,  (* Bound on the number of D-Bus calls.                         *)
  MaxLives   (* Bound on the number of times the server is started.         *)

ASSUME SessionConstants ==
  /\ IsFiniteSet(Objects) /\ 0 \notin Objects
  /\ MaxCalls \in Nat /\ MaxLives \in Nat

VARIABLES
  objects,  (* The state of each object.                                    *)
  calls,    (* Calls and initializations which have not finished.           *)
  requests, (* Calls on their way to the server.                            *)
  events,   (* Answers and name changes on their way to the objects.        *)
  streams,  (* The state of each stream there has been.                     *)
  server,   (* Whether it is up, lets the process open a stream, how often  *)
            (* it has been started, and the peer it has.                    *)
  made,     (* The number of calls made.                                    *)
  dropped   (* History: streams whose answer came for a cancelled call.     *)

vars == <<objects, calls, requests, events, streams, server, made, dropped>>

None == 0
NoPeer == [stream |-> None, object |-> None]

(* held: the application has a reference. proxy: the life of the server it   *)
(* is connected to. sound: no assertion of finalize has failed.              *)
NewObject(flag) ==
  [held |-> TRUE, alive |-> TRUE, autostarts |-> flag, proxy |-> None,
   init |-> None, autostart |-> None, started |-> FALSE, receiver |-> None,
   cookie |-> None, sound |-> TRUE]

Request(type, k, o) ==
  [type |-> type, call |-> k, object |-> o, life |-> objects[o].proxy]
Event(type, k, o, s) ==
  [type |-> type, call |-> k, object |-> o, stream |-> s, life |-> server.lives]
CallOf(k, o) == [call |-> k, object |-> o, cancelled |-> FALSE]
Pending(k) == \E c \in calls : c.call = k /\ ~c.cancelled

Cancelled(all, k) ==
  {[c EXCEPT !.cancelled = @ \/ c.call = k] : c \in all}

-----------------------------------------------------------------------------
(* The state of one object                                                   *)

(* (mutant) The call is cancelled but still counts as the automatic one.     *)
StoppedCarelessly(x) == [x EXCEPT !.receiver = None, !.started = FALSE]

(* dbus_log_client_stop and dbus_log_client_disconnect; the call itself is   *)
(* cancelled by Cancelled.                                                   *)
Stopped(x) == [x EXCEPT !.autostart = None, !.receiver = None, !.started = FALSE]

(* (mutant) The stream is left alone when the server has gone.               *)
DisconnectedOnly(x) == [x EXCEPT !.proxy = None]
Disconnected(x) == [Stopped(x) EXCEPT !.proxy = None]

(* (mutant) A stream which is there already is kept.                         *)
StartedOnce(x, s) ==
  IF x.started THEN x ELSE [Stopped(x) EXCEPT !.receiver = s, !.started = TRUE, !.cookie = 1]

Started(x, s) ==
  [Stopped(x) EXCEPT !.receiver = s, !.started = TRUE, !.cookie = 1]

(* The last reference has gone: dbus_log_client_finalize.                    *)
Released(x, o, left) == x.alive /\ ~x.held /\ \A c \in left : c.object # o
Finalized(x) ==
  [Disconnected(x) EXCEPT !.alive = FALSE,
                          !.sound = x.init = None /\ x.autostart = None]

(* (mutant) LogClose is not called, the end of the pipe has to do.           *)
NoFarewell(x, o) == <<>>
Farewell(x, o) ==
  IF x.proxy # None /\ x.cookie # None
  THEN <<[type |-> "LogClose", call |-> None, object |-> o, life |-> x.proxy]>>
  ELSE <<>>

(* Object o becomes x, `left' are the calls which are still there, and sent  *)
(* the requests it makes; every call has a reference to its object.          *)
Become(o, x, left, sent) ==
  LET final == Released(x, o, left)
  IN /\ objects' = [objects EXCEPT ![o] = IF final THEN Finalized(x) ELSE x]
     /\ calls' = left
     /\ requests' = requests \o sent \o (IF final THEN Farewell(x, o) ELSE <<>>)

-----------------------------------------------------------------------------
(* What the application does                                                 *)

(* dbus_log_client_start                                                     *)
AppStart(o) ==
  LET x == objects[o]
      k == made + 1
  IN /\ x.held /\ x.proxy # None /\ made < MaxCalls
     /\ made' = k
     /\ Become(o, x, calls \cup {CallOf(k, o)}, <<Request("LogOpen", k, o)>>)
     /\ UNCHANGED <<events, streams, server, dropped>>

(* dbus_log_client_call_cancel, for a call the application has made.         *)
AppCancel(c) ==
  /\ ~c.cancelled /\ objects[c.object].held
  /\ c.call \notin {objects[c.object].autostart, objects[c.object].init}
  /\ calls' = Cancelled(calls, c.call)
  /\ UNCHANGED <<objects, requests, events, streams, server, made, dropped>>

AppUnref(o) ==
  /\ objects[o].held
  /\ Become(o, [objects[o] EXCEPT !.held = FALSE], calls, <<>>)
  /\ UNCHANGED <<events, streams, server, made, dropped>>

-----------------------------------------------------------------------------
(* What the main loop does for the objects                                   *)

Receive(type) ==
  /\ events # <<>> /\ Head(events).type = type
  /\ events' = Tail(events)
Finished(k) == {c \in calls : c.call # k}

(* dbus_log_client_name_appeared: the initialization is a sequence of calls  *)
(* (CategoryMirror); the last one, GetAll, stands for them.                  *)
NameAppeared ==
  LET o == Head(events).object
      k == made + 1
      x == [objects[o] EXCEPT !.init = k]
      asked == [type |-> "GetAll", call |-> k, object |-> o,
                life |-> Head(events).life]
  IN /\ Receive("Appeared")
     /\ IF objects[o].alive
        THEN made' = k
             /\ Become(o, x, Cancelled(calls, objects[o].init) \cup {CallOf(k, o)}, <<asked>>)
        ELSE UNCHANGED <<objects, calls, requests, made>>
     /\ UNCHANGED <<streams, server, dropped>>

NameVanished ==
  LET o == Head(events).object
      x == objects[o]
      given_up == Cancelled(Cancelled(calls, x.init), x.autostart)
  IN /\ Receive("Vanished")
     /\ IF x.alive THEN Become(o, [Disconnected(x) EXCEPT !.init = None], given_up, <<>>)
        ELSE UNCHANGED <<objects, calls, requests>>
     /\ UNCHANGED <<streams, server, made, dropped>>

(* (mutant) The stream is started by itself on the first connection only.    *)
StartsItselfOnce(x) == x.autostarts /\ x.cookie = None
StartsItself(x) == x.autostarts

(* dbus_log_client_connected: a handler of the application may start the     *)
(* stream (n = 1) before the object does, if it is to start automatically.   *)
Connected ==
  LET o == Head(events).object
      k == Head(events).call
      life == Head(events).life
      x == [Stopped(objects[o]) EXCEPT !.proxy = life, !.init = None]
      rest == Cancelled(Finished(k), objects[o].autostart)
      Open(j) == [type |-> "LogOpen", call |-> j, object |-> o, life |-> life]
  IN /\ Receive("Initialized") /\ Pending(k)
     /\ \E n \in IF x.held /\ made < MaxCalls THEN {0, 1} ELSE {0} :
          LET last == made + n + (IF StartsItself(x) THEN 1 ELSE 0)
          IN /\ made' = last
             /\ Become(o, [x EXCEPT !.autostart = IF StartsItself(x) THEN last ELSE None],
                       rest \cup {CallOf(j, o) : j \in made + 1..last},
                       [i \in 1..last - made |-> Open(made + i)])
     /\ UNCHANGED <<streams, server, dropped>>

(* dbus_log_client_start_finished and dbus_log_client_started. The receiver  *)
(* there was is closed; the automatic start is cancelled if there is one,    *)
(* which may be this very call.                                              *)
StartFinished ==
  LET o == Head(events).object
      x == objects[o]
  IN /\ Receive("Opened") /\ Pending(Head(events).call)
     /\ Become(o, Started(x, Head(events).stream),
               Cancelled(Finished(Head(events).call), x.autostart), <<>>)
     /\ UNCHANGED <<streams, server, made, dropped>>

(* An error: of the initialization, of the automatic start or another one.   *)
Failed(x, k) ==
  [x EXCEPT !.init = IF @ = k THEN None ELSE @,
            !.autostart = IF @ = k THEN None ELSE @]
CallFailed ==
  LET o == Head(events).object
      k == Head(events).call
  IN /\ Receive("Failed") /\ Pending(k)
     /\ Become(o, Failed(objects[o], k), Finished(k), <<>>)
     /\ UNCHANGED <<streams, server, made, dropped>>

(* The answer to a call which was cancelled is thrown away by GDBus, with    *)
(* the descriptor in it.                                                     *)
LateAnswer ==
  /\ events # <<>> /\ Head(events).type \in {"Initialized", "Opened", "Failed"}
  /\ ~Pending(Head(events).call)
  /\ events' = Tail(events)
  /\ dropped' = dropped \cup ({Head(events).stream} \ {None})
  /\ UNCHANGED <<objects, calls, requests, streams, server, made>>

(* A call which was cancelled finishes, with an error and no callback.       *)
CancelledFinished(c) ==
  /\ c.cancelled
  /\ Become(c.object, objects[c.object], calls \ {c}, <<>>)
  /\ UNCHANGED <<events, streams, server, made, dropped>>

(* dbus_log_client_receiver_closed                                           *)
ReceiverClosed(o) ==
  /\ objects[o].receiver # None /\ streams[objects[o].receiver] = "ended"
  /\ Become(o, Stopped(objects[o]), Cancelled(calls, objects[o].autostart), <<>>)
  /\ UNCHANGED <<events, streams, server, made, dropped>>

-----------------------------------------------------------------------------
(* The server and the bus                                                    *)

(* Calls go to the server which owned the name, or fail.                     *)
Handled(request) == server.up /\ request.life = server.lives
EndOf(s) == [n \in DOMAIN streams |-> IF n = s THEN "ended" ELSE streams[n]]

Serve ==
  LET request == Head(requests)
      k == request.call
      o == request.object
      s == Len(streams) + 1
  IN /\ requests # <<>>
     /\ requests' = Tail(requests)
     /\ CASE ~Handled(request) ->
               /\ events' = IF k = None THEN events
                            ELSE Append(events, Event("Failed", k, o, None))
               /\ UNCHANGED <<streams, server>>
          [] Handled(request) /\ request.type = "GetAll" ->
               /\ events' = Append(events, Event("Initialized", k, o, None))
               /\ UNCHANGED <<streams, server>>
          [] Handled(request) /\ request.type = "LogOpen" /\ ~server.allows ->
               /\ events' = Append(events, Event("Failed", k, o, None))
               /\ UNCHANGED <<streams, server>>
          [] Handled(request) /\ request.type = "LogOpen" /\ server.allows ->
               /\ events' = Append(events, Event("Opened", k, o, s))
               /\ streams' = Append(EndOf(server.peer.stream), "open")
               /\ server' = [server EXCEPT !.peer = [stream |-> s, object |-> o]]
          [] Handled(request) /\ request.type = "LogClose" ->
               /\ streams' = EndOf(server.peer.stream)
               /\ server' = [server EXCEPT !.peer = NoPeer]
               /\ UNCHANGED events
     /\ UNCHANGED <<objects, calls, made, dropped>>

(* Every object watches the name.                                            *)
Tell(type, life) ==
  LET all == CHOOSE f \in [1..Cardinality(Objects) -> Objects] :
               \A o \in Objects : \E i \in DOMAIN f : f[i] = o
  IN [i \in DOMAIN all |-> [Event(type, None, all[i], None) EXCEPT !.life = life]]

ServerStarts ==
  /\ ~server.up /\ server.lives < MaxLives
  /\ \E allows \in BOOLEAN :
       server' = [up |-> TRUE, allows |-> allows, lives |-> server.lives + 1, peer |-> NoPeer]
  /\ events' = events \o Tell("Appeared", server.lives + 1)
  /\ UNCHANGED <<objects, calls, requests, streams, made, dropped>>

ServerDies ==
  /\ server.up
  /\ server' = [server EXCEPT !.up = FALSE, !.peer = NoPeer]
  /\ events' = events \o Tell("Vanished", server.lives)
  /\ streams' = [n \in DOMAIN streams |-> "ended"]
  /\ UNCHANGED <<objects, calls, requests, made, dropped>>

-----------------------------------------------------------------------------
Init ==
  /\ \E flags \in [Objects -> BOOLEAN] :
       objects = [o \in Objects |-> NewObject(flags[o])]
  /\ calls = {} /\ requests = <<>> /\ events = <<>> /\ streams = <<>>
  /\ server = [up |-> FALSE, allows |-> FALSE, lives |-> 0, peer |-> NoPeer]
  /\ made = 0 /\ dropped = {}

Dispatch ==
  \/ NameAppeared \/ NameVanished \/ Connected \/ StartFinished \/ CallFailed
  \/ LateAnswer \/ \E c \in calls : CancelledFinished(c)

Next ==
  \/ Dispatch \/ Serve \/ ServerStarts \/ ServerDies
  \/ \E c \in calls : AppCancel(c)
  \/ \E o \in Objects : AppStart(o) \/ AppUnref(o) \/ ReceiverClosed(o)

Spec == Init /\ [][Next]_vars

FairSpec ==
  /\ Spec /\ WF_vars(Dispatch) /\ WF_vars(Serve)
  /\ \A o \in Objects : WF_vars(ReceiverClosed(o))

-----------------------------------------------------------------------------
(* Properties                                                                *)

(* The descriptor of a stream has one owner: an answer which nobody has read *)
(* yet, or one receiver. An object is started if and only if it has one, and *)
(* nothing of it is left when it has been finalized.                         *)
Answers(s) == {i \in DOMAIN events : events[i].stream = s}
OneOwner ==
  /\ \A s \in DOMAIN streams :
       Cardinality(Answers(s)) + Cardinality({o \in Objects : objects[o].receiver = s}) <= 1
  /\ \A o \in Objects : objects[o].started <=> objects[o].receiver # None
  /\ \A o \in Objects : ~objects[o].alive =>
       objects[o].receiver = None /\ \A c \in calls : c.object # o

(* GASSERT(!priv->init) and GASSERT(!priv->autostart) of finalize: however   *)
(* an initialization or an automatic start ends, it is noted.                *)
FinalizedInOrder == \A o \in Objects : objects[o].sound

(* The stream which the server believes its client reads is read, or it is   *)
(* going to be, or to be closed; unless its answer came too late, that is,   *)
(* for a call which the application or an object itself had cancelled.       *)
CurrentIsRead ==
  LET s == server.peer.stream
  IN s # None =>
       \/ s \in dropped \/ Answers(s) # {}
       \/ \E o \in Objects : objects[o].receiver = s
       \/ \E i \in DOMAIN requests :
            requests[i].type = "LogClose" /\ requests[i].life = server.lives

(* An object which starts automatically is started in the end as long as the *)
(* server is there, whatever was in flight when an earlier one died; unless  *)
(* the server has been asked for another stream in the name of the process.  *)
Disturbed(o) ==
  \/ server.peer.stream \in dropped
  \/ server.peer.object \notin {None, o}
  \/ \E p \in Objects \ {o} : ~objects[p].alive
Waiting(o) ==
  /\ objects[o].held /\ objects[o].autostarts /\ ~objects[o].started
  /\ server.up /\ server.allows /\ ~Disturbed(o)
EventuallyStarted == \A o \in Objects : Waiting(o) ~> ~Waiting(o)

(* The server forgets a client object which has had a stream when the object *)
(* has been finalized, although the process is still on the bus.             *)
Forgotten(o) == server.peer.object # o
GoneIsClosed ==
  \A o \in Objects :
    (~objects[o].alive /\ objects[o].cookie # None /\ ~Forgotten(o)) ~> Forgotten(o)
=============================================================================
