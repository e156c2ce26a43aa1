------------------------------ MODULE LogPeers ------------------------------
(***************************************************************************)
(* The peers of a log server: the clients which have opened a stream       *)
(* (server/src/dbuslog_server.c), and how each of the two back-ends, GIO   *)
(* (server/src/gio) and libdbus (server/src/dbus), finds out that one of   *)
(* them has left the bus.                                                  *)
(*                                                                         *)
(* The GIO back-end asks GDBus to watch a name and is called when it has   *)
(* gone. The libdbus back-end does that itself: it adds a match rule and   *)
(* asks for the owner of the name, and then listens to NameOwnerChanged    *)
(* and to the answer. A stream is a pipe: the client has one end, and the  *)
(* libdbus server also keeps that end for itself.                          *)
(***************************************************************************)
EXTENDS Integers, Sequences, FiniteSets, SequencesExt

CONSTANTS
  Clients,   (* Unique names of clients. A name is never used again.        *)
  Modulus,   (* Watch ids are counted modulo this (the width of gulong).    *)
  FirstId,   (* last_watch_id of a server which has had its share of peers. *)
  MaxCalls,  (* Bound on the number of method calls of the clients.         *)
  MaxStops   (* Bound on the number of times the server is stopped.         *)

ASSUME PeerConstants ==
  /\ IsFiniteSet(Clients) /\ 0 \notin Clients
  /\ Modulus \in Nat /\ Modulus > Cardinality(Clients) + 1
  /\ FirstId \in 0..Modulus - 1
  /\ MaxCalls \in Nat /\ MaxStops \in Nat

VARIABLES
  api,       (* The back-end, "gio" or "libdbus".                           *)
  server,    (* started, exported: DBusLogServer. bus: the GIO connection.  *)
             (* listening: the object, or the filter, is there.             *)
  peers,     (* priv->peers, by name: the number of a stream and a watch id.*)
  streams,   (* The streams there have been.                                *)
  watching,  (* The two tables of watches, last_watch_id, and the requests  *)
             (* on their way to the D-Bus daemon.                           *)
  inbox,     (* Messages on their way from the daemon to the server.        *)
  rules,     (* The number of match rules the daemon has for each name.     *)
  alive,     (* Clients which are on the bus.                               *)
  missed,    (* History: names which left while the server did not listen.  *)
  stops

vars == <<api, server, peers, streams, watching, inbox, rules, alive, missed,
          stops>>

Nobody == 0       (* In place of a client.                                  *)
NoPeer == [stream |-> 0, watch_id |-> 0]
NoWatch == [refs |-> 0, pending |-> 0, vanished |-> FALSE]
Ids == 1..Modulus - 1
Live == server.bus # "gone"

Message(type, c, serial, gone) ==
  [type |-> type, name |-> c, serial |-> serial, gone |-> gone]

-----------------------------------------------------------------------------
(* Watching names                                                            *)

(* The next id which is neither zero nor in use, going on from the last one. *)
NextId(w) ==
  LET free == {id \in Ids : w.ids[id] = Nobody}
      later == {id \in free : id > w.last}
  IN Min(IF later # {} THEN later ELSE free)

(* (mutant) The owner is asked for before the rule is added.                 *)
QuestionFirst(c, serial) ==
  <<Message("GetNameOwner", c, serial, FALSE), Message("AddMatch", c, 0, FALSE)>>

Questions(c, serial) ==
  <<Message("AddMatch", c, 0, FALSE), Message("GetNameOwner", c, serial, FALSE)>>

(* (mutant) The reference is not counted if the name is watched already.     *)
NamesWatchedOnce(names, c, serial) ==
  IF names[c].refs > 0 THEN names
  ELSE [names EXCEPT ![c] = [refs |-> 1, pending |-> serial, vanished |-> FALSE]]

(* DBusLogNameWatch is shared by the ids for a name.                         *)
NamesWatched(names, c, serial) ==
  IF names[c].refs > 0 THEN [names EXCEPT ![c].refs = @ + 1]
  ELSE [names EXCEPT ![c] = [refs |-> 1, pending |-> serial, vanished |-> FALSE]]

WatchName(w, c, serial) ==
  LET id == NextId(w)
      new == w.names[c].refs = 0
      numbered == [w EXCEPT !.last = id, !.ids[id] = c]
  IN IF api = "gio" THEN numbered
     ELSE [numbered EXCEPT
             !.names = NamesWatched(@, c, serial),
             !.requests = IF new THEN @ \o Questions(c, serial) ELSE @]

(* (mutant) The match rule is not removed.                                   *)
UnrefKeepsRule(w, c) ==
  [w EXCEPT !.names[c] = IF @.refs > 1 THEN [@ EXCEPT !.refs = @ - 1] ELSE NoWatch]

WatchUnref(w, c) ==
  IF w.names[c].refs > 1 THEN [w EXCEPT !.names[c].refs = @ - 1]
  ELSE [w EXCEPT !.names[c] = NoWatch,
                 !.requests = Append(@, Message("RemoveMatch", c, 0, FALSE))]

UnwatchName(w, id) ==
  LET forgotten == [w EXCEPT !.ids[id] = Nobody]
  IN IF api = "gio" THEN forgotten ELSE WatchUnref(forgotten, w.ids[id])

-----------------------------------------------------------------------------
(* Peers and their streams                                                   *)

(* (mutant) The sender is released but not closed.                           *)
StreamLeft(all, s) == all

(* dbus_log_sender_close: the stream ends when what is in it has been read.  *)
StreamClosed(all, s) ==
  [all EXCEPT ![s].state = IF @ = "open" THEN "closing" ELSE @]

(* The peer of a name is taken out of the table and destroyed, if any.       *)
PeerDestroyed(w, c) ==
  IF peers[c] = NoPeer THEN w ELSE UnwatchName(w, peers[c].watch_id)
StreamsWithout(c) ==
  IF peers[c] = NoPeer THEN streams ELSE StreamClosed(streams, peers[c].stream)

RemovePeer(w, c) ==
  /\ watching' = PeerDestroyed(w, c)
  /\ streams' = StreamsWithout(c)
  /\ peers' = [peers EXCEPT ![c] = NoPeer]

(* (mutant) The descriptor which GUnixFDList owns is left with the sender.   *)
ReadfdLeft == TRUE
(* GUnixFDList takes the descriptor over, libdbus duplicates it.             *)
ReadfdKept == api = "libdbus"

NewStream(c) == [name |-> c, state |-> "open", full |-> FALSE,
                 kept |-> ReadfdKept, away |-> c \in alive]

(* The client watched first, the peer it may have had destroyed after that.  *)
Opened(c) ==
  LET s == Len(streams) + 1
      watched == WatchName(watching, c, s)
  IN /\ watching' = PeerDestroyed(watched, c)
     /\ streams' = Append(StreamsWithout(c), NewStream(c))
     /\ peers' = [peers EXCEPT ![c] = [stream |-> s, watch_id |-> watched.last]]

-----------------------------------------------------------------------------
(* What the server does with a message                                       *)

Receive(type) ==
  /\ inbox # <<>> /\ Head(inbox).type = type
  /\ inbox' = Tail(inbox)

(* A client which has gone may be refused, the daemon knows nothing of it.   *)
HandleOpen ==
  LET c == Head(inbox).name
  IN /\ Receive("LogOpen")
     /\ \/ server.listening /\ Opened(c)
        \/ /\ ~server.listening \/ c \notin alive
           /\ UNCHANGED <<peers, streams, watching>>
     /\ UNCHANGED <<api, server, rules, alive, missed, stops>>

HandleClose ==
  /\ Receive("LogClose")
  /\ IF server.listening THEN RemovePeer(watching, Head(inbox).name)
     ELSE UNCHANGED <<peers, streams, watching>>
  /\ UNCHANGED <<api, server, rules, alive, missed, stops>>

(* (mutant) The watch is marked, but the peer stays.                          *)
VanishedUntold(c) ==
  /\ watching' = [watching EXCEPT !.names[c].vanished = TRUE]
  /\ UNCHANGED <<peers, streams>>

Vanished(c) == RemovePeer([watching EXCEPT !.names[c].vanished = TRUE], c)

(* NameOwnerChanged goes to the filter, which a stopped server has not got.  *)
HandleNameOwnerChanged ==
  LET c == Head(inbox).name
      watch == watching.names[c]
  IN /\ Receive("NameOwnerChanged")
     /\ IF server.listening /\ watch.refs > 0 /\ ~watch.vanished THEN Vanished(c)
        ELSE UNCHANGED <<peers, streams, watching>>
     /\ missed' = IF server.listening THEN missed ELSE missed \cup {c}
     /\ UNCHANGED <<api, server, rules, alive, stops>>

(* The answer to GetNameOwner goes to the pending call, stopped or not.      *)
HandleNameOwner ==
  LET c == Head(inbox).name
      watch == watching.names[c]
      answered == [watching EXCEPT !.names[c].pending = 0]
  IN /\ Receive("NameOwner")
     /\ CASE watch.pending # Head(inbox).serial ->
               UNCHANGED <<peers, streams, watching>>
          [] watch.pending = Head(inbox).serial /\ Head(inbox).gone /\ ~watch.vanished ->
               RemovePeer([answered EXCEPT !.names[c].vanished = TRUE], c)
          [] OTHER -> watching' = answered /\ UNCHANGED <<peers, streams>>
     /\ UNCHANGED <<api, server, rules, alive, missed, stops>>

(* GDBus calls the name-vanished handler of a watcher, also when the server  *)
(* is stopped: each watcher has a connection and a subscription of its own.  *)
GioPeerVanished(id) ==
  /\ api = "gio" /\ watching.ids[id] \in Clients \ alive
  /\ RemovePeer(watching, watching.ids[id])
  /\ UNCHANGED <<api, server, inbox, rules, alive, missed, stops>>

-----------------------------------------------------------------------------
(* Starting, stopping, the service name                                      *)

Usable == server.bus \in {"own", "up"}

Start ==
  /\ Live /\ ~server.started
  /\ server' = [server EXCEPT !.started = TRUE, !.exported = Usable,
                              !.listening = Usable]
  /\ UNCHANGED <<api, peers, streams, watching, inbox, rules, alive, missed, stops>>

Stopped == [server EXCEPT !.started = FALSE, !.exported = FALSE,
                          !.listening = @ /\ ~server.exported]

Stop ==
  /\ server.started /\ stops < MaxStops
  /\ server' = Stopped
  /\ stops' = stops + 1
  /\ UNCHANGED <<api, peers, streams, watching, inbox, rules, alive, missed>>

AcquiredAndExported ==
  [server EXCEPT !.bus = "up", !.exported = server.started,
                 !.listening = server.started]

BusAcquired ==
  /\ server.bus = "pending"
  /\ server' = AcquiredAndExported
  /\ UNCHANGED <<api, peers, streams, watching, inbox, rules, alive, missed, stops>>

(* The flag exported stays, and nothing exports the object again.            *)
NameLost ==
  /\ server.bus = "up"
  /\ server' = [server EXCEPT !.bus = "lost", !.listening = FALSE]
  /\ UNCHANGED <<api, peers, streams, watching, inbox, rules, alive, missed, stops>>

(* The last reference goes: the server is stopped and forgets all its peers, *)
(* in the order of the hash table, each of which unwatches its name. Then    *)
(* the core goes, and with it the senders: their channels are shut down.     *)
Dispose ==
  LET watched == {c \in Clients : watching.names[c].refs > 0}
      farewell == [c \in watched |-> Message("RemoveMatch", c, 0, FALSE)]
      order == SetToSeq(watched)
  IN /\ Live
     /\ server' = [Stopped EXCEPT !.bus = "gone"]
     /\ watching' = [watching EXCEPT
                       !.ids = [id \in Ids |-> Nobody],
                       !.names = [c \in Clients |-> NoWatch],
                       !.requests = @ \o [i \in 1..Len(order) |-> farewell[order[i]]]]
     /\ streams' = [s \in DOMAIN streams |->
                      [streams[s] EXCEPT !.state = "ended", !.kept = FALSE]]
     /\ peers' = [c \in Clients |-> NoPeer]
     /\ UNCHANGED <<api, inbox, rules, alive, missed, stops>>

-----------------------------------------------------------------------------
(* The streams (LogSender has the details)                                   *)

ChangeStream(s, to) ==
  /\ streams' = [streams EXCEPT ![s] = to]
  /\ UNCHANGED <<api, server, peers, watching, inbox, rules, alive, missed, stops>>

(* Messages fill the pipe, and the client takes them out.                    *)
Fill(s) ==
  /\ streams[s].state = "open" /\ ~streams[s].full
  /\ ChangeStream(s, [streams[s] EXCEPT !.full = TRUE])
Drain(s) ==
  /\ streams[s].away /\ streams[s].full
  /\ ChangeStream(s, [streams[s] EXCEPT !.full = FALSE])

(* The channel is shut down when Bye has been written, or at once if there   *)
(* is nobody left to read.                                                   *)
Shutdown(s) ==
  /\ streams[s].state # "ended"
  /\ \/ streams[s].state = "closing" /\ ~streams[s].full
     \/ ~streams[s].kept /\ ~streams[s].away
  /\ ChangeStream(s, [streams[s] EXCEPT !.state = "ended", !.kept = FALSE])

-----------------------------------------------------------------------------
(* The clients and the D-Bus daemon                                          *)

CallsMade == Len(streams) + Cardinality({i \in DOMAIN inbox : inbox[i].type = "LogOpen"})

Call(c, type) ==
  /\ c \in alive /\ Live /\ CallsMade < MaxCalls /\ Len(inbox) < MaxCalls
  /\ inbox' = Append(inbox, Message(type, c, 0, FALSE))
  /\ UNCHANGED <<api, server, peers, streams, watching, rules, alive, missed, stops>>

LetGo(s) ==
  /\ streams[s].away
  /\ ChangeStream(s, [streams[s] EXCEPT !.away = FALSE])

(* A client leaves the bus, and its ends of the pipes are closed, those in   *)
(* replies it has not seen included.                                         *)
Leave(c) ==
  /\ c \in alive
  /\ alive' = alive \ {c}
  /\ inbox' = IF rules[c] > 0
              THEN Append(inbox, Message("NameOwnerChanged", c, 0, TRUE)) ELSE inbox
  /\ streams' = [s \in DOMAIN streams |->
                   [streams[s] EXCEPT !.away = @ /\ streams[s].name # c]]
  /\ UNCHANGED <<api, server, peers, watching, rules, missed, stops>>

(* The daemon takes requests in order, and its answers and signals leave it  *)
(* in that order.                                                            *)
Daemon ==
  LET request == Head(watching.requests)
      c == request.name
  IN /\ watching.requests # <<>>
     /\ watching' = [watching EXCEPT !.requests = Tail(@)]
     /\ rules' = [rules EXCEPT ![c] = CASE request.type = "AddMatch" -> @ + 1
                                        [] request.type = "RemoveMatch" -> @ - 1
                                        [] OTHER -> @]
     /\ inbox' = IF request.type = "GetNameOwner"
                 THEN Append(inbox, Message("NameOwner", c, request.serial, c \notin alive))
                 ELSE inbox
     /\ UNCHANGED <<api, server, peers, streams, alive, missed, stops>>

-----------------------------------------------------------------------------
(* With a service name the bus is acquired later, without one it is there.   *)
Init ==
  /\ api \in {"gio", "libdbus"}
  /\ server \in [started : {FALSE}, exported : {FALSE}, listening : {FALSE},
                  bus : IF api = "gio" THEN {"own", "pending"} ELSE {"own"}]
  /\ peers = [c \in Clients |-> NoPeer]
  /\ streams = <<>>
  /\ watching = [ids |-> [id \in Ids |-> Nobody], last |-> FirstId, requests |-> <<>>,
                 names |-> [c \in Clients |-> NoWatch]]
  /\ inbox = <<>> /\ rules = [c \in Clients |-> 0]
  /\ alive = Clients /\ missed = {} /\ stops = 0

Handle ==
  /\ Live
  /\ HandleOpen \/ HandleClose \/ HandleNameOwnerChanged \/ HandleNameOwner

Next ==
  \/ Handle \/ Daemon \/ Start \/ Stop \/ BusAcquired \/ NameLost \/ Dispose
  \/ \E id \in Ids : GioPeerVanished(id)
  \/ \E s \in DOMAIN streams : Fill(s) \/ Drain(s) \/ Shutdown(s) \/ LetGo(s)
  \/ \E c \in Clients : Leave(c) \/ Call(c, "LogOpen") \/ Call(c, "LogClose")

Spec == Init /\ [][Next]_vars

(* The main loop of the server and the daemon go on, and the channel of a    *)
(* sender is watched.                                                        *)
FairSpec ==
  /\ Spec /\ WF_vars(Handle) /\ WF_vars(Daemon)
  /\ \A id \in Ids : WF_vars(GioPeerVanished(id))
  /\ \A s \in 1..MaxCalls : WF_vars(s \in DOMAIN streams /\ Shutdown(s))

-----------------------------------------------------------------------------
(* Properties                                                                *)

Streams == [name : Clients, state : {"open", "closing", "ended"}, full : BOOLEAN,
            kept : BOOLEAN, away : BOOLEAN]
Requests ==
  {r \in [type : {"AddMatch", "GetNameOwner", "RemoveMatch"}, name : Clients,
          serial : Nat, gone : {FALSE}] : r.type = "GetNameOwner" => r.serial # 0}
Messages ==
  {m \in [type : {"LogOpen", "LogClose", "NameOwnerChanged", "NameOwner"},
          name : Clients, serial : Nat, gone : BOOLEAN] :
     m.type = "NameOwner" => m.serial # 0}
Watch == [refs : Nat, pending : Nat, vanished : BOOLEAN]
Watching ==
  [ids : [Ids -> Clients \cup {Nobody}], last : 0..Modulus - 1,
   names : [Clients -> Watch], requests : Seq(Requests)]
Peers == [stream : Nat \ {0}, watch_id : Ids] \cup {NoPeer}

(* The type invariant.                                                       *)
PeersTypeOK ==
  /\ api \in {"gio", "libdbus"}
  /\ server \in [started : BOOLEAN, exported : BOOLEAN, listening : BOOLEAN,
                  bus : {"own", "pending", "up", "lost", "gone"}]
  /\ peers \in [Clients -> Peers] /\ streams \in Seq(Streams) /\ watching \in Watching
  /\ inbox \in Seq(Messages) /\ rules \in [Clients -> Int]
  /\ alive \in SUBSET Clients /\ missed \in SUBSET Clients /\ stops \in Nat

(* However calls of one client follow each other, the server has one stream  *)
(* for it: every stream which is open is that of a peer (a second LogOpen    *)
(* ends the first stream), and a peer never keeps a stream told to close.    *)
OneStreamPerPeer ==
  /\ \A c \in Clients : peers[c] # NoPeer =>
       /\ peers[c].stream \in DOMAIN streams
       /\ streams[peers[c].stream].name = c
       /\ streams[peers[c].stream].state # "closing"
  /\ \A s \in DOMAIN streams :
       streams[s].state = "open" => peers[streams[s].name].stream = s

(* Every peer is watched under an id of its own, nobody else is, and a       *)
(* shared DBusLogNameWatch has one reference per id, so that it is neither   *)
(* freed while an id refers to it nor leaked, also when ids wrap around.     *)
WatchesMatch ==
  /\ \A id \in Ids, c \in Clients :
       watching.ids[id] = c <=> peers[c] # NoPeer /\ peers[c].watch_id = id
  /\ \A c \in Clients : watching.names[c].refs =
       IF api = "libdbus" /\ peers[c] # NoPeer THEN 1 ELSE 0

(* GASSERT(!watch->vanished) of watch_name: a name which is known to have    *)
(* vanished is not watched any more, whichever message said so.              *)
VanishedIsForgotten == \A c \in Clients : ~watching.names[c].vanished

(* The daemon ends up with a match rule for exactly the names which are      *)
(* watched, whatever comes between adding and removing it.                   *)
Asked(type, c) ==
  Cardinality({i \in DOMAIN watching.requests :
                 watching.requests[i].type = type /\ watching.requests[i].name = c})
RulesInStep ==
  \A c \in Clients :
    rules[c] + Asked("AddMatch", c) - Asked("RemoveMatch", c) = watching.names[c].refs

(* A client which left before the rule was there, or after it, is found out: *)
(* something which tells the server is on its way, unless a stopped server   *)
(* has thrown it away (libdbus).                                             *)
Telling(c) ==
  \/ \E i \in DOMAIN inbox :
       /\ inbox[i].name = c /\ inbox[i].gone
       /\ inbox[i].type = "NameOwner" => inbox[i].serial = watching.names[c].pending
  \/ \E i \in DOMAIN watching.requests :
       /\ watching.requests[i].type = "GetNameOwner" /\ watching.requests[i].name = c
       /\ watching.requests[i].serial = watching.names[c].pending
AbsenceIsNoticed ==
  \A c \in Clients \ (alive \cup missed) :
    api = "libdbus" /\ peers[c] # NoPeer => Telling(c)

(* A client which has left is forgotten in the end, unless a stopped libdbus *)
(* server has thrown the signal away.                                        *)
VanishedAreForgotten ==
  \A c \in Clients : c \notin alive ~> peers[c] = NoPeer \/ c \in missed

(* What the server opened for a client which has left comes to its end.      *)
(* (A libdbus server keeps a read end: a pipe which is full never ends.)     *)
Stuck(s) == api = "libdbus" /\ streams[s].kept /\ streams[s].full
Outlives(s) ==
  /\ s \in DOMAIN streams /\ streams[s].state # "ended" /\ ~Stuck(s)
  /\ streams[s].name \notin alive \cup missed
StreamsOfTheGoneEnd == \A s \in 1..MaxCalls : Outlives(s) ~> ~Outlives(s)
=============================================================================
