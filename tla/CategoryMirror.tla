--------------------------- MODULE CategoryMirror ---------------------------
(***************************************************************************)
(* DBusLogClient (client/src/dbuslog_client.c) keeps a copy of the         *)
(* categories of the server: it asks for all of them once, and follows the *)
(* signals from then on.  The module composes it with the server           *)
(* (LogCategories), which may die and be started again.                    *)
(*                                                                         *)
(* The D-Bus daemon (external) delivers everything which goes to the       *)
(* client, signals, replies and changes of the owner of the service name,  *)
(* in one order: `bus'.                                                    *)
(***************************************************************************)
EXTENDS LogCategories

CONSTANT MaxLives  (* Bound on the number of server processes.             *)

VARIABLES
  owner,     (* The server has its name on the bus.                         *)
  lives,     (* How many server processes there have been.                  *)
  requests,  (* Calls of the client on their way to the server.             *)
  client,
  failed,    (* History: which assertions of the client have failed.        *)
  missed     (* History: the server was stopped after it answered GetAll.   *)

mirror  == <<owner, lives, requests, client, failed, missed>>
allvars == <<vars, mirror>>

(* The steps of dbus_log_client_init_new, and what comes after it. `init' is *)
(* the number of the current DBusLogClientInit, `cats' is priv->categories   *)
(* and `array' the public array, as a sequence of ids.                       *)
Phases  == {"away", "proxy", "version", "getall", "connected", "failed", "crashed"}
Pending == {"version", "getall"}

Copy(cats) == [id \in DOMAIN cats |-> [name |-> cats[id].name, flags |-> cats[id].flags]]
ServerCopy == Copy(Restrict(categories, table))

-----------------------------------------------------------------------------
(* The server process                                                        *)

(* dbus_log_server_name_acquired, an external event.                         *)
AcquireName ==
  /\ ~owner
  /\ owner' = TRUE
  /\ bus' = Append(bus, [what |-> "appeared"])
  /\ UNCHANGED <<server, lives, requests, client, failed, missed>>

(* The process dies and another one starts from the beginning. The daemon    *)
(* answers what was not answered.                                            *)
Die ==
  LET errors == [i \in DOMAIN requests |->
                   [what |-> "error", init |-> requests[i].init]]
      notice == IF owner THEN <<[what |-> "vanished"]>> ELSE <<>>
  IN  /\ lives < MaxLives /\ lives' = lives + 1
      /\ bus' \in {bus \o errors \o notice, bus \o notice \o errors}
      /\ requests' = <<>> /\ owner' = FALSE
      /\ categories' = <<>> /\ table' = {} /\ last_cid' = 0
      /\ started' = FALSE /\ calls' = <<>>
      /\ default_level' = INFO /\ announced' = View(<<>>, {}, INFO)
      /\ UNCHANGED <<client, failed, missed>>

(* The handlers of GetInterfaceVersion and GetAll2; a server which is not    *)
(* started has not exported the interface, or ignores its methods.           *)
Answer ==
  /\ Idle /\ requests # <<>>
  /\ requests' = Tail(requests)
  /\ LET call == Head(requests).call
         init == Head(requests).init
     IN  \/ /\ ~owner \/ ~started
            /\ bus' = Append(bus, [what |-> "error", init |-> init])
            /\ UNCHANGED missed
         \/ /\ owner /\ started /\ call = "version"
            /\ bus' = Append(bus, [what |-> "version", init |-> init])
            /\ UNCHANGED missed
         \/ /\ owner /\ started /\ call = "getall"
            /\ bus' = Append(bus, [what |-> "all", init |-> init, cats |-> ServerCopy])
            /\ missed' = FALSE
  /\ UNCHANGED <<server, owner, lives, client, failed>>

-----------------------------------------------------------------------------
(* The client                                                                *)

Incoming(what) ==
  /\ bus # <<>> /\ client.phase # "crashed"
  /\ Head(bus).what = what
  /\ bus' = Tail(bus)

(* (mutant) The handlers are connected as soon as there is a proxy.          *)
ListeningEarly == client.phase \in {"getall", "connected"}

(* The handlers of the proxy are connected.                                  *)
Listening == client.phase = "connected"

Expects(phase) == client.phase = phase /\ Head(bus).init = client.init

(* (mutant) Only the first server is asked.                                  *)
AppearedOnce ==
  /\ Incoming("appeared")
  /\ client' = [client EXCEPT !.phase = IF client.init = 0 THEN "proxy" ELSE @,
                              !.init = @ + 1]
  /\ UNCHANGED <<server, owner, lives, requests, failed, missed>>

(* dbus_log_client_name_appeared                                             *)
NameAppeared ==
  /\ Incoming("appeared")
  /\ client' = [client EXCEPT !.phase = "proxy", !.init = @ + 1]
  /\ UNCHANGED <<server, owner, lives, requests, failed, missed>>

(* (mutant) The client goes on listening.                                    *)
Emptied == [client EXCEPT !.cats = <<>>, !.array = <<>>]

(* dbus_log_client_disconnect                                                *)
Disconnected == [client EXCEPT !.phase = "away", !.cats = <<>>, !.array = <<>>]

(* dbus_log_client_name_vanished; a call in flight is cancelled, its result  *)
(* belongs to an init which is not the current one.                          *)
NameVanished ==
  /\ Incoming("vanished")
  /\ client' = Disconnected
  /\ UNCHANGED <<server, owner, lives, requests, failed, missed>>

Call(call) == Append(requests, [call |-> call, init |-> client.init])

(* dbus_log_client_init_proxy_created                                        *)
ProxyCreated ==
  /\ client.phase = "proxy"
  /\ client' = [client EXCEPT !.phase = "version"]
  /\ requests' = Call("version")
  /\ UNCHANGED <<vars, owner, lives, failed, missed>>

(* dbus_log_client_init_get_interface_version_finished                       *)
VersionReply ==
  /\ Incoming("version")
  /\ IF Expects("version")
     THEN /\ client' = [client EXCEPT !.phase = "getall"]
          /\ requests' = Call("getall")
     ELSE UNCHANGED <<client, requests>>
  /\ UNCHANGED <<server, owner, lives, failed, missed>>

(* dbus_log_client_init_get_all2_finished, init_free and connected           *)
GetAllReply ==
  /\ Incoming("all")
  /\ IF Expects("getall")
     THEN \E array \in Sorted(Head(bus).cats) :
            client' = [client EXCEPT !.phase = "connected",
                                     !.cats = Head(bus).cats, !.array = array]
     ELSE UNCHANGED client
  /\ UNCHANGED <<server, owner, lives, requests, failed, missed>>

(* dbus_log_client_init_free with an error: nobody tries again.              *)
ErrorReply ==
  /\ Incoming("error")
  /\ IF \E phase \in Pending : Expects(phase)
     THEN client' = [client EXCEPT !.phase = "failed"]
     ELSE UNCHANGED client
  /\ UNCHANGED <<server, owner, lives, requests, failed, missed>>

(* dbus_log_client_category: zero is nobody's id.                            *)
Known(id) == id # 0 /\ id \in DOMAIN client.cats

Without(array, id) ==
  LET i == CHOOSE j \in DOMAIN array : array[j] = id
  IN  SubSeq(array, 1, i - 1) \o SubSeq(array, i + 1, Len(array))

(* dbus_log_client_category_remove                                           *)
Removal(id) ==
  IF Known(id)
  THEN [client EXCEPT !.cats = Restrict(@, DOMAIN @ \ {id}), !.array = Without(@, id)]
  ELSE client

(* dbus_log_client_category_removed                                          *)
CategoryRemoved ==
  /\ Listening /\ Incoming("removed")
  /\ LET id == Head(bus).id
     IN  /\ client' = Removal(id)
         /\ failed' = IF Known(id) THEN failed ELSE failed \cup {"removed"}
  /\ UNCHANGED <<server, owner, lives, requests, missed>>

(* dbus_log_client_category_added: the old array is searched up to the       *)
(* length of the new one, which is longer. An empty array has no memory, and *)
(* the client crashes; otherwise what is read behind the end is some value,  *)
(* which may even be the one which is looked for.                            *)
CategoryAdded ==
  /\ Listening /\ Incoming("added")
  /\ LET signal == Head(bus)
         before == Removal(signal.id)
         cats   == With(before.cats, signal.id,
                          [name |-> signal.name, flags |-> signal.flags])
         again  == IF Known(signal.id) THEN {"again"} ELSE {}
     IN  IF before.array = <<>>
         THEN /\ client' = [client EXCEPT !.phase = "crashed", !.cats = <<>>,
                                          !.array = <<>>]
              /\ failed' = failed \cup again \cup {"added"}
         ELSE \E array \in Sorted(cats) :
              /\ client' = [client EXCEPT !.cats = cats, !.array = array]
              /\ \/ failed' = failed \cup again
                 \/ /\ \A i \in DOMAIN before.array : array[i] = before.array[i]
                    /\ failed' = failed \cup again \cup {"added"}
  /\ UNCHANGED <<server, owner, lives, requests, missed>>

(* (mutant) The flags of a category which is not known are remembered.       *)
FlagsOfAnyone ==
  /\ Listening /\ Incoming("flags")
  /\ LET signal == Head(bus)
         name == IF Known(signal.id) THEN client.cats[signal.id].name ELSE 0
     IN  client' = [client EXCEPT !.cats =
                      With(@, signal.id, [name |-> name, flags |-> signal.flags])]
  /\ UNCHANGED <<server, owner, lives, requests, failed, missed>>

(* dbus_log_client_category_flags_changed                                    *)
CategoryFlagsChanged ==
  /\ Listening /\ Incoming("flags")
  /\ LET signal == Head(bus)
     IN  IF Known(signal.id)
         THEN /\ client' = [client EXCEPT !.cats[signal.id].flags = signal.flags]
              /\ UNCHANGED failed
         ELSE /\ failed' = failed \cup {"flags"}
              /\ UNCHANGED client
  /\ UNCHANGED <<server, owner, lives, requests, missed>>

(* No handler is connected, or there is none for this signal.                *)
Ignored ==
  /\ \/ \E what \in {"level", "default"} : Incoming(what)
     \/ ~Listening /\ \E what \in {"added", "removed", "flags"} : Incoming(what)
  /\ UNCHANGED <<server, mirror>>

(* The daemon drops what is for a client which has gone.                     *)
Drop ==
  /\ client.phase = "crashed"
  /\ bus # <<>> /\ bus' = Tail(bus)
  /\ UNCHANGED <<server, mirror>>

-----------------------------------------------------------------------------
MirrorInit ==
  /\ Init
  /\ owner = FALSE /\ lives = 1 /\ requests = <<>>
  /\ client = [phase |-> "away", init |-> 0, cats |-> <<>>, array |-> <<>>]
  /\ failed = {} /\ missed = FALSE

ServerNext ==
  \/ (Request \/ Api \/ Finishing) /\ UNCHANGED mirror
  \/ Stop /\ missed' = TRUE /\ UNCHANGED <<owner, lives, requests, client, failed>>
  \/ AcquireName \/ Answer \/ Die

Receive ==
  \/ NameAppeared \/ NameVanished
  \/ VersionReply \/ GetAllReply \/ ErrorReply
  \/ CategoryAdded \/ CategoryRemoved \/ CategoryFlagsChanged \/ Ignored
  \/ Drop

MirrorNext == ServerNext \/ Receive \/ ProxyCreated

MirrorSpec == MirrorInit /\ [][MirrorNext]_allvars

(* The main loops of both processes run, and the daemon gives out the name.  *)
(* A call is answered in its turn, whatever other calls come: hence SF.      *)
MirrorFairness ==
  /\ WF_allvars(Receive) /\ WF_allvars(ProxyCreated)
  /\ SF_allvars(Answer)
  /\ WF_allvars(AcquireName)
  /\ WF_allvars(Finishing /\ UNCHANGED mirror)

FairMirrorSpec == MirrorSpec /\ MirrorFairness

-----------------------------------------------------------------------------
(* Properties                                                                *)

(* Signals which tell whether a category is there, and what its flags are.   *)
Tells(signal, id)   == signal.what \in {"added", "removed"} /\ signal.id = id
Updates(signal, id) == signal.what \in {"added", "flags"} /\ signal.id = id

(* Somebody who has these categories knows id after the first n signals: the *)
(* last of them which tells of it says so, or there is none.                 *)
KnowsAfter(cats, signals, n, id) ==
  \/ id \in DOMAIN cats /\ \A i \in 1..n : ~Tells(signals[i], id)
  \/ \E i \in 1..n : /\ Tells(signals[i], id) /\ signals[i].what = "added"
                     /\ \A j \in i + 1..n : ~Tells(signals[j], id)

(* What the name and the flags are after all signals, for who knows id.      *)
NameAfter(cats, signals, id, name) ==
  /\ (\A i \in 1..Len(signals) : ~Tells(signals[i], id)) => cats[id].name = name
  /\ \A i \in 1..Len(signals) :
       Tells(signals[i], id) /\ (\A j \in i + 1..Len(signals) : ~Tells(signals[j], id))
       => signals[i].name = name

FlagsAfter(cats, signals, id, flags) ==
  /\ (\A i \in 1..Len(signals) : ~Updates(signals[i], id)) => cats[id].flags = flags
  /\ \A i \in 1..Len(signals) :
       Updates(signals[i], id) /\ (\A j \in i + 1..Len(signals) : ~Updates(signals[j], id))
       => signals[i].flags = flags

(* The client's copy, once what is on its way has been handled, is the table *)
(* of the server, except for flags whose announcement is still to come: the  *)
(* answer of GetAll and the signals neither overlap nor leave a gap, and a   *)
(* restarted server never meets the copy of its predecessor. (Unless the     *)
(* server was stopped meanwhile: what it then does not announce is missed.)  *)
(* The public array and the hash table, updated separately, hold the same.   *)
InStep ==
  /\ client.array \in Sorted(client.cats)
  /\ Listening /\ ~missed /\ (\A i \in 1..Len(bus) : bus[i].what # "vanished") =>
       /\ \A id \in 0..Modulus - 1 :
            KnowsAfter(client.cats, bus, Len(bus), id) <=> id \in table
       /\ \A id \in table :
            /\ NameAfter(client.cats, bus, id, categories[id].name)
            /\ \/ FlagsAfter(client.cats, bus, id, categories[id].flags)
               \/ Announcing("flags", id)

(* What GVERIFY_FALSE in dbus_log_client_category_added and GVERIFY in       *)
(* dbus_log_client_category_removed say: no category is announced which the  *)
(* client already has from the answer of GetAll, and a category which is     *)
(* removed is one it knows (as long as the server is not stopped).           *)
SignalsAreExpected == failed \cap {"again", "removed"} = {}

(* If the server is started before it gets its name, whenever it is started, *)
(* the client is connected in the end, however often the server dies (or it  *)
(* has crashed, see CategoryAdded).                                          *)
EventuallyConnected ==
  [](owner => started) => <>[](client.phase \in {"connected", "crashed"})
=============================================================================
