------------------------------ MODULE LogTool -------------------------------
(***************************************************************************)
(* The command line tool (tools/dbuslog-client/main.c), with the client it *)
(* makes its calls through (client/src/dbuslog_client.c) and the server it *)
(* talks to (LogCalls): options become a list of actions, one call after   *)
(* the other, while other clients change the same settings, signals and    *)
(* the timeout arrive, and the server stops, dies and comes back.          *)
(*                                                                         *)
(* The bus keeps the order of what goes from one side to the other.        *)
(***************************************************************************)
EXTENDS LogCalls, SequencesExt

CONSTANTS
  Programs,   (* Command lines: sequences of options.                       *)
  Servers,    (* The back-end of a server and its version of the interface. *)
  Policies,   (* What the policies of the server allow, by peer.            *)
  Tool,       (* The peers: the tool and another client.                    *)
  Other,
  Calls,      (* What the other client calls.                               *)
  MaxSpent,   (* Bound on calls of others, changes of policy and stops.     *)
  MaxLives,   (* Bound on the number of times the server is started.        *)
  MaxSignals  (* Bound on the number of signals.                            *)

Silent == {"follow", "print", "timeout"}  (* Options which are not actions. *)
Types == {"enable", "disable", "level", "backlog", "reset", "list"} \cup Silent

ASSUME ToolConstants ==
  /\ Programs \subseteq Seq([type : Types, names : SUBSET Names, value : Int])
  /\ Servers \subseteq [api : {"gio", "libdbus"}, version : Nat]
  /\ Policies \subseteq [Peers -> SUBSET Actions]
  /\ Calls \subseteq [method : Methods, names : SUBSET Names, value : Int]
  /\ Peers = {Tool, Other} /\ Tool # Other
  /\ MaxSpent \in Nat /\ MaxLives \in Nat /\ MaxSignals \in Nat

VARIABLES
  app,       (* actions, call, follow, ret: fields of App; quitting: the    *)
             (* idle function of app_quit; sigs, timer: sources.            *)
  client,    (* Of DBusLogClient: proxy (the life of the server it is       *)
             (* connected to), init, started, enabled, version.             *)
  pending,   (* Calls whose end is going to be reported to the tool.        *)
  requests,  (* Calls on their way to the server.                           *)
  events,    (* What is on its way to the tool.                             *)
  server,    (* up, started, api, version, life, policy and core.           *)
  program,   (* The actions there were at first.                            *)
  done,      (* History: the calls of actions the server has answered.      *)
  touched,   (* History: what others have changed since the last GetAll     *)
             (* before the tool ran its last reset.                         *)
  signals, spent

vars == <<app, client, pending, requests, events, server, program, done,
          touched, signals, spent>>

None == <<"none", 0>>  (* In place of a call.                               *)
Down == 0              (* In place of a life.                               *)

Option(type, names, value) == [type |-> type, names |-> names, value |-> value]
Request(method, names, value, key) ==
  [method |-> method, names |-> names, value |-> value, key |-> key]
Event(type, key, answer, names, value) ==
  [type |-> type, key |-> key, answer |-> answer, names |-> names, value |-> value]

-----------------------------------------------------------------------------
(* The command line                                                          *)

Given(o, type) == \E i \in DOMAIN o : o[i].type = type

(* app_option_log_level and app_option_backlog.                              *)
Valid(o) == \A i \in DOMAIN o : /\ o[i].type = "level" => o[i].value \in Levels
                                /\ o[i].type = "backlog" => o[i].value > 0

ActionsOf(o) == {i \in DOMAIN o : o[i].type \notin Silent}

(* (mutant) app_add_action at the head of the list.                          *)
AfterReversed(o, i, j) == i < j

(* app_add_action at the end of the list; app_init adds the list of          *)
(* categories last.                                                          *)
After(o, i, j) == IF (o[i].type = "list") = (o[j].type = "list") THEN i > j
                  ELSE o[i].type = "list"

(* The actions in the order they run in, each with its place among options.  *)
Parsed(o) ==
  [n \in 1..Cardinality(ActionsOf(o)) |->
     LET i == CHOOSE i \in ActionsOf(o) :
                Cardinality({j \in ActionsOf(o) : After(o, i, j)}) = n - 1
     IN [type |-> o[i].type, names |-> o[i].names, value |-> o[i].value, pos |-> i]]
Follows(o) == Given(o, "follow") \/ (ActionsOf(o) = {} /\ ~Given(o, "print"))

-----------------------------------------------------------------------------
(* Actions                                                                   *)

(* app_action_reset: only the last call is reported.                         *)
ResetCalls(on, off, pos) ==
  LET key == <<"action", pos>>
      first == IF off = {} THEN key ELSE <<"half", pos>>
      enable == IF on = {} THEN <<>> ELSE <<Request("CategoryEnable", on, 0, first)>>
      disable == IF off = {} THEN <<>> ELSE <<Request("CategoryDisable", off, 0, key)>>
  IN enable \o disable

(* The calls fn_run makes. No call at all: it returns NULL.                  *)
CallsOf(a, x) ==
  LET key == <<"action", a.pos>>
  IN CASE a.type = "enable" -> <<Request("CategoryEnablePattern", a.names, 0, key)>>
       [] a.type = "disable" -> <<Request("CategoryDisablePattern", a.names, 0, key)>>
       [] a.type = "level" -> <<Request("SetDefaultLevel", {}, a.value, key)>>
       [] a.type = "backlog" ->
            IF x.version > 1 THEN <<Request("SetBacklog", {}, a.value, key)>> ELSE <<>>
       [] a.type = "reset" -> ResetCalls(Defaults \ x.enabled, x.enabled \ Defaults, a.pos)
       [] OTHER -> <<>>

(* What the tool and its client become, the calls they make, and the one     *)
(* which is reported.                                                        *)
Idle(a, x) == [app |-> a, client |-> x, sent |-> <<>>, waits |-> {}]
Quitting(a) == [a EXCEPT !.quitting = TRUE]

(* app_follow                                                                *)
Follow(a, x) ==
  IF x.started THEN Idle(a, x)
  ELSE [Idle(a, x) EXCEPT !.sent = <<Request("LogOpen", {}, 0, <<"open", x.proxy>>)>>]

Run(a, x) ==
  LET first == {i \in DOMAIN a.actions :
                  /\ CallsOf(a.actions[i], x) # <<>>
                  /\ \A j \in 1..i - 1 : CallsOf(a.actions[j], x) = <<>>}
      i == CHOOSE i \in first : TRUE
      sent == CallsOf(a.actions[i], x)
      rest == [a EXCEPT !.actions = <<>>]
  IN IF first = {} THEN IF a.follow THEN Follow(rest, x) ELSE Idle(Quitting(rest), x)
     ELSE [app |-> [a EXCEPT !.actions = SubSeq(@, i + 1, Len(@)), !.call = Last(sent).key],
           client |-> x, sent |-> sent, waits |-> {Last(sent).key}]

(* app_next_action                                                           *)
NextAction(a, x) == IF a.call = None THEN Run(a, x) ELSE Idle(a, x)

Fail(a, ret) == Quitting([a EXCEPT !.ret = ret])

(* (mutant) Errors are only printed.                                         *)
CallDoneAnyway(a, x, answer) == NextAction([a EXCEPT !.call = None], x)

(* app_action_call_done                                                      *)
CallDone(a, x, answer) ==
  IF answer = "OK" THEN NextAction([a EXCEPT !.call = None], x)
  ELSE Idle(Fail([a EXCEPT !.call = None], "ERR"), x)

-----------------------------------------------------------------------------
(* The main loop of the tool                                                 *)

(* A proxy sends its calls to the process it was made for.                   *)
Addressed(sent, life) == [i \in DOMAIN sent |-> [to |-> life, call |-> sent[i]]]

Become(r, kept) ==
  /\ app' = r.app /\ client' = r.client
  /\ pending' = kept \cup r.waits
  /\ requests' = requests \o Addressed(r.sent, r.client.proxy)

Receive(type) ==
  /\ app.running /\ events # <<>> /\ Head(events).type = type
  /\ events' = Tail(events)
  /\ UNCHANGED <<server, program, done, touched, signals, spent>>

(* dbus_log_client_name_appeared: GetAll stands for the calls of the         *)
(* initialization, which CategoryMirror shows one by one.                    *)
NameAppeared ==
  LET life == Head(events).value
      key == <<"init", life>>
  IN /\ Receive("Appeared")
     /\ client' = [client EXCEPT !.init = key]
     /\ requests' = requests \o Addressed(<<Request("GetAll", {}, 0, key)>>, life)
     /\ UNCHANGED <<app, pending>>

(* dbus_log_client_name_vanished, dbus_log_client_disconnect                 *)
NameVanished ==
  /\ Receive("Vanished")
  /\ client' = [client EXCEPT !.init = None, !.proxy = Down, !.started = FALSE,
                              !.enabled = {}]
  /\ UNCHANGED <<app, pending, requests>>

(* (mutant) The tool starts where it was before.                             *)
ConnectedIdly(e) == Idle(app, [client EXCEPT !.proxy = e.key[2], !.init = None])

(* dbus_log_client_init_free, dbus_log_client_connected, client_connected    *)
Connected(e) ==
  NextAction(app, [client EXCEPT !.proxy = e.key[2], !.init = None, !.started = FALSE,
                                 !.enabled = e.names, !.version = e.value])
ConnectError == Idle(Fail(app, "ERR"), [client EXCEPT !.init = None])

InitFinished ==
  LET e == Head(events)
  IN /\ Receive("Reply") /\ e.key[1] = "init"
     /\ IF e.key # client.init THEN UNCHANGED <<app, client, pending, requests>>
        ELSE Become(IF e.answer = "OK" THEN Connected(e) ELSE ConnectError, pending)

(* dbus_log_client_generic_call_finished: what was cancelled, or has no      *)
(* callback, is not reported.                                                *)
CallFinished ==
  LET e == Head(events)
  IN /\ Receive("Reply") /\ e.key[1] \in {"action", "half"}
     /\ IF e.key \in pending
        THEN Become(CallDone(app, client, e.answer), pending \ {e.key})
        ELSE UNCHANGED <<app, client, pending, requests>>

(* dbus_log_client_start_finished, which the tool does not ask about.        *)
StartFinished ==
  LET e == Head(events)
  IN /\ Receive("Reply") /\ e.key[1] = "open"
     /\ client' = [client EXCEPT !.started = @ \/ e.answer = "OK"]
     /\ UNCHANGED <<app, pending, requests>>

(* dbus_log_client_category_flags_changed                                    *)
FlagsChanged ==
  LET e == Head(events)
  IN /\ Receive("Flags")
     /\ client' = IF client.proxy = Down THEN client
                  ELSE [client EXCEPT !.enabled = IF e.value = 1 THEN @ \cup e.names
                                                                 ELSE @ \ e.names]
     /\ UNCHANGED <<app, pending, requests>>

(* (mutant) The call is cancelled, and remembered.                           *)
SignalledKeeping(a, s) ==
  IF a.call # None THEN [a EXCEPT !.ret = "CANCEL"]
  ELSE [Fail(a, "CANCEL") EXCEPT !.sigs = @ \ {s}]

(* app_signal, app_sigterm, app_sigint                                       *)
Signalled(a, s) ==
  IF a.call # None THEN [a EXCEPT !.ret = "CANCEL", !.call = None]
  ELSE [Fail(a, "CANCEL") EXCEPT !.sigs = @ \ {s}]

Signal(s) ==
  /\ app.running /\ s \in app.sigs /\ signals < MaxSignals
  /\ app' = Signalled(app, s)
  /\ pending' = pending \ {app.call}
  /\ signals' = signals + 1
  /\ UNCHANGED <<client, requests, events, server, program, done, touched, spent>>

(* app_timeout                                                               *)
Timeout ==
  /\ app.running /\ app.timer
  /\ app' = [Fail(app, "TIMEOUT") EXCEPT !.timer = FALSE]
  /\ UNCHANGED <<client, pending, requests, events, server, program, done, touched,
                 signals, spent>>

(* The idle function runs, g_main_loop_run returns.                          *)
Quit ==
  /\ app.running /\ app.quitting
  /\ app' = [app EXCEPT !.running = FALSE]
  /\ events' = <<>>
  /\ UNCHANGED <<client, pending, requests, server, program, done, touched, signals, spent>>

-----------------------------------------------------------------------------
(* The server, and who else talks to it                                      *)

Tell(news) == events' = IF app.running THEN events \o news ELSE events
Flags(changed, s) ==
  IF changed = {} THEN <<>>
  ELSE <<Event("Flags", None, "", changed, IF changed \subseteq s.core.enabled THEN 1 ELSE 0)>>

(* (mutant) The call is answered before the change is announced.             *)
NewsLate(h, reply) == <<reply>> \o Flags(h.changed, h.server)

(* Signals are emitted from the inside of the call.                          *)
News(h, reply) == Flags(h.changed, h.server) \o <<reply>>

ToReset(actions) == \E i \in DOMAIN actions : actions[i].type = "reset"

Reply(key, answer) == Event("Reply", key, answer, server.core.enabled, server.version)

Serve ==
  LET r == Head(requests)
      h == Handle(server, Tool, r.call)
      heard == server.up /\ server.life = r.to
      answer == IF heard THEN h.answer ELSE "NoReply"
  IN /\ requests # <<>> /\ requests' = Tail(requests)
     /\ IF heard
        THEN server' = h.server /\ Tell(News(h, Reply(r.call.key, answer)))
        ELSE UNCHANGED server /\ Tell(<<Reply(r.call.key, answer)>>)
     /\ done' = IF heard /\ r.call.key[1] \in {"action", "half"}
                THEN Append(done, [key |-> r.call.key, answer |-> answer, life |-> r.to])
                ELSE done
     /\ touched' = IF heard /\ r.call.method = "GetAll" /\ ToReset(app.actions)
                   THEN {} ELSE touched
     /\ UNCHANGED <<app, client, pending, program, signals, spent>>

(* The other client makes a call, the answer does not matter here.           *)
OtherCalls(c) ==
  LET h == Handle(server, Other, c)
  IN /\ server.up /\ spent < MaxSpent
     /\ server' = h.server
     /\ Tell(Flags(h.changed, h.server))
     /\ touched' = touched \cup h.changed
     /\ spent' = spent + 1
     /\ UNCHANGED <<app, client, pending, requests, program, done, signals>>

Change(s, cost) ==
  /\ server.up /\ spent + cost <= MaxSpent
  /\ server' = s /\ spent' = spent + cost
  /\ UNCHANGED <<app, client, pending, requests, events, program, done, touched, signals>>

(* dbus_log_server_set_access_policy, dbus_log_server_start and ..._stop     *)
SetAccessPolicy(p) == p # server.policy /\ Change([server EXCEPT !.policy = p], 1)
Start == ~server.started /\ Change([server EXCEPT !.started = TRUE], 0)
Stop == server.started /\ Change([server EXCEPT !.started = FALSE], 1)

(* The process ends; it is started again, with its categories as they were   *)
(* at first.                                                                 *)
Die ==
  /\ server.up
  /\ server' = [server EXCEPT !.up = FALSE]
  /\ Tell(<<Event("Vanished", None, "", {}, 0)>>)
  /\ UNCHANGED <<app, client, pending, requests, program, done, touched, signals, spent>>
Begin ==
  /\ ~server.up /\ server.life < MaxLives
  /\ server' = [server EXCEPT !.up = TRUE, !.started = TRUE, !.life = @ + 1, !.core = NewCore]
  /\ Tell(<<Event("Appeared", None, "", {}, server.life + 1)>>)
  /\ UNCHANGED <<app, client, pending, requests, program, done, touched, signals, spent>>

-----------------------------------------------------------------------------

(* app_init; a command line which is not valid is the end of it.             *)
NewApp(o) ==
  [actions |-> IF Valid(o) THEN Parsed(o) ELSE <<>>, call |-> None, follow |-> Follows(o),
   ret |-> IF Valid(o) THEN "OK" ELSE "ERR", quitting |-> FALSE, running |-> Valid(o),
   sigs |-> {"SIGTERM", "SIGINT"}, timer |-> Given(o, "timeout")]

Init ==
  /\ \E o \in Programs : app = NewApp(o)
  /\ program = app.actions
  /\ client = [proxy |-> Down, init |-> None, started |-> FALSE, enabled |-> {}, version |-> 0]
  /\ \E p \in Policies, s \in Servers :
       server = [up |-> FALSE, started |-> TRUE, api |-> s.api, version |-> s.version,
                 life |-> 0, policy |-> p, core |-> NewCore]
  /\ pending = {} /\ requests = <<>> /\ events = <<>> /\ done = <<>>
  /\ touched = {} /\ signals = 0 /\ spent = 0

Environment ==
  \/ \E c \in Calls : OtherCalls(c)
  \/ \E p \in Policies : SetAccessPolicy(p)
  \/ Start
  \/ Stop
  \/ Die
  \/ Begin
  \/ \E s \in {"SIGTERM", "SIGINT"} : Signal(s)

Dispatch ==
  \/ NameAppeared
  \/ NameVanished
  \/ InitFinished
  \/ CallFinished
  \/ StartFinished
  \/ FlagsChanged

Next == Environment \/ Dispatch \/ Timeout \/ Quit \/ Serve

Spec == Init /\ [][Next]_vars

(* The server and the bus answer, and the main loop dispatches what is       *)
(* ready; nobody has to change settings, send signals or restart the server. *)
FairSpec ==
  Spec /\ WF_vars(Serve) /\ WF_vars(Dispatch) /\ WF_vars(Timeout) /\ WF_vars(Quit)

-----------------------------------------------------------------------------
(* Properties                                                                *)

Did(pos) == \E i \in DOMAIN done : done[i].key = <<"action", pos>> /\ done[i].answer = "OK"

(* The tool never says that it has succeeded if there is an action which was *)
(* not done, in the order of the command line, by one and the same server.   *)
(* This holds for what enables, disables or sets a level, for a backlog if   *)
(* the server knows of backlogs, and for each action, a reset too, the       *)
(* server has answered a call of.  An action is done when the call which is  *)
(* reported was allowed: of the two calls a reset may make this is the last, *)
(* nobody looks at the answer to the first (see ResetIsComplete).            *)
SuccessIsReal ==
  ~app.running /\ app.ret = "OK" =>
    /\ \A i \in DOMAIN program :
         \/ program[i].type \in {"enable", "disable", "level"}
         \/ program[i].type = "backlog" /\ server.version > 1
         => Did(program[i].pos)
    /\ \A i \in DOMAIN done : Did(done[i].key[2])
    /\ \A i \in DOMAIN done : i > 1 =>
         done[i].key[2] >= done[i - 1].key[2] /\ done[i].life = done[i - 1].life

(* After an action which was refused the server is not asked for another one *)
(* of the same tool, unless it was started again meanwhile.                  *)
NothingAfterRefusal ==
  \A i, j \in DOMAIN done :
    i < j /\ done[i].key[1] = "action" /\ done[i].answer # "OK" => done[i].life < done[j].life

EndsWithReset(actions) ==
  \E i \in DOMAIN actions :
    actions[i].type = "reset" /\ \A j \in DOMAIN actions : j > i => actions[j].type = "list"

(* When a reset ends well, the categories are what they were at first,       *)
(* except those others have changed meanwhile (and if the first of its two   *)
(* calls was allowed): the changes of the actions before it are known to the *)
(* client by the time it runs.                                               *)
ResetIsComplete ==
  /\ ~app.running /\ app.ret = "OK" /\ server.up
  /\ EndsWithReset(program)
  /\ \A i \in DOMAIN done : done[i].answer = "OK"
  => server.core.enabled \ touched = Defaults \ touched

(* An error or the timeout ends the tool, and so does a signal more than     *)
(* there are calls to cancel.                                                *)
QuitsWhenTold ==
  (app.ret \in {"ERR", "TIMEOUT"} \/ signals > Len(program)) ~> ~app.running

(* A tool which does not follow the log comes to its end, unless it waits    *)
(* for a server, or was told to cancel the call it was waiting for.          *)
Finishes ==
  ~app.follow ~> (~app.running \/ signals > 0 \/ ~server.up)

(* SetCategoryLevel works, on either back-end, for who may set levels of     *)
(* categories (dbus_log_server_handle_set_category_level of both).           *)
CategoryLevelIsSet ==
  \A n \in Categories, who \in Peers :
    server.up /\ server.started /\ "SetCategoryLevel" \in server.policy[who] =>
      Handle(server, who, [method |-> "SetCategoryLevel", names |-> {n}, value |-> 1]).answer = "OK"
=============================================================================
