------------------------------ MODULE LogCalls ------------------------------
(***************************************************************************)
(* The D-Bus methods which change the settings of a log server             *)
(* (dbus_log_server_call_* of server/src/dbuslog_server.c), and the way    *)
(* the two back-ends call them and answer (server/src/gio, server/src/dbus)*)
(* as functions of the state of the server. GDBus checks the path and the  *)
(* signature of a call for the first; the filter of the second checks the  *)
(* signature, callers are taken to use the path of the server.             *)
(***************************************************************************)
EXTENDS Integers, Sequences, FiniteSets

CONSTANTS
  Names,       (* Names of categories clients know of.                      *)
  Categories,  (* Those which the server has.                               *)
  Defaults,    (* Those which are enabled by default.                       *)
  Peers        (* Clients, by unique name: never the name of a category.    *)

ASSUME CallConstants ==
  Categories \subseteq Names /\ Defaults \subseteq Categories /\ Names \cap Peers = {}

Methods == {"SetDefaultLevel", "SetCategoryLevel", "CategoryEnable", "CategoryDisable",
            "CategoryEnablePattern", "CategoryDisablePattern", "SetBacklog",
            "LogOpen", "GetAll"}

(* The actions a policy knows, queries are always allowed.                   *)
Actions == {"SetDefaultLevel", "SetCategoryLevel", "LogOpen", "CategoryEnable",
            "CategoryDisable", "SetBacklog"}
Levels == 1..8
Undefined == 0
Info == 6

NewCore == [default_level |-> Info, enabled |-> Defaults, backlog |-> 1000,
            levels |-> [n \in Categories |-> Undefined]]

(* What a helper returns, and the categories whose flags it has announced.   *)
Refused(core, err) == [err |-> err, core |-> core, changed |-> {}]
Accepted(core, changed) == [err |-> "none", core |-> core, changed |-> changed]

(* libdbusaccess tells nothing of who is not on the bus.                     *)
AccessAllowed(policy, who, action) == who \in Peers /\ action \in policy[who]

CallSetDefaultLevel(core, policy, who, level) ==
  IF ~AccessAllowed(policy, who, "SetDefaultLevel") THEN Refused(core, "EACCES")
  ELSE IF level \notin Levels THEN Refused(core, "EINVAL")
  ELSE Accepted([core EXCEPT !.default_level = level], {})

(* What dbus_log_core_set_category_level returns is not looked at.           *)
CallSetCategoryLevel(core, policy, who, name, level) ==
  IF ~AccessAllowed(policy, who, "SetCategoryLevel") THEN Refused(core, "EACCES")
  ELSE IF name \in Categories /\ level \in Levels \cup {Undefined}
  THEN Accepted([core EXCEPT !.levels[name] = level], {})
  ELSE Accepted(core, {})

(* dbus_log_server_call_set_names_enabled and ..._set_pattern_enabled, for   *)
(* the names given, or those which match.                                    *)
CallSetEnabled(core, policy, who, names, enable) ==
  LET action == IF enable THEN "CategoryEnable" ELSE "CategoryDisable"
      changed == {n \in names \cap Categories : (n \in core.enabled) # enable}
  IN IF ~AccessAllowed(policy, who, action) THEN Refused(core, "EACCES")
     ELSE Accepted([core EXCEPT !.enabled = IF enable THEN @ \cup changed ELSE @ \ changed],
                   changed)

CallSetBacklog(core, policy, who, backlog) ==
  IF ~AccessAllowed(policy, who, "SetBacklog") THEN Refused(core, "EACCES")
  ELSE Accepted([core EXCEPT !.backlog =
                   IF backlog > 0 THEN backlog ELSE IF backlog = 0 THEN 1000 ELSE -1], {})

(* The stream itself is the matter of LogPeers.                              *)
CallLogOpen(core, policy, who) ==
  IF AccessAllowed(policy, who, "LogOpen") THEN Accepted(core, {})
  ELSE Refused(core, "EACCES")

(* A call has a method, a list of names (or one name, or what a pattern      *)
(* matches) and a value. `first' and `second' are the arguments              *)
(* SetCategoryLevel is given as the caller and the name.                     *)
Perform(core, policy, who, c, first, second) ==
  CASE c.method = "SetDefaultLevel" -> CallSetDefaultLevel(core, policy, who, c.value)
    [] c.method = "SetCategoryLevel" ->
         CallSetCategoryLevel(core, policy, first, second, c.value)
    [] c.method \in {"CategoryEnable", "CategoryEnablePattern"} ->
         CallSetEnabled(core, policy, who, c.names, TRUE)
    [] c.method \in {"CategoryDisable", "CategoryDisablePattern"} ->
         CallSetEnabled(core, policy, who, c.names, FALSE)
    [] c.method = "SetBacklog" -> CallSetBacklog(core, policy, who, c.value)
    [] c.method = "LogOpen" -> CallLogOpen(core, policy, who)
    [] OTHER -> Accepted(core, {})

NameOf(c) == CHOOSE n \in c.names : TRUE

(* The handlers of dbuslog_server_gio.c.                                     *)
GioPerform(core, policy, who, c) == Perform(core, policy, who, c, who, NameOf(c))

(* The handlers of dbuslog_server_dbus.c: the one of SetCategoryLevel gives  *)
(* the name of the category as the caller, and the caller as the name.       *)
DbusPerform(core, policy, who, c) == Perform(core, policy, who, c, NameOf(c), who)

Answer(err) ==
  CASE err = "none" -> "OK"
    [] err = "EACCES" -> "AccessDenied"
    [] err = "EINVAL" -> "InvalidArgs"
    [] OTHER -> "Failed"

(* Whether the object, or the filter, is there and has such a method;        *)
(* version 1 of the interface had no backlog.                                *)
Knows(s, c) == s.started /\ c.method \in Methods /\ (c.method = "SetBacklog" => s.version > 1)

(* One call, from `who', to server s: what becomes of the server, and what   *)
(* it says.                                                                  *)
Handle(s, who, c) ==
  LET r == IF s.api = "gio" THEN GioPerform(s.core, s.policy, who, c)
                            ELSE DbusPerform(s.core, s.policy, who, c)
  IN IF Knows(s, c)
     THEN [server |-> [s EXCEPT !.core = r.core], answer |-> Answer(r.err),
           changed |-> r.changed]
     ELSE [server |-> s, answer |-> "UnknownMethod", changed |-> {}]
=============================================================================
