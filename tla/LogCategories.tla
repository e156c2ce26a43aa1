--------------------------- MODULE LogCategories ---------------------------
(***************************************************************************)
(* The log categories of a server: the table of DBusLogCore                *)
(* (server/src/dbuslog_core.c), and the announcements of its changes which *)
(* DBusLogServer (server/src/dbuslog_server.c) emits over D-Bus.           *)
(*                                                                         *)
(* All of it happens on the main thread.  What makes it hard is that       *)
(* handlers of the application run between a change and its announcement,  *)
(* and may call the API in turn: `calls' is the stack of what has not been *)
(* finished, the innermost first.                                          *)
(***************************************************************************)
EXTENDS Integers, Sequences, SequencesExt, Functions

CONSTANTS
  Names,    (* Names of categories, numbers in the order of strcmp.         *)
  Levels,   (* Log levels in use, INFO included and UNDEFINED not.          *)
  Modulus,  (* Ids are counted modulo this (2^32).                          *)
  Reenters, (* Handlers of the application may call the API.                *)
  Stops,    (* The server may be stopped.                                   *)
  MaxCalls, (* Bound on the depth of `calls'.                               *)
  MaxBus    (* Bound on the number of undelivered D-Bus messages.           *)

ASSUME CategoryConstants ==
  /\ Names \subseteq Nat /\ Levels \subseteq 1..8 /\ 6 \in Levels
  /\ Modulus \in Nat /\ Modulus > 1
  /\ Reenters \in BOOLEAN /\ Stops \in BOOLEAN
  /\ MaxCalls \in Nat /\ MaxBus \in Nat

VARIABLES
  categories,    (* Categories somebody has a reference to, by id.          *)
  table,         (* Ids of the categories in the hash table.                *)
  last_cid,
  default_level,
  started,
  calls,         (* Unfinished calls.                                       *)
  bus,           (* D-Bus messages of the server, not delivered yet.        *)
  announced      (* History: what was last announced of the categories in
                    the table and of the default level.                     *)

server == <<categories, table, last_cid, default_level, started, calls, announced>>
vars   == <<server, bus>>

UNDEFINED == 0
INFO == 6
Flags == {"ENABLED", "ENABLED_BY_DEFAULT"}
Category == [name : Names, flags : SUBSET Flags, level : Levels \cup {UNDEFINED}]

(* What the application or a D-Bus call is doing: its handler is running, or *)
(* a list of categories is being enabled or disabled.                        *)
HandlerOf(signal, id) == [kind |-> signal, id |-> id, names |-> <<>>, on |-> FALSE]
Loop(names, on)       == [kind |-> "loop", id |-> 0, names |-> names, on |-> on]

Idle == calls = <<>>
InHandler == ~Idle /\ Head(calls).kind # "loop"

(* Who may call the API: the main loop, or a handler of the application.     *)
MayCall ==
  /\ Idle \/ (Reenters /\ InHandler /\ Len(calls) < MaxCalls)
  /\ Len(bus) < MaxBus

Lookup(name) == {id \in table : categories[id].name = name}

With(cats, id, cat) == [i \in DOMAIN cats \cup {id} |-> IF i = id THEN cat ELSE cats[i]]

(* (mutant) A signal does not hold a reference.                              *)
ReferencedByTable(cats, tab, stack) == Restrict(cats, tab)

(* References: a category lives as long as it is in the table, or a signal   *)
(* about it is being emitted.                                                *)
Referenced(cats, tab, stack) ==
  Restrict(cats, {id \in DOMAIN cats : id \in tab \/
                    \E i \in 1..Len(stack) : stack[i].id = id})

-----------------------------------------------------------------------------
(* Announcements                                                             *)

Added(id, cat) == [what |-> "added", id |-> id, name |-> cat.name, flags |-> cat.flags]
Removed(id)    == [what |-> "removed", id |-> id]
FlagsChanged(id, flags)  == [what |-> "flags", id |-> id, flags |-> flags]
LevelChanged(id, level)  == [what |-> "level", id |-> id, level |-> level]
DefaultChanged(level)    == [what |-> "default", level |-> level]

Emit(signals) == bus' = IF started THEN bus \o signals ELSE bus

View(cats, tab, level) == [cats |-> Restrict(cats, tab), level |-> level]

(* The history: what is announced becomes known.                             *)
Announce(id, field, value) ==
  announced' = IF started /\ id \in DOMAIN announced.cats
               THEN [announced EXCEPT !.cats[id][field] = value]
               ELSE announced

-----------------------------------------------------------------------------
(* The API                                                                   *)

(* (mutant) Zero is not skipped.                                             *)
NextIdUnskipped == (last_cid + 1) % Modulus

NextId == LET n == (last_cid + 1) % Modulus IN IF n = 0 THEN 1 ELSE n

NameIsNew(name) == Lookup(name) = {}

InitialFlags(flags) ==
  IF "ENABLED" \in flags THEN Flags ELSE flags

(* dbus_log_server_add_category. The bound: ids do not come round to one     *)
(* which is still in use, which the code does not check.                     *)
AddCategory(name, level, flags) ==
  /\ MayCall /\ NameIsNew(name)
  /\ NextId \notin DOMAIN categories
  /\ LET cat == [name |-> name, level |-> level, flags |-> InitialFlags(flags)]
     IN  /\ categories' = With(categories, NextId, cat)
         /\ announced' = IF started
                         THEN [announced EXCEPT !.cats = With(@, NextId, cat)]
                         ELSE announced
         /\ Emit(<<Added(NextId, cat)>>)
  /\ last_cid' = NextId /\ table' = table \cup {NextId}
  /\ UNCHANGED <<default_level, started, calls>>

(* The ids of some categories in the order of dbus_log_category_sort_name.   *)
Sorted(cats) ==
  {s \in SetToSeqs(DOMAIN cats) :
     \A i, j \in DOMAIN s : i < j => cats[s[i]].name <= cats[s[j]].name}

EmitRemoved(ids) ==
  \E s \in Sorted(Restrict(categories, ids)) :
    Emit([i \in DOMAIN s |-> Removed(s[i])])

(* (mutant) Only single categories are announced.                            *)
UnregisterQuietly(ids) ==
  /\ MayCall /\ ids # {}
  /\ table' = table \ ids
  /\ categories' = Referenced(categories, table', calls)
  /\ announced' = [announced EXCEPT !.cats = Restrict(@, DOMAIN @ \ ids)]
  /\ IF Cardinality(ids) > 1 THEN UNCHANGED bus ELSE EmitRemoved(ids)
  /\ UNCHANGED <<last_cid, default_level, started, calls>>

(* dbus_log_server_remove_category, and ..._remove_all_categories.           *)
Unregister(ids) ==
  /\ MayCall /\ ids # {}
  /\ table' = table \ ids
  /\ categories' = Referenced(categories, table', calls)
  /\ announced' = [announced EXCEPT !.cats = Restrict(@, DOMAIN @ \ ids)]
  /\ EmitRemoved(ids)
  /\ UNCHANGED <<last_cid, default_level, started, calls>>

RemoveCategory(name) == Unregister(Lookup(name))
RemoveAllCategories  == Unregister(table)

(* (mutant) Resetting the level is not a change.                             *)
SetLevelIfDefined(name, level) ==
  /\ MayCall
  /\ \E id \in Lookup(name) :
       /\ categories[id].level # level
       /\ categories' = [categories EXCEPT ![id].level = level]
       /\ calls' = IF level = UNDEFINED THEN calls
                   ELSE <<HandlerOf("level", id)>> \o calls
  /\ UNCHANGED <<table, last_cid, default_level, started, bus, announced>>

(* dbus_log_core_set_category_level, from the API or from D-Bus.             *)
SetCategoryLevel(name, level) ==
  /\ MayCall
  /\ \E id \in Lookup(name) :
       /\ categories[id].level # level
       /\ categories' = [categories EXCEPT ![id].level = level]
       /\ calls' = <<HandlerOf("level", id)>> \o calls
  /\ UNCHANGED <<table, last_cid, default_level, started, bus, announced>>

(* dbus_log_core_set_default_level.                                          *)
SetDefaultLevel(level) ==
  /\ MayCall /\ level # default_level
  /\ default_level' = level
  /\ calls' = <<HandlerOf("default", 0)>> \o calls
  /\ UNCHANGED <<categories, table, last_cid, started, bus, announced>>

(* dbus_log_server_start: from now on GetAll tells what there is.            *)
Start ==
  /\ MayCall /\ ~started
  /\ started' = TRUE
  /\ announced' = View(categories, table, default_level)
  /\ UNCHANGED <<categories, table, last_cid, default_level, calls, bus>>

Stop ==
  /\ Stops /\ MayCall /\ started
  /\ started' = FALSE
  /\ announced' = View(categories, {}, default_level)
  /\ UNCHANGED <<categories, table, last_cid, default_level, calls, bus>>

-----------------------------------------------------------------------------
(* D-Bus calls which enable and disable                                      *)

(* CategoryEnable and CategoryDisable get a list of names.                   *)
SetNamesEnabled(names, on) ==
  /\ Idle /\ started /\ Len(bus) < MaxBus
  /\ calls' = <<Loop(names, on)>>
  /\ UNCHANGED <<categories, table, last_cid, default_level, started, bus, announced>>

(* ...Pattern take those which match now, in the order of names.             *)
SetPatternEnabled(matching, on) ==
  LET found == {id \in table : categories[id].name \in matching}
  IN  \E s \in Sorted(Restrict(categories, found)) :
        SetNamesEnabled([i \in DOMAIN s |-> categories[s[i]].name], on)

Enabled(flags, on) == IF on THEN flags \cup {"ENABLED"} ELSE flags \ {"ENABLED"}

(* dbus_log_core_set_category_enabled for the next name of the list.         *)
EnableNext ==
  /\ ~Idle /\ Head(calls).kind = "loop" /\ Head(calls).names # <<>>
  /\ LET frame   == Head(calls)
         rest    == <<[frame EXCEPT !.names = Tail(@)]>> \o Tail(calls)
         changed == {id \in Lookup(Head(frame.names)) :
                       Enabled(categories[id].flags, frame.on) # categories[id].flags}
     IN  IF changed = {} THEN calls' = rest /\ UNCHANGED categories
         ELSE \E id \in changed :
                /\ categories' = [categories EXCEPT ![id].flags = Enabled(@, frame.on)]
                /\ calls' = <<HandlerOf("flags", id)>> \o rest
  /\ UNCHANGED <<table, last_cid, default_level, started, bus, announced>>

EnableDone ==
  /\ ~Idle /\ Head(calls).kind = "loop" /\ Head(calls).names = <<>>
  /\ calls' = Tail(calls)
  /\ UNCHANGED <<categories, table, last_cid, default_level, started, bus, announced>>

(* Handlers of the application return, and the change is announced over      *)
(* D-Bus: the values are those of now, which a handler may have changed.     *)
(* A category which a handler has removed is still there for its signal.     *)
HandlerReturns ==
  /\ InHandler
  /\ calls' = Tail(calls)
  /\ LET frame == Head(calls)
         id    == frame.id
     IN  \/ /\ frame.kind = "flags"
            /\ Emit(<<FlagsChanged(id, categories[id].flags)>>)
            /\ Announce(id, "flags", categories[id].flags)
         \/ /\ frame.kind = "level"
            /\ Emit(<<LevelChanged(id, categories[id].level)>>)
            /\ Announce(id, "level", categories[id].level)
         \/ /\ frame.kind = "default"
            /\ Emit(<<DefaultChanged(default_level)>>)
            /\ announced' = IF started THEN [announced EXCEPT !.level = default_level]
                            ELSE announced
  /\ categories' = Referenced(categories, table, calls')
  /\ UNCHANGED <<table, last_cid, default_level, started>>

(* The bus delivers, to clients which are not modelled here.                 *)
Deliver == bus # <<>> /\ bus' = Tail(bus) /\ UNCHANGED server

-----------------------------------------------------------------------------
(* dbus_log_core_init, dbus_log_server_initialize                            *)
Init ==
  /\ categories = <<>> /\ table = {} /\ last_cid = 0
  /\ default_level = INFO /\ started = FALSE
  /\ calls = <<>> /\ bus = <<>>
  /\ announced = View(categories, table, default_level)

Request ==
  \E on \in BOOLEAN :
    \/ \E a, b \in Names : SetNamesEnabled(<<a, b>>, on)
    \/ \E matching \in SUBSET Names : SetPatternEnabled(matching, on)

Api ==
  \/ \E name \in Names, level \in Levels \cup {UNDEFINED}, flags \in SUBSET Flags :
        AddCategory(name, level, flags)
  \/ \E name \in Names : RemoveCategory(name)
  \/ RemoveAllCategories
  \/ \E name \in Names, level \in Levels \cup {UNDEFINED} :
        SetCategoryLevel(name, level)
  \/ \E level \in Levels : SetDefaultLevel(level)
  \/ Start

Finishing == EnableNext \/ EnableDone \/ HandlerReturns

Next == Request \/ Api \/ Stop \/ Finishing \/ Deliver

Spec == Init /\ [][Next]_vars

-----------------------------------------------------------------------------
(* Properties                                                                *)

(* The type invariant: a category is there as long as it is referenced by    *)
(* the table or by a signal which is being emitted, and no longer.           *)
TypeOK ==
  /\ DOMAIN categories \subseteq 0..(Modulus - 1)
  /\ \A id \in DOMAIN categories : categories[id] \in Category
  /\ Referenced(categories, table, calls) = categories
  /\ table \subseteq DOMAIN categories
  /\ last_cid \in 0..(Modulus - 1) /\ default_level \in Levels
  /\ started \in BOOLEAN
  /\ \A i \in 1..Len(calls) : calls[i].id \in DOMAIN categories \cup {0}

(* "Log category ids are non-zero" (spec/org.nemomobile.Logger.xml), also    *)
(* after the counter has wrapped around: zero marks messages which belong to *)
(* no category.                                                              *)
IdsAreNotZero == 0 \notin table

(* Names identify categories in the interface of the server and in D-Bus     *)
(* calls: no two of the table have the same one, even when handlers add and  *)
(* remove categories in the middle of other calls.                           *)
NamesIdentify ==
  \A a, b \in table : categories[a].name = categories[b].name => a = b

Announcing(signal, id) ==
  \E i \in 1..Len(calls) : calls[i].kind = signal /\ calls[i].id = id

(* Whoever asked a started server for everything and listened since knows    *)
(* the flags and the level of each category and the default level, or there  *)
(* is a call which is still going to announce them: handlers which change    *)
(* the level again do not make the last announcement a stale one.            *)
AnnouncedOrPending ==
  started =>
    /\ DOMAIN announced.cats = table
    /\ \A id \in table :
         /\ announced.cats[id].flags = categories[id].flags \/ Announcing("flags", id)
         /\ announced.cats[id].level = categories[id].level \/ Announcing("level", id)
    /\ announced.level = default_level \/ Announcing("default", 0)

(* protocol.h: ENABLED_BY_DEFAULT is immutable, and can be used to implement *)
(* "reset to default": the categories which have been enabled or disabled    *)
(* by clients can be told by comparing it with ENABLED.                      *)
DefaultIsKept ==
  [][\A id \in DOMAIN categories \cap DOMAIN categories' :
       "ENABLED_BY_DEFAULT" \in categories[id].flags <=>
       "ENABLED_BY_DEFAULT" \in categories'[id].flags]_vars
=============================================================================
