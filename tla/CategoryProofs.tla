--------------------------- MODULE CategoryProofs ---------------------------
(***************************************************************************)
(* Theorems about LogCategories and CategoryMirror.                        *)
(*                                                                         *)
(* The stack of unfinished calls matters to the first only as a set of     *)
(* frames, `Frames(calls)': which categories it holds references to, and   *)
(* which announcements are still to come.                                  *)
(*                                                                         *)
(* Those about the client's copy follow the sequence of messages which are *)
(* on their way to it: what they make of the categories it has (`Agreed'), *)
(* what the server appends (`Reports') and what the client takes from it   *)
(* (`Applied').                                                            *)
(***************************************************************************)
EXTENDS CategoryMirror, FiniteSetTheorems, TLAPS

(* A list which is being enabled is about no category of its own, and so is  *)
(* a change of the default level.                                            *)
Frame == {frame \in [kind : {"flags", "level", "default", "loop"}, id : Nat,
                     names : Seq(Names), on : BOOLEAN] :
            frame.kind \in {"loop", "default"} <=> frame.id = 0}

Frames(stack) == {stack[i] : i \in 1..Len(stack)}

-----------------------------------------------------------------------------
(* Lemmas about stacks and functions                                         *)

LEMMA Pushed ==
  ASSUME NEW S, NEW s \in Seq(S), NEW e \in S
  PROVE  <<e>> \o s \in Seq(S) /\ Frames(<<e>> \o s) = {e} \cup Frames(s)
<1> DEFINE t == <<e>> \o s
<1>1. /\ t \in Seq(S) /\ Len(t) = Len(s) + 1 /\ t[1] = e
      /\ \A i \in 1..Len(s) : t[i + 1] = s[i]
  OBVIOUS
<1>2. Frames(t) \subseteq {e} \cup Frames(s)
  <2>1. ASSUME NEW i \in 1..Len(t) PROVE t[i] = e \/ t[i] \in Frames(s)
    <3>1. CASE i = 1
      BY <1>1, <3>1
    <3>2. CASE i # 1
      <4>1. i - 1 \in 1..Len(s) /\ t[(i - 1) + 1] = s[i - 1]
        BY <1>1, <3>2
      <4>2. QED
        BY <4>1 DEF Frames
    <3>3. QED
      BY <3>1, <3>2
  <2>2. QED
    BY <2>1 DEF Frames
<1>3. {e} \cup Frames(s) \subseteq Frames(t)
  <2>1. ASSUME NEW i \in 1..Len(s) PROVE s[i] \in Frames(t)
    <3>1. i + 1 \in 1..Len(t) /\ t[i + 1] = s[i]
      BY <1>1
    <3>2. QED
      BY <3>1 DEF Frames
  <2>2. e \in Frames(t)
    <3>1. 1 \in 1..Len(t) /\ t[1] = e
      BY <1>1
    <3>2. QED
      BY <3>1 DEF Frames
  <2>3. QED
    BY <2>1, <2>2 DEF Frames
<1>4. QED
  BY <1>1, <1>2, <1>3

LEMMA Popped ==
  ASSUME NEW S, NEW s \in Seq(S), s # <<>>
  PROVE  /\ Head(s) \in S /\ Tail(s) \in Seq(S)
         /\ Frames(s) = {Head(s)} \cup Frames(Tail(s))
<1>1. Head(s) \in S /\ Tail(s) \in Seq(S) /\ s = <<Head(s)>> \o Tail(s)
  OBVIOUS
<1>2. QED
  BY <1>1, Pushed

IdsOf(stack) == {frame.id : frame \in Frames(stack)}

Due(stack, signal, id) ==
  \E frame \in Frames(stack) : frame.kind = signal /\ frame.id = id

LEMMA PushedIs ==
  ASSUME NEW s, NEW t, NEW e, Frames(t) = {e} \cup Frames(s)
  PROVE  /\ IdsOf(t) = {e.id} \cup IdsOf(s)
         /\ \A signal, id :
              Due(t, signal, id) <=>
                (e.kind = signal /\ e.id = id) \/ Due(s, signal, id)
  BY DEF IdsOf, Due

LEMMA HandlerIs ==
  \A signal, id : HandlerOf(signal, id).kind = signal /\ HandlerOf(signal, id).id = id
  BY DEF HandlerOf

LEMMA ReferencedIs ==
  ASSUME NEW cats, NEW tab, NEW stack, NEW kept, kept = Referenced(cats, tab, stack)
  PROVE  \A id : /\ id \in DOMAIN kept <=>
                      id \in DOMAIN cats /\ id \in tab \cup IdsOf(stack)
                 /\ id \in DOMAIN kept => kept[id] = cats[id]
  BY DEF Referenced, Restrict, IdsOf, Frames

LEMMA ReferencedTyped ==
  ASSUME NEW S, NEW cats, cats \in [DOMAIN cats -> S], NEW tab, NEW stack,
         NEW kept, kept = Referenced(cats, tab, stack)
  PROVE  kept \in [DOMAIN kept -> S]
  BY DEF Referenced, Restrict

LEMMA NextIdInRange ==
  ASSUME last_cid \in 0..(Modulus - 1) PROVE NextId \in 1..(Modulus - 1)
<1>1. Modulus \in Nat /\ Modulus > 1 /\ last_cid \in Nat
  BY CategoryConstants
<1>2. CASE last_cid + 1 = Modulus
  <2>1. (last_cid + 1) % Modulus = 0
    BY <1>1, <1>2
  <2>2. QED
    BY <1>1, <2>1 DEF NextId
<1>3. CASE last_cid + 1 # Modulus
  <2>1. (last_cid + 1) % Modulus = last_cid + 1
    BY <1>1, <1>3
  <2>2. QED
    BY <1>1, <2>1 DEF NextId
<1>4. QED
  BY <1>2, <1>3

-----------------------------------------------------------------------------
(* The inductive invariant                                                   *)

(* A category is there if it is in the table or an unfinished call is about  *)
(* it, and for no other reason.                                              *)
Shape ==
  /\ calls \in Seq(Frame)
  /\ categories \in [DOMAIN categories -> Category]
  /\ DOMAIN categories = (table \cup IdsOf(calls)) \ {0}
  /\ DOMAIN categories \subseteq 1..(Modulus - 1) /\ 0 \notin table
  /\ last_cid \in 0..(Modulus - 1) /\ default_level \in Levels
  /\ started \in BOOLEAN

(* What is announced is what somebody knows who listens to a started server. *)
Published ==
  /\ announced \in [cats : {announced.cats}, level : Levels]
  /\ announced.cats \in [DOMAIN announced.cats -> Category]
  /\ DOMAIN announced.cats = IF started THEN table ELSE {}
  /\ AnnouncedOrPending

CInv == Shape /\ NamesIdentify /\ Published

LEMMA AnnouncingIs ==
  \A signal, id : /\ Announcing(signal, id) <=> Due(calls, signal, id)
                  /\ Announcing(signal, id)' <=> Due(calls', signal, id)
  BY DEF Announcing, Due, Frames

(* A server process which has just begun.                                    *)
Fresh ==
  /\ categories = <<>> /\ table = {} /\ last_cid = 0
  /\ default_level = INFO /\ started = FALSE /\ calls = <<>>
  /\ announced = View(categories, table, default_level)

LEMMA FreshShape == Fresh => CInv
<1> SUFFICES ASSUME Fresh PROVE CInv
  OBVIOUS
<1>1. Shape
  <2>1. IdsOf(calls) = {} /\ calls \in Seq(Frame)
    BY DEF Fresh, IdsOf, Frames
  <2>2. DOMAIN categories = {} /\ categories \in [{} -> Category]
    BY DEF Fresh
  <2>3. /\ table = {} /\ last_cid \in 0..(Modulus - 1) /\ started \in BOOLEAN
        /\ default_level \in Levels
    <3>1. last_cid = 0 /\ default_level = 6 /\ table = {} /\ started = FALSE
      BY DEF Fresh, INFO
    <3>2. 0 \in 0..(Modulus - 1)
      BY CategoryConstants
    <3>3. QED
      BY <3>1, <3>2, CategoryConstants
  <2>4. QED
    BY <2>1, <2>2, <2>3 DEF Shape
<1>2. Published
  <2>1. announced = [cats |-> [id \in {} |-> categories[id]], level |-> INFO]
    BY DEF Fresh, View, Restrict
  <2>2. /\ announced \in [cats : {announced.cats}, level : {INFO}]
        /\ announced.cats \in [{} -> Category] /\ DOMAIN announced.cats = {}
    BY <2>1
  <2>3. ~started /\ INFO \in Levels
    BY CategoryConstants DEF Fresh, INFO
  <2>4. QED
    BY <2>2, <2>3 DEF Published, AnnouncedOrPending
<1>3. NamesIdentify
  BY DEF Fresh, NamesIdentify
<1>4. QED
  BY <1>1, <1>2, <1>3 DEF CInv

LEMMA InitShape == Init => CInv
  BY FreshShape DEF Init, Fresh

-----------------------------------------------------------------------------
(* The API                                                                   *)

LEMMA AddCategoryStep ==
  ASSUME CInv, NEW name \in Names, NEW level \in Levels \cup {UNDEFINED},
         NEW flags \in SUBSET Flags, AddCategory(name, level, flags)
  PROVE  CInv'
<1> DEFINE cat == [name |-> name, level |-> level, flags |-> InitialFlags(flags)]
<1>1. /\ NextId \in 1..(Modulus - 1) /\ NextId \notin DOMAIN categories
      /\ table' = table \cup {NextId} /\ last_cid' = NextId
      /\ UNCHANGED <<default_level, started, calls>>
      /\ \A id \in table : categories[id].name # name
  BY NextIdInRange DEF CInv, Shape, AddCategory, NameIsNew, Lookup
<1>2. cat \in Category
  BY DEF Category, InitialFlags, Flags
<1>3. /\ DOMAIN categories' = DOMAIN categories \cup {NextId}
      /\ categories'[NextId] = cat
      /\ \A id \in DOMAIN categories : categories'[id] = categories[id]
      /\ categories' = [id \in DOMAIN categories' |-> categories'[id]]
  <2>1. categories' = With(categories, NextId, cat)
    BY DEF AddCategory
  <2> HIDE DEF cat
  <2>2. QED
    BY <1>1, <2>1 DEF With
<1>4. Shape'
  <2>1. categories' \in [DOMAIN categories' -> Category]
    BY <1>2, <1>3 DEF CInv, Shape
  <2>2. last_cid' \in 0..(Modulus - 1)
    BY <1>1, CategoryConstants
  <2>3. QED
    BY <1>1, <1>3, <2>1, <2>2 DEF CInv, Shape
<1>5. NamesIdentify'
  <2>1. table \subseteq DOMAIN categories
    BY DEF CInv, Shape
  <2>2. \A id \in table : categories'[id].name = categories[id].name
    BY <1>3, <2>1
  <2>3. categories'[NextId].name = name
    BY <1>3
  <2>4. QED
    BY <1>1, <2>2, <2>3 DEF CInv, NamesIdentify
<1>6. Published'
  <2>1. CASE ~started
    BY <1>1, <2>1 DEF AddCategory, CInv, Published, AnnouncedOrPending
  <2>2. CASE started
    <3>1. announced' = [announced EXCEPT !.cats = With(announced.cats, NextId, cat)]
      BY <2>2 DEF AddCategory
    <3>2. NextId \notin DOMAIN announced.cats /\ DOMAIN announced.cats = table
      BY <1>1, <2>2 DEF CInv, Published, Shape
    <3>3. /\ announced'.cats = With(announced.cats, NextId, cat)
          /\ announced'.level = announced.level
          /\ announced' \in [cats : {announced'.cats}, level : Levels]
      BY <3>1 DEF CInv, Published
    <3>4. /\ DOMAIN announced'.cats = table'
          /\ announced'.cats[NextId] = cat
          /\ \A id \in table : announced'.cats[id] = announced.cats[id]
          /\ announced'.cats \in [DOMAIN announced'.cats -> Category]
      <4>1. announced.cats \in [table -> Category]
        BY <3>2 DEF CInv, Published
      <4> HIDE DEF cat
      <4>2. QED
        BY <1>1, <1>2, <3>2, <3>3, <4>1 DEF With
    <3>5. \A id \in table : categories'[id] = categories[id]
      BY <1>3 DEF CInv, Shape
    <3>6. AnnouncedOrPending'
      <4>1. AnnouncedOrPending
        BY DEF CInv, Published
      <4>2. QED
        BY <1>1, <1>3, <2>2, <3>3, <3>4, <3>5, <4>1, AnnouncingIs DEF AnnouncedOrPending
    <3>7. QED
      BY <1>1, <2>2, <3>3, <3>4, <3>6 DEF Published
  <2>3. QED
    BY <2>1, <2>2
<1>7. QED
  BY <1>4, <1>5, <1>6 DEF CInv

LEMMA UnregisterStep ==
  ASSUME CInv, NEW ids \in SUBSET table, Unregister(ids) PROVE CInv'
<1>1. /\ table' = table \ ids /\ categories' = Referenced(categories, table', calls)
      /\ announced' = [announced EXCEPT
                         !.cats = Restrict(announced.cats, DOMAIN announced.cats \ ids)]
      /\ UNCHANGED <<last_cid, default_level, started, calls>>
  BY DEF Unregister
<1>2. /\ DOMAIN categories' = (table' \cup IdsOf(calls)) \ {0}
      /\ DOMAIN categories' \subseteq DOMAIN categories
      /\ \A id \in DOMAIN categories' : categories'[id] = categories[id]
      /\ categories' \in [DOMAIN categories' -> Category]
  <2>1. categories \in [DOMAIN categories -> Category]
    BY DEF CInv, Shape
  <2>2. /\ \A id : id \in DOMAIN categories' <=>
                     id \in DOMAIN categories /\ id \in table' \cup IdsOf(calls)
        /\ \A id \in DOMAIN categories' : categories'[id] = categories[id]
    BY <1>1, ReferencedIs
  <2>3. categories' \in [DOMAIN categories' -> Category]
    BY <1>1, <2>1, ReferencedTyped
  <2>4. QED
    BY <1>1, <2>2, <2>3 DEF CInv, Shape
<1>3. Shape'
  BY <1>1, <1>2 DEF CInv, Shape
<1>4. table' \subseteq table /\ table' \subseteq DOMAIN categories'
  BY <1>1, <1>3 DEF Shape
<1>5. NamesIdentify'
  BY <1>2, <1>4 DEF CInv, NamesIdentify
<1>6. Published'
  <2>1. /\ announced'.cats = [id \in DOMAIN announced.cats \ ids |-> announced.cats[id]]
        /\ announced'.level = announced.level
        /\ announced' \in [cats : {announced'.cats}, level : Levels]
    BY <1>1 DEF Restrict, CInv, Published
  <2>2. announced'.cats \in [DOMAIN announced'.cats -> Category]
    BY <2>1 DEF CInv, Published
  <2>3. DOMAIN announced'.cats = IF started' THEN table' ELSE {}
    BY <1>1, <2>1 DEF CInv, Published
  <2>4. AnnouncedOrPending'
    <3>1. AnnouncedOrPending /\ (started => DOMAIN announced.cats = table)
      BY DEF CInv, Published
    <3>2. \A signal, other : Announcing(signal, other)' <=> Announcing(signal, other)
      BY <1>1, AnnouncingIs
    <3>3. /\ started' = started /\ default_level' = default_level
          /\ announced'.level = announced.level
      BY <1>1, <2>1
    <3>4. ASSUME started', NEW other \in table'
          PROVE  /\ categories'[other] = categories[other]
                 /\ announced'.cats[other] = announced.cats[other]
                 /\ other \in table
      BY <1>1, <1>2, <1>4, <2>1, <3>1, <3>4
    <3>5. started' => /\ DOMAIN announced'.cats = table'
                      /\ announced'.level = default_level' \/ Announcing("default", 0)'
      BY <2>3, <3>1, <3>2, <3>3 DEF AnnouncedOrPending
    <3>6. ASSUME started', NEW other \in table'
          PROVE  /\ \/ announced'.cats[other].flags = categories'[other].flags
                    \/ Announcing("flags", other)'
                 /\ \/ announced'.cats[other].level = categories'[other].level
                    \/ Announcing("level", other)'
      BY <3>1, <3>2, <3>3, <3>4, <3>6 DEF AnnouncedOrPending
    <3>7. QED
      BY <3>5, <3>6 DEF AnnouncedOrPending
  <2>5. QED
    BY <2>1, <2>2, <2>3, <2>4 DEF Published
<1>7. QED
  BY <1>3, <1>5, <1>6 DEF CInv

LEMMA SetCategoryLevelStep ==
  ASSUME CInv, NEW name \in Names, NEW level \in Levels \cup {UNDEFINED},
         SetCategoryLevel(name, level)
  PROVE  CInv'
<1>1. PICK id \in Lookup(name) :
        /\ categories' = [categories EXCEPT ![id].level = level]
        /\ calls' = <<HandlerOf("level", id)>> \o calls
  BY DEF SetCategoryLevel
<1>2. /\ id \in table /\ id \in DOMAIN categories /\ id \in 1..(Modulus - 1)
      /\ UNCHANGED <<table, last_cid, default_level, started, announced>>
  BY DEF CInv, Shape, Lookup, SetCategoryLevel
<1>3. /\ calls' \in Seq(Frame)
      /\ Frames(calls') = {HandlerOf("level", id)} \cup Frames(calls)
  <2>1. HandlerOf("level", id) \in Frame
    BY <1>2, CategoryConstants DEF HandlerOf, Frame
  <2>2. QED
    BY <1>1, <2>1, Pushed DEF CInv, Shape
<1>4. IdsOf(calls') = {id} \cup IdsOf(calls)
  BY <1>3, PushedIs, HandlerIs
<1>5. /\ categories' \in [DOMAIN categories -> Category]
      /\ \A other \in DOMAIN categories \ {id} : categories'[other] = categories[other]
      /\ categories'[id].name = categories[id].name
      /\ categories'[id].flags = categories[id].flags
  BY <1>1, <1>2 DEF CInv, Shape, Category
<1>6. Shape'
  BY <1>2, <1>3, <1>4, <1>5 DEF CInv, Shape
<1>7. NamesIdentify'
  <2>1. \A other \in table : categories'[other].name = categories[other].name
    BY <1>2, <1>5 DEF CInv, Shape
  <2>2. QED
    BY <1>2, <2>1 DEF CInv, NamesIdentify
<1>8. AnnouncedOrPending'
  <2>1. Announcing("level", id)'
    <3>1. Due(calls', "level", id)
      BY <1>3, HandlerIs DEF Due
    <3>2. QED
      BY <3>1, AnnouncingIs
  <2>2. \A signal, other : Announcing(signal, other) => Announcing(signal, other)'
    BY <1>3, AnnouncingIs DEF Due
  <2>3. AnnouncedOrPending /\ table \subseteq DOMAIN categories
    BY DEF CInv, Published, Shape
  <2>4. QED
    BY <1>2, <1>5, <2>1, <2>2, <2>3 DEF AnnouncedOrPending
<1>9. QED
  BY <1>2, <1>6, <1>7, <1>8 DEF CInv, Published

LEMMA SetDefaultLevelStep ==
  ASSUME CInv, NEW level \in Levels, SetDefaultLevel(level) PROVE CInv'
<1>1. /\ default_level' = level /\ calls' = <<HandlerOf("default", 0)>> \o calls
      /\ UNCHANGED <<categories, table, last_cid, started, announced>>
  BY DEF SetDefaultLevel
<1>2. /\ calls' \in Seq(Frame)
      /\ Frames(calls') = {HandlerOf("default", 0)} \cup Frames(calls)
  <2>1. HandlerOf("default", 0) \in Frame
    BY DEF HandlerOf, Frame
  <2>2. QED
    BY <1>1, <2>1, Pushed DEF CInv, Shape
<1>3. IdsOf(calls') = {0} \cup IdsOf(calls)
  <2>1. HandlerOf("default", 0).id = 0
    BY HandlerIs
  <2>2. IdsOf(calls') = {HandlerOf("default", 0).id} \cup IdsOf(calls)
    BY <1>2, PushedIs
  <2>3. QED
    BY <2>1, <2>2
<1>4. Shape' /\ NamesIdentify'
  BY <1>1, <1>2, <1>3 DEF CInv, Shape, NamesIdentify
<1>5. AnnouncedOrPending'
  <2>1. Announcing("default", 0)'
    <3>1. Due(calls', "default", 0)
      BY <1>2, HandlerIs DEF Due
    <3>2. QED
      BY <3>1, AnnouncingIs
  <2>2. \A signal, id : Announcing(signal, id) => Announcing(signal, id)'
    BY <1>2, AnnouncingIs DEF Due
  <2>3. QED
    BY <1>1, <2>1, <2>2 DEF CInv, Published, AnnouncedOrPending
<1>6. QED
  BY <1>1, <1>4, <1>5 DEF CInv, Published

LEMMA StartStep == ASSUME CInv, Start PROVE CInv'
<1>1. /\ started' = TRUE /\ announced' = View(categories, table, default_level)
      /\ UNCHANGED <<categories, table, last_cid, default_level, calls>>
  BY DEF Start
<1>2. Shape' /\ NamesIdentify'
  BY <1>1 DEF CInv, Shape, NamesIdentify
<1>3. /\ announced'.cats = [id \in table |-> categories[id]]
      /\ announced'.level = default_level
      /\ announced' \in [cats : {announced'.cats}, level : Levels]
  BY <1>1 DEF View, Restrict, CInv, Shape
<1>4. announced'.cats \in [table -> Category] /\ DOMAIN announced'.cats = table
  BY <1>3 DEF CInv, Shape
<1>5. AnnouncedOrPending'
  BY <1>1, <1>3 DEF AnnouncedOrPending
<1>6. QED
  BY <1>1, <1>2, <1>3, <1>4, <1>5 DEF CInv, Published

LEMMA StopStep == ASSUME CInv, Stop PROVE CInv'
<1>1. /\ started' = FALSE /\ announced' = View(categories, {}, default_level)
      /\ UNCHANGED <<categories, table, last_cid, default_level, calls>>
  BY DEF Stop
<1>2. Shape' /\ NamesIdentify'
  BY <1>1 DEF CInv, Shape, NamesIdentify
<1>3. /\ announced'.cats = [id \in {} |-> categories[id]]
      /\ announced' \in [cats : {announced'.cats}, level : Levels]
  BY <1>1 DEF View, Restrict, CInv, Shape
<1>4. announced'.cats \in [{} -> Category] /\ DOMAIN announced'.cats = {}
  BY <1>3
<1>5. QED
  BY <1>1, <1>2, <1>3, <1>4 DEF CInv, Published, AnnouncedOrPending

-----------------------------------------------------------------------------
(* D-Bus calls which enable and disable                                      *)

LEMMA SetNamesEnabledStep ==
  ASSUME CInv, NEW names \in Seq(Names), NEW on \in BOOLEAN, SetNamesEnabled(names, on)
  PROVE  CInv'
<1>1. /\ calls = <<>> /\ calls' = <<Loop(names, on)>>
      /\ UNCHANGED <<categories, table, last_cid, default_level, started, announced>>
  BY DEF SetNamesEnabled, Idle
<1>2. Loop(names, on) \in Frame /\ Loop(names, on).id = 0
  BY DEF Loop, Frame
<1>3. /\ calls' \in Seq(Frame) /\ Frames(calls') = {Loop(names, on)}
      /\ Frames(calls) = {}
  BY <1>1, <1>2 DEF Frames
<1>4. IdsOf(calls') = {0} /\ IdsOf(calls) = {}
  BY <1>2, <1>3 DEF IdsOf
<1>5. Shape' /\ NamesIdentify'
  BY <1>1, <1>3, <1>4 DEF CInv, Shape, NamesIdentify
<1>6. AnnouncedOrPending'
  <2>1. \A signal, id : ~Announcing(signal, id)
    BY <1>3, AnnouncingIs DEF Due
  <2>2. QED
    BY <1>1, <2>1 DEF CInv, Published, AnnouncedOrPending
<1>7. QED
  BY <1>1, <1>5, <1>6 DEF CInv, Published

LEMMA EnableDoneStep == ASSUME CInv, EnableDone PROVE CInv'
<1>1. /\ calls # <<>> /\ Head(calls).kind = "loop" /\ calls' = Tail(calls)
      /\ UNCHANGED <<categories, table, last_cid, default_level, started, announced>>
  BY DEF EnableDone, Idle
<1>2. /\ Head(calls) \in Frame /\ calls' \in Seq(Frame)
      /\ Frames(calls) = {Head(calls)} \cup Frames(calls')
  BY <1>1, Popped DEF CInv, Shape
<1>3. Head(calls).id = 0
  BY <1>1, <1>2 DEF Frame
<1>4. /\ IdsOf(calls) = {0} \cup IdsOf(calls')
      /\ \A signal, id : Due(calls, signal, id) <=>
                         (signal = "loop" /\ id = 0) \/ Due(calls', signal, id)
  BY <1>1, <1>2, <1>3, PushedIs
<1>5. Shape' /\ NamesIdentify'
  BY <1>1, <1>2, <1>4 DEF CInv, Shape, NamesIdentify
<1>6. AnnouncedOrPending'
  <2>1. \A id : /\ Announcing("flags", id) => Announcing("flags", id)'
                /\ Announcing("level", id) => Announcing("level", id)'
                /\ Announcing("default", id) => Announcing("default", id)'
    BY <1>4, AnnouncingIs
  <2>2. QED
    BY <1>1, <2>1 DEF CInv, Published, AnnouncedOrPending
<1>7. QED
  BY <1>1, <1>5, <1>6 DEF CInv, Published

LEMMA EnableNextStep == ASSUME CInv, EnableNext PROVE CInv'
<1> DEFINE frame   == Head(calls)
           rest    == <<[frame EXCEPT !.names = Tail(@)]>> \o Tail(calls)
           changed == {id \in Lookup(Head(frame.names)) :
                         Enabled(categories[id].flags, frame.on) # categories[id].flags}
<1>1. /\ calls # <<>> /\ frame.kind = "loop" /\ frame.names # <<>>
      /\ UNCHANGED <<table, last_cid, default_level, started, announced>>
      /\ \/ changed = {} /\ calls' = rest /\ UNCHANGED categories
         \/ \E id \in changed :
              /\ categories' = [categories EXCEPT ![id].flags = Enabled(@, frame.on)]
              /\ calls' = <<HandlerOf("flags", id)>> \o rest
  BY DEF EnableNext, Idle
<1>2. /\ frame \in Frame /\ Tail(calls) \in Seq(Frame)
      /\ Frames(calls) = {frame} \cup Frames(Tail(calls))
  BY <1>1, Popped DEF CInv, Shape
<1>3. PICK next \in Frame : /\ next = [frame EXCEPT !.names = Tail(@)]
                            /\ next.kind = frame.kind /\ next.id = frame.id
  <2> HIDE DEF frame
  <2>1. Tail(frame.names) \in Seq(Names)
    BY <1>1, <1>2 DEF Frame
  <2>2. [frame EXCEPT !.names = Tail(@)] \in Frame
    BY <1>2, <2>1 DEF Frame
  <2>3. /\ [frame EXCEPT !.names = Tail(@)].kind = frame.kind
        /\ [frame EXCEPT !.names = Tail(@)].id = frame.id
    BY <1>2 DEF Frame
  <2>4. QED
    BY <2>2, <2>3
<1>4. rest \in Seq(Frame) /\ Frames(rest) = {next} \cup Frames(Tail(calls))
  BY <1>2, <1>3, Pushed
<1>5. /\ IdsOf(rest) = IdsOf(calls)
      /\ \A signal, id : Due(rest, signal, id) <=> Due(calls, signal, id)
  <2> HIDE DEF rest
  <2>1. /\ IdsOf(rest) = {next.id} \cup IdsOf(Tail(calls))
        /\ \A signal, id : Due(rest, signal, id) <=>
             (next.kind = signal /\ next.id = id) \/ Due(Tail(calls), signal, id)
    BY <1>4, PushedIs
  <2>2. /\ IdsOf(calls) = {frame.id} \cup IdsOf(Tail(calls))
        /\ \A signal, id : Due(calls, signal, id) <=>
             (frame.kind = signal /\ frame.id = id) \/ Due(Tail(calls), signal, id)
    BY <1>2, PushedIs
  <2>3. QED
    BY <1>3, <2>1, <2>2
<1> HIDE DEF rest
<1>6. CASE calls' = rest /\ UNCHANGED categories
  <2>1. Shape' /\ NamesIdentify'
    BY <1>1, <1>4, <1>5, <1>6 DEF CInv, Shape, NamesIdentify
  <2>2. AnnouncedOrPending'
    <3>1. \A signal, id : Announcing(signal, id) <=> Announcing(signal, id)'
      BY <1>5, <1>6, AnnouncingIs
    <3>2. QED
      BY <1>1, <1>6, <3>1 DEF CInv, Published, AnnouncedOrPending
  <2>3. QED
    BY <1>1, <2>1, <2>2 DEF CInv, Published
<1>7. ASSUME NEW id \in changed,
             categories' = [categories EXCEPT ![id].flags = Enabled(@, frame.on)],
             calls' = <<HandlerOf("flags", id)>> \o rest
      PROVE  CInv'
  <2>1. id \in table /\ id \in DOMAIN categories /\ id \in 1..(Modulus - 1)
    BY <1>7 DEF CInv, Shape, Lookup
  <2>2. HandlerOf("flags", id) \in Frame
    BY <2>1, CategoryConstants DEF HandlerOf, Frame
  <2>3. /\ calls' \in Seq(Frame)
        /\ Frames(calls') = {HandlerOf("flags", id)} \cup Frames(rest)
    BY <1>4, <1>7, <2>2, Pushed
  <2>4. /\ IdsOf(calls') = {id} \cup IdsOf(calls)
        /\ \A signal, other : Due(calls', signal, other) <=>
             (signal = "flags" /\ other = id) \/ Due(calls, signal, other)
    <3>1. /\ IdsOf(calls') = {HandlerOf("flags", id).id} \cup IdsOf(rest)
          /\ \A signal, other : Due(calls', signal, other) <=>
               \/ HandlerOf("flags", id).kind = signal /\ HandlerOf("flags", id).id = other
               \/ Due(rest, signal, other)
      BY <2>3, PushedIs
    <3>2. QED
      BY <1>5, <3>1, HandlerIs
  <2>5. /\ categories' \in [DOMAIN categories -> Category]
        /\ \A other \in DOMAIN categories \ {id} : categories'[other] = categories[other]
        /\ categories'[id].name = categories[id].name
        /\ categories'[id].level = categories[id].level
    <3>1. categories[id] \in Category /\ Enabled(categories[id].flags, frame.on) \in SUBSET Flags
      BY <2>1 DEF CInv, Shape, Category, Enabled, Flags
    <3>2. QED
      BY <1>7, <2>1, <3>1 DEF CInv, Shape, Category
  <2>6. Shape'
    BY <1>1, <2>1, <2>3, <2>4, <2>5 DEF CInv, Shape
  <2>7. NamesIdentify'
    <3>1. \A other \in table : categories'[other].name = categories[other].name
      BY <2>1, <2>5 DEF CInv, Shape
    <3>2. QED
      BY <1>1, <3>1 DEF CInv, NamesIdentify
  <2>8. AnnouncedOrPending'
    <3>1. Announcing("flags", id)'
      BY <2>4, AnnouncingIs
    <3>2. \A signal, other : Announcing(signal, other) => Announcing(signal, other)'
      BY <2>4, AnnouncingIs
    <3>3. AnnouncedOrPending /\ table \subseteq DOMAIN categories
      BY DEF CInv, Published, Shape
    <3>4. QED
      BY <1>1, <2>5, <3>1, <3>2, <3>3 DEF AnnouncedOrPending
  <2>9. QED
    BY <1>1, <2>6, <2>7, <2>8 DEF CInv, Published
<1>8. QED
  BY <1>1, <1>6, <1>7

-----------------------------------------------------------------------------
(* Handlers return                                                           *)

LEMMA HandlerReturnsStep == ASSUME CInv, HandlerReturns PROVE CInv'
<1> DEFINE frame == Head(calls)
           id    == frame.id
<1>1. /\ calls # <<>> /\ calls' = Tail(calls) /\ frame.kind # "loop"
      /\ categories' = Referenced(categories, table, calls')
      /\ UNCHANGED <<table, last_cid, default_level, started>>
      /\ \/ frame.kind = "flags" /\ Announce(id, "flags", categories[id].flags)
         \/ frame.kind = "level" /\ Announce(id, "level", categories[id].level)
         \/ /\ frame.kind = "default"
            /\ announced' = IF started THEN [announced EXCEPT !.level = default_level]
                            ELSE announced
  BY DEF HandlerReturns, InHandler, Idle
<1>2. /\ frame \in Frame /\ calls' \in Seq(Frame)
      /\ Frames(calls) = {frame} \cup Frames(calls')
  BY <1>1, Popped DEF CInv, Shape
<1>3. /\ IdsOf(calls) = {id} \cup IdsOf(calls')
      /\ \A signal, other : Due(calls, signal, other) <=>
           (frame.kind = signal /\ id = other) \/ Due(calls', signal, other)
  BY <1>2, PushedIs
<1> HIDE DEF frame
<1>4. /\ \A other : other \in DOMAIN categories' <=>
                     other \in DOMAIN categories /\ other \in table \cup IdsOf(calls')
      /\ \A other \in DOMAIN categories' : categories'[other] = categories[other]
  BY <1>1, ReferencedIs
<1>5. Shape'
  <2>1. categories' \in [DOMAIN categories' -> Category]
    <3>1. categories \in [DOMAIN categories -> Category]
      BY DEF CInv, Shape
    <3>2. QED
      BY <1>1, <3>1, ReferencedTyped
  <2>2. DOMAIN categories' = (table \cup IdsOf(calls')) \ {0}
    BY <1>3, <1>4 DEF CInv, Shape
  <2>3. QED
    BY <1>1, <1>2, <1>4, <2>1, <2>2 DEF CInv, Shape
<1>6. table' = table /\ table \subseteq DOMAIN categories'
  BY <1>1, <1>5 DEF Shape
<1>7. NamesIdentify'
  BY <1>4, <1>6 DEF CInv, NamesIdentify
<1>8. CASE ~started
  <2>1. UNCHANGED announced
    BY <1>1, <1>8 DEF Announce
  <2>2. QED
    BY <1>1, <1>5, <1>7, <1>8, <2>1 DEF CInv, Published, AnnouncedOrPending
<1>9. CASE started
  <2>1. /\ \A other \in table : /\ announced.cats[other] \in Category
                                /\ categories[other] \in Category
                                /\ categories'[other] = categories[other]
        /\ announced.cats \in [table -> Category]
        /\ announced \in [cats : {announced.cats}, level : Levels]
        /\ AnnouncedOrPending
    BY <1>4, <1>6, <1>9 DEF CInv, Published, Shape
  <2>2. CASE frame.kind = "flags" /\ id \in table
    <3>1. announced' = [announced EXCEPT !.cats[id]["flags"] = categories[id].flags]
      BY <1>1, <1>9, <2>1, <2>2 DEF Announce
    <3>2. /\ announced'.cats \in [table -> Category]
          /\ announced' \in [cats : {announced'.cats}, level : Levels]
          /\ announced'.level = announced.level
          /\ \A other \in table \ {id} : announced'.cats[other] = announced.cats[other]
          /\ announced'.cats[id].flags = categories[id].flags
          /\ announced'.cats[id].level = announced.cats[id].level
      <4>1. /\ announced'.cats = [announced.cats EXCEPT ![id]["flags"] = categories[id].flags]
            /\ announced' \in [cats : {announced'.cats}, level : Levels]
            /\ announced'.level = announced.level
        BY <2>1, <3>1
      <4>2. announced.cats[id] \in Category /\ categories[id] \in Category
        BY <2>1, <2>2
      <4>3. [announced.cats[id] EXCEPT !["flags"] = categories[id].flags] \in Category
        BY <4>2 DEF Category
      <4>4. announced'.cats \in [table -> Category]
        BY <2>1, <2>2, <4>1, <4>3
      <4>5. QED
        BY <2>1, <2>2, <4>1, <4>2, <4>4 DEF Category
    <3>3. \A signal, other :
            Announcing(signal, other) =>
              (signal = "flags" /\ other = id) \/ Announcing(signal, other)'
      BY <1>3, <2>2, AnnouncingIs
    <3>4. AnnouncedOrPending'
      BY <1>1, <1>6, <1>9, <2>1, <3>2, <3>3 DEF AnnouncedOrPending
    <3>5. QED
      BY <1>1, <1>5, <1>7, <1>9, <3>2, <3>4 DEF CInv, Published
  <2>3. CASE frame.kind = "level" /\ id \in table
    <3>1. announced' = [announced EXCEPT !.cats[id]["level"] = categories[id].level]
      BY <1>1, <1>9, <2>1, <2>3 DEF Announce
    <3>2. /\ announced'.cats \in [table -> Category]
          /\ announced' \in [cats : {announced'.cats}, level : Levels]
          /\ announced'.level = announced.level
          /\ \A other \in table \ {id} : announced'.cats[other] = announced.cats[other]
          /\ announced'.cats[id].level = categories[id].level
          /\ announced'.cats[id].flags = announced.cats[id].flags
      <4>1. /\ announced'.cats = [announced.cats EXCEPT ![id]["level"] = categories[id].level]
            /\ announced' \in [cats : {announced'.cats}, level : Levels]
            /\ announced'.level = announced.level
        BY <2>1, <3>1
      <4>2. announced.cats[id] \in Category /\ categories[id] \in Category
        BY <2>1, <2>3
      <4>3. [announced.cats[id] EXCEPT !["level"] = categories[id].level] \in Category
        BY <4>2 DEF Category
      <4>4. announced'.cats \in [table -> Category]
        BY <2>1, <2>3, <4>1, <4>3
      <4>5. QED
        BY <2>1, <2>3, <4>1, <4>2, <4>4 DEF Category
    <3>3. \A signal, other :
            Announcing(signal, other) =>
              (signal = "level" /\ other = id) \/ Announcing(signal, other)'
      BY <1>3, <2>3, AnnouncingIs
    <3>4. AnnouncedOrPending'
      BY <1>1, <1>6, <1>9, <2>1, <3>2, <3>3 DEF AnnouncedOrPending
    <3>5. QED
      BY <1>1, <1>5, <1>7, <1>9, <3>2, <3>4 DEF CInv, Published
  <2>4. CASE frame.kind \in {"flags", "level"} /\ id \notin table
    <3>1. UNCHANGED announced
      BY <1>1, <2>1, <2>4 DEF Announce
    <3>2. \A signal, other :
            Announcing(signal, other) =>
              (signal # "default" /\ other = id) \/ Announcing(signal, other)'
      BY <1>3, <2>4, AnnouncingIs
    <3>3. AnnouncedOrPending'
      BY <1>1, <1>6, <1>9, <2>1, <2>4, <3>1, <3>2 DEF AnnouncedOrPending
    <3>4. QED
      BY <1>1, <1>5, <1>7, <1>9, <3>1, <3>3 DEF CInv, Published
  <2>5. CASE frame.kind = "default"
    <3>1. announced' = [announced EXCEPT !.level = default_level]
      BY <1>1, <1>9, <2>5
    <3>2. /\ announced'.cats = announced.cats /\ announced'.level = default_level
          /\ announced' \in [cats : {announced'.cats}, level : Levels]
      BY <2>1, <3>1 DEF CInv, Shape
    <3>3. \A signal, other :
            Announcing(signal, other) => signal = "default" \/ Announcing(signal, other)'
      BY <1>3, <2>5, AnnouncingIs
    <3>4. AnnouncedOrPending'
      BY <1>1, <1>6, <1>9, <2>1, <3>2, <3>3 DEF AnnouncedOrPending
    <3>5. QED
      BY <1>1, <1>5, <1>7, <1>9, <2>1, <3>2, <3>4 DEF CInv, Published
  <2>6. QED
    BY <1>1, <2>2, <2>3, <2>4, <2>5
<1>10. QED
  BY <1>8, <1>9

-----------------------------------------------------------------------------
(* The theorems                                                              *)

(* A list of names which is made from a pattern is a list of names.          *)
LEMMA PatternIsList ==
  ASSUME CInv, NEW found \in SUBSET table, NEW s \in Sorted(Restrict(categories, found))
  PROVE  [i \in DOMAIN s |-> categories[s[i]].name] \in Seq(Names)
<1>1. DOMAIN Restrict(categories, found) = found
  BY DEF Restrict
<1>2. s \in [1..Cardinality(found) -> found]
  BY <1>1 DEF Sorted, SetToSeqs
<1>3. Cardinality(found) \in Nat
  <2>1. IsFiniteSet(1..(Modulus - 1))
    BY FS_Interval, CategoryConstants
  <2>2. found \subseteq 1..(Modulus - 1)
    BY DEF CInv, Shape
  <2>3. QED
    BY <2>1, <2>2, FS_Subset, FS_CardinalityType
<1>4. \A i \in 1..Cardinality(found) : categories[s[i]].name \in Names
  BY <1>2 DEF CInv, Shape, Category
<1>5. QED
  BY <1>2, <1>3, <1>4

LEMMA RequestStep == ASSUME CInv, Request PROVE CInv'
<1>1. PICK on \in BOOLEAN :
        \/ \E a, b \in Names : SetNamesEnabled(<<a, b>>, on)
        \/ \E matching \in SUBSET Names : SetPatternEnabled(matching, on)
  BY DEF Request
<1>2. ASSUME NEW a \in Names, NEW b \in Names, SetNamesEnabled(<<a, b>>, on) PROVE CInv'
  <2>1. <<a, b>> \in Seq(Names)
    OBVIOUS
  <2>2. QED
    BY <1>2, <2>1, SetNamesEnabledStep
<1>3. ASSUME NEW matching \in SUBSET Names, SetPatternEnabled(matching, on) PROVE CInv'
  <2> DEFINE found == {id \in table : categories[id].name \in matching}
  <2>1. PICK s \in Sorted(Restrict(categories, found)) :
          SetNamesEnabled([i \in DOMAIN s |-> categories[s[i]].name], on)
    BY <1>3 DEF SetPatternEnabled
  <2>2. found \in SUBSET table
    OBVIOUS
  <2> HIDE DEF found
  <2>3. [i \in DOMAIN s |-> categories[s[i]].name] \in Seq(Names)
    BY <2>2, PatternIsList
  <2>4. QED
    BY <2>1, <2>3, SetNamesEnabledStep
<1>4. QED
  BY <1>1, <1>2, <1>3

LEMMA ApiStep == ASSUME CInv, Api PROVE CInv'
<1>1. CASE \E name \in Names, level \in Levels \cup {UNDEFINED}, flags \in SUBSET Flags :
             AddCategory(name, level, flags)
  BY <1>1, AddCategoryStep
<1>2. CASE \E name \in Names : RemoveCategory(name)
  <2>1. \A name : Lookup(name) \in SUBSET table
    BY DEF Lookup
  <2>2. QED
    BY <1>2, <2>1, UnregisterStep DEF RemoveCategory
<1>3. CASE RemoveAllCategories
  BY <1>3, UnregisterStep DEF RemoveAllCategories
<1>4. CASE \E name \in Names, level \in Levels \cup {UNDEFINED} :
             SetCategoryLevel(name, level)
  BY <1>4, SetCategoryLevelStep
<1>5. CASE \E level \in Levels : SetDefaultLevel(level)
  BY <1>5, SetDefaultLevelStep
<1>6. CASE Start
  BY <1>6, StartStep
<1>7. QED
  BY <1>1, <1>2, <1>3, <1>4, <1>5, <1>6 DEF Api

LEMMA NextStep == ASSUME CInv, [Next]_vars PROVE CInv'
<1>1. CASE Request \/ Api \/ Stop
  BY <1>1, RequestStep, ApiStep, StopStep
<1>2. CASE Finishing
  BY <1>2, EnableNextStep, EnableDoneStep, HandlerReturnsStep DEF Finishing
<1>3. CASE Deliver \/ UNCHANGED vars
  <2>1. UNCHANGED <<categories, table, last_cid, default_level, started, calls, announced>>
    BY <1>3 DEF Deliver, vars, server
  <2>2. QED
    BY <2>1 DEF CInv, Shape, NamesIdentify, Published, AnnouncedOrPending, Announcing
<1>4. QED
  BY <1>1, <1>2, <1>3 DEF Next

LEMMA ShapeIsTypeOK == CInv => TypeOK
<1> SUFFICES ASSUME CInv PROVE TypeOK
  OBVIOUS
<1>1. Referenced(categories, table, calls) = categories
  <2>1. PICK kept : kept = Referenced(categories, table, calls)
    OBVIOUS
  <2>2. categories \in [DOMAIN categories -> Category] /\ kept \in [DOMAIN kept -> Category]
    BY <2>1, ReferencedTyped DEF CInv, Shape
  <2>3. DOMAIN kept = DOMAIN categories
    BY <2>1, ReferencedIs, ZenonT(40) DEF CInv, Shape
  <2>4. \A id \in DOMAIN kept : kept[id] = categories[id]
    BY <2>1, ReferencedIs
  <2>5. QED
    BY <2>1, <2>2, <2>3, <2>4
<1>2. \A i \in 1..Len(calls) : calls[i].id \in DOMAIN categories \cup {0}
  <2>1. \A i \in 1..Len(calls) : calls[i].id \in IdsOf(calls)
    BY DEF IdsOf, Frames
  <2>2. QED
    BY <2>1 DEF CInv, Shape
<1>3. QED
  BY <1>1, <1>2, CategoryConstants DEF CInv, Shape, TypeOK

(* The inductive invariant holds in every reachable state.                   *)
THEOREM CategoryInvariance == Spec => []CInv
  BY InitShape, NextStep, PTL DEF Spec

(* A category lives exactly as long as it is in the table or an unfinished   *)
(* call of the API is about it: references are neither leaked nor lost.      *)
THEOREM CategoriesTyped == Spec => []TypeOK
  BY CategoryInvariance, ShapeIsTypeOK, PTL

(* Ids of categories are not zero, however often the counter wraps around.   *)
THEOREM IdsNotZero == Spec => []IdsAreNotZero
<1>1. CInv => IdsAreNotZero
  BY DEF CInv, Shape, IdsAreNotZero
<1>2. QED
  BY <1>1, CategoryInvariance, PTL

(* Every change of a category or of the default level has been announced as  *)
(* it is now, or a call is going to, however deep handlers are nested.       *)
THEOREM ChangesAnnounced == Spec => []AnnouncedOrPending
<1>1. CInv => AnnouncedOrPending
  BY DEF CInv, Published
<1>2. QED
  BY <1>1, CategoryInvariance, PTL

KeptBy(id) == "ENABLED_BY_DEFAULT" \in categories[id].flags <=>
              "ENABLED_BY_DEFAULT" \in categories'[id].flags

LEMMA DefaultStep ==
  ASSUME CInv, [Next]_vars, NEW id \in DOMAIN categories \cap DOMAIN categories'
  PROVE  KeptBy(id)
<1> SUFFICES ASSUME categories'[id] # categories[id] PROVE KeptBy(id)
  BY DEF KeptBy
<1>1. categories \in [DOMAIN categories -> Category]
  BY DEF CInv, Shape
<1>2. ASSUME NEW name, NEW level, NEW flags, AddCategory(name, level, flags) PROVE FALSE
  BY <1>2 DEF AddCategory, With
<1>3. ASSUME NEW ids, Unregister(ids) PROVE FALSE
  BY <1>3, ReferencedIs DEF Unregister
<1>4. ASSUME NEW name, NEW level, SetCategoryLevel(name, level) PROVE KeptBy(id)
  <2>1. PICK other \in Lookup(name) :
          categories' = [categories EXCEPT ![other].level = level]
    BY <1>4 DEF SetCategoryLevel
  <2>2. categories'[id].flags = categories[id].flags
    BY <1>1, <2>1 DEF Category
  <2>3. QED
    BY <2>2 DEF KeptBy
<1>5. CASE EnableNext
  <2>1. PICK other, on : categories' = [categories EXCEPT ![other].flags = Enabled(@, on)]
    BY <1>5 DEF EnableNext
  <2>2. categories'[id].flags = Enabled(categories[id].flags, on)
    BY <1>1, <2>1 DEF Category
  <2>3. QED
    BY <2>2 DEF KeptBy, Enabled
<1>6. CASE HandlerReturns
  BY <1>6, ReferencedIs DEF HandlerReturns
<1>7. CASE Api
  BY <1>2, <1>3, <1>4, <1>7 DEF Api, RemoveCategory, RemoveAllCategories, SetDefaultLevel, Start
<1>8. CASE Request \/ Stop \/ EnableDone \/ Deliver \/ UNCHANGED vars
  BY <1>8 DEF Request, SetNamesEnabled, SetPatternEnabled, Stop, EnableDone, Deliver, vars, server
<1>9. QED
  BY <1>5, <1>6, <1>7, <1>8 DEF Next, Finishing

(* Nothing ever changes ENABLED_BY_DEFAULT of a category, so that clients    *)
(* can return to the default.                                                *)
THEOREM DefaultKept == Spec => DefaultIsKept
<1>1. CInv /\ [Next]_vars =>
        [\A id \in DOMAIN categories \cap DOMAIN categories' :
           "ENABLED_BY_DEFAULT" \in categories[id].flags <=>
           "ENABLED_BY_DEFAULT" \in categories'[id].flags]_vars
  BY DefaultStep DEF KeptBy
<1>2. QED
  BY <1>1, CategoryInvariance, PTL DEF Spec, DefaultIsKept

-----------------------------------------------------------------------------
(* Sequences of messages: what they tell somebody who has some categories    *)

(* What the client keeps of a category, and its table of them.               *)
Entry == [name : Names, flags : SUBSET Flags]
Copies == UNION {[ids -> Entry] : ids \in SUBSET (1..Modulus - 1)}

Message ==
  [what : {"appeared", "vanished"}]
    \cup [what : {"version", "error"}, init : Nat]
    \cup [what : {"all"}, init : Nat, cats : Copies]
    \cup [what : {"added"}, id : 1..(Modulus - 1), name : Names, flags : SUBSET Flags]
    \cup [what : {"removed"}, id : Nat]
    \cup [what : {"flags"}, id : Nat, flags : SUBSET Flags]
    \cup [what : {"level"}, id : Nat, level : Levels \cup {UNDEFINED}]
    \cup [what : {"default"}, level : Levels]

(* The server has not gone.                                                  *)
NoEnd(signals) == \A i \in 1..Len(signals) : signals[i].what # "vanished"

(* As long as the server has not gone, a category is added to who does not   *)
(* know it, and removed from who does.                                       *)
Alternating(cats, signals) ==
  \A n \in 1..Len(signals) : (\A j \in 1..n : signals[j].what # "vanished") =>
    \A id : Tells(signals[n], id) =>
      (signals[n].what = "added" <=> ~KnowsAfter(cats, signals, n - 1, id))

(* In the end all that is known of the categories is what is known to be.    *)
Agreed(cats, signals, known) ==
  /\ \A id : KnowsAfter(cats, signals, Len(signals), id) <=> id \in DOMAIN known
  /\ \A id \in DOMAIN known : /\ NameAfter(cats, signals, id, known[id].name)
                              /\ FlagsAfter(cats, signals, id, known[id].flags)

(* The new messages tell how what is known has changed.                      *)
Reports(new, old, now) ==
  \A id :
    /\ \A j \in 1..Len(new) : Tells(new[j], id) =>
         /\ \A k \in 1..Len(new) : Tells(new[k], id) => k = j
         /\ new[j].what = "added" <=> id \notin DOMAIN old
         /\ new[j].what = "added" <=> id \in DOMAIN now
         /\ new[j].what = "added" => new[j].name = now[id].name
    /\ (\A j \in 1..Len(new) : ~Tells(new[j], id)) =>
         /\ id \in DOMAIN old <=> id \in DOMAIN now
         /\ id \in DOMAIN now => now[id].name = old[id].name
    /\ id \in DOMAIN now =>
         /\ \A j \in 1..Len(new) : Updates(new[j], id) => new[j].flags = now[id].flags
         /\ (\A j \in 1..Len(new) : ~Updates(new[j], id)) =>
              now[id].flags = old[id].flags

LEMMA JoinIs ==
  ASSUME NEW S, NEW s \in Seq(S), NEW t \in Seq(S), NEW u, u = s \o t
  PROVE  /\ u \in Seq(S) /\ Len(u) = Len(s) + Len(t) /\ Len(s) \in Nat /\ Len(t) \in Nat
         /\ \A i \in 1..Len(s) : i \in 1..Len(u) /\ u[i] = s[i]
         /\ \A i \in 1..Len(t) : Len(s) + i \in 1..Len(u) /\ u[Len(s) + i] = t[i]
         /\ \A i \in 1..Len(u) : i > Len(s) =>
              i - Len(s) \in 1..Len(t) /\ u[i] = t[i - Len(s)]
  OBVIOUS

LEMMA KnowsKept ==
  ASSUME NEW cats, NEW s, NEW u, NEW m \in Nat, NEW n \in Nat, m <= n, NEW id,
         \A i \in 1..m : u[i] = s[i],
         \A i \in m + 1..n : ~Tells(u[i], id)
  PROVE  KnowsAfter(cats, u, n, id) <=> KnowsAfter(cats, s, m, id)
<1>1. \A i \in 1..n : i \in 1..m \/ i \in m + 1..n
  OBVIOUS
<1>2. \A i \in 1..m : i \in 1..n
  OBVIOUS
<1>3. ASSUME KnowsAfter(cats, u, n, id) PROVE KnowsAfter(cats, s, m, id)
  <2>1. CASE id \in DOMAIN cats /\ \A i \in 1..n : ~Tells(u[i], id)
    BY <1>2, <2>1 DEF KnowsAfter
  <2>2. ASSUME NEW i \in 1..n, Tells(u[i], id), u[i].what = "added",
               \A j \in i + 1..n : ~Tells(u[j], id)
        PROVE  KnowsAfter(cats, s, m, id)
    <3>1. i \in 1..m
      BY <1>1, <2>2
    <3>2. \A j \in i + 1..m : j \in i + 1..n /\ j \in 1..m
      BY <3>1
    <3>3. \A j \in i + 1..m : ~Tells(s[j], id)
      BY <2>2, <3>2
    <3>4. QED
      BY <2>2, <3>1, <3>3 DEF KnowsAfter
  <2>3. QED
    BY <1>3, <2>1, <2>2 DEF KnowsAfter
<1>4. ASSUME KnowsAfter(cats, s, m, id) PROVE KnowsAfter(cats, u, n, id)
  <2>1. CASE id \in DOMAIN cats /\ \A i \in 1..m : ~Tells(s[i], id)
    BY <1>1, <2>1 DEF KnowsAfter
  <2>2. ASSUME NEW i \in 1..m, Tells(s[i], id), s[i].what = "added",
               \A j \in i + 1..m : ~Tells(s[j], id)
        PROVE  KnowsAfter(cats, u, n, id)
    <3>1. \A j \in i + 1..n : j \in i + 1..m \/ j \in m + 1..n
      OBVIOUS
    <3>2. \A j \in i + 1..m : j \in 1..m
      BY <2>2
    <3>3. \A j \in i + 1..n : ~Tells(u[j], id)
      BY <2>2, <3>1, <3>2
    <3>4. QED
      BY <1>2, <2>2, <3>3 DEF KnowsAfter
  <2>3. QED
    BY <1>4, <2>1, <2>2 DEF KnowsAfter
<1>5. QED
  BY <1>3, <1>4

LEMMA KnowsTold ==
  ASSUME NEW cats, NEW u, NEW n \in Nat, NEW id, NEW i \in 1..n, Tells(u[i], id),
         \A j \in i + 1..n : ~Tells(u[j], id)
  PROVE  KnowsAfter(cats, u, n, id) <=> u[i].what = "added"
<1>1. ASSUME NEW k \in 1..n, Tells(u[k], id), \A j \in k + 1..n : ~Tells(u[j], id)
      PROVE  k = i
  <2>1. k < i => i \in k + 1..n
    OBVIOUS
  <2>2. i < k => k \in i + 1..n
    OBVIOUS
  <2>3. QED
    BY <1>1, <2>1, <2>2
<1>2. QED
  BY <1>1 DEF KnowsAfter

LEMMA AlternatingGrows ==
  ASSUME NEW cats, NEW old, NEW now, NEW s \in Seq(Message), NEW new \in Seq(Message),
         Alternating(cats, s), NoEnd(s) => Agreed(cats, s, old) /\ Reports(new, old, now),
         NEW u, u = s \o new
  PROVE  Alternating(cats, u)
<1>1. /\ Len(u) = Len(s) + Len(new) /\ Len(s) \in Nat /\ Len(new) \in Nat
      /\ \A i \in 1..Len(s) : i \in 1..Len(u) /\ u[i] = s[i]
      /\ \A i \in 1..Len(new) : Len(s) + i \in 1..Len(u) /\ u[Len(s) + i] = new[i]
      /\ \A i \in 1..Len(u) : i > Len(s) =>
           i - Len(s) \in 1..Len(new) /\ u[i] = new[i - Len(s)]
  BY JoinIs
<1>2. SUFFICES ASSUME NEW n \in 1..Len(u), \A j \in 1..n : u[j].what # "vanished",
                      NEW id, Tells(u[n], id)
               PROVE  u[n].what = "added" <=> ~KnowsAfter(cats, u, n - 1, id)
  BY DEF Alternating
<1>3. CASE n <= Len(s)
  <2>1. n \in 1..Len(s) /\ u[n] = s[n] /\ n - 1 \in Nat
    BY <1>1, <1>3
  <2>2. \A j \in 1..n : s[j].what # "vanished"
    <3>1. \A j \in 1..n : j \in 1..Len(s)
      BY <1>1, <1>3
    <3>2. QED
      BY <1>1, <1>2, <3>1
  <2>3. s[n].what = "added" <=> ~KnowsAfter(cats, s, n - 1, id)
    BY <1>2, <2>1, <2>2 DEF Alternating
  <2>4. \A i \in 1..n - 1 : u[i] = s[i]
    <3>1. \A i \in 1..n - 1 : i \in 1..Len(s)
      BY <1>1, <1>3
    <3>2. QED
      BY <1>1, <3>1
  <2>5. PICK m \in Nat : m = n - 1
    BY <2>1
  <2>6. \A i \in m + 1..m : ~Tells(u[i], id)
    OBVIOUS
  <2>7. m <= m /\ \A i \in 1..m : u[i] = s[i]
    BY <2>4, <2>5
  <2>8. KnowsAfter(cats, u, m, id) <=> KnowsAfter(cats, s, m, id)
    BY <2>6, <2>7, KnowsKept
  <2>9. QED
    BY <2>1, <2>3, <2>5, <2>8
<1>4. CASE Len(s) < n
  <2>1. PICK l \in Nat, m \in Nat : l = Len(s) /\ m = n - 1 /\ l <= m
    BY <1>1, <1>4
  <2>2. NoEnd(s)
    <3>1. \A j \in 1..l : j \in 1..n
      BY <1>4, <2>1
    <3>2. QED
      BY <1>1, <1>2, <2>1, <3>1 DEF NoEnd
  <2>3. Agreed(cats, s, old) /\ Reports(new, old, now)
    BY <2>2
  <2>4. PICK j \in 1..Len(new) : j = n - l /\ u[n] = new[j]
    BY <1>1, <1>4, <2>1
  <2>5. /\ \A k \in 1..Len(new) : Tells(new[k], id) => k = j
        /\ new[j].what = "added" <=> id \notin DOMAIN old
    BY <1>2, <2>3, <2>4 DEF Reports
  <2>6. ASSUME NEW i \in l + 1..m PROVE ~Tells(u[i], id)
    <3>1. i \in 1..Len(u) /\ i > Len(s) /\ i - l # j
      BY <1>1, <2>1, <2>4
    <3>2. i - l \in 1..Len(new) /\ u[i] = new[i - l]
      BY <1>1, <2>1, <3>1
    <3>3. QED
      BY <2>5, <3>1, <3>2
  <2>7. \A i \in 1..l : u[i] = s[i]
    BY <1>1, <2>1
  <2>8. KnowsAfter(cats, u, m, id) <=> KnowsAfter(cats, s, l, id)
    BY ONLY <2>1, <2>6, <2>7, KnowsKept, l \in Nat, m \in Nat, SMTT(20)
  <2>9. KnowsAfter(cats, s, l, id) <=> id \in DOMAIN old
    BY <2>1, <2>3 DEF Agreed
  <2>10. QED
    BY <2>1, <2>4, <2>5, <2>8, <2>9
<1>5. QED
  BY <1>1, <1>3, <1>4

LEMMA AgreedGrows ==
  ASSUME NEW cats, NEW old, NEW now, NEW s \in Seq(Message), NEW new \in Seq(Message),
         Agreed(cats, s, old), Reports(new, old, now), NEW u, u = s \o new
  PROVE  Agreed(cats, u, now)
<1>1. /\ Len(u) = Len(s) + Len(new) /\ Len(s) \in Nat /\ Len(new) \in Nat
      /\ \A i \in 1..Len(s) : i \in 1..Len(u) /\ u[i] = s[i]
      /\ \A i \in 1..Len(new) : Len(s) + i \in 1..Len(u) /\ u[Len(s) + i] = new[i]
      /\ \A i \in 1..Len(u) : i > Len(s) =>
           i - Len(s) \in 1..Len(new) /\ u[i] = new[i - Len(s)]
  BY JoinIs
<1>2. PICK l \in Nat, k \in Nat : l = Len(s) /\ k = Len(new) /\ Len(u) = l + k
  BY <1>1
<1>3. /\ \A i \in 1..l : i \in 1..l + k /\ u[i] = s[i]
      /\ \A i \in 1..k : l + i \in 1..l + k /\ u[l + i] = new[i]
      /\ \A i \in l + 1..l + k : i \in 1..l + k /\ i - l \in 1..k /\ u[i] = new[i - l]
  BY <1>1, <1>2
<1>4. ASSUME NEW id PROVE KnowsAfter(cats, u, l + k, id) <=> id \in DOMAIN now
  <2>1. CASE \E j \in 1..k : Tells(new[j], id)
    <3>1. PICK j \in 1..k : Tells(new[j], id)
      BY <2>1
    <3>2. /\ \A i \in 1..k : Tells(new[i], id) => i = j
          /\ new[j].what = "added" <=> id \in DOMAIN now
      BY <1>2, <3>1 DEF Reports
    <3>3. l + j \in 1..l + k /\ Tells(u[l + j], id) /\ u[l + j].what = new[j].what
      BY <1>3, <3>1
    <3>4. ASSUME NEW i \in l + j + 1..l + k PROVE ~Tells(u[i], id)
      <4>1. i \in l + 1..l + k /\ i - l # j
        OBVIOUS
      <4>2. QED
        BY <1>3, <3>2, <4>1
    <3>5. PICK n \in Nat : n = l + k
      OBVIOUS
    <3>6. PICK p \in 1..n : p = l + j
      BY <3>3, <3>5
    <3>7. KnowsAfter(cats, u, n, id) <=> u[p].what = "added"
      BY <3>3, <3>4, <3>5, <3>6, KnowsTold, ZenonT(40)
    <3>8. QED
      BY <3>2, <3>3, <3>5, <3>6, <3>7
  <2>2. CASE \A j \in 1..k : ~Tells(new[j], id)
    <3>1. \A i \in l + 1..l + k : ~Tells(u[i], id)
      BY <1>3, <2>2
    <3>2. PICK n \in Nat : n = l + k /\ l <= n
      OBVIOUS
    <3>3. KnowsAfter(cats, u, n, id) <=> KnowsAfter(cats, s, l, id)
      BY <1>3, <3>1, <3>2, KnowsKept
    <3>4. KnowsAfter(cats, s, l, id) <=> id \in DOMAIN old
      BY <1>2 DEF Agreed
    <3>5. id \in DOMAIN old <=> id \in DOMAIN now
      BY <1>2, <2>2 DEF Reports
    <3>6. QED
      BY <3>2, <3>3, <3>4, <3>5
  <2>3. QED
    BY <2>1, <2>2
<1>5. ASSUME NEW id \in DOMAIN now PROVE NameAfter(cats, u, id, now[id].name)
  <2>1. ASSUME NEW j \in 1..k, Tells(new[j], id)
        PROVE  new[j].name = now[id].name
    BY <1>2, <2>1 DEF Reports
  <2>2. ASSUME \A j \in 1..k : ~Tells(new[j], id)
        PROVE  id \in DOMAIN old /\ now[id].name = old[id].name
    BY <1>2, <2>2 DEF Reports
  <2>3. ASSUME \A i \in 1..l + k : ~Tells(u[i], id) PROVE cats[id].name = now[id].name
    <3>1. \A j \in 1..k : ~Tells(new[j], id)
      BY <1>3, <2>3
    <3>2. \A i \in 1..l : ~Tells(s[i], id)
      BY <1>3, <2>3
    <3>3. QED
      BY <1>2, <2>2, <3>1, <3>2 DEF Agreed, NameAfter
  <2>4. ASSUME NEW i \in 1..l + k, Tells(u[i], id),
               \A j \in i + 1..l + k : ~Tells(u[j], id)
        PROVE  u[i].name = now[id].name
    <3>1. CASE l < i
      <4>1. i \in l + 1..l + k
        BY <3>1
      <4>2. QED
        BY <1>3, <2>1, <2>4, <4>1
    <3>2. CASE i <= l
      <4>1. ASSUME NEW j \in 1..k PROVE ~Tells(new[j], id)
        <5>1. l + j \in i + 1..l + k
          BY <3>2
        <5>2. QED
          BY <1>3, <2>4, <5>1
      <4>2. \A j \in i + 1..l : j \in i + 1..l + k /\ j \in 1..l
        OBVIOUS
      <4>3. i \in 1..l /\ Tells(s[i], id) /\ \A j \in i + 1..l : ~Tells(s[j], id)
        <5>1. i \in 1..l
          BY <3>2
        <5>2. \A j \in i + 1..l : ~Tells(s[j], id)
          BY <1>3, <2>4, <4>2
        <5>3. QED
          BY <1>3, <2>4, <5>1, <5>2
      <4>4. id \in DOMAIN old /\ now[id].name = old[id].name
        BY <2>2, <4>1
      <4>5. s[i].name = old[id].name
        BY <1>2, <4>3, <4>4 DEF Agreed, NameAfter
      <4>6. QED
        BY <1>3, <4>3, <4>4, <4>5
    <3>3. l < i \/ i <= l
      OBVIOUS
    <3>4. QED
      BY <3>1, <3>2, <3>3
  <2>5. QED
    BY <1>2, <2>3, <2>4 DEF NameAfter
<1>6. ASSUME NEW id \in DOMAIN now PROVE FlagsAfter(cats, u, id, now[id].flags)
  <2>1. ASSUME NEW j \in 1..k, Updates(new[j], id)
        PROVE  new[j].flags = now[id].flags
    BY <1>2, <2>1 DEF Reports
  <2>2. ASSUME \A j \in 1..k : ~Updates(new[j], id)
        PROVE  id \in DOMAIN old /\ now[id].flags = old[id].flags
    <3>1. now[id].flags = old[id].flags
      BY <1>2, <2>2 DEF Reports
    <3>2. CASE \E j \in 1..k : Tells(new[j], id)
      <4>1. PICK j \in 1..k : Tells(new[j], id)
        BY <3>2
      <4>2. new[j].what # "added"
        BY <2>2, <4>1 DEF Updates, Tells
      <4>3. QED
        BY <1>2, <4>1, <4>2 DEF Reports
    <3>3. CASE \A j \in 1..k : ~Tells(new[j], id)
      BY <1>2, <3>1, <3>3 DEF Reports
    <3>4. QED
      BY <3>2, <3>3
  <2>3. ASSUME \A i \in 1..l + k : ~Updates(u[i], id)
        PROVE cats[id].flags = now[id].flags
    <3>1. \A j \in 1..k : ~Updates(new[j], id)
      BY <1>3, <2>3
    <3>2. \A i \in 1..l : ~Updates(s[i], id)
      BY <1>3, <2>3
    <3>3. QED
      BY <1>2, <2>2, <3>1, <3>2 DEF Agreed, FlagsAfter
  <2>4. ASSUME NEW i \in 1..l + k, Updates(u[i], id),
               \A j \in i + 1..l + k : ~Updates(u[j], id)
        PROVE  u[i].flags = now[id].flags
    <3>1. CASE l < i
      <4>1. i \in l + 1..l + k
        BY <3>1
      <4>2. QED
        BY <1>3, <2>1, <2>4, <4>1
    <3>2. CASE i <= l
      <4>1. ASSUME NEW j \in 1..k PROVE ~Updates(new[j], id)
        <5>1. l + j \in i + 1..l + k
          BY <3>2
        <5>2. QED
          BY <1>3, <2>4, <5>1
      <4>2. \A j \in i + 1..l : j \in i + 1..l + k /\ j \in 1..l
        OBVIOUS
      <4>3. i \in 1..l /\ Updates(s[i], id) /\ \A j \in i + 1..l : ~Updates(s[j], id)
        <5>1. i \in 1..l
          BY <3>2
        <5>2. \A j \in i + 1..l : ~Updates(s[j], id)
          BY <1>3, <2>4, <4>2
        <5>3. QED
          BY <1>3, <2>4, <5>1, <5>2
      <4>4. id \in DOMAIN old /\ now[id].flags = old[id].flags
        BY <2>2, <4>1
      <4>5. s[i].flags = old[id].flags
        BY <1>2, <4>3, <4>4 DEF Agreed, FlagsAfter
      <4>6. QED
        BY <1>3, <4>3, <4>4, <4>5
    <3>3. l < i \/ i <= l
      OBVIOUS
    <3>4. QED
      BY <3>1, <3>2, <3>3
  <2>5. QED
    BY <1>2, <2>3, <2>4 DEF FlagsAfter
<1>7. QED
  BY <1>2, <1>4, <1>5, <1>6 DEF Agreed

-----------------------------------------------------------------------------
(* Handling the first of the messages                                        *)

(* What m makes of the categories which somebody knows.                      *)
Applied(cats, m, next) ==
  /\ \A id : Tells(m, id) =>
       /\ id \in DOMAIN next <=> m.what = "added"
       /\ id \in DOMAIN next => next[id].name = m.name
  /\ \A id : ~Tells(m, id) =>
       /\ id \in DOMAIN next <=> id \in DOMAIN cats
       /\ id \in DOMAIN next => next[id].name = cats[id].name
  /\ \A id \in DOMAIN next :
       /\ Updates(m, id) => next[id].flags = m.flags
       /\ ~Updates(m, id) => next[id].flags = cats[id].flags

LEMMA TailIs ==
  ASSUME NEW S, NEW u \in Seq(S), u # <<>>, NEW t, t = Tail(u)
  PROVE  /\ t \in Seq(S) /\ Len(t) \in Nat /\ Len(u) = Len(t) + 1
         /\ u[1] = Head(u) /\ Head(u) \in S /\ 1 \in 1..Len(u)
         /\ \A i \in 1..Len(t) : i + 1 \in 1..Len(u) /\ u[i + 1] = t[i]
         /\ \A i \in 1..Len(u) : i # 1 => i - 1 \in 1..Len(t) /\ t[i - 1] = u[i]
  OBVIOUS

LEMMA KnowsTail ==
  ASSUME NEW cats, NEW next, NEW u, NEW t, NEW n \in Nat, NEW id,
         \A i \in 1..n : u[i + 1] = t[i], Applied(cats, u[1], next)
  PROVE  KnowsAfter(cats, u, n + 1, id) <=> KnowsAfter(next, t, n, id)
<1>1. \A i \in 1..n + 1 : i = 1 \/ (i - 1 \in 1..n /\ (i - 1) + 1 = i)
  OBVIOUS
<1>2. \A i \in 1..n : i + 1 \in 1..n + 1
  OBVIOUS
<1>3. 1 \in 1..n + 1 /\ \A i \in 2..n + 1 : i - 1 \in 1..n /\ (i - 1) + 1 = i
  OBVIOUS
<1>4. ASSUME KnowsAfter(cats, u, n + 1, id) PROVE KnowsAfter(next, t, n, id)
  <2>1. CASE id \in DOMAIN cats /\ \A i \in 1..n + 1 : ~Tells(u[i], id)
    <3>1. id \in DOMAIN next
      BY <1>3, <2>1 DEF Applied
    <3>2. \A i \in 1..n : ~Tells(t[i], id)
      BY <1>2, <2>1
    <3>3. QED
      BY <3>1, <3>2 DEF KnowsAfter
  <2>2. ASSUME NEW i \in 1..n + 1, Tells(u[i], id), u[i].what = "added",
               \A j \in i + 1..n + 1 : ~Tells(u[j], id)
        PROVE  KnowsAfter(next, t, n, id)
    <3>1. CASE i = 1
      <4>1. id \in DOMAIN next
        BY <2>2, <3>1 DEF Applied
      <4>2. ASSUME NEW j \in 1..n PROVE ~Tells(t[j], id)
        <5>1. j + 1 \in i + 1..n + 1
          BY <3>1
        <5>2. QED
          BY <2>2, <5>1
      <4>3. QED
        BY <4>1, <4>2 DEF KnowsAfter
    <3>2. CASE i # 1
      <4>1. PICK k \in 1..n : i = k + 1
        BY <1>1, <3>2
      <4>2. Tells(t[k], id) /\ t[k].what = "added"
        BY <2>2, <4>1
      <4>3. ASSUME NEW j \in k + 1..n PROVE ~Tells(t[j], id)
        <5>1. j + 1 \in i + 1..n + 1 /\ j \in 1..n
          BY <4>1
        <5>2. QED
          BY <2>2, <5>1
      <4>4. QED
        BY <4>2, <4>3 DEF KnowsAfter
    <3>3. QED
      BY <3>1, <3>2
  <2>3. QED
    BY <1>4, <2>1, <2>2 DEF KnowsAfter
<1>5. ASSUME KnowsAfter(next, t, n, id) PROVE KnowsAfter(cats, u, n + 1, id)
  <2>1. CASE id \in DOMAIN next /\ \A i \in 1..n : ~Tells(t[i], id)
    <3>1. \A i \in 2..n + 1 : ~Tells(u[i], id)
      BY <1>3, <2>1
    <3>2. CASE Tells(u[1], id)
      <4>1. u[1].what = "added"
        BY <2>1, <3>2 DEF Applied
      <4>2. \A j \in 1 + 1..n + 1 : ~Tells(u[j], id)
        BY <3>1
      <4>3. QED
        BY <1>3, <3>2, <4>1, <4>2 DEF KnowsAfter
    <3>3. CASE ~Tells(u[1], id)
      <4>1. id \in DOMAIN cats
        BY <2>1, <3>3 DEF Applied
      <4>2. \A i \in 1..n + 1 : ~Tells(u[i], id)
        BY <1>1, <2>1, <3>3
      <4>3. QED
        BY <4>1, <4>2 DEF KnowsAfter
    <3>4. QED
      BY <3>2, <3>3
  <2>2. ASSUME NEW i \in 1..n, Tells(t[i], id), t[i].what = "added",
               \A j \in i + 1..n : ~Tells(t[j], id)
        PROVE  KnowsAfter(cats, u, n + 1, id)
    <3>1. i + 1 \in 1..n + 1 /\ Tells(u[i + 1], id) /\ u[i + 1].what = "added"
      BY <1>2, <2>2
    <3>2. ASSUME NEW j \in (i + 1) + 1..n + 1 PROVE ~Tells(u[j], id)
      <4>1. j - 1 \in i + 1..n /\ j - 1 \in 1..n /\ (j - 1) + 1 = j
        OBVIOUS
      <4>2. QED
        BY <2>2, <4>1
    <3>3. QED
      BY <3>1, <3>2 DEF KnowsAfter
  <2>3. QED
    BY <1>5, <2>1, <2>2 DEF KnowsAfter
<1>6. QED
  BY <1>4, <1>5

LEMMA AlternatingTail ==
  ASSUME NEW cats, NEW next, NEW u \in Seq(Message), u # <<>>, Alternating(cats, u),
         Head(u).what # "vanished", Applied(cats, Head(u), next), NEW t, t = Tail(u)
  PROVE  Alternating(next, t)
<1>1. /\ Len(t) \in Nat /\ Len(u) = Len(t) + 1 /\ u[1] = Head(u)
      /\ \A i \in 1..Len(t) : i + 1 \in 1..Len(u) /\ u[i + 1] = t[i]
      /\ \A i \in 1..Len(u) : i # 1 => i - 1 \in 1..Len(t) /\ t[i - 1] = u[i]
  BY TailIs
<1>2. SUFFICES ASSUME NEW n \in 1..Len(t), \A j \in 1..n : t[j].what # "vanished",
                      NEW id, Tells(t[n], id)
               PROVE  t[n].what = "added" <=> ~KnowsAfter(next, t, n - 1, id)
  BY DEF Alternating
<1>3. n + 1 \in 1..Len(u) /\ u[n + 1] = t[n]
  BY <1>1
<1>4. ASSUME NEW j \in 1..n + 1 PROVE u[j].what # "vanished"
  <2>1. CASE j = 1
    BY <1>1, <2>1
  <2>2. CASE j # 1
    <3>1. j \in 1..Len(u) /\ j - 1 \in 1..n
      BY <1>1, <2>2
    <3>2. QED
      BY <1>1, <1>2, <2>2, <3>1
  <2>3. QED
    BY <2>1, <2>2
<1>5. u[n + 1].what = "added" <=> ~KnowsAfter(cats, u, (n + 1) - 1, id)
  BY <1>2, <1>3, <1>4 DEF Alternating
<1>6. PICK m \in Nat : m = n - 1 /\ m + 1 = n /\ m + 1 = (n + 1) - 1
  OBVIOUS
<1>7. \A i \in 1..m : u[i + 1] = t[i]
  <2>1. \A i \in 1..m : i \in 1..Len(t)
    BY <1>1, <1>6
  <2>2. QED
    BY <1>1, <2>1
<1>8. Applied(cats, u[1], next)
  BY <1>1
<1>9. KnowsAfter(cats, u, m + 1, id) <=> KnowsAfter(next, t, m, id)
  BY <1>7, <1>8, KnowsTail
<1>10. QED
  BY <1>3, <1>5, <1>6, <1>9

LEMMA AgreedTail ==
  ASSUME NEW cats, NEW next, NEW known, NEW u \in Seq(Message), u # <<>>,
         Agreed(cats, u, known), Applied(cats, Head(u), next), NEW t, t = Tail(u)
  PROVE  Agreed(next, t, known)
<1>1. PICK n \in Nat : n = Len(t) /\ Len(u) = n + 1
  BY TailIs
<1>2. /\ Applied(cats, u[1], next) /\ \A i \in 1..n : u[i + 1] = t[i]
      /\ 1 \in 1..n + 1
      /\ \A i \in 1..n + 1 : i = 1 \/ (i - 1 \in 1..n /\ t[i - 1] = u[i])
  BY <1>1, TailIs
<1>3. ASSUME NEW id PROVE KnowsAfter(next, t, n, id) <=> id \in DOMAIN known
  <2>1. KnowsAfter(cats, u, n + 1, id) <=> KnowsAfter(next, t, n, id)
    BY <1>2, KnowsTail
  <2>2. QED
    BY <1>1, <2>1 DEF Agreed
<1>4. ASSUME NEW id \in DOMAIN known, \A i \in 1..n : ~Updates(t[i], id)
      PROVE  id \in DOMAIN next
  <2>1. \A i \in 1..n : ~(Tells(t[i], id) /\ t[i].what = "added")
    BY <1>4 DEF Tells, Updates
  <2>2. KnowsAfter(next, t, n, id)
    BY <1>3
  <2>3. QED
    BY <2>1, <2>2 DEF KnowsAfter
<1>5. ASSUME NEW id \in DOMAIN known, \A i \in 1..n : ~Tells(t[i], id)
      PROVE  id \in DOMAIN next
  <2>1. KnowsAfter(next, t, n, id)
    BY <1>3
  <2>2. QED
    BY <1>5, <2>1 DEF KnowsAfter
<1>6. ASSUME NEW id \in DOMAIN known PROVE NameAfter(next, t, id, known[id].name)
  <2>1. NameAfter(cats, u, id, known[id].name)
    BY DEF Agreed
  <2>2. ASSUME \A i \in 1..n : ~Tells(t[i], id) PROVE next[id].name = known[id].name
    <3>1. id \in DOMAIN next
      BY <1>5, <2>2
    <3>2. \A j \in 1 + 1..n + 1 : ~Tells(u[j], id)
      <4>1. \A j \in 1 + 1..n + 1 : j \in 1..n + 1 /\ j # 1
        OBVIOUS
      <4>2. QED
        BY <1>2, <2>2, <4>1
    <3>3. CASE Tells(u[1], id)
      <4>1. u[1].name = known[id].name
        BY <1>1, <1>2, <2>1, <3>2, <3>3 DEF NameAfter
      <4>2. QED
        BY <1>2, <3>1, <3>3, <4>1 DEF Applied
    <3>4. CASE ~Tells(u[1], id)
      <4>1. \A j \in 1..n + 1 : ~Tells(u[j], id)
        BY <1>2, <2>2, <3>4
      <4>2. cats[id].name = known[id].name
        BY <1>1, <2>1, <4>1 DEF NameAfter
      <4>3. QED
        BY <1>2, <3>1, <3>4, <4>2 DEF Applied
    <3>5. QED
      BY <3>3, <3>4
  <2>3. ASSUME NEW i \in 1..n, Tells(t[i], id), \A j \in i + 1..n : ~Tells(t[j], id)
        PROVE  t[i].name = known[id].name
    <3>1. PICK k \in 1..n + 1 : k = i + 1
      OBVIOUS
    <3>2. u[k] = t[i]
      BY <1>2, <3>1
    <3>3. ASSUME NEW j \in k + 1..n + 1 PROVE ~Tells(u[j], id)
      <4>1. j \in 1..n + 1 /\ j # 1 /\ j - 1 \in i + 1..n
        BY <3>1
      <4>2. QED
        BY <1>2, <2>3, <4>1
    <3>4. QED
      BY <1>1, <2>1, <2>3, <3>2, <3>3 DEF NameAfter
  <2>4. QED
    BY <1>1, <2>2, <2>3 DEF NameAfter
<1>7. ASSUME NEW id \in DOMAIN known PROVE FlagsAfter(next, t, id, known[id].flags)
  <2>1. FlagsAfter(cats, u, id, known[id].flags)
    BY DEF Agreed
  <2>2. ASSUME \A i \in 1..n : ~Updates(t[i], id) PROVE next[id].flags = known[id].flags
    <3>1. id \in DOMAIN next
      BY <1>4, <2>2
    <3>2. \A j \in 1 + 1..n + 1 : ~Updates(u[j], id)
      <4>1. \A j \in 1 + 1..n + 1 : j \in 1..n + 1 /\ j # 1
        OBVIOUS
      <4>2. QED
        BY <1>2, <2>2, <4>1
    <3>3. CASE Updates(u[1], id)
      <4>1. u[1].flags = known[id].flags
        BY <1>1, <1>2, <2>1, <3>2, <3>3 DEF FlagsAfter
      <4>2. QED
        BY <1>2, <3>1, <3>3, <4>1 DEF Applied
    <3>4. CASE ~Updates(u[1], id)
      <4>1. \A j \in 1..n + 1 : ~Updates(u[j], id)
        BY <1>2, <2>2, <3>4
      <4>2. cats[id].flags = known[id].flags
        BY <1>1, <2>1, <4>1 DEF FlagsAfter
      <4>3. QED
        BY <1>2, <3>1, <3>4, <4>2 DEF Applied
    <3>5. QED
      BY <3>3, <3>4
  <2>3. ASSUME NEW i \in 1..n, Updates(t[i], id), \A j \in i + 1..n : ~Updates(t[j], id)
        PROVE  t[i].flags = known[id].flags
    <3>1. PICK k \in 1..n + 1 : k = i + 1
      OBVIOUS
    <3>2. u[k] = t[i]
      BY <1>2, <3>1
    <3>3. ASSUME NEW j \in k + 1..n + 1 PROVE ~Updates(u[j], id)
      <4>1. j \in 1..n + 1 /\ j # 1 /\ j - 1 \in i + 1..n
        BY <3>1
      <4>2. QED
        BY <1>2, <2>3, <4>1
    <3>4. QED
      BY <1>1, <2>1, <2>3, <3>2, <3>3 DEF FlagsAfter
  <2>4. QED
    BY <1>1, <2>2, <2>3 DEF FlagsAfter
<1>8. QED
  BY <1>1, <1>3, <1>6, <1>7 DEF Agreed

-----------------------------------------------------------------------------
(* What the server tells                                                     *)

(* Names do not change.                                                      *)
NamesKnown == started => \A id \in table : announced.cats[id].name = categories[id].name

ServerSignals == {"added", "removed", "flags", "level", "default"}

(* The messages of a step of the server report what it has announced.        *)
Telling ==
  \E new \in Seq(Message) :
    /\ bus' = bus \o new
    /\ \A j \in 1..Len(new) : new[j].what \in ServerSignals
    /\ started => started' /\ Reports(new, announced.cats, announced'.cats)

LEMMA Single ==
  ASSUME NEW S, NEW m \in S, NEW new, new = <<m>>
  PROVE  /\ new \in Seq(S) /\ Len(new) = 1 /\ new[1] = m /\ 1 \in 1..Len(new)
         /\ \A j \in 1..Len(new) : j = 1 /\ new[j] = m
  OBVIOUS

LEMMA NothingReported ==
  ASSUME NEW known, NEW new, \A j \in 1..Len(new) : \A id : ~Tells(new[j], id) /\ ~Updates(new[j], id)
  PROVE  Reports(new, known, known)
  BY DEF Reports

LEMMA QuietTelling ==
  ASSUME bus \in Seq(Message), bus' = bus,
         started => started' /\ announced'.cats = announced.cats
  PROVE  Telling
<1>1. <<>> \in Seq(Message) /\ bus' = bus \o <<>> /\ Len(<<>>) = 0
  OBVIOUS
<1>2. PICK new \in Seq(Message) : new = <<>>
  BY <1>1
<1>3. \A j : j \notin 1..Len(new)
  BY <1>1, <1>2
<1>4. Reports(new, announced.cats, announced.cats)
  BY <1>3, NothingReported
<1>5. started => started' /\ Reports(new, announced.cats, announced'.cats)
  BY <1>4
<1>6. QED
  BY <1>1, <1>2, <1>3, <1>5 DEF Telling

LEMMA SignalIs ==
  /\ \A cid, cat, id : /\ Added(cid, cat).what = "added"
                       /\ Tells(Added(cid, cat), id) <=> id = cid
                       /\ Updates(Added(cid, cat), id) <=> id = cid
  /\ \A cid, id : /\ Removed(cid).what = "removed"
                  /\ Tells(Removed(cid), id) <=> id = cid
                  /\ ~Updates(Removed(cid), id)
  /\ \A cid, flags, id : /\ FlagsChanged(cid, flags).what = "flags"
                         /\ ~Tells(FlagsChanged(cid, flags), id)
                         /\ Updates(FlagsChanged(cid, flags), id) <=> id = cid
  /\ \A cid, level, id : /\ LevelChanged(cid, level).what = "level"
                         /\ ~Tells(LevelChanged(cid, level), id)
                         /\ ~Updates(LevelChanged(cid, level), id)
  /\ \A level, id : /\ DefaultChanged(level).what = "default"
                    /\ ~Tells(DefaultChanged(level), id)
                    /\ ~Updates(DefaultChanged(level), id)
  BY DEF Added, Removed, FlagsChanged, LevelChanged, DefaultChanged, Tells, Updates

LEMMA SignalTyped ==
  /\ \A cid \in 1..(Modulus - 1), cat \in Category : Added(cid, cat) \in Message
  /\ \A cid \in Nat : Removed(cid) \in Message
  /\ \A cid \in Nat, flags \in SUBSET Flags : FlagsChanged(cid, flags) \in Message
  /\ \A cid \in Nat, level \in Levels \cup {UNDEFINED} : LevelChanged(cid, level) \in Message
  /\ \A level \in Levels : DefaultChanged(level) \in Message
  BY DEF Added, Removed, FlagsChanged, LevelChanged, DefaultChanged, Message, Category

LEMMA AddCategoryTells ==
  ASSUME CInv, NamesKnown, bus \in Seq(Message), NEW name \in Names,
         NEW level \in Levels \cup {UNDEFINED},
         NEW flags \in SUBSET Flags, AddCategory(name, level, flags)
  PROVE  Telling /\ NamesKnown'
<1> DEFINE cat == [name |-> name, level |-> level, flags |-> InitialFlags(flags)]
           m   == Added(NextId, cat)
<1>1. /\ NextId \in 1..(Modulus - 1) /\ NextId \notin DOMAIN categories
      /\ table' = table \cup {NextId} /\ started' = started
      /\ categories' = With(categories, NextId, cat)
      /\ announced' = IF started
                      THEN [announced EXCEPT !.cats = With(announced.cats, NextId, cat)]
                      ELSE announced
      /\ bus' = IF started THEN bus \o <<m>> ELSE bus
  BY NextIdInRange DEF CInv, Shape, AddCategory, Emit
<1>2. cat \in Category /\ cat.name = name /\ cat.flags = InitialFlags(flags)
  BY DEF Category, InitialFlags, Flags
<1>3. /\ m \in Message /\ m.what = "added" /\ m.name = cat.name /\ m.flags = cat.flags
      /\ \A id : (Tells(m, id) <=> id = NextId) /\ (Updates(m, id) <=> id = NextId)
  <2>1. m.name = cat.name /\ m.flags = cat.flags
    BY DEF Added
  <2>2. NextId \in 1..(Modulus - 1)
    BY <1>1
  <2> HIDE DEF cat
  <2>3. QED
    BY <1>2, <2>1, <2>2, SignalIs, SignalTyped
<1> HIDE DEF cat, m
<1>4. CASE ~started
  BY <1>1, <1>4, QuietTelling DEF NamesKnown
<1>5. CASE started
  <2>1. /\ NextId \notin DOMAIN announced.cats /\ DOMAIN announced.cats = table
        /\ announced \in [cats : {announced.cats}, level : Levels]
        /\ table \subseteq DOMAIN categories
    BY <1>1, <1>5 DEF CInv, Published, Shape
  <2>2. announced'.cats = With(announced.cats, NextId, cat)
    BY <1>1, <1>5, <2>1
  <2>3. /\ DOMAIN announced'.cats = table \cup {NextId}
        /\ announced'.cats[NextId] = cat
        /\ \A id \in table : announced'.cats[id] = announced.cats[id]
    BY <2>1, <2>2 DEF With
  <2>4. /\ categories'[NextId] = cat
        /\ \A id \in table : categories'[id] = categories[id]
    BY <1>1, <2>1 DEF With
  <2>5. PICK new : new = <<m>>
    OBVIOUS
  <2>6. /\ new \in Seq(Message) /\ 1 \in 1..Len(new) /\ new[1] = m
        /\ \A j \in 1..Len(new) : j = 1 /\ new[j] = m
    BY <1>3, <2>5, Single
  <2>7. Reports(new, announced.cats, announced'.cats)
    <3>1. 1 \in 1..Len(new) /\ new[1] = m
      BY <2>6
    <3>2. ASSUME NEW id, NEW j \in 1..Len(new), Tells(new[j], id)
          PROVE  /\ \A k \in 1..Len(new) : Tells(new[k], id) => k = j
                 /\ new[j].what = "added" <=> id \notin DOMAIN announced.cats
                 /\ new[j].what = "added" <=> id \in DOMAIN announced'.cats
                 /\ new[j].what = "added" => new[j].name = announced'.cats[id].name
      <4>1. new[j] = m /\ id = NextId /\ \A k \in 1..Len(new) : k = j
        BY <1>3, <2>6, <3>2
      <4>2. QED
        BY <1>3, <2>1, <2>3, <4>1
    <3>3. ASSUME NEW id, \A j \in 1..Len(new) : ~Tells(new[j], id)
          PROVE  /\ id \in DOMAIN announced.cats <=> id \in DOMAIN announced'.cats
                 /\ id \in DOMAIN announced'.cats =>
                      announced'.cats[id].name = announced.cats[id].name
      <4>1. id # NextId
        BY <1>3, <3>1, <3>3
      <4>2. QED
        BY <2>1, <2>3, <4>1
    <3>4. ASSUME NEW id \in DOMAIN announced'.cats
          PROVE  /\ \A j \in 1..Len(new) : Updates(new[j], id) =>
                      new[j].flags = announced'.cats[id].flags
                 /\ (\A j \in 1..Len(new) : ~Updates(new[j], id)) =>
                      announced'.cats[id].flags = announced.cats[id].flags
      <4>1. \A j \in 1..Len(new) : Updates(new[j], id) =>
              new[j].flags = announced'.cats[id].flags
        BY <1>3, <2>3, <2>6
      <4>2. (\A j \in 1..Len(new) : ~Updates(new[j], id)) => id # NextId
        BY <1>3, <3>1
      <4>3. QED
        BY <2>3, <4>1, <4>2
    <3>5. QED
      BY <3>2, <3>3, <3>4 DEF Reports
  <2>8. Telling
    BY <1>1, <1>3, <1>5, <2>5, <2>6, <2>7 DEF Telling, ServerSignals
  <2>9. NamesKnown'
    BY <1>1, <1>5, <2>3, <2>4 DEF NamesKnown
  <2>10. QED
    BY <2>8, <2>9
<1>6. QED
  BY <1>4, <1>5

-----------------------------------------------------------------------------
(* Sequences of ids in the order of names                                    *)

LEMMA IdsFinite ==
  ASSUME NEW D \in SUBSET (1..(Modulus - 1))
  PROVE  IsFiniteSet(D) /\ Cardinality(D) \in Nat
<1>1. IsFiniteSet(1..(Modulus - 1))
  BY FS_Interval, CategoryConstants
<1>2. QED
  BY <1>1, FS_Subset, FS_CardinalityType

LEMMA SortedIs ==
  ASSUME NEW cats, DOMAIN cats \in SUBSET (1..(Modulus - 1)), NEW s
  PROVE  s \in Sorted(cats) <=>
           /\ s \in Seq(DOMAIN cats) /\ Len(s) = Cardinality(DOMAIN cats)
           /\ \A i, j \in 1..Len(s) : i # j => s[i] # s[j]
           /\ \A i, j \in 1..Len(s) : i < j => cats[s[i]].name <= cats[s[j]].name
<1>1. PICK n \in Nat : n = Cardinality(DOMAIN cats)
  BY IdsFinite
<1>2. s \in Sorted(cats) <=>
        /\ s \in [1..n -> DOMAIN cats]
        /\ \A i, j \in 1..n : i # j => s[i] # s[j]
        /\ \A i, j \in DOMAIN s : i < j => cats[s[i]].name <= cats[s[j]].name
  BY <1>1 DEF Sorted, SetToSeqs
<1>3. s \in [1..n -> DOMAIN cats] <=> s \in Seq(DOMAIN cats) /\ Len(s) = n
  OBVIOUS
<1>4. s \in [1..n -> DOMAIN cats] => DOMAIN s = 1..n
  OBVIOUS
<1>5. QED
  BY <1>1, <1>2, <1>3, <1>4

LEMMA SortedHasAll ==
  ASSUME NEW cats, DOMAIN cats \in SUBSET (1..(Modulus - 1)), NEW s \in Sorted(cats)
  PROVE  \A id \in DOMAIN cats : \E i \in 1..Len(s) : s[i] = id
<1>1. /\ s \in Seq(DOMAIN cats) /\ Len(s) = Cardinality(DOMAIN cats)
      /\ \A i, j \in 1..Len(s) : i # j => s[i] # s[j]
  BY SortedIs
<1>2. s \in Injection(1..Len(s), DOMAIN cats)
  BY <1>1 DEF Injection, IsInjective
<1>3. Len(s) \in Nat /\ IsFiniteSet(DOMAIN cats)
  BY <1>1, IdsFinite
<1>4. Cardinality(1..Len(s)) = Cardinality(DOMAIN cats)
  <2>1. PICK n \in Nat : n = Len(s)
    BY <1>3
  <2>2. Cardinality(1..n) = n
    BY FS_Interval
  <2>3. QED
    BY <1>1, <2>1, <2>2
<1>5. s \in Surjection(1..Len(s), DOMAIN cats)
  BY <1>2, <1>3, <1>4, FS_Injection
<1>6. QED
  BY <1>5 DEF Surjection

-----------------------------------------------------------------------------
(* What the other steps of the server tell                                   *)

LEMMA UnregisterTells ==
  ASSUME CInv, NamesKnown, bus \in Seq(Message), NEW ids \in SUBSET table, Unregister(ids)
  PROVE  Telling /\ NamesKnown'
<1>1. /\ table' = table \ ids /\ categories' = Referenced(categories, table', calls)
      /\ announced' = [announced EXCEPT
                         !.cats = Restrict(announced.cats, DOMAIN announced.cats \ ids)]
      /\ started' = started /\ calls' = calls
  BY DEF Unregister
<1>2. PICK s \in Sorted(Restrict(categories, ids)) :
        bus' = IF started THEN bus \o [i \in DOMAIN s |-> Removed(s[i])] ELSE bus
  BY DEF Unregister, EmitRemoved, Emit
<1>3. CASE ~started
  BY <1>1, <1>2, <1>3, QuietTelling DEF NamesKnown
<1>4. CASE started
  <2>1. /\ DOMAIN announced.cats = table
        /\ announced'.cats = [id \in table \ ids |-> announced.cats[id]]
    BY <1>1, <1>4 DEF CInv, Published, Restrict
  <2>2. /\ DOMAIN announced'.cats = table \ ids
        /\ \A id \in table \ ids : announced'.cats[id] = announced.cats[id]
    BY <2>1
  <2>3. PICK cats : cats = Restrict(categories, ids) /\ DOMAIN cats = ids
    BY DEF Restrict
  <2>4. ids \in SUBSET (1..(Modulus - 1))
    BY DEF CInv, Shape
  <2>5. /\ s \in Seq(ids) /\ Len(s) \in Nat /\ DOMAIN s = 1..Len(s)
        /\ \A i, j \in 1..Len(s) : i # j => s[i] # s[j]
        /\ \A i \in 1..Len(s) : s[i] \in ids
        /\ \A id \in ids : \E i \in 1..Len(s) : s[i] = id
    <3>1. /\ s \in Seq(ids) /\ \A i, j \in 1..Len(s) : i # j => s[i] # s[j]
          /\ \A id \in ids : \E i \in 1..Len(s) : s[i] = id
      BY <1>2, <2>3, <2>4, SortedIs, SortedHasAll, ZenonT(40)
    <3>2. QED
      BY <3>1
  <2>6. PICK new : new = [i \in DOMAIN s |-> Removed(s[i])]
    OBVIOUS
  <2>7. /\ new \in Seq(Message) /\ Len(new) = Len(s)
        /\ \A i \in 1..Len(s) : new[i] = Removed(s[i])
    <3>1. \A id \in ids : id \in Nat
      BY <2>4, CategoryConstants
    <3>2. \A i \in 1..Len(s) : Removed(s[i]) \in Message
      BY <2>5, <3>1, SignalTyped
    <3>3. new = [i \in 1..Len(s) |-> Removed(s[i])]
      BY <2>5, <2>6
    <3>4. QED
      BY <2>5, <3>2, <3>3
  <2>8. \A j \in 1..Len(new) : /\ new[j].what = "removed" /\ s[j] \in ids
                               /\ \A id : (Tells(new[j], id) <=> id = s[j]) /\ ~Updates(new[j], id)
    BY <2>5, <2>7, SignalIs
  <2>9. Reports(new, announced.cats, announced'.cats)
    <3>1. ASSUME NEW id, NEW j \in 1..Len(new), Tells(new[j], id)
          PROVE  /\ \A k \in 1..Len(new) : Tells(new[k], id) => k = j
                 /\ new[j].what = "added" <=> id \notin DOMAIN announced.cats
                 /\ new[j].what = "added" <=> id \in DOMAIN announced'.cats
                 /\ new[j].what = "added" => new[j].name = announced'.cats[id].name
      <4>1. new[j].what = "removed" /\ id = s[j] /\ id \in ids /\ id \in table
        BY <2>8, <3>1
      <4>2. \A k \in 1..Len(new) : Tells(new[k], id) => k = j
        BY <2>5, <2>7, <2>8, <4>1
      <4>3. QED
        BY <2>1, <2>2, <4>1, <4>2
    <3>2. ASSUME NEW id, \A j \in 1..Len(new) : ~Tells(new[j], id)
          PROVE  /\ id \in DOMAIN announced.cats <=> id \in DOMAIN announced'.cats
                 /\ id \in DOMAIN announced'.cats =>
                      announced'.cats[id].name = announced.cats[id].name
      <4>1. id \notin ids
        BY <2>5, <2>7, <2>8, <3>2
      <4>2. QED
        BY <2>1, <2>2, <4>1
    <3>3. ASSUME NEW id \in DOMAIN announced'.cats
          PROVE  /\ \A j \in 1..Len(new) : Updates(new[j], id) =>
                      new[j].flags = announced'.cats[id].flags
                 /\ (\A j \in 1..Len(new) : ~Updates(new[j], id)) =>
                      announced'.cats[id].flags = announced.cats[id].flags
      BY <2>2, <2>8
    <3>4. QED
      BY <3>1, <3>2, <3>3 DEF Reports
  <2>10. bus' = bus \o new
    BY <1>2, <1>4, <2>6
  <2>11. \A j \in 1..Len(new) : new[j].what \in ServerSignals
    BY <2>8 DEF ServerSignals
  <2>12. Telling
    BY <1>1, <1>4, <2>7, <2>9, <2>10, <2>11 DEF Telling
  <2>13. \A id \in table' : categories'[id] = categories[id]
    BY <1>1, ReferencedIs DEF CInv, Shape
  <2>14. NamesKnown'
    BY <1>1, <1>4, <2>2, <2>13 DEF NamesKnown
  <2>15. QED
    BY <2>12, <2>14
<1>5. QED
  BY <1>3, <1>4

LEMMA OneTells ==
  ASSUME NEW m \in Message, bus \in Seq(Message), started, started', bus' = bus \o <<m>>,
         m.what \in ServerSignals, \A id : ~Tells(m, id),
         DOMAIN announced'.cats = DOMAIN announced.cats,
         \A id \in DOMAIN announced.cats :
           /\ announced'.cats[id].name = announced.cats[id].name
           /\ Updates(m, id) => announced'.cats[id].flags = m.flags
           /\ ~Updates(m, id) => announced'.cats[id].flags = announced.cats[id].flags
  PROVE  Telling
<1>1. PICK new : new = <<m>>
  OBVIOUS
<1>2. /\ new \in Seq(Message) /\ 1 \in 1..Len(new) /\ new[1] = m
      /\ \A j \in 1..Len(new) : j = 1 /\ new[j] = m
  BY <1>1, Single
<1>3. Reports(new, announced.cats, announced'.cats)
  <2>1. \A id : \A j \in 1..Len(new) : ~Tells(new[j], id)
    BY <1>2
  <2>2. ASSUME NEW id \in DOMAIN announced'.cats
        PROVE  /\ \A j \in 1..Len(new) : Updates(new[j], id) =>
                    new[j].flags = announced'.cats[id].flags
               /\ (\A j \in 1..Len(new) : ~Updates(new[j], id)) =>
                    announced'.cats[id].flags = announced.cats[id].flags
    BY <1>2
  <2>3. QED
    BY <2>1, <2>2 DEF Reports
<1>4. QED
  BY <1>1, <1>2, <1>3 DEF Telling

LEMMA HandlerReturnsTells ==
  ASSUME CInv, NamesKnown, bus \in Seq(Message), HandlerReturns
  PROVE  Telling /\ NamesKnown'
<1> DEFINE frame == Head(calls)
           id    == frame.id
<1>1. /\ calls # <<>> /\ calls' = Tail(calls)
      /\ frame.kind # "loop"
      /\ categories' = Referenced(categories, table, calls')
      /\ UNCHANGED <<table, started>>
      /\ \/ /\ frame.kind = "flags" /\ Announce(id, "flags", categories[id].flags)
            /\ Emit(<<FlagsChanged(id, categories[id].flags)>>)
         \/ /\ frame.kind = "level" /\ Announce(id, "level", categories[id].level)
            /\ Emit(<<LevelChanged(id, categories[id].level)>>)
         \/ /\ frame.kind = "default" /\ Emit(<<DefaultChanged(default_level)>>)
            /\ announced' = IF started THEN [announced EXCEPT !.level = default_level]
                            ELSE announced
  BY DEF HandlerReturns, InHandler, Idle
<1>2. frame \in Frame /\ calls' \in Seq(Frame) /\ Frames(calls) = {frame} \cup Frames(calls')
  BY <1>1, Popped DEF CInv, Shape
<1>3. id \in IdsOf(calls) /\ IdsOf(calls') \subseteq IdsOf(calls)
  BY <1>2 DEF IdsOf
<1>4. \A other \in table : categories'[other] = categories[other]
  BY <1>1, ReferencedIs DEF CInv, Shape
<1>5. CASE ~started
  <2>1. UNCHANGED <<announced, bus>>
    BY <1>1, <1>5 DEF Announce, Emit
  <2>2. QED
    BY <1>1, <1>5, <2>1, QuietTelling DEF NamesKnown
<1>6. CASE started
  <2>1. /\ DOMAIN announced.cats = table /\ announced.cats \in [table -> Category]
        /\ announced \in [cats : {announced.cats}, level : Levels]
        /\ categories \in [DOMAIN categories -> Category] /\ table \subseteq DOMAIN categories
        /\ default_level \in Levels
    BY <1>6 DEF CInv, Published, Shape
  <2>2. frame.kind # "default" => id \in DOMAIN categories /\ id \in Nat
    BY <1>1, <1>2, <1>3 DEF Frame, CInv, Shape
  <2> HIDE DEF frame
  <2>3. CASE frame.kind = "flags"
    <3>1. PICK m : m = FlagsChanged(id, categories[id].flags)
      OBVIOUS
    <3>2. categories[id] \in Category /\ categories[id].flags \in SUBSET Flags
      BY <2>1, <2>2, <2>3 DEF Category
    <3>3. /\ m \in Message /\ m.what \in ServerSignals /\ m.flags = categories[id].flags
          /\ \A other : ~Tells(m, other) /\ (Updates(m, other) <=> other = id)
      <4>1. m.flags = categories[id].flags
        BY <3>1 DEF FlagsChanged
      <4>2. QED
        BY <2>2, <2>3, <3>1, <3>2, <4>1, SignalIs, SignalTyped DEF ServerSignals
    <3>4. /\ bus' = bus \o <<m>>
          /\ announced' = IF id \in table
                          THEN [announced EXCEPT !.cats[id]["flags"] = categories[id].flags]
                          ELSE announced
      BY <1>1, <1>6, <2>1, <2>3, <3>1 DEF Announce, Emit
    <3>5. announced'.cats = IF id \in table
                            THEN [announced.cats EXCEPT ![id]["flags"] = categories[id].flags]
                            ELSE announced.cats
      BY <2>1, <3>4
    <3>6. /\ DOMAIN announced'.cats = table
          /\ \A other \in table : announced'.cats[other] =
               IF other = id THEN [announced.cats[id] EXCEPT !["flags"] = categories[id].flags]
               ELSE announced.cats[other]
      BY <2>1, <3>5
    <3>7. \A other \in table :
            /\ announced'.cats[other].name = announced.cats[other].name
            /\ announced'.cats[other].flags =
                 IF other = id THEN categories[id].flags ELSE announced.cats[other].flags
      BY <2>1, <3>6 DEF Category
    <3>8. Telling
      <4>1. started' /\ bus' = bus \o <<m>> /\ bus \in Seq(Message)
        BY <1>1, <1>6, <3>4
      <4>2. DOMAIN announced'.cats = DOMAIN announced.cats
        BY <2>1, <3>6
      <4>3. \A other \in DOMAIN announced.cats :
              /\ announced'.cats[other].name = announced.cats[other].name
              /\ Updates(m, other) => announced'.cats[other].flags = m.flags
              /\ ~Updates(m, other) =>
                   announced'.cats[other].flags = announced.cats[other].flags
        BY <2>1, <3>3, <3>7
      <4>4. QED
        BY <1>6, <3>3, <4>1, <4>2, <4>3, OneTells
    <3>9. NamesKnown'
      BY <1>1, <1>4, <1>6, <3>7 DEF NamesKnown
    <3>10. QED
      BY <3>8, <3>9
  <2>4. CASE frame.kind = "level"
    <3>1. PICK m : m = LevelChanged(id, categories[id].level)
      OBVIOUS
    <3>2. categories[id] \in Category /\ categories[id].level \in Levels \cup {UNDEFINED}
      BY <2>1, <2>2, <2>4 DEF Category
    <3>3. /\ m \in Message /\ m.what \in ServerSignals
          /\ \A other : ~Tells(m, other) /\ ~Updates(m, other)
      BY <2>2, <2>4, <3>1, <3>2, SignalIs, SignalTyped DEF ServerSignals
    <3>4. /\ bus' = bus \o <<m>>
          /\ announced' = IF id \in table
                          THEN [announced EXCEPT !.cats[id]["level"] = categories[id].level]
                          ELSE announced
      BY <1>1, <1>6, <2>1, <2>4, <3>1 DEF Announce, Emit
    <3>5. announced'.cats = IF id \in table
                            THEN [announced.cats EXCEPT ![id]["level"] = categories[id].level]
                            ELSE announced.cats
      BY <2>1, <3>4
    <3>6. /\ DOMAIN announced'.cats = table
          /\ \A other \in table : announced'.cats[other] =
               IF other = id THEN [announced.cats[id] EXCEPT !["level"] = categories[id].level]
               ELSE announced.cats[other]
      BY <2>1, <3>5
    <3>7. \A other \in table :
            /\ announced'.cats[other].name = announced.cats[other].name
            /\ announced'.cats[other].flags = announced.cats[other].flags
      BY <2>1, <3>6 DEF Category
    <3>8. Telling
      BY <1>1, <1>6, <2>1, <3>3, <3>4, <3>6, <3>7, OneTells
    <3>9. NamesKnown'
      BY <1>1, <1>4, <1>6, <3>7 DEF NamesKnown
    <3>10. QED
      BY <3>8, <3>9
  <2>5. CASE frame.kind = "default"
    <3>1. PICK m : m = DefaultChanged(default_level)
      OBVIOUS
    <3>2. /\ m \in Message /\ m.what \in ServerSignals
          /\ \A other : ~Tells(m, other) /\ ~Updates(m, other)
      BY <2>1, <3>1, SignalIs, SignalTyped DEF ServerSignals
    <3>3. bus' = bus \o <<m>> /\ announced' = [announced EXCEPT !.level = default_level]
      BY <1>1, <1>6, <2>5, <3>1 DEF Emit
    <3>4. announced'.cats = announced.cats
      BY <2>1, <3>3
    <3>5. Telling
      BY <1>1, <1>6, <3>2, <3>3, <3>4, OneTells
    <3>6. NamesKnown'
      BY <1>1, <1>4, <1>6, <3>4 DEF NamesKnown
    <3>7. QED
      BY <3>5, <3>6
  <2>6. QED
    BY <1>1, <2>3, <2>4, <2>5
<1>7. QED
  BY <1>5, <1>6

LEMMA SilentTells ==
  ASSUME NamesKnown, bus \in Seq(Message),
         UNCHANGED <<bus, table, started, announced>>,
         \A id \in table : categories'[id].name = categories[id].name
  PROVE  Telling /\ NamesKnown'
<1>1. Telling
  BY QuietTelling
<1>2. NamesKnown'
  BY DEF NamesKnown
<1>3. QED
  BY <1>1, <1>2

LEMMA EnableNextTells ==
  ASSUME CInv, NamesKnown, bus \in Seq(Message), EnableNext
  PROVE  Telling /\ NamesKnown'
<1>1. UNCHANGED <<bus, table, started, announced>>
  BY DEF EnableNext
<1>2. categories \in [DOMAIN categories -> Category] /\ table \subseteq DOMAIN categories
  BY DEF CInv, Shape
<1>3. ASSUME NEW id \in table, NEW on,
             categories' = [categories EXCEPT ![id].flags = Enabled(@, on)]
      PROVE  \A other \in table : categories'[other].name = categories[other].name
  <2>1. \A other \in table : categories'[other] =
          IF other = id THEN [categories[id] EXCEPT !.flags = Enabled(@, on)]
          ELSE categories[other]
    BY <1>2, <1>3
  <2>2. QED
    BY <1>2, <2>1 DEF Category
<1>4. CASE UNCHANGED categories
  BY <1>1, <1>4, SilentTells
<1>5. CASE ~UNCHANGED categories
  <2>1. PICK id \in table : \E on :
          categories' = [categories EXCEPT ![id].flags = Enabled(@, on)]
    BY <1>5 DEF EnableNext, Lookup
  <2>2. QED
    BY <1>1, <1>3, <2>1, SilentTells
<1>6. QED
  BY <1>4, <1>5

LEMMA SetCategoryLevelTells ==
  ASSUME CInv, NamesKnown, bus \in Seq(Message), NEW name, NEW level,
         SetCategoryLevel(name, level)
  PROVE  Telling /\ NamesKnown'
<1>1. UNCHANGED <<bus, table, started, announced>>
  BY DEF SetCategoryLevel
<1>2. categories \in [DOMAIN categories -> Category] /\ table \subseteq DOMAIN categories
  BY DEF CInv, Shape
<1>3. PICK id \in table : categories' = [categories EXCEPT ![id].level = level]
  BY DEF SetCategoryLevel, Lookup
<1>4. \A other \in table : categories'[other] =
        IF other = id THEN [categories[id] EXCEPT !.level = level] ELSE categories[other]
  BY <1>2, <1>3
<1>5. \A other \in table : categories'[other].name = categories[other].name
  BY <1>2, <1>4 DEF Category
<1>6. QED
  BY <1>1, <1>5, SilentTells

LEMMA StartTells ==
  ASSUME CInv, bus \in Seq(Message), Start PROVE Telling /\ NamesKnown'
<1>1. /\ ~started /\ bus' = bus /\ categories' = categories /\ table' = table
      /\ announced' = [cats |-> [id \in table |-> categories[id]], level |-> default_level]
  BY DEF Start, View, Restrict
<1>2. Telling
  BY <1>1, QuietTelling
<1>3. NamesKnown'
  BY <1>1 DEF NamesKnown
<1>4. QED
  BY <1>2, <1>3

LEMMA ServerTells ==
  ASSUME CInv, NamesKnown, bus \in Seq(Message), Request \/ Api \/ Finishing
  PROVE  Telling /\ NamesKnown'
<1>1. CASE Request \/ EnableDone
  <2>1. UNCHANGED <<bus, table, started, announced, categories>>
    BY <1>1 DEF Request, SetNamesEnabled, SetPatternEnabled, EnableDone
  <2>2. QED
    BY <2>1, SilentTells
<1>2. CASE EnableNext
  BY <1>2, EnableNextTells
<1>3. CASE HandlerReturns
  BY <1>3, HandlerReturnsTells
<1>4. CASE \E name \in Names, level \in Levels \cup {UNDEFINED}, flags \in SUBSET Flags :
             AddCategory(name, level, flags)
  BY <1>4, AddCategoryTells
<1>5. CASE (\E name \in Names : RemoveCategory(name)) \/ RemoveAllCategories
  <2>1. \A name : Lookup(name) \in SUBSET table
    BY DEF Lookup
  <2>2. QED
    BY <1>5, <2>1, UnregisterTells DEF RemoveCategory, RemoveAllCategories
<1>6. CASE \E name \in Names, level \in Levels \cup {UNDEFINED} :
             SetCategoryLevel(name, level)
  BY <1>6, SetCategoryLevelTells
<1>7. CASE \E level \in Levels : SetDefaultLevel(level)
  <2>1. UNCHANGED <<bus, table, started, announced, categories>>
    BY <1>7 DEF SetDefaultLevel
  <2>2. QED
    BY <2>1, SilentTells
<1>8. CASE Start
  BY <1>8, StartTells
<1>9. QED
  BY <1>1, <1>2, <1>3, <1>4, <1>5, <1>6, <1>7, <1>8 DEF Api, Finishing

-----------------------------------------------------------------------------
(* What follows a message                                                    *)

After(signals, p) == SubSeq(signals, p + 1, Len(signals))

LEMMA AfterIs ==
  ASSUME NEW S, NEW s \in Seq(S), NEW p \in 1..Len(s), NEW a, a = After(s, p)
  PROVE  /\ a \in Seq(S) /\ Len(a) = Len(s) - p
         /\ \A i \in 1..Len(a) : p + i \in p + 1..Len(s) /\ a[i] = s[p + i]
         /\ \A i \in p + 1..Len(s) : i - p \in 1..Len(a) /\ a[i - p] = s[i]
<1>1. PICK n \in Nat : n = Len(s) /\ p <= n /\ p \in Nat
  OBVIOUS
<1>2. a = SubSeq(s, p + 1, n) /\ \A i \in p + 1..n : s[i] \in S
  BY <1>1 DEF After
<1>3. a \in Seq(S) /\ Len(a) = n - p /\ \A i \in 1..n - p : a[i] = s[p + i]
  BY <1>1, <1>2
<1>4. \A i \in 1..n - p : p + i \in p + 1..n
  BY <1>1
<1>5. \A i \in p + 1..n : i - p \in 1..n - p /\ p + (i - p) = i
  BY <1>1
<1>6. QED
  BY <1>1, <1>3, <1>4, <1>5

LEMMA SameSequence ==
  ASSUME NEW S, NEW s \in Seq(S), NEW t \in Seq(S), Len(s) = Len(t),
         \A i \in 1..Len(s) : s[i] = t[i]
  PROVE  s = t
  OBVIOUS

LEMMA AfterTail ==
  ASSUME NEW S, NEW u \in Seq(S), u # <<>>, NEW t, t = Tail(u), NEW p \in 1..Len(t)
  PROVE  p + 1 \in 1..Len(u) /\ t[p] = u[p + 1] /\ After(t, p) = After(u, p + 1)
<1>1. /\ t \in Seq(S) /\ Len(t) \in Nat /\ Len(u) = Len(t) + 1
      /\ \A i \in 1..Len(t) : i + 1 \in 1..Len(u) /\ u[i + 1] = t[i]
  BY TailIs
<1>2. p + 1 \in 1..Len(u) /\ t[p] = u[p + 1]
  BY <1>1
<1>3. PICK a : a = After(t, p)
  OBVIOUS
<1>4. PICK b : b = After(u, p + 1)
  OBVIOUS
<1>5. /\ a \in Seq(S) /\ Len(a) = Len(t) - p
      /\ \A i \in 1..Len(a) : p + i \in p + 1..Len(t) /\ a[i] = t[p + i]
  <2>1. t \in Seq(S)
    BY <1>1
  <2>2. QED
    BY ONLY <1>3, <2>1, AfterIs, p \in 1..Len(t)
<1>6. /\ b \in Seq(S) /\ Len(b) = Len(u) - (p + 1)
      /\ \A i \in 1..Len(b) : b[i] = u[(p + 1) + i]
  BY <1>2, <1>4, AfterIs
<1>7. Len(a) = Len(b)
  BY <1>1, <1>5, <1>6
<1>8. ASSUME NEW i \in 1..Len(a) PROVE a[i] = b[i]
  <2>1. p + i \in 1..Len(t) /\ a[i] = t[p + i] /\ (p + i) + 1 = (p + 1) + i
    BY <1>1, <1>5
  <2>2. b[i] = u[(p + i) + 1]
    BY <1>6, <1>7, <2>1
  <2>3. QED
    BY <1>1, <2>1, <2>2
<1>9. a = b
  BY <1>5, <1>6, <1>7, <1>8, SameSequence
<1>10. QED
  BY <1>2, <1>3, <1>4, <1>9

LEMMA AfterFirst ==
  ASSUME NEW S, NEW u \in Seq(S), u # <<>> PROVE After(u, 1) = Tail(u)
<1>1. PICK a : a = After(u, 1)
  OBVIOUS
<1>2. PICK t : t = Tail(u)
  OBVIOUS
<1>3. /\ t \in Seq(S) /\ Len(t) \in Nat /\ Len(u) = Len(t) + 1 /\ 1 \in 1..Len(u)
      /\ \A i \in 1..Len(t) : u[i + 1] = t[i]
  BY <1>2, TailIs
<1>4. a \in Seq(S) /\ Len(a) = Len(u) - 1 /\ \A i \in 1..Len(a) : a[i] = u[1 + i]
  BY <1>1, <1>3, AfterIs
<1>5. Len(a) = Len(t)
  BY <1>3, <1>4
<1>6. ASSUME NEW i \in 1..Len(a) PROVE a[i] = t[i]
  <2>1. 1 + i = i + 1 /\ i \in 1..Len(t)
    BY <1>5
  <2>2. QED
    BY <1>3, <1>4, <2>1
<1>7. QED
  BY <1>1, <1>2, <1>3, <1>4, <1>5, <1>6, SameSequence

LEMMA AfterJoin ==
  ASSUME NEW S, NEW s \in Seq(S), NEW new \in Seq(S), NEW p \in 1..Len(s)
  PROVE  After(s, p) \in Seq(S) /\ After(s \o new, p) = After(s, p) \o new
<1> PICK u : u = s \o new
  OBVIOUS
<1>1. PICK l \in Nat, k \in Nat : l = Len(s) /\ k = Len(new) /\ Len(u) = l + k
  BY JoinIs
<1>2. /\ u \in Seq(S)
      /\ \A i \in 1..l : i \in 1..l + k /\ u[i] = s[i]
      /\ \A i \in 1..k : u[l + i] = new[i]
  BY <1>1, JoinIs
<1>3. p \in 1..l /\ p \in 1..Len(u) /\ u[p] = s[p]
  BY <1>1, <1>2
<1>4. PICK a : a = After(s, p)
  OBVIOUS
<1>5. PICK b : b = After(u, p)
  OBVIOUS
<1>6. a \in Seq(S) /\ Len(a) = l - p /\ \A i \in 1..Len(a) : a[i] = s[p + i]
  BY <1>1, <1>4, AfterIs
<1>7. b \in Seq(S) /\ Len(b) = (l + k) - p /\ \A i \in 1..Len(b) : b[i] = u[p + i]
  <2>1. u \in Seq(S) /\ p \in 1..Len(u)
    BY <1>2, <1>3
  <2>2. b \in Seq(S) /\ Len(b) = Len(u) - p /\ \A i \in 1..Len(b) : b[i] = u[p + i]
    BY ONLY <1>5, <2>1, AfterIs
  <2>3. QED
    BY <1>1, <2>2
<1>8. PICK c : c = a \o new
  OBVIOUS
<1>9. PICK m \in Nat : m = l - p
  BY <1>3
<1>10. /\ c \in Seq(S) /\ Len(c) = m + k
       /\ \A i \in 1..m : c[i] = a[i]
       /\ \A i \in 1..k : c[m + i] = new[i]
  <2>1. /\ c \in Seq(S) /\ Len(c) = Len(a) + Len(new)
        /\ \A i \in 1..Len(a) : c[i] = a[i]
        /\ \A i \in 1..Len(new) : c[Len(a) + i] = new[i]
    <3>1. a \in Seq(S)
      BY <1>6
    <3>2. QED
      BY ONLY <1>8, <3>1, JoinIs, new \in Seq(S)
  <2>2. Len(a) = m /\ Len(new) = k
    BY <1>1, <1>6, <1>9
  <2>3. QED
    BY <2>1, <2>2
<1>11. Len(b) = m + k
  BY <1>7, <1>9
<1>12. ASSUME NEW i \in 1..m + k PROVE b[i] = c[i]
  <2>1. CASE i <= m
    <3>1. i \in 1..m /\ p + i \in 1..l
      BY <1>3, <1>9, <2>1
    <3>2. b[i] = u[p + i]
      BY <1>7, <1>11
    <3>3. c[i] = s[p + i]
      BY <1>6, <1>9, <1>10, <3>1
    <3>4. QED
      BY <1>2, <3>1, <3>2, <3>3
  <2>2. CASE m < i
    <3>1. i - m \in 1..k /\ m + (i - m) = i /\ p + i = l + (i - m)
      BY <1>3, <1>9, <2>2
    <3>2. PICK j \in 1..k : j = i - m /\ m + j = i /\ p + i = l + j
      BY <3>1
    <3>3. b[i] = u[l + j]
      BY <1>7, <1>11, <3>2
    <3>4. c[i] = new[j]
      BY <1>10, <3>2
    <3>5. QED
      BY <1>2, <3>2, <3>3, <3>4
  <2>3. QED
    BY <2>1, <2>2
<1>13. b = c
  BY <1>7, <1>10, <1>11, <1>12, SameSequence
<1>14. QED
  BY <1>4, <1>5, <1>6, <1>8, <1>13

-----------------------------------------------------------------------------
(* The array of the client                                                   *)

LEMMA WithoutSorted ==
  ASSUME NEW cats, DOMAIN cats \in SUBSET (1..(Modulus - 1)), NEW a \in Sorted(cats),
         NEW id \in DOMAIN cats, NEW rest, rest = Restrict(cats, DOMAIN cats \ {id}),
         NEW b, b = Without(a, id)
  PROVE  b \in Sorted(rest)
<1>1. /\ DOMAIN rest = DOMAIN cats \ {id}
      /\ \A other \in DOMAIN rest : rest[other] = cats[other]
      /\ DOMAIN rest \in SUBSET (1..(Modulus - 1))
  BY DEF Restrict
<1>2. PICK n \in Nat : n = Len(a)
  BY SortedIs
<1>3. /\ a \in Seq(DOMAIN cats) /\ n = Cardinality(DOMAIN cats) /\ DOMAIN a = 1..n
      /\ \A i, j \in 1..n : i # j => a[i] # a[j]
      /\ \A i, j \in 1..n : i < j => cats[a[i]].name <= cats[a[j]].name
      /\ \A i \in 1..n : a[i] \in DOMAIN cats
  <2>1. /\ a \in Seq(DOMAIN cats) /\ Len(a) = Cardinality(DOMAIN cats)
        /\ \A i, j \in 1..Len(a) : i # j => a[i] # a[j]
        /\ \A i, j \in 1..Len(a) : i < j => cats[a[i]].name <= cats[a[j]].name
    BY SortedIs
  <2>2. \A i \in 1..n : a[i] \in DOMAIN cats
    BY <1>2, <2>1
  <2>3. DOMAIN a = 1..n
    BY <1>2, <2>1
  <2>4. QED
    BY <1>2, <2>1, <2>2, <2>3
<1>4. PICK k \in 1..n : a[k] = id
  BY <1>2, SortedHasAll
<1>5. k = CHOOSE j \in DOMAIN a : a[j] = id
  BY <1>3, <1>4
<1>6. b = SubSeq(a, 1, k - 1) \o SubSeq(a, k + 1, n)
  BY <1>2, <1>5 DEF Without
<1>7. /\ Len(b) = n - 1 /\ b \in Seq(DOMAIN cats) /\ n - 1 \in Nat
      /\ \A j \in 1..n - 1 : b[j] = IF j < k THEN a[j] ELSE a[j + 1]
  <2>1. PICK l : l = SubSeq(a, 1, k - 1)
    OBVIOUS
  <2>2. PICK r : r = SubSeq(a, k + 1, n)
    OBVIOUS
  <2>3. l \in Seq(DOMAIN cats) /\ Len(l) = k - 1 /\ \A j \in 1..k - 1 : l[j] = a[j]
    BY ONLY <1>2, <1>3, <1>4, <2>1
  <2>4. r \in Seq(DOMAIN cats) /\ Len(r) = n - k /\ \A j \in 1..n - k : r[j] = a[k + j]
    BY ONLY <1>2, <1>3, <1>4, <2>2
  <2>5. b = l \o r
    BY <1>6, <2>1, <2>2
  <2>6. b \in Seq(DOMAIN cats) /\ Len(b) = Len(l) + Len(r)
    <3>1. l \in Seq(DOMAIN cats) /\ r \in Seq(DOMAIN cats)
      BY <2>3, <2>4
    <3>2. QED
      BY ONLY <2>5, <3>1
  <2>7. ASSUME NEW j \in 1..n - 1 PROVE b[j] = IF j < k THEN a[j] ELSE a[j + 1]
    <3>1. CASE j < k
      <4>1. j \in 1..k - 1
        BY <3>1
      <4>2. b[j] = l[j]
        BY ONLY <2>3, <2>4, <2>5, <4>1, n \in Nat, k \in 1..n
      <4>3. QED
        BY <2>3, <3>1, <4>1, <4>2
    <3>2. CASE ~(j < k)
      <4>1. PICK i \in 1..n - k : i = j - (k - 1)
        BY <3>2
      <4>2. (k - 1) + i = j /\ k + i = j + 1
        BY <4>1
      <4>3. b[(k - 1) + i] = r[i]
        BY ONLY <2>3, <2>4, <2>5, <4>1, n \in Nat, k \in 1..n
      <4>4. QED
        BY <2>4, <3>2, <4>2, <4>3
    <3>3. QED
      BY <3>1, <3>2
  <2>8. Len(b) = n - 1 /\ n - 1 \in Nat
    BY <1>2, <2>3, <2>4, <2>6
  <2>9. QED
    BY <2>6, <2>7, <2>8
<1>8. PICK skip : skip = [j \in 1..n - 1 |-> IF j < k THEN j ELSE j + 1]
  OBVIOUS
<1>9. /\ \A j \in 1..n - 1 : skip[j] \in 1..n /\ skip[j] # k /\ b[j] = a[skip[j]]
      /\ \A i, j \in 1..n - 1 : i < j => skip[i] < skip[j]
      /\ \A i, j \in 1..n - 1 : i # j => skip[i] # skip[j]
  <2>1. \A j \in 1..n - 1 : skip[j] = IF j < k THEN j ELSE j + 1
    BY <1>8
  <2>2. \A j \in 1..n - 1 : skip[j] \in 1..n /\ skip[j] # k
    BY <2>1
  <2>3. \A j \in 1..n - 1 : b[j] = a[skip[j]]
    BY <1>7, <2>1
  <2>4. \A i, j \in 1..n - 1 : i < j => skip[i] < skip[j]
    BY <2>1
  <2>5. \A i, j \in 1..n - 1 : i # j => skip[i] # skip[j]
    BY <2>1
  <2>6. QED
    BY <2>2, <2>3, <2>4, <2>5
<1>10. \A j \in 1..n - 1 : b[j] \in DOMAIN rest
  <2>1. SUFFICES ASSUME NEW j \in 1..n - 1 PROVE b[j] \in DOMAIN rest
    OBVIOUS
  <2>2. skip[j] \in 1..n /\ skip[j] # k /\ b[j] = a[skip[j]]
    BY <1>9
  <2>3. a[skip[j]] # a[k] /\ a[skip[j]] \in DOMAIN cats
    BY <1>3, <2>2
  <2>4. QED
    BY <1>1, <1>4, <2>2, <2>3
<1>11. b \in Seq(DOMAIN rest)
  <2>1. b \in [1..n - 1 -> DOMAIN cats]
    BY ONLY <1>7
  <2>2. b \in [1..n - 1 -> DOMAIN rest]
    BY ONLY <1>10, <2>1
  <2>3. QED
    BY ONLY <1>7, <2>2
<1>12. Len(b) = Cardinality(DOMAIN rest)
  <2>1. IsFiniteSet(DOMAIN cats)
    BY IdsFinite
  <2>2. Cardinality(DOMAIN cats \ {id}) = Cardinality(DOMAIN cats) - 1
    BY <2>1, FS_RemoveElement
  <2>3. QED
    BY <1>1, <1>3, <1>7, <2>2
<1>13. \A i, j \in 1..n - 1 : i # j => b[i] # b[j]
  <2>1. SUFFICES ASSUME NEW i \in 1..n - 1, NEW j \in 1..n - 1, i # j PROVE b[i] # b[j]
    OBVIOUS
  <2>2. skip[i] \in 1..n /\ skip[j] \in 1..n /\ skip[i] # skip[j]
    BY <1>9, <2>1
  <2>3. a[skip[i]] # a[skip[j]]
    BY <1>3, <2>2
  <2>4. QED
    BY <1>9, <2>3
<1>14. \A i, j \in 1..n - 1 : i < j => rest[b[i]].name <= rest[b[j]].name
  <2>1. SUFFICES ASSUME NEW i \in 1..n - 1, NEW j \in 1..n - 1, i < j
                 PROVE  rest[b[i]].name <= rest[b[j]].name
    OBVIOUS
  <2>2. cats[a[skip[i]]].name <= cats[a[skip[j]]].name
    BY <1>3, <1>9, <2>1
  <2>3. rest[b[i]] = cats[a[skip[i]]] /\ rest[b[j]] = cats[a[skip[j]]]
    BY <1>1, <1>9, <1>10
  <2>4. QED
    BY <2>2, <2>3
<1>15. QED
  BY <1>1, <1>7, <1>11, <1>12, <1>13, <1>14, SortedIs, ZenonT(40)

-----------------------------------------------------------------------------
(* Who follows the messages knows the categories                             *)

(* Somebody who knows cats and gets these messages will know what the server *)
(* has announced, if it is still there after them.                           *)
Follows(cats, signals, alive, known) ==
  /\ Alternating(cats, signals)
  /\ NoEnd(signals) => alive /\ Agreed(cats, signals, known)

LEMMA FollowsGrows ==
  ASSUME NEW cats, NEW old, NEW now, NEW s \in Seq(Message), NEW new \in Seq(Message),
         NEW alive \in BOOLEAN, NEW still \in BOOLEAN, Follows(cats, s, alive, old),
         alive => still /\ Reports(new, old, now)
  PROVE  Follows(cats, s \o new, still, now)
<1> PICK u : u = s \o new
  OBVIOUS
<1>1. NoEnd(s) => alive /\ still /\ Agreed(cats, s, old) /\ Reports(new, old, now)
  BY DEF Follows
<1>2. Alternating(cats, u)
  BY <1>1, AlternatingGrows DEF Follows
<1>3. NoEnd(u) => NoEnd(s)
  BY JoinIs DEF NoEnd
<1>4. NoEnd(s) => Agreed(cats, u, now)
  BY <1>1, AgreedGrows
<1>5. QED
  BY <1>1, <1>2, <1>3, <1>4 DEF Follows

LEMMA FollowsEnds ==
  ASSUME NEW cats, NEW old, NEW now, NEW s \in Seq(Message), NEW new \in Seq(Message),
         NEW alive \in BOOLEAN, NEW still \in BOOLEAN, Follows(cats, s, alive, old),
         \A j \in 1..Len(new) : \A id : ~Tells(new[j], id) /\ ~Updates(new[j], id),
         ~NoEnd(s \o new)
  PROVE  Follows(cats, s \o new, still, now)
<1> PICK u : u = s \o new
  OBVIOUS
<1>1. Reports(new, old, old)
  BY NothingReported
<1>2. Alternating(cats, u)
  BY <1>1, AlternatingGrows DEF Follows
<1>3. QED
  BY <1>2 DEF Follows

LEMMA FollowsTail ==
  ASSUME NEW cats, NEW next, NEW known, NEW alive \in BOOLEAN, NEW u \in Seq(Message),
         u # <<>>, Follows(cats, u, alive, known), Head(u).what # "vanished",
         Applied(cats, Head(u), next), NEW t, t = Tail(u)
  PROVE  Follows(next, t, alive, known)
<1>1. Alternating(next, t)
  BY AlternatingTail DEF Follows
<1>2. NoEnd(t) => NoEnd(u)
  <2>1. \A i \in 1..Len(u) : i = 1 \/ (i - 1 \in 1..Len(t) /\ t[i - 1] = u[i])
    BY TailIs
  <2>2. u[1] = Head(u)
    BY TailIs
  <2>3. QED
    BY <2>1, <2>2 DEF NoEnd
<1>3. NoEnd(u) => Agreed(next, t, known)
  BY AgreedTail DEF Follows
<1>4. QED
  BY <1>1, <1>2, <1>3 DEF Follows

-----------------------------------------------------------------------------
(* The inductive invariant of the client and the server                      *)

Typed ==
  /\ owner \in BOOLEAN /\ missed \in BOOLEAN
  /\ requests \in Seq([call : Pending, init : Nat]) /\ bus \in Seq(Message)
  /\ client \in [phase : Phases, init : Nat, cats : Copies, array : {client.array}]
  /\ client.array \in Sorted(client.cats)

(* The copy of a client which is connected, and the one in the answer which  *)
(* will connect it, are brought up to date by the messages after them.       *)
Followed ==
  ~missed =>
    /\ client.phase = "connected" => Follows(client.cats, bus, started, announced.cats)
    /\ \A p \in 1..Len(bus) :
         client.phase = "getall" /\ bus[p].what = "all" /\ bus[p].init = client.init =>
           Follows(bus[p].cats, After(bus, p), started, announced.cats)

(* Who deals with a server will be told if it has lost its name.             *)
Owned ==
  /\ NoEnd(bus) /\ client.phase \notin {"away", "crashed"} => owner
  /\ \A p \in 1..Len(bus) :
       bus[p].what \in {"appeared", "all"} /\ NoEnd(After(bus, p)) => owner

(* A call of the current DBusLogClientInit is the one which its phase waits  *)
(* for, and is the last one; an answer to it comes when the call has gone.   *)
Asked ==
  \A i \in 1..Len(requests) :
    /\ requests[i].init <= client.init
    /\ requests[i].init = client.init =>
         /\ client.phase # "proxy"
         /\ client.phase \in Pending =>
              i = Len(requests) /\ requests[i].call = client.phase

Answered ==
  \A i \in 1..Len(bus) : bus[i].what \in {"version", "all"} =>
    /\ bus[i].init <= client.init
    /\ bus[i].init = client.init =>
         /\ client.phase # "proxy"
         /\ bus[i].what = "all" => client.phase # "version"
         /\ bus[i].what = "all" /\ client.phase = "getall" => requests = <<>>
         /\ bus[i].what = "version" /\ client.phase = "version" => requests = <<>>

Asking == Asked /\ Answered /\ (client.phase = "connected" => requests = <<>>)

(* Without dbus_log_server_stop nothing is missed, and all is expected.      *)
Expected == ~Stops => ~missed /\ SignalsAreExpected

MInv == CInv /\ Typed /\ NamesKnown /\ Followed /\ Owned /\ Asking /\ Expected

-----------------------------------------------------------------------------
(* Steps which append messages                                               *)

LEMMA NoEndJoin ==
  ASSUME NEW s \in Seq(Message), NEW new \in Seq(Message), NEW u, u = s \o new
  PROVE  NoEnd(u) <=> NoEnd(s) /\ NoEnd(new)
<1>1. /\ Len(u) = Len(s) + Len(new) /\ Len(s) \in Nat /\ Len(new) \in Nat
      /\ \A i \in 1..Len(s) : i \in 1..Len(u) /\ u[i] = s[i]
      /\ \A i \in 1..Len(new) : Len(s) + i \in 1..Len(u) /\ u[Len(s) + i] = new[i]
      /\ \A i \in 1..Len(u) : i > Len(s) =>
           i - Len(s) \in 1..Len(new) /\ u[i] = new[i - Len(s)]
  BY JoinIs
<1>2. NoEnd(u) => NoEnd(s) /\ NoEnd(new)
  BY <1>1 DEF NoEnd
<1>3. ASSUME NoEnd(s), NoEnd(new), NEW i \in 1..Len(u) PROVE u[i].what # "vanished"
  <2>1. CASE i > Len(s)
    BY <1>1, <1>3, <2>1 DEF NoEnd
  <2>2. CASE ~(i > Len(s))
    <3>1. i \in 1..Len(s)
      BY <1>1, <2>2
    <3>2. QED
      BY <1>1, <1>3, <3>1 DEF NoEnd
  <2>3. QED
    BY <2>1, <2>2
<1>4. QED
  BY <1>2, <1>3 DEF NoEnd

LEMMA NewOrOld ==
  ASSUME NEW s \in Seq(Message), NEW new \in Seq(Message), NEW p \in 1..Len(s \o new)
  PROVE  \/ p \in 1..Len(s) /\ (s \o new)[p] = s[p]
         \/ \E j \in 1..Len(new) : p = Len(s) + j /\ (s \o new)[p] = new[j]
<1> PICK u : u = s \o new
  OBVIOUS
<1>1. /\ Len(u) = Len(s) + Len(new) /\ Len(s) \in Nat
      /\ \A i \in 1..Len(s) : u[i] = s[i]
      /\ \A i \in 1..Len(u) : i > Len(s) =>
           i - Len(s) \in 1..Len(new) /\ u[i] = new[i - Len(s)]
  BY JoinIs
<1>2. CASE p > Len(s)
  <2>1. p - Len(s) \in 1..Len(new) /\ u[p] = new[p - Len(s)] /\ p = Len(s) + (p - Len(s))
    BY <1>1, <1>2
  <2>2. QED
    BY <2>1
<1>3. CASE ~(p > Len(s))
  BY <1>1, <1>3
<1>4. QED
  BY <1>2, <1>3

LEMMA OwnedGrows ==
  ASSUME Owned, bus \in Seq(Message), NEW new \in Seq(Message), bus' = bus \o new,
         NoEnd(new) => (owner => owner'),
         client'.phase \notin {"away", "crashed"} => client.phase \notin {"away", "crashed"},
         \A j \in 1..Len(new) : new[j].what \in {"appeared", "all"} => owner'
  PROVE  Owned'
<1>1. NoEnd(bus') /\ client'.phase \notin {"away", "crashed"} => owner'
  BY NoEndJoin DEF Owned
<1>2. ASSUME NEW p \in 1..Len(bus'), bus'[p].what \in {"appeared", "all"},
             NoEnd(After(bus', p))
      PROVE  owner'
  <2>1. CASE p \in 1..Len(bus) /\ bus'[p] = bus[p]
    <3>1. After(bus, p) \in Seq(Message) /\ After(bus', p) = After(bus, p) \o new
      BY <2>1, AfterJoin, ZenonT(40)
    <3>2. NoEnd(After(bus, p)) /\ NoEnd(new)
      BY <1>2, <3>1, NoEndJoin
    <3>3. QED
      BY <1>2, <2>1, <3>2 DEF Owned
  <2>2. CASE \E j \in 1..Len(new) : p = Len(bus) + j /\ bus'[p] = new[j]
    BY <1>2, <2>2
  <2>3. QED
    BY <2>1, <2>2, NewOrOld
<1>3. QED
  BY <1>1, <1>2 DEF Owned

LEMMA AskingGrows ==
  ASSUME Asking, bus \in Seq(Message), NEW new \in Seq(Message), bus' = bus \o new,
         client' = client, requests' = requests,
         \A j \in 1..Len(new) : new[j].what \notin {"version", "all"}
  PROVE  Asking'
<1>1. \A p \in 1..Len(bus') : bus'[p].what \in {"version", "all"} =>
        p \in 1..Len(bus) /\ bus'[p] = bus[p]
  BY NewOrOld
<1>2. Answered'
  BY <1>1 DEF Asking, Answered
<1>3. QED
  BY <1>2 DEF Asking, Asked

LEMMA FollowedGrows ==
  ASSUME Followed, bus \in Seq(Message), NEW new \in Seq(Message), bus' = bus \o new,
         started \in BOOLEAN, started' \in BOOLEAN, client' = client, missed' = missed,
         started => started' /\ Reports(new, announced.cats, announced'.cats),
         \A j \in 1..Len(new) : new[j].what # "all" \/ new[j].init # client.init
  PROVE  Followed'
<1> SUFFICES ASSUME ~missed PROVE Followed'
  BY DEF Followed
<1>1. ASSUME client.phase = "connected"
      PROVE  Follows(client.cats, bus', started', announced'.cats)
  <2>1. Follows(client.cats, bus, started, announced.cats)
    BY <1>1 DEF Followed
  <2>2. QED
    BY <2>1, FollowsGrows
<1>2. ASSUME NEW p \in 1..Len(bus'), client.phase = "getall", bus'[p].what = "all",
             bus'[p].init = client.init
      PROVE  Follows(bus'[p].cats, After(bus', p), started', announced'.cats)
  <2>1. p \in 1..Len(bus) /\ bus'[p] = bus[p]
    BY <1>2, NewOrOld
  <2>2. Follows(bus[p].cats, After(bus, p), started, announced.cats)
    BY <1>2, <2>1 DEF Followed
  <2>3. After(bus, p) \in Seq(Message) /\ After(bus', p) = After(bus, p) \o new
    BY <2>1, AfterJoin
  <2>4. Follows(bus[p].cats, After(bus', p), started', announced'.cats)
    BY <2>2, <2>3, FollowsGrows
  <2>5. QED
    BY <2>1, <2>4
<1>3. QED
  BY <1>1, <1>2 DEF Followed

-----------------------------------------------------------------------------
(* The steps of the server                                                   *)

LEMMA ServerSame ==
  ASSUME CInv, NamesKnown, UNCHANGED server PROVE CInv' /\ NamesKnown'
<1>1. UNCHANGED <<categories, table, last_cid, default_level, started, calls, announced>>
  BY DEF server
<1>2. CInv'
  BY <1>1 DEF CInv, Shape, NamesIdentify, Published, AnnouncedOrPending, Announcing
<1>3. NamesKnown'
  BY <1>1 DEF NamesKnown
<1>4. QED
  BY <1>2, <1>3

LEMMA ServerMirrorStep ==
  ASSUME MInv, Request \/ Api \/ Finishing, UNCHANGED mirror PROVE MInv'
<1>1. UNCHANGED <<owner, lives, requests, client, failed, missed>>
  BY DEF mirror
<1>2. CInv'
  BY RequestStep, ApiStep, EnableNextStep, EnableDoneStep, HandlerReturnsStep
    DEF MInv, Finishing
<1>3. Telling /\ NamesKnown'
  BY ServerTells DEF MInv, Typed
<1>4. PICK new \in Seq(Message) :
        /\ bus' = bus \o new
        /\ \A j \in 1..Len(new) : new[j].what \in ServerSignals
        /\ started => started' /\ Reports(new, announced.cats, announced'.cats)
  BY <1>3 DEF Telling
<1>5. \A j \in 1..Len(new) : new[j].what \notin {"appeared", "all", "version", "vanished"}
  BY <1>4 DEF ServerSignals
<1>6. bus \in Seq(Message) /\ bus \o new \in Seq(Message)
  BY DEF MInv, Typed
<1>7. Typed'
  BY <1>1, <1>4, <1>6 DEF MInv, Typed
<1>8. started \in BOOLEAN /\ started' \in BOOLEAN
  BY <1>2 DEF MInv, CInv, Shape
<1>9. Followed'
  BY <1>1, <1>4, <1>5, <1>6, <1>8, FollowedGrows DEF MInv
<1>10. Owned'
  BY <1>1, <1>4, <1>5, <1>6, OwnedGrows DEF MInv
<1>11. Asking'
  BY <1>1, <1>4, <1>5, <1>6, AskingGrows DEF MInv
<1>12. Expected'
  BY <1>1 DEF MInv, Expected, SignalsAreExpected
<1>13. QED
  BY <1>2, <1>3, <1>7, <1>9, <1>10, <1>11, <1>12 DEF MInv

LEMMA StopMirrorStep ==
  ASSUME MInv, Stop, missed' = TRUE, UNCHANGED <<owner, lives, requests, client, failed>>
  PROVE  MInv'
<1>1. CInv'
  BY StopStep DEF MInv
<1>2. bus' = bus /\ ~started' /\ Stops
  BY DEF Stop
<1>3. NamesKnown'
  BY <1>2 DEF NamesKnown
<1>4. Typed'
  BY <1>2 DEF MInv, Typed
<1>5. Followed'
  BY DEF Followed
<1>6. Owned'
  BY <1>2 DEF MInv, Owned
<1>7. Asking'
  BY <1>2 DEF MInv, Asking, Asked, Answered
<1>8. Expected'
  BY <1>2 DEF Expected
<1>9. QED
  BY <1>1, <1>3, <1>4, <1>5, <1>6, <1>7, <1>8 DEF MInv

LEMMA AcquireNameMirrorStep == ASSUME MInv, AcquireName PROVE MInv'
<1>1. /\ owner' = TRUE /\ bus' = Append(bus, [what |-> "appeared"])
      /\ UNCHANGED <<server, lives, requests, client, failed, missed>>
  BY DEF AcquireName
<1>2. PICK m : m = [what |-> "appeared"]
  OBVIOUS
<1>3. PICK new : new = <<m>>
  OBVIOUS
<1>4. m \in Message /\ m.what = "appeared" /\ \A id : ~Tells(m, id) /\ ~Updates(m, id)
  BY <1>2 DEF Message, Tells, Updates
<1>5. new \in Seq(Message) /\ \A j \in 1..Len(new) : new[j] = m
  BY <1>3, <1>4, Single
<1>6. bus \in Seq(Message) /\ bus' = bus \o new /\ bus' \in Seq(Message)
  BY <1>1, <1>2, <1>3, <1>5 DEF MInv, Typed
<1>7. Reports(new, announced.cats, announced.cats)
  BY <1>4, <1>5, NothingReported
<1>8. CInv' /\ NamesKnown'
  BY <1>1, ServerSame DEF MInv
<1>9. Typed'
  BY <1>1, <1>6 DEF MInv, Typed
<1>10. started \in BOOLEAN /\ started' = started /\ announced' = announced
  BY <1>1 DEF MInv, CInv, Shape, server
<1>11. Followed'
  BY <1>1, <1>4, <1>5, <1>6, <1>7, <1>10, FollowedGrows DEF MInv
<1>12. Owned'
  BY <1>1, <1>4, <1>5, <1>6, OwnedGrows DEF MInv
<1>13. Asking'
  BY <1>1, <1>4, <1>5, <1>6, AskingGrows DEF MInv
<1>14. Expected'
  BY <1>1 DEF MInv, Expected, SignalsAreExpected
<1>15. QED
  BY <1>8, <1>9, <1>11, <1>12, <1>13, <1>14 DEF MInv

LEMMA JoinAssociates ==
  ASSUME NEW S, NEW s \in Seq(S), NEW t \in Seq(S), NEW r \in Seq(S)
  PROVE  (s \o t) \o r = s \o (t \o r)
  OBVIOUS

LEMMA ElementIs ==
  ASSUME NEW S, NEW s \in Seq(S) PROVE \A i \in 1..Len(s) : s[i] \in S
  OBVIOUS

LEMMA DieMirrorStep == ASSUME MInv, Die PROVE MInv'
<1> DEFINE errors == [i \in DOMAIN requests |-> [what |-> "error", init |-> requests[i].init]]
           notice == IF owner THEN <<[what |-> "vanished"]>> ELSE <<>>
<1>1. /\ bus' \in {bus \o errors \o notice, bus \o notice \o errors}
      /\ requests' = <<>> /\ owner' = FALSE
      /\ UNCHANGED <<client, failed, missed>>
      /\ Fresh'
  BY DEF Die, Fresh
<1>2. bus \in Seq(Message) /\ requests \in Seq([call : Pending, init : Nat])
  BY DEF MInv, Typed
<1>3. /\ errors \in Seq(Message)
      /\ \A i \in 1..Len(errors) : errors[i].what = "error"
  <2>1. PICK n \in Nat : n = Len(requests) /\ DOMAIN requests = 1..n
    BY <1>2
  <2>2. \A i \in 1..n : requests[i].init \in Nat
    <3>1. \A i \in 1..n : requests[i] \in [call : Pending, init : Nat]
      BY <1>2, <2>1, ElementIs
    <3>2. QED
      BY <3>1
  <2>3. \A i \in 1..n : [what |-> "error", init |-> requests[i].init] \in Message
    BY <2>2 DEF Message
  <2>4. errors \in [1..n -> Message]
    BY <2>1, <2>3
  <2>5. errors \in Seq(Message) /\ Len(errors) = n
    BY <2>4
  <2>6. QED
    BY <2>1, <2>5
<1>4. /\ notice \in Seq(Message) /\ (owner => Len(notice) = 1 /\ notice[1].what = "vanished")
      /\ \A i \in 1..Len(notice) : notice[i].what = "vanished"
  <2>1. PICK m : m = [what |-> "vanished"]
    OBVIOUS
  <2>2. m \in Message /\ m.what = "vanished"
    BY <2>1 DEF Message
  <2>3. CASE owner
    <3>1. notice = <<m>>
      BY <2>1, <2>3
    <3>2. QED
      BY <2>2, <3>1, Single
  <2>4. CASE ~owner
    <3>1. notice = <<>>
      BY <2>4
    <3>2. QED
      BY <2>4, <3>1
  <2>5. QED
    BY <2>3, <2>4
<1> HIDE DEF errors, notice
<1>5. PICK new \in Seq(Message) :
        /\ bus' = bus \o new
        /\ new \in {errors \o notice, notice \o errors}
  <2>1. (bus \o errors) \o notice = bus \o (errors \o notice)
    BY <1>2, <1>3, <1>4, JoinAssociates, SMTT(20)
  <2>2. (bus \o notice) \o errors = bus \o (notice \o errors)
    BY <1>2, <1>3, <1>4, JoinAssociates, SMTT(20)
  <2>3. errors \o notice \in Seq(Message) /\ notice \o errors \in Seq(Message)
    BY <1>3, <1>4
  <2>4. QED
    BY <1>1, <2>1, <2>2, <2>3
<1>18. bus' = bus \o new /\ bus \o new \in Seq(Message)
  BY <1>2, <1>5
<1>6. \A j \in 1..Len(new) : new[j].what \in {"error", "vanished"}
  <2>1. ASSUME NEW j \in 1..Len(new) PROVE new[j].what \in {"error", "vanished"}
    <3>1. CASE new = errors \o notice
      <4>1. (\E i \in 1..Len(errors) : new[j] = errors[i]) \/ (\E i \in 1..Len(notice) : new[j] = notice[i])
        <5>1. errors \in Seq(Message) /\ notice \in Seq(Message)
          BY <1>3, <1>4
        <5>2. j \in 1..Len(errors \o notice)
          BY <3>1
        <5>3. QED
          BY <3>1, <5>1, <5>2, NewOrOld
      <4>2. QED
        BY <1>3, <1>4, <4>1
    <3>2. CASE new = notice \o errors
      <4>1. (\E i \in 1..Len(notice) : new[j] = notice[i]) \/ (\E i \in 1..Len(errors) : new[j] = errors[i])
        <5>1. errors \in Seq(Message) /\ notice \in Seq(Message)
          BY <1>3, <1>4
        <5>2. j \in 1..Len(notice \o errors)
          BY <3>2
        <5>3. QED
          BY <3>2, <5>1, <5>2, NewOrOld
      <4>2. QED
        BY <1>3, <1>4, <4>1
    <3>3. QED
      BY <1>5, <3>1, <3>2
  <2>2. QED
    BY <2>1
<1>7. owner => ~NoEnd(new)
  <2>1. owner => ~NoEnd(notice)
    <3>1. owner => 1 \in 1..Len(notice) /\ notice[1].what = "vanished"
      BY <1>4
    <3>2. QED
      BY <3>1 DEF NoEnd
  <2>2. QED
    BY <1>3, <1>4, <1>5, <2>1, NoEndJoin
<1>8. \A j \in 1..Len(new) : \A id : ~Tells(new[j], id) /\ ~Updates(new[j], id)
  BY <1>6 DEF Tells, Updates
<1>9. CInv'
  <2>1. (Fresh => CInv)'
    BY FreshShape, PTL
  <2>2. QED
    BY <1>1, <2>1
<1>10. NamesKnown'
  BY <1>1 DEF NamesKnown, Fresh
<1>11. Typed'
  <2>1. UNCHANGED <<client, missed>> /\ requests' = <<>> /\ owner' = FALSE
    BY <1>1
  <2>2. bus' \in Seq(Message)
    BY <1>18
  <2>3. requests' \in Seq([call : Pending, init : Nat])
    BY <2>1
  <2>4. QED
    BY <2>1, <2>2, <2>3 DEF MInv, Typed
<1>12. started \in BOOLEAN /\ started' \in BOOLEAN
  BY <1>9 DEF MInv, CInv, Shape
<1>13. Followed'
  <2> SUFFICES ASSUME ~missed PROVE Followed'
    BY <1>1 DEF Followed
  <2>1. ASSUME client.phase = "connected"
        PROVE  Follows(client.cats, bus', started', announced'.cats)
    <3>1. Follows(client.cats, bus, started, announced.cats)
      BY <2>1 DEF MInv, Followed
    <3>2. ~NoEnd(bus \o new)
      BY <1>2, <1>7, <2>1, NoEndJoin DEF MInv, Owned
    <3>3. QED
      BY <1>2, <1>5, <1>8, <1>12, <3>1, <3>2, FollowsEnds
  <2>2. ASSUME NEW p \in 1..Len(bus'), client.phase = "getall", bus'[p].what = "all",
               bus'[p].init = client.init
        PROVE  Follows(bus'[p].cats, After(bus', p), started', announced'.cats)
    <3>1. p \in 1..Len(bus) /\ bus'[p] = bus[p]
      BY <1>2, <1>6, <1>18, <2>2, NewOrOld
    <3>2. Follows(bus[p].cats, After(bus, p), started, announced.cats)
      BY <2>2, <3>1 DEF MInv, Followed
    <3>3. After(bus, p) \in Seq(Message) /\ After(bus', p) = After(bus, p) \o new
      BY <1>2, <1>5, <3>1, AfterJoin
    <3>4. ~NoEnd(After(bus, p) \o new)
      <4>1. NoEnd(After(bus, p)) => owner
        BY <2>2, <3>1 DEF MInv, Owned
      <4>2. QED
        BY <1>7, <3>3, <4>1, NoEndJoin
    <3>5. Follows(bus[p].cats, After(bus, p) \o new, started', announced'.cats)
      BY <1>8, <1>12, <3>2, <3>3, <3>4, FollowsEnds
    <3>6. QED
      BY <3>1, <3>3, <3>5
  <2>3. QED
    BY <1>1, <2>1, <2>2 DEF Followed
<1>14. Owned'
  BY <1>1, <1>2, <1>5, <1>6, <1>7, OwnedGrows DEF MInv
<1>15. Asking'
  <2>1. \A p \in 1..Len(bus') : bus'[p].what \in {"version", "all"} =>
          p \in 1..Len(bus) /\ bus'[p] = bus[p]
    BY <1>2, <1>6, <1>18, NewOrOld
  <2>2. Answered'
    BY <1>1, <2>1 DEF MInv, Asking, Answered
  <2>3. Len(requests') = 0
    BY <1>1
  <2>4. Asked'
    BY <2>3 DEF Asked
  <2>5. QED
    BY <1>1, <2>2, <2>4 DEF MInv, Asking
<1>16. Expected'
  BY <1>1 DEF MInv, Expected, SignalsAreExpected
<1>17. QED
  BY <1>9, <1>10, <1>11, <1>13, <1>14, <1>15, <1>16 DEF MInv

LEMMA ServerCopyIs ==
  ASSUME CInv
  PROVE  /\ DOMAIN ServerCopy = table /\ ServerCopy \in Copies
         /\ \A id \in table : /\ ServerCopy[id].name = categories[id].name
                              /\ ServerCopy[id].flags = categories[id].flags
<1>1. /\ table \subseteq DOMAIN categories /\ table \in SUBSET (1..(Modulus - 1))
      /\ \A id \in table : categories[id] \in Category
  BY DEF CInv, Shape
<1>2. ServerCopy = [id \in table |->
                      [name |-> categories[id].name, flags |-> categories[id].flags]]
  BY DEF ServerCopy, Copy, Restrict
<1>3. \A id \in table :
        [name |-> categories[id].name, flags |-> categories[id].flags] \in Entry
  BY <1>1 DEF Category, Entry
<1>4. ServerCopy \in [table -> Entry]
  BY <1>2, <1>3
<1>5. ServerCopy \in Copies
  BY <1>1, <1>4 DEF Copies
<1>6. QED
  BY <1>2, <1>5

(* Who gets the answer of GetAll knows what the server has announced.        *)
LEMMA AnswerFollows ==
  ASSUME CInv, NamesKnown, started, Idle, NEW a \in Seq(Message), Len(a) = 0
  PROVE  Follows(ServerCopy, a, started, announced.cats)
<1>1. PICK cats : cats = ServerCopy
  OBVIOUS
<1>2. /\ DOMAIN cats = table
      /\ \A id \in table : /\ cats[id].name = categories[id].name
                           /\ cats[id].flags = categories[id].flags
  BY <1>1, ServerCopyIs
<1>3. /\ DOMAIN announced.cats = table
      /\ \A id \in table : /\ announced.cats[id].name = categories[id].name
                           /\ announced.cats[id].flags = categories[id].flags
  <2>1. Len(calls) = 0
    BY DEF Idle
  <2>2. \A id : ~Announcing("flags", id)
    BY <2>1 DEF Announcing
  <2>3. QED
    BY <2>2 DEF CInv, Published, AnnouncedOrPending, NamesKnown
<1>4. \A i : i \notin 1..Len(a)
  OBVIOUS
<1>5. \A id : KnowsAfter(cats, a, Len(a), id) <=> id \in DOMAIN cats
  BY <1>4 DEF KnowsAfter
<1>6. \A id \in DOMAIN announced.cats :
        /\ NameAfter(cats, a, id, announced.cats[id].name)
        /\ FlagsAfter(cats, a, id, announced.cats[id].flags)
  BY <1>2, <1>3, <1>4 DEF NameAfter, FlagsAfter
<1>7. Alternating(cats, a)
  BY <1>4 DEF Alternating
<1>8. Agreed(cats, a, announced.cats)
  BY <1>2, <1>3, <1>5, <1>6 DEF Agreed
<1>9. QED
  BY <1>1, <1>7, <1>8 DEF Follows

LEMMA AnswerMirrorStep == ASSUME MInv, Answer PROVE MInv'
<1> DEFINE call == Head(requests).call
           init == Head(requests).init
<1>1. /\ Idle /\ requests # <<>> /\ requests' = Tail(requests)
      /\ UNCHANGED <<server, owner, lives, client, failed>>
  BY DEF Answer
<1>2. PICK m :
        /\ bus' = Append(bus, m)
        /\ \/ m = [what |-> "error", init |-> init] /\ missed' = missed
           \/ m = [what |-> "version", init |-> init] /\ missed' = missed /\ call = "version"
           \/ /\ m = [what |-> "all", init |-> init, cats |-> ServerCopy]
              /\ missed' = FALSE /\ call = "getall" /\ owner /\ started
  BY DEF Answer
<1>3. /\ bus \in Seq(Message) /\ requests \in Seq([call : Pending, init : Nat])
      /\ requests' \in Seq([call : Pending, init : Nat])
      /\ Len(requests') \in Nat /\ Len(requests) = Len(requests') + 1
      /\ requests[1] = Head(requests) /\ 1 \in 1..Len(requests)
      /\ Head(requests) \in [call : Pending, init : Nat]
      /\ \A i \in 1..Len(requests') : i + 1 \in 1..Len(requests)
                                      /\ requests[i + 1] = requests'[i]
  <2>1. bus \in Seq(Message) /\ requests \in Seq([call : Pending, init : Nat])
    BY DEF MInv, Typed
  <2>2. requests # <<>> /\ requests' = Tail(requests)
    BY <1>1
  <2>3. PICK S : S = [call : Pending, init : Nat]
    OBVIOUS
  <2>4. requests \in Seq(S)
    BY <2>1, <2>3
  <2>5. PICK r : r = Tail(requests)
    OBVIOUS
  <2>6. /\ r \in Seq(S) /\ Len(r) \in Nat /\ Len(requests) = Len(r) + 1
        /\ requests[1] = Head(requests) /\ 1 \in 1..Len(requests) /\ Head(requests) \in S
        /\ \A i \in 1..Len(r) : i + 1 \in 1..Len(requests) /\ requests[i + 1] = r[i]
    BY ONLY <2>2, <2>4, <2>5, TailIs
  <2>7. QED
    BY <2>1, <2>2, <2>3, <2>5, <2>6
<1>4. /\ init \in Nat /\ client.init \in Nat /\ init <= client.init
      /\ init = client.init =>
           /\ client.phase # "proxy"
           /\ client.phase \in Pending => 1 = Len(requests) /\ call = client.phase
  <2>1. Head(requests) \in [call : Pending, init : Nat]
    BY <1>3
  <2>2. init \in Nat /\ client.init \in Nat
    BY <2>1 DEF MInv, Typed
  <2>3. QED
    BY <1>3, <2>2 DEF MInv, Asking, Asked
<1> HIDE DEF call, init
<1>5. m \in Message /\ m.init = init /\ \A id : ~Tells(m, id) /\ ~Updates(m, id)
  <2>1. ServerCopy \in Copies
    BY ServerCopyIs DEF MInv
  <2>2. m \in Message
    BY <1>2, <1>4, <2>1 DEF Message
  <2>3. QED
    BY <1>2, <2>2 DEF Tells, Updates
<1>6. PICK new : new = <<m>>
  OBVIOUS
<1>7. new \in Seq(Message) /\ Len(new) = 1 /\ \A j \in 1..Len(new) : new[j] = m
  BY <1>5, <1>6, Single
<1>8. bus' = bus \o new /\ bus \o new \in Seq(Message)
  BY <1>2, <1>3, <1>5, <1>6, <1>7
<1>9. CInv' /\ NamesKnown'
  BY <1>1, ServerSame DEF MInv
<1>10. started \in BOOLEAN /\ started' = started /\ announced' = announced
  BY <1>1 DEF MInv, CInv, Shape, server
<1>11. Typed'
  <2>1. missed' \in BOOLEAN
    BY <1>2 DEF MInv, Typed
  <2>2. bus' \in Seq(Message)
    BY <1>8
  <2>3. QED
    BY <1>1, <1>3, <2>1, <2>2 DEF MInv, Typed
<1>12. Followed'
  <2>1. CASE m.what # "all"
    <3>1. missed' = missed
      BY <1>2, <2>1
    <3>2. Reports(new, announced.cats, announced.cats)
      BY <1>5, <1>7, NothingReported
    <3>3. QED
      BY <1>1, <1>3, <1>7, <1>8, <1>10, <2>1, <3>1, <3>2, FollowedGrows DEF MInv
  <2>2. CASE m.what = "all"
    <3>1. m.cats = ServerCopy /\ missed' = FALSE /\ call = "getall" /\ owner /\ started
      BY <1>2, <2>2
    <3>2. client.phase # "connected"
      BY <1>1 DEF MInv, Asking
    <3>3. ASSUME NEW p \in 1..Len(bus'), client.phase = "getall", bus'[p].what = "all",
                 bus'[p].init = client.init
          PROVE  Follows(bus'[p].cats, After(bus', p), started, announced.cats)
      <4>1. ~(p \in 1..Len(bus) /\ bus'[p] = bus[p])
        BY <1>1, <3>3 DEF MInv, Asking, Answered
      <4>2. p = Len(bus) + 1 /\ bus'[p] = m
        <5>1. new \in Seq(Message) /\ bus \in Seq(Message) /\ bus' = bus \o new
          BY <1>3, <1>7, <1>8
        <5>2. PICK j \in 1..Len(new) : p = Len(bus) + j /\ bus'[p] = new[j]
          BY <4>1, <5>1, NewOrOld
        <5>3. j = 1
          BY <1>7
        <5>4. QED
          BY <1>7, <5>2, <5>3
      <4>3. p = Len(bus') /\ bus' \in Seq(Message)
        <5>1. new \in Seq(Message) /\ bus \in Seq(Message) /\ bus' = bus \o new
          BY <1>3, <1>7, <1>8
        <5>2. Len(bus') = Len(bus) + Len(new) /\ bus' \in Seq(Message)
          BY ONLY <5>1
        <5>3. QED
          BY <1>7, <4>2, <5>2
      <4>4. PICK a : a = After(bus', p)
        OBVIOUS
      <4>5. a \in Seq(Message) /\ Len(a) = 0
        <5>1. a \in Seq(Message) /\ Len(a) = Len(bus') - p
          BY <3>3, <4>3, <4>4, AfterIs
        <5>2. QED
          BY <4>3, <5>1
      <4>6. Follows(ServerCopy, a, started, announced.cats)
        BY <1>1, <3>1, <4>5, AnswerFollows DEF MInv
      <4>7. QED
        BY <3>1, <4>2, <4>4, <4>6
    <3>4. QED
      BY <1>1, <1>10, <3>2, <3>3 DEF Followed
  <2>3. QED
    BY <2>1, <2>2
<1>13. Owned'
  <2>1. NoEnd(new) => (owner => owner')
    BY <1>1
  <2>2. \A j \in 1..Len(new) : new[j].what \in {"appeared", "all"} => owner'
    BY <1>1, <1>2, <1>7
  <2>3. QED
    BY <1>1, <1>3, <1>7, <1>8, <2>1, <2>2, OwnedGrows DEF MInv
<1>14. Asked'
  <2>1. SUFFICES ASSUME NEW i \in 1..Len(requests')
                 PROVE  /\ requests'[i].init <= client.init
                        /\ requests'[i].init = client.init =>
                             /\ client.phase # "proxy"
                             /\ client.phase \in Pending =>
                                  i = Len(requests') /\ requests'[i].call = client.phase
    BY <1>1 DEF Asked
  <2>2. i + 1 \in 1..Len(requests) /\ requests[i + 1] = requests'[i]
    BY <1>3
  <2>3. /\ requests[i + 1].init <= client.init
        /\ requests[i + 1].init = client.init =>
             /\ client.phase # "proxy"
             /\ client.phase \in Pending =>
                  i + 1 = Len(requests) /\ requests[i + 1].call = client.phase
    BY <2>2 DEF MInv, Asking, Asked
  <2>4. i + 1 = Len(requests) => i = Len(requests')
    BY <1>3
  <2>5. QED
    BY <2>2, <2>3, <2>4
<1>15. Answered'
  <2>1. SUFFICES ASSUME NEW p \in 1..Len(bus'), bus'[p].what \in {"version", "all"}
                 PROVE  /\ bus'[p].init <= client.init
                        /\ bus'[p].init = client.init =>
                             /\ client.phase # "proxy"
                             /\ bus'[p].what = "all" => client.phase # "version"
                             /\ bus'[p].what = "all" /\ client.phase = "getall" =>
                                  requests' = <<>>
                             /\ bus'[p].what = "version" /\ client.phase = "version" =>
                                  requests' = <<>>
    BY <1>1 DEF Answered
  <2>2. CASE p \in 1..Len(bus) /\ bus'[p] = bus[p]
    BY <1>1, <2>1, <2>2 DEF MInv, Asking, Answered
  <2>3. CASE \E j \in 1..Len(new) : p = Len(bus) + j /\ bus'[p] = new[j]
    <3>1. bus'[p] = m
      BY <1>7, <2>3
    <3>2. 1 = Len(requests) => requests' = <<>>
      BY <1>1, <1>3
    <3>3. m.what = "all" => call = "getall"
      BY <1>2
    <3>4. m.what = "version" => call = "version"
      BY <1>2
    <3>5. QED
      BY <1>4, <1>5, <3>1, <3>2, <3>3, <3>4 DEF Pending
  <2>4. QED
    BY <1>3, <1>7, <1>8, <2>2, <2>3, NewOrOld, ZenonT(40)
<1>16. Asking'
  BY <1>1, <1>14, <1>15 DEF MInv, Asking
<1>17. Expected'
  BY <1>1, <1>2 DEF MInv, Expected, SignalsAreExpected
<1>18. QED
  BY <1>9, <1>11, <1>12, <1>13, <1>16, <1>17 DEF MInv

-----------------------------------------------------------------------------
(* Steps which take the first message                                        *)

LEMMA Taken ==
  ASSUME bus \in Seq(Message), bus # <<>>, bus' = Tail(bus)
  PROVE  /\ bus' \in Seq(Message) /\ Len(bus') \in Nat /\ Len(bus) = Len(bus') + 1
         /\ 1 \in 1..Len(bus) /\ bus[1] = Head(bus) /\ Head(bus) \in Message
         /\ \A i \in 1..Len(bus') : i + 1 \in 1..Len(bus) /\ bus[i + 1] = bus'[i]
         /\ After(bus, 1) = bus'
         /\ NoEnd(bus') /\ Head(bus).what # "vanished" => NoEnd(bus)
<1>1. PICK t : t = Tail(bus)
  OBVIOUS
<1>2. /\ t \in Seq(Message) /\ Len(t) \in Nat /\ Len(bus) = Len(t) + 1
      /\ 1 \in 1..Len(bus) /\ bus[1] = Head(bus) /\ Head(bus) \in Message
      /\ \A i \in 1..Len(t) : i + 1 \in 1..Len(bus) /\ bus[i + 1] = t[i]
      /\ \A i \in 1..Len(bus) : i # 1 => i - 1 \in 1..Len(t) /\ t[i - 1] = bus[i]
  BY ONLY <1>1, TailIs, bus \in Seq(Message), bus # <<>>
<1>3. After(bus, 1) = t
  BY <1>1, AfterFirst
<1>4. ASSUME NoEnd(t), Head(bus).what # "vanished" PROVE NoEnd(bus)
  <2>1. ASSUME NEW i \in 1..Len(bus) PROVE bus[i].what # "vanished"
    <3>1. CASE i = 1
      BY <1>2, <1>4, <3>1
    <3>2. CASE i # 1
      BY ONLY <1>2, <1>4, <3>2, i \in 1..Len(bus) DEF NoEnd
    <3>3. QED
      BY <3>1, <3>2
  <2>2. QED
    BY <2>1 DEF NoEnd
<1>5. QED
  BY <1>1, <1>2, <1>3, <1>4

LEMMA TakenAfter ==
  ASSUME bus \in Seq(Message), bus # <<>>, bus' = Tail(bus), NEW p \in 1..Len(bus')
  PROVE  /\ p + 1 \in 1..Len(bus) /\ bus'[p] = bus[p + 1]
         /\ After(bus', p) = After(bus, p + 1)
<1>1. PICK t : t = Tail(bus)
  OBVIOUS
<1>2. p \in 1..Len(t)
  BY <1>1
<1>3. p + 1 \in 1..Len(bus) /\ t[p] = bus[p + 1] /\ After(t, p) = After(bus, p + 1)
  BY ONLY <1>1, <1>2, AfterTail, bus \in Seq(Message), bus # <<>>
<1>4. QED
  BY <1>1, <1>3

LEMMA OwnedTail ==
  ASSUME Owned, bus \in Seq(Message), bus # <<>>, bus' = Tail(bus), owner' = owner,
         client'.phase \notin {"away", "crashed"} =>
           \/ client.phase \notin {"away", "crashed"} /\ Head(bus).what # "vanished"
           \/ Head(bus).what = "appeared"
  PROVE  Owned'
<1>1. ASSUME NoEnd(bus'), client'.phase \notin {"away", "crashed"} PROVE owner
  <2>1. CASE client.phase \notin {"away", "crashed"} /\ Head(bus).what # "vanished"
    BY <1>1, <2>1, Taken DEF Owned
  <2>2. CASE Head(bus).what = "appeared"
    <3>1. 1 \in 1..Len(bus) /\ bus[1].what = "appeared" /\ NoEnd(After(bus, 1))
      BY <1>1, <2>2, Taken
    <3>2. QED
      BY <3>1 DEF Owned
  <2>3. QED
    BY <1>1, <2>1, <2>2
<1>2. ASSUME NEW p \in 1..Len(bus'), bus'[p].what \in {"appeared", "all"},
             NoEnd(After(bus', p))
      PROVE  owner
  <2>1. /\ p + 1 \in 1..Len(bus) /\ bus'[p] = bus[p + 1]
        /\ After(bus', p) = After(bus, p + 1)
    BY TakenAfter
  <2>2. QED
    BY <1>2, <2>1 DEF Owned
<1>3. QED
  BY <1>1, <1>2 DEF Owned

LEMMA FollowedTail ==
  ASSUME Followed, bus \in Seq(Message), bus # <<>>, bus' = Tail(bus),
         started \in BOOLEAN, UNCHANGED <<started, announced, missed>>,
         client'.phase = "connected" =>
           \/ /\ client.phase = "connected" /\ Head(bus).what # "vanished"
              /\ Applied(client.cats, Head(bus), client'.cats)
           \/ /\ client.phase = "getall" /\ Head(bus).what = "all"
              /\ Head(bus).init = client.init /\ client'.cats = Head(bus).cats,
         client'.phase = "getall" =>
           \/ client.phase = "getall" /\ client'.init = client.init
           \/ \A p \in 1..Len(bus) : bus[p].what = "all" => bus[p].init # client'.init
  PROVE  Followed'
<1> SUFFICES ASSUME ~missed PROVE Followed'
  BY DEF Followed
<1>1. ASSUME client'.phase = "connected"
      PROVE  Follows(client'.cats, bus', started, announced.cats)
  <2>1. CASE /\ client.phase = "connected" /\ Head(bus).what # "vanished"
             /\ Applied(client.cats, Head(bus), client'.cats)
    <3>1. Follows(client.cats, bus, started, announced.cats)
      BY <2>1 DEF Followed
    <3>2. PICK t, next : t = Tail(bus) /\ next = client'.cats
      OBVIOUS
    <3>3. Applied(client.cats, Head(bus), next)
      BY <2>1, <3>2
    <3>4. Follows(next, t, started, announced.cats)
      BY <2>1, <3>1, <3>2, <3>3, FollowsTail
    <3>5. QED
      BY <3>2, <3>4
  <2>2. CASE /\ client.phase = "getall" /\ Head(bus).what = "all"
             /\ Head(bus).init = client.init /\ client'.cats = Head(bus).cats
    <3>1. 1 \in 1..Len(bus) /\ bus[1] = Head(bus) /\ After(bus, 1) = bus'
      BY Taken
    <3>2. Follows(bus[1].cats, After(bus, 1), started, announced.cats)
      BY <2>2, <3>1 DEF Followed
    <3>3. QED
      BY <2>2, <3>1, <3>2
  <2>3. QED
    BY <1>1, <2>1, <2>2
<1>2. ASSUME NEW p \in 1..Len(bus'), client'.phase = "getall", bus'[p].what = "all",
             bus'[p].init = client'.init
      PROVE  Follows(bus'[p].cats, After(bus', p), started, announced.cats)
  <2>1. /\ p + 1 \in 1..Len(bus) /\ bus'[p] = bus[p + 1]
        /\ After(bus', p) = After(bus, p + 1)
    BY TakenAfter
  <2>2. client.phase = "getall" /\ client'.init = client.init
    BY <1>2, <2>1
  <2>3. Follows(bus[p + 1].cats, After(bus, p + 1), started, announced.cats)
    BY <1>2, <2>1, <2>2 DEF Followed
  <2>4. QED
    BY <2>1, <2>3
<1>3. QED
  BY <1>1, <1>2 DEF Followed

LEMMA AskingTail ==
  ASSUME Asking, bus \in Seq(Message), bus # <<>>, bus' = Tail(bus),
         requests' = requests, client'.init = client.init,
         \/ client'.phase = client.phase
         \/ client'.phase \in {"away", "failed", "crashed"}
         \/ client'.phase = "connected" /\ requests = <<>>
  PROVE  Asking'
<1>1. ASSUME NEW p \in 1..Len(bus') PROVE p + 1 \in 1..Len(bus) /\ bus'[p] = bus[p + 1]
  BY TakenAfter
<1>2. Answered'
  BY <1>1 DEF Asking, Answered
<1>3. Asked'
  BY DEF Asking, Asked, Pending
<1>4. QED
  BY <1>2, <1>3 DEF Asking

LEMMA ReceiveIs ==
  ASSUME MInv, bus # <<>>, bus' = Tail(bus), UNCHANGED <<server, owner, lives, missed>>,
         client'.phase \notin {"away", "crashed"} =>
           \/ client.phase \notin {"away", "crashed"} /\ Head(bus).what # "vanished"
           \/ Head(bus).what = "appeared",
         client'.phase = "connected" =>
           \/ /\ client.phase = "connected" /\ Head(bus).what # "vanished"
              /\ Applied(client.cats, Head(bus), client'.cats)
           \/ /\ client.phase = "getall" /\ Head(bus).what = "all"
              /\ Head(bus).init = client.init /\ client'.cats = Head(bus).cats,
         client'.phase = "getall" =>
           \/ client.phase = "getall" /\ client'.init = client.init
           \/ \A p \in 1..Len(bus) : bus[p].what = "all" => bus[p].init # client'.init,
         client' \in [phase : Phases, init : Nat, cats : Copies, array : {client'.array}],
         client'.array \in Sorted(client'.cats),
         requests' \in Seq([call : Pending, init : Nat]), Asking', SignalsAreExpected' \/ Stops
  PROVE  MInv'
<1>1. CInv' /\ NamesKnown'
  BY ServerSame DEF MInv
<1>2. bus \in Seq(Message)
  BY DEF MInv, Typed
<1>3. started \in BOOLEAN /\ UNCHANGED <<started, announced, missed>>
  BY DEF MInv, CInv, Shape, server
<1>4. Typed'
  <2>1. bus' \in Seq(Message)
    BY <1>2, Taken
  <2>2. QED
    BY <2>1 DEF MInv, Typed
<1>5. Followed'
  BY <1>2, <1>3, FollowedTail DEF MInv
<1>6. Owned'
  BY <1>2, OwnedTail DEF MInv
<1>7. Expected'
  BY <1>3 DEF MInv, Expected
<1>8. QED
  BY <1>1, <1>4, <1>5, <1>6, <1>7 DEF MInv

-----------------------------------------------------------------------------
(* The steps of the client                                                   *)

LEMMA SilentApplied ==
  ASSUME NEW cats, NEW m, m.what \notin {"added", "removed", "flags"}
  PROVE  Applied(cats, m, cats)
  BY DEF Applied, Tells, Updates

LEMMA SameClientStep ==
  ASSUME MInv, bus # <<>>, bus' = Tail(bus),
         UNCHANGED <<server, owner, lives, missed, client, requests, failed>>,
         \/ client.phase = "crashed"
         \/ Head(bus).what # "vanished" /\
            (client.phase = "connected" => Head(bus).what \notin {"added", "removed", "flags"})
  PROVE  MInv'
<1>1. client.phase = "connected" /\ client.phase # "crashed" =>
        /\ Head(bus).what # "vanished" /\ Applied(client.cats, Head(bus), client'.cats)
  BY SilentApplied
<1>2. Asking'
  BY AskingTail DEF MInv, Typed
<1>3. SignalsAreExpected' \/ Stops
  BY DEF MInv, Expected, SignalsAreExpected
<1>4. /\ client' \in [phase : Phases, init : Nat, cats : Copies, array : {client'.array}]
      /\ client'.array \in Sorted(client'.cats)
      /\ requests' \in Seq([call : Pending, init : Nat])
  BY DEF MInv, Typed
<1>5. QED
  BY <1>1, <1>2, <1>3, <1>4, ReceiveIs

LEMMA IgnoredMirrorStep == ASSUME MInv, Ignored \/ Drop PROVE MInv'
<1>1. CASE Ignored
  BY <1>1, SameClientStep DEF Ignored, Incoming, Listening, mirror
<1>2. CASE Drop
  BY <1>2, SameClientStep DEF Drop, mirror
<1>3. QED
  BY <1>1, <1>2

LEMMA ClientIs ==
  ASSUME MInv
  PROVE  /\ client \in [phase : Phases, init : Nat, cats : Copies, array : {client.array}]
         /\ client.array \in Sorted(client.cats)
         /\ client.phase \in Phases /\ client.init \in Nat /\ client.cats \in Copies
         /\ bus \in Seq(Message) /\ requests \in Seq([call : Pending, init : Nat])
  BY DEF MInv, Typed

LEMMA EmptyCopy == <<>> \in Copies /\ <<>> \in Sorted(<<>>)
<1>1. PICK e : e = <<>>
  OBVIOUS
<1>2. DOMAIN e = {} /\ e \in [{} -> Entry] /\ Len(e) = 0 /\ e \in Seq(DOMAIN e)
  BY <1>1
<1>3. e \in Copies
  BY <1>2 DEF Copies
<1>4. Len(e) = Cardinality(DOMAIN e)
  BY <1>2, FS_EmptySet
<1>5. \A i : i \notin 1..Len(e)
  BY <1>2
<1>6. DOMAIN e \in SUBSET (1..(Modulus - 1))
  BY <1>2
<1>7. e \in Sorted(e)
  BY <1>2, <1>4, <1>5, <1>6, SortedIs
<1>8. QED
  BY <1>1, <1>3, <1>7

LEMMA NameAppearedMirrorStep == ASSUME MInv, NameAppeared PROVE MInv'
<1>1. /\ bus # <<>> /\ bus' = Tail(bus) /\ Head(bus).what = "appeared"
      /\ client' = [client EXCEPT !.phase = "proxy", !.init = @ + 1]
      /\ UNCHANGED <<server, owner, lives, requests, failed, missed>>
  BY DEF NameAppeared, Incoming
<1>2. /\ client'.phase = "proxy" /\ client'.init = client.init + 1
      /\ client'.cats = client.cats /\ client'.array = client.array
      /\ client' \in [phase : Phases, init : Nat, cats : Copies, array : {client'.array}]
  <2>1. PICK n \in Nat : n = client.init + 1
    BY ClientIs
  <2>2. client' = [client EXCEPT !.phase = "proxy", !.init = n]
    BY <1>1, <2>1
  <2>3. "proxy" \in Phases
    BY DEF Phases
  <2>4. /\ client'.phase = "proxy" /\ client'.init = n
        /\ client'.cats = client.cats /\ client'.array = client.array
        /\ client' \in [phase : Phases, init : Nat, cats : Copies, array : {client'.array}]
    BY <2>2, <2>3, ClientIs
  <2>5. QED
    BY <2>1, <2>4
<1>3. client.init \in Nat /\ bus \in Seq(Message)
  BY ClientIs
<1>4. Asked'
  <2>1. ASSUME NEW i \in 1..Len(requests)
        PROVE  requests[i].init <= client'.init /\ requests[i].init # client'.init
    <3>1. requests[i].init \in Nat
      <4>1. requests[i] \in [call : Pending, init : Nat]
        BY ClientIs, ElementIs
      <4>2. QED
        BY <4>1
    <3>2. requests[i].init <= client.init
      BY DEF MInv, Asking, Asked
    <3>3. QED
      BY <1>2, <1>3, <3>1, <3>2
  <2>2. QED
    BY <1>1, <2>1 DEF Asked
<1>5. Answered'
  <2>1. ASSUME NEW i \in 1..Len(bus'), bus'[i].what \in {"version", "all"}
        PROVE  bus'[i].init <= client'.init /\ bus'[i].init # client'.init
    <3>1. i + 1 \in 1..Len(bus) /\ bus'[i] = bus[i + 1]
      BY <1>1, <1>3, TakenAfter
    <3>2. bus'[i].init <= client.init
      BY <2>1, <3>1 DEF MInv, Asking, Answered
    <3>3. bus'[i].init \in Nat
      <4>1. bus[i + 1] \in Message
        BY <1>3, <3>1, ElementIs
      <4>2. QED
        BY <2>1, <3>1, <4>1 DEF Message
    <3>4. QED
      BY <1>2, <1>3, <3>2, <3>3
  <2>2. QED
    BY <2>1 DEF Answered
<1>6. Asking'
  BY <1>2, <1>4, <1>5 DEF Asking
<1>7. SignalsAreExpected' \/ Stops
  BY <1>1 DEF MInv, Expected, SignalsAreExpected
<1>8. /\ client'.array \in Sorted(client'.cats)
      /\ requests' \in Seq([call : Pending, init : Nat])
  BY <1>1, <1>2, ClientIs
<1>9. QED
  BY <1>1, <1>2, <1>6, <1>7, <1>8, ReceiveIs

LEMMA NameVanishedMirrorStep == ASSUME MInv, NameVanished PROVE MInv'
<1>1. /\ bus # <<>> /\ bus' = Tail(bus)
      /\ client' = [client EXCEPT !.phase = "away", !.cats = <<>>, !.array = <<>>]
      /\ UNCHANGED <<server, owner, lives, requests, failed, missed>>
  BY DEF NameVanished, Incoming, Disconnected
<1>2. /\ client'.phase = "away" /\ client'.init = client.init
      /\ client'.cats = <<>> /\ client'.array = <<>>
      /\ client' \in [phase : Phases, init : Nat, cats : Copies, array : {client'.array}]
  BY <1>1, ClientIs, EmptyCopy DEF Phases
<1>3. client'.array \in Sorted(client'.cats)
  BY <1>2, EmptyCopy
<1>4. Asking'
  BY <1>1, <1>2, ClientIs, AskingTail DEF MInv
<1>5. SignalsAreExpected' \/ Stops
  BY <1>1 DEF MInv, Expected, SignalsAreExpected
<1>6. requests' \in Seq([call : Pending, init : Nat])
  BY <1>1, ClientIs
<1>7. QED
  BY <1>1, <1>2, <1>3, <1>4, <1>5, <1>6, ReceiveIs

LEMMA ErrorReplyMirrorStep == ASSUME MInv, ErrorReply PROVE MInv'
<1>1. /\ bus # <<>> /\ bus' = Tail(bus) /\ Head(bus).what = "error"
      /\ UNCHANGED <<server, owner, lives, requests, failed, missed>>
  BY DEF ErrorReply, Incoming
<1>2. CASE UNCHANGED client
  BY <1>1, <1>2, SameClientStep
<1>3. CASE client' = [client EXCEPT !.phase = "failed"] /\ client.phase \in Pending
  <2>1. /\ client'.phase = "failed" /\ client'.init = client.init
        /\ client'.cats = client.cats /\ client'.array = client.array
        /\ client' \in [phase : Phases, init : Nat, cats : Copies, array : {client'.array}]
    BY <1>3, ClientIs DEF Phases
  <2>2. client.phase \notin {"away", "crashed"}
    BY <1>3 DEF Pending
  <2>3. Asking'
    BY <1>1, <2>1, ClientIs, AskingTail DEF MInv
  <2>4. SignalsAreExpected' \/ Stops
    BY <1>1 DEF MInv, Expected, SignalsAreExpected
  <2>5. /\ requests' \in Seq([call : Pending, init : Nat])
        /\ client'.array \in Sorted(client'.cats)
    BY <1>1, <2>1, ClientIs
  <2>6. QED
    BY <1>1, <2>1, <2>2, <2>3, <2>4, <2>5, ReceiveIs
<1>4. QED
  BY <1>2, <1>3 DEF ErrorReply, Expects

LEMMA AppendIs ==
  ASSUME NEW S, NEW s \in Seq(S), NEW e \in S, NEW u, u = Append(s, e)
  PROVE  /\ u \in Seq(S)
         /\ \A i \in 1..Len(u) : (i \in 1..Len(s) /\ u[i] = s[i]) \/ (i = Len(u) /\ u[i] = e)
  OBVIOUS

(* The current DBusLogClientInit makes another call.                         *)
LEMMA CallIs ==
  ASSUME MInv, NEW call \in Pending, requests' = Call(call), client'.init = client.init,
         client'.phase = call,
         \A i \in 1..Len(requests) : requests[i].init # client.init
  PROVE  requests' \in Seq([call : Pending, init : Nat]) /\ Asked'
<1>1. PICK e : e = [call |-> call, init |-> client.init]
  OBVIOUS
<1>2. e \in [call : Pending, init : Nat]
  BY <1>1, ClientIs
<1>3. PICK r : r = Append(requests, e)
  OBVIOUS
<1>4. requests' = r
  BY <1>1, <1>3 DEF Call
<1>5. PICK S : S = [call : Pending, init : Nat]
  OBVIOUS
<1>6. requests \in Seq(S) /\ e \in S
  BY <1>2, <1>5, ClientIs
<1>7. /\ r \in Seq(S)
      /\ \A i \in 1..Len(r) : \/ i \in 1..Len(requests) /\ r[i] = requests[i]
                              \/ i = Len(r) /\ r[i] = e
  BY ONLY <1>3, <1>6, AppendIs
<1>8. ASSUME NEW i \in 1..Len(r)
      PROVE  /\ r[i].init <= client.init
             /\ r[i].init = client.init => i = Len(r) /\ r[i].call = call
  <2>1. CASE i \in 1..Len(requests) /\ r[i] = requests[i]
    BY <2>1 DEF MInv, Asking, Asked
  <2>2. CASE i = Len(r) /\ r[i] = e
    <3>1. client.init <= client.init
      BY ClientIs
    <3>2. QED
      BY <1>1, <2>2, <3>1
  <2>3. QED
    BY <1>7, <2>1, <2>2
<1>9. Asked'
  BY <1>4, <1>8 DEF Asked, Pending
<1>10. QED
  BY <1>4, <1>5, <1>7, <1>9

LEMMA ProxyCreatedMirrorStep == ASSUME MInv, ProxyCreated PROVE MInv'
<1>1. /\ client.phase = "proxy" /\ client' = [client EXCEPT !.phase = "version"]
      /\ requests' = Call("version") /\ UNCHANGED <<vars, owner, lives, failed, missed>>
  BY DEF ProxyCreated
<1>2. UNCHANGED <<server, bus>>
  BY <1>1 DEF vars
<1>3. /\ client'.phase = "version" /\ client'.init = client.init
      /\ client'.cats = client.cats /\ client'.array = client.array
      /\ client' \in [phase : Phases, init : Nat, cats : Copies, array : {client'.array}]
  BY <1>1, ClientIs DEF Phases
<1>4. requests' \in Seq([call : Pending, init : Nat]) /\ Asked'
  <2>1. \A i \in 1..Len(requests) : requests[i].init # client.init
    BY <1>1 DEF MInv, Asking, Asked
  <2>2. "version" \in Pending
    BY DEF Pending
  <2>3. QED
    BY <1>1, <1>3, <2>1, <2>2, CallIs
<1>5. Answered'
  <2>1. \A i \in 1..Len(bus) : bus[i].what \in {"version", "all"} =>
          bus[i].init <= client.init /\ bus[i].init # client.init
    BY <1>1 DEF MInv, Asking, Answered
  <2>2. QED
    BY <1>2, <1>3, <2>1 DEF Answered
<1>6. CInv' /\ NamesKnown'
  BY <1>2, ServerSame DEF MInv
<1>7. Typed'
  BY <1>1, <1>2, <1>3, <1>4 DEF MInv, Typed
<1>8. Followed'
  BY <1>3 DEF Followed
<1>9. Owned'
  BY <1>1, <1>2 DEF MInv, Owned
<1>10. Asking'
  BY <1>3, <1>4, <1>5 DEF Asking
<1>11. Expected'
  BY <1>1 DEF MInv, Expected, SignalsAreExpected
<1>12. QED
  BY <1>6, <1>7, <1>8, <1>9, <1>10, <1>11 DEF MInv

LEMMA VersionReplyMirrorStep == ASSUME MInv, VersionReply PROVE MInv'
<1>1. /\ bus # <<>> /\ bus' = Tail(bus) /\ Head(bus).what = "version"
      /\ client.phase # "crashed"
      /\ UNCHANGED <<server, owner, lives, failed, missed>>
  BY DEF VersionReply, Incoming
<1>2. CASE UNCHANGED <<client, requests>>
  BY <1>1, <1>2, SameClientStep
<1>3. CASE /\ client.phase = "version" /\ Head(bus).init = client.init
           /\ client' = [client EXCEPT !.phase = "getall"] /\ requests' = Call("getall")
  <2>1. /\ client'.phase = "getall" /\ client'.init = client.init
        /\ client'.cats = client.cats /\ client'.array = client.array
        /\ client' \in [phase : Phases, init : Nat, cats : Copies, array : {client'.array}]
    BY <1>3, ClientIs DEF Phases
  <2>2. requests = <<>>
    <3>1. 1 \in 1..Len(bus) /\ bus[1] = Head(bus)
      BY <1>1, ClientIs, Taken
    <3>2. QED
      BY <1>1, <1>3, <3>1 DEF MInv, Asking, Answered
  <2>3. requests' \in Seq([call : Pending, init : Nat]) /\ Asked'
    <3>1. Len(requests) = 0
      BY <2>2
    <3>2. "getall" \in Pending
      BY DEF Pending
    <3>3. \A i \in 1..Len(requests) : requests[i].init # client.init
      BY <3>1
    <3>4. QED
      BY <1>3, <2>1, <3>2, <3>3, CallIs
  <2>4. \A p \in 1..Len(bus) : bus[p].what = "all" => bus[p].init # client.init
    BY <1>3 DEF MInv, Asking, Answered
  <2>5. Answered'
    <3>1. ASSUME NEW i \in 1..Len(bus'), bus'[i].what \in {"version", "all"}
          PROVE  bus'[i].init <= client.init /\
                 (bus'[i].what = "all" => bus'[i].init # client.init)
      <4>1. i + 1 \in 1..Len(bus) /\ bus'[i] = bus[i + 1]
        BY <1>1, ClientIs, TakenAfter
      <4>2. QED
        BY <2>4, <3>1, <4>1 DEF MInv, Asking, Answered
    <3>2. QED
      BY <2>1, <3>1 DEF Answered
  <2>6. Asking'
    BY <2>1, <2>3, <2>5 DEF Asking
  <2>7. SignalsAreExpected' \/ Stops
    BY <1>1 DEF MInv, Expected, SignalsAreExpected
  <2>8. client'.array \in Sorted(client'.cats)
    BY <2>1, ClientIs
  <2>9. QED
    BY <1>1, <1>3, <2>1, <2>3, <2>4, <2>6, <2>7, <2>8, ReceiveIs
<1>4. QED
  BY <1>2, <1>3 DEF VersionReply, Expects

LEMMA CopyIs ==
  \A cats : cats \in Copies <=>
    cats \in [DOMAIN cats -> Entry] /\ DOMAIN cats \in SUBSET (1..(Modulus - 1))
  BY DEF Copies

LEMMA GetAllReplyMirrorStep == ASSUME MInv, GetAllReply PROVE MInv'
<1>1. /\ bus # <<>> /\ bus' = Tail(bus) /\ Head(bus).what = "all"
      /\ client.phase # "crashed"
      /\ UNCHANGED <<server, owner, lives, requests, failed, missed>>
  BY DEF GetAllReply, Incoming
<1>2. CASE UNCHANGED client
  BY <1>1, <1>2, SameClientStep
<1>3. ASSUME client.phase = "getall", Head(bus).init = client.init,
             NEW array \in Sorted(Head(bus).cats),
             client' = [client EXCEPT !.phase = "connected", !.cats = Head(bus).cats,
                                      !.array = array]
      PROVE  MInv'
  <2>1. Head(bus).cats \in Copies
    <3>1. Head(bus) \in Message
      BY <1>1, ClientIs, Taken
    <3>2. QED
      BY <1>1, <3>1 DEF Message
  <2>2. /\ client'.phase = "connected" /\ client'.init = client.init
        /\ client'.cats = Head(bus).cats /\ client'.array = array
        /\ client' \in [phase : Phases, init : Nat, cats : Copies, array : {client'.array}]
    BY <1>3, <2>1, ClientIs DEF Phases
  <2>3. requests = <<>>
    <3>1. 1 \in 1..Len(bus) /\ bus[1] = Head(bus)
      BY <1>1, ClientIs, Taken
    <3>2. QED
      BY <1>1, <1>3, <3>1 DEF MInv, Asking, Answered
  <2>4. Asking'
    BY <1>1, <2>2, <2>3, ClientIs, AskingTail DEF MInv
  <2>5. SignalsAreExpected' \/ Stops
    BY <1>1 DEF MInv, Expected, SignalsAreExpected
  <2>6. /\ client'.array \in Sorted(client'.cats)
        /\ requests' \in Seq([call : Pending, init : Nat])
    BY <1>1, <1>3, <2>2, ClientIs
  <2>7. QED
    BY <1>1, <1>3, <2>2, <2>4, <2>5, <2>6, ReceiveIs
<1>4. QED
  BY <1>2, <1>3 DEF GetAllReply, Expects

LEMMA MessageIs ==
  ASSUME NEW m \in Message
  PROVE  /\ m.what = "added" => /\ m.id \in 1..(Modulus - 1)
                                /\ [name |-> m.name, flags |-> m.flags] \in Entry
         /\ m.what = "flags" => m.flags \in SUBSET Flags
  BY DEF Message, Entry

LEMMA KnownIs ==
  ASSUME MInv PROVE \A id : Known(id) <=> id \in DOMAIN client.cats
<1>1. DOMAIN client.cats \in SUBSET (1..(Modulus - 1))
  BY ClientIs, CopyIs
<1>2. 0 \notin DOMAIN client.cats
  BY <1>1
<1>3. QED
  BY <1>2 DEF Known

(* A category is added to a client which does not know it, and removed from  *)
(* one which does.                                                           *)
LEMMA HeadExpected ==
  ASSUME MInv, ~Stops, client.phase = "connected", bus # <<>>, bus' = Tail(bus),
         Head(bus).what \in {"added", "removed"}
  PROVE  Head(bus).what = "added" <=> ~Known(Head(bus).id)
<1>1. Alternating(client.cats, bus)
  BY DEF MInv, Expected, Followed, Follows
<1>2. 1 \in 1..Len(bus) /\ bus[1] = Head(bus)
  BY ClientIs, Taken
<1>3. PICK id : id = Head(bus).id
  OBVIOUS
<1>4. PICK z \in Nat : z = 1 - 1 /\ \A i : i \notin 1..z
  <2>1. 0 = 1 - 1 /\ \A i : i \notin 1..0
    OBVIOUS
  <2>2. QED
    BY <2>1
<1>5. Tells(bus[1], id)
  BY <1>2, <1>3 DEF Tells
<1>6. \A j \in 1..1 : bus[j].what # "vanished"
  BY <1>2
<1>7. bus[1].what = "added" <=> ~KnowsAfter(client.cats, bus, 1 - 1, id)
  BY <1>1, <1>2, <1>5, <1>6 DEF Alternating
<1>8. KnowsAfter(client.cats, bus, z, id) <=> id \in DOMAIN client.cats
  BY <1>4 DEF KnowsAfter
<1>9. QED
  BY <1>2, <1>3, <1>4, <1>7, <1>8, KnownIs

LEMMA RemovalIs ==
  ASSUME MInv, NEW id, NEW r, r = Removal(id)
  PROVE  /\ r \in [phase : Phases, init : Nat, cats : Copies, array : {r.array}]
         /\ r.phase = client.phase /\ r.init = client.init
         /\ DOMAIN r.cats = DOMAIN client.cats \ {id}
         /\ \A other \in DOMAIN r.cats : r.cats[other] = client.cats[other]
         /\ r.array \in Sorted(r.cats)
<1>1. /\ client.cats \in [DOMAIN client.cats -> Entry]
      /\ DOMAIN client.cats \in SUBSET (1..(Modulus - 1))
  BY ClientIs, CopyIs
<1>2. CASE id \notin DOMAIN client.cats
  <2>1. r = client
    BY <1>2, KnownIs DEF Removal
  <2>2. QED
    BY <1>2, <2>1, ClientIs
<1>3. CASE id \in DOMAIN client.cats
  <2>1. PICK cats : cats = Restrict(client.cats, DOMAIN client.cats \ {id})
    OBVIOUS
  <2>2. PICK array : array = Without(client.array, id)
    OBVIOUS
  <2>3. r = [client EXCEPT !.cats = cats, !.array = array]
    BY <1>3, <2>1, <2>2, KnownIs DEF Removal
  <2>4. /\ DOMAIN cats = DOMAIN client.cats \ {id}
        /\ \A other \in DOMAIN cats : cats[other] = client.cats[other]
        /\ cats \in [DOMAIN cats -> Entry]
    BY <1>1, <2>1 DEF Restrict
  <2>5. cats \in Copies
    BY <1>1, <2>4, CopyIs
  <2>6. array \in Sorted(cats)
    <3>1. client.array \in Sorted(client.cats)
      BY ClientIs
    <3>2. PICK old : old = client.cats
      OBVIOUS
    <3>3. QED
      BY <1>1, <1>3, <2>1, <2>2, <3>1, <3>2, WithoutSorted
  <2>7. /\ r.phase = client.phase /\ r.init = client.init /\ r.cats = cats /\ r.array = array
        /\ r \in [phase : Phases, init : Nat, cats : Copies, array : {r.array}]
    BY <2>3, <2>5, ClientIs
  <2>8. QED
    BY <2>4, <2>6, <2>7
<1>4. QED
  BY <1>2, <1>3

LEMMA CategoryRemovedMirrorStep == ASSUME MInv, CategoryRemoved PROVE MInv'
<1>1. /\ bus # <<>> /\ bus' = Tail(bus) /\ Head(bus).what = "removed"
      /\ client.phase = "connected" /\ client' = Removal(Head(bus).id)
      /\ failed' = IF Known(Head(bus).id) THEN failed ELSE failed \cup {"removed"}
      /\ UNCHANGED <<server, owner, lives, requests, missed>>
  BY DEF CategoryRemoved, Incoming, Listening
<1>2. PICK id : id = Head(bus).id
  OBVIOUS
<1>3. /\ client' \in [phase : Phases, init : Nat, cats : Copies, array : {client'.array}]
      /\ client'.phase = "connected" /\ client'.init = client.init
      /\ DOMAIN client'.cats = DOMAIN client.cats \ {id}
      /\ \A other \in DOMAIN client'.cats : client'.cats[other] = client.cats[other]
      /\ client'.array \in Sorted(client'.cats)
  <2>1. PICK r : r = Removal(id)
    OBVIOUS
  <2>2. /\ r \in [phase : Phases, init : Nat, cats : Copies, array : {r.array}]
        /\ r.phase = client.phase /\ r.init = client.init
        /\ DOMAIN r.cats = DOMAIN client.cats \ {id}
        /\ \A other \in DOMAIN r.cats : r.cats[other] = client.cats[other]
        /\ r.array \in Sorted(r.cats)
    BY <2>1, RemovalIs
  <2>3. client' = r
    BY <1>1, <1>2, <2>1
  <2>4. QED
    BY <1>1, <2>2, <2>3
<1>4. Applied(client.cats, Head(bus), client'.cats)
  <2>1. \A other : (Tells(Head(bus), other) <=> other = id) /\ ~Updates(Head(bus), other)
    BY <1>1, <1>2 DEF Tells, Updates
  <2>2. QED
    BY <1>1, <1>3, <2>1 DEF Applied
<1>5. Asking'
  BY <1>1, <1>3, ClientIs, AskingTail DEF MInv
<1>6. SignalsAreExpected' \/ Stops
  <2>1. CASE ~Stops
    <3>1. Known(Head(bus).id)
      BY <1>1, <2>1, HeadExpected
    <3>2. QED
      BY <1>1, <2>1, <3>1 DEF MInv, Expected, SignalsAreExpected
  <2>2. QED
    BY <2>1
<1>7. requests' \in Seq([call : Pending, init : Nat])
  BY <1>1, ClientIs
<1>8. QED
  BY <1>1, <1>3, <1>4, <1>5, <1>6, <1>7, ReceiveIs

LEMMA CategoryFlagsChangedMirrorStep == ASSUME MInv, CategoryFlagsChanged PROVE MInv'
<1>1. /\ bus # <<>> /\ bus' = Tail(bus) /\ Head(bus).what = "flags"
      /\ client.phase = "connected"
      /\ UNCHANGED <<server, owner, lives, requests, missed>>
  BY DEF CategoryFlagsChanged, Incoming, Listening
<1>2. PICK id : id = Head(bus).id
  OBVIOUS
<1>3. PICK flags : flags = Head(bus).flags
  OBVIOUS
<1>4. \A other : ~Tells(Head(bus), other) /\ (Updates(Head(bus), other) <=> other = id)
  BY <1>1, <1>2 DEF Tells, Updates
<1>5. /\ client.cats \in [DOMAIN client.cats -> Entry]
      /\ DOMAIN client.cats \in SUBSET (1..(Modulus - 1))
  BY ClientIs, CopyIs
<1>6. SignalsAreExpected' \/ Stops
  <2>1. failed' \subseteq failed \cup {"flags"}
    BY DEF CategoryFlagsChanged
  <2>2. QED
    BY <2>1 DEF MInv, Expected, SignalsAreExpected
<1>7. requests' \in Seq([call : Pending, init : Nat])
  BY <1>1, ClientIs
<1>8. CASE ~Known(id)
  <2>1. client' = client /\ id \notin DOMAIN client.cats
    BY <1>2, <1>8, KnownIs DEF CategoryFlagsChanged
  <2>2. Applied(client.cats, Head(bus), client'.cats)
    BY <1>4, <2>1 DEF Applied
  <2>3. Asking'
    BY <1>1, <2>1, ClientIs, AskingTail DEF MInv
  <2>4. /\ client' \in [phase : Phases, init : Nat, cats : Copies, array : {client'.array}]
        /\ client'.array \in Sorted(client'.cats)
    BY <2>1, ClientIs
  <2>5. QED
    BY <1>1, <1>6, <1>7, <2>1, <2>2, <2>3, <2>4, ReceiveIs
<1>9. CASE Known(id)
  <2>1. id \in DOMAIN client.cats
    BY <1>9, KnownIs
  <2>2. PICK cats : cats = [client.cats EXCEPT ![id].flags = flags]
    OBVIOUS
  <2>3. client' = [client EXCEPT !.cats = cats]
    <3>1. client' = [client EXCEPT !.cats[id].flags = flags]
      BY <1>2, <1>3, <1>9 DEF CategoryFlagsChanged
    <3>2. QED
      BY <2>2, <3>1, ClientIs
  <2>4. flags \in SUBSET Flags
    <3>1. Head(bus) \in Message
      BY <1>1, ClientIs, Taken
    <3>2. QED
      BY <1>1, <1>3, <3>1, MessageIs
  <2>5. /\ DOMAIN cats = DOMAIN client.cats
        /\ \A other \in DOMAIN cats : /\ cats[other] \in Entry
                                      /\ cats[other].name = client.cats[other].name
                                      /\ other # id => cats[other].flags = client.cats[other].flags
        /\ cats[id].flags = flags
    <3>1. \A other \in DOMAIN client.cats : cats[other] =
            IF other = id THEN [client.cats[id] EXCEPT !.flags = flags] ELSE client.cats[other]
      BY <1>5, <2>1, <2>2
    <3>2. DOMAIN cats = DOMAIN client.cats
      BY <1>5, <2>2
    <3>3. QED
      BY <1>5, <2>1, <2>4, <3>1, <3>2 DEF Entry
  <2>6. cats \in Copies
    <3>1. cats \in [DOMAIN cats -> Entry]
      <4>1. cats = [other \in DOMAIN cats |-> cats[other]]
        BY <1>5, <2>2
      <4>2. QED
        BY <2>5, <4>1
    <3>2. QED
      BY <1>5, <2>5, <3>1, CopyIs
  <2>7. /\ client'.phase = "connected" /\ client'.init = client.init
        /\ client'.cats = cats /\ client'.array = client.array
        /\ client' \in [phase : Phases, init : Nat, cats : Copies, array : {client'.array}]
    BY <1>1, <2>3, <2>6, ClientIs
  <2>8. client.array \in Sorted(cats)
    <3>1. client.array \in Sorted(client.cats)
      BY ClientIs
    <3>2. PICK old, array : old = client.cats /\ array = client.array
      OBVIOUS
    <3>3. /\ array \in Seq(DOMAIN old) /\ Len(array) = Cardinality(DOMAIN old)
          /\ \A i, j \in 1..Len(array) : i # j => array[i] # array[j]
          /\ \A i, j \in 1..Len(array) : i < j => old[array[i]].name <= old[array[j]].name
      BY <1>5, <3>1, <3>2, SortedIs
    <3>4. /\ array \in Seq(DOMAIN cats) /\ Len(array) = Cardinality(DOMAIN cats)
          /\ DOMAIN cats \in SUBSET (1..(Modulus - 1))
      BY <1>5, <2>5, <3>2, <3>3
    <3>5. \A i \in 1..Len(array) : array[i] \in DOMAIN cats
      BY <3>4, ElementIs
    <3>6. \A i, j \in 1..Len(array) : i < j => cats[array[i]].name <= cats[array[j]].name
      BY <2>5, <3>2, <3>3, <3>5
    <3>7. array \in Sorted(cats)
      BY <3>3, <3>4, <3>6, SortedIs
    <3>8. QED
      BY <3>2, <3>7
  <2>9. Applied(client.cats, Head(bus), client'.cats)
    BY <1>3, <1>4, <2>5, <2>7 DEF Applied
  <2>10. Asking'
    BY <1>1, <2>7, ClientIs, AskingTail DEF MInv
  <2>11. client'.array \in Sorted(client'.cats)
    BY <2>7, <2>8
  <2>12. QED
    BY <1>1, <1>6, <1>7, <2>7, <2>9, <2>10, <2>11, ReceiveIs
<1>10. QED
  BY <1>8, <1>9

LEMMA CategoryAddedMirrorStep == ASSUME MInv, CategoryAdded PROVE MInv'
<1>1. /\ bus # <<>> /\ bus' = Tail(bus) /\ Head(bus).what = "added"
      /\ client.phase = "connected"
      /\ UNCHANGED <<server, owner, lives, requests, missed>>
  BY DEF CategoryAdded, Incoming, Listening
<1>2. PICK id, name, flags : id = Head(bus).id /\ name = Head(bus).name /\ flags = Head(bus).flags
  OBVIOUS
<1>3. PICK before : before = Removal(id)
  OBVIOUS
<1>4. PICK entry : entry = [name |-> name, flags |-> flags]
  OBVIOUS
<1>5. PICK cats : cats = With(before.cats, id, entry)
  OBVIOUS
<1>6. PICK again : again = IF Known(id) THEN {"again"} ELSE {}
  OBVIOUS
<1>7. \/ /\ client' = [client EXCEPT !.phase = "crashed", !.cats = <<>>, !.array = <<>>]
         /\ failed' = failed \cup again \cup {"added"}
      \/ \E array \in Sorted(cats) :
           /\ client' = [client EXCEPT !.cats = cats, !.array = array]
           /\ failed' \in {failed \cup again, failed \cup again \cup {"added"}}
  BY <1>2, <1>3, <1>4, <1>5, <1>6 DEF CategoryAdded
<1>8. id \in 1..(Modulus - 1) /\ entry \in Entry
  <2>1. Head(bus) \in Message
    BY <1>1, ClientIs, Taken
  <2>2. QED
    BY <1>1, <1>2, <1>4, <2>1, MessageIs
<1>9. SignalsAreExpected' \/ Stops
  <2>1. CASE ~Stops
    <3>1. ~Known(id)
      BY <1>1, <1>2, <2>1, HeadExpected
    <3>2. failed' \subseteq failed \cup {"added"}
      BY <1>6, <1>7, <3>1
    <3>3. QED
      BY <2>1, <3>2 DEF MInv, Expected, SignalsAreExpected
  <2>2. QED
    BY <2>1
<1>10. requests' \in Seq([call : Pending, init : Nat])
  BY <1>1, ClientIs
<1>11. CASE client' = [client EXCEPT !.phase = "crashed", !.cats = <<>>, !.array = <<>>]
  <2>1. /\ client'.phase = "crashed" /\ client'.init = client.init
        /\ client'.cats = <<>> /\ client'.array = <<>>
        /\ client' \in [phase : Phases, init : Nat, cats : Copies, array : {client'.array}]
    BY <1>11, ClientIs, EmptyCopy DEF Phases
  <2>2. client'.array \in Sorted(client'.cats)
    BY <2>1, EmptyCopy
  <2>3. Asking'
    BY <1>1, <2>1, ClientIs, AskingTail DEF MInv
  <2>4. QED
    BY <1>1, <1>9, <1>10, <2>1, <2>2, <2>3, ReceiveIs
<1>12. ASSUME NEW array \in Sorted(cats),
              client' = [client EXCEPT !.cats = cats, !.array = array]
       PROVE  MInv'
  <2>1. /\ before.cats \in Copies /\ DOMAIN before.cats = DOMAIN client.cats \ {id}
        /\ \A other \in DOMAIN before.cats : before.cats[other] = client.cats[other]
    BY <1>3, RemovalIs
  <2>2. /\ before.cats \in [DOMAIN before.cats -> Entry]
        /\ DOMAIN before.cats \in SUBSET (1..(Modulus - 1))
    BY <2>1, CopyIs
  <2>3. /\ DOMAIN cats = DOMAIN client.cats \cup {id}
        /\ cats[id] = entry
        /\ \A other \in DOMAIN cats : other # id => cats[other] = client.cats[other]
        /\ cats \in [DOMAIN cats -> Entry]
    <3>1. PICK old : old = before.cats
      OBVIOUS
    <3>2. cats = [i \in DOMAIN old \cup {id} |-> IF i = id THEN entry ELSE old[i]]
      BY <1>5, <3>1 DEF With
    <3>3. DOMAIN cats = DOMAIN client.cats \cup {id}
      BY <2>1, <3>1, <3>2
    <3>4. \A other \in DOMAIN cats :
            cats[other] = IF other = id THEN entry ELSE client.cats[other]
      BY <2>1, <3>1, <3>2
    <3>5. cats \in [DOMAIN cats -> Entry]
      BY <1>8, <2>2, <3>1, <3>2
    <3>6. QED
      BY <3>3, <3>4, <3>5
  <2>4. cats \in Copies
    BY <1>8, <2>1, <2>2, <2>3, CopyIs
  <2>5. /\ client'.phase = "connected" /\ client'.init = client.init
        /\ client'.cats = cats /\ client'.array = array
        /\ client' \in [phase : Phases, init : Nat, cats : Copies, array : {client'.array}]
    BY <1>1, <1>12, <2>4, ClientIs
  <2>6. client'.array \in Sorted(client'.cats)
    BY <2>5
  <2>7. Applied(client.cats, Head(bus), client'.cats)
    <3>1. \A other : /\ Tells(Head(bus), other) <=> other = id
                     /\ Updates(Head(bus), other) <=> other = id
      BY <1>1, <1>2 DEF Tells, Updates
    <3>2. cats[id].name = name /\ cats[id].flags = flags
      BY <1>4, <2>3
    <3>3. QED
      BY <1>1, <1>2, <2>3, <2>5, <3>1, <3>2 DEF Applied
  <2>8. Asking'
    BY <1>1, <2>5, ClientIs, AskingTail DEF MInv
  <2>9. QED
    BY <1>1, <1>9, <1>10, <2>5, <2>6, <2>7, <2>8, ReceiveIs
<1>13. QED
  BY <1>7, <1>11, <1>12

-----------------------------------------------------------------------------
(* The invariant                                                             *)

LEMMA MirrorInitShape == MirrorInit => MInv
<1> SUFFICES ASSUME MirrorInit PROVE MInv
  OBVIOUS
<1>1. CInv
  BY InitShape DEF MirrorInit
<1>2. /\ bus = <<>> /\ started = FALSE /\ owner = FALSE /\ requests = <<>>
      /\ client = [phase |-> "away", init |-> 0, cats |-> <<>>, array |-> <<>>]
      /\ failed = {} /\ missed = FALSE
  BY DEF MirrorInit, Init
<1>3. /\ client.phase = "away" /\ client.init = 0
      /\ client.cats = <<>> /\ client.array = <<>>
      /\ client \in [phase : Phases, init : Nat, cats : Copies, array : {client.array}]
  BY <1>2, EmptyCopy DEF Phases
<1>4. Typed
  <2>1. client.array \in Sorted(client.cats)
    BY <1>3, EmptyCopy
  <2>2. owner \in BOOLEAN /\ missed \in BOOLEAN
    BY <1>2
  <2>3. /\ requests \in Seq([call : Pending, init : Nat])
        /\ bus \in Seq(Message)
    BY ONLY <1>2
  <2>4. QED
    BY <1>3, <2>1, <2>2, <2>3 DEF Typed
<1>5. NamesKnown
  BY <1>2 DEF NamesKnown
<1>6. \A i : i \notin 1..Len(bus) /\ i \notin 1..Len(requests)
  BY <1>2
<1>7. Followed
  BY <1>3, <1>6 DEF Followed
<1>8. Owned
  BY <1>3, <1>6 DEF Owned
<1>9. Asking
  BY <1>2, <1>3, <1>6 DEF Asking, Asked, Answered
<1>10. Expected
  BY <1>2 DEF Expected, SignalsAreExpected
<1>11. QED
  BY <1>1, <1>4, <1>5, <1>7, <1>8, <1>9, <1>10 DEF MInv

LEMMA MirrorStep == ASSUME MInv, [MirrorNext]_allvars PROVE MInv'
<1>1. CASE UNCHANGED allvars
  <2>1. /\ UNCHANGED <<server, bus, owner, lives, requests, client, failed, missed>>
        /\ UNCHANGED <<started, table, categories, announced>>
    BY <1>1 DEF allvars, vars, mirror, server
  <2>2. CInv' /\ NamesKnown'
    BY <2>1, ServerSame DEF MInv
  <2>3. Typed' /\ Followed' /\ Owned'
    BY <2>1 DEF MInv, Typed, Followed, Owned
  <2>4. Asking' /\ Expected'
    BY <2>1 DEF MInv, Asking, Asked, Answered, Expected, SignalsAreExpected
  <2>5. QED
    BY <2>2, <2>3, <2>4 DEF MInv
<1>2. CASE ServerNext
  BY <1>2, ServerMirrorStep, StopMirrorStep, AcquireNameMirrorStep, AnswerMirrorStep,
     DieMirrorStep
    DEF ServerNext
<1>3. CASE Receive
  <2>1. CASE NameAppeared \/ NameVanished \/ VersionReply \/ GetAllReply \/ ErrorReply
    BY <2>1, NameAppearedMirrorStep, NameVanishedMirrorStep, VersionReplyMirrorStep,
       GetAllReplyMirrorStep, ErrorReplyMirrorStep
  <2>2. CASE CategoryAdded \/ CategoryRemoved \/ CategoryFlagsChanged
    BY <2>2, CategoryAddedMirrorStep, CategoryRemovedMirrorStep,
       CategoryFlagsChangedMirrorStep
  <2>3. CASE Ignored \/ Drop
    BY <2>3, IgnoredMirrorStep
  <2>4. QED
    BY <1>3, <2>1, <2>2, <2>3 DEF Receive
<1>4. CASE ProxyCreated
  BY <1>4, ProxyCreatedMirrorStep
<1>5. QED
  BY <1>1, <1>2, <1>3, <1>4 DEF MirrorNext

(* What InStep says is in the invariant: a client which listens follows a    *)
(* server which is started, and what it will know is what was announced.     *)
LEMMA InStepHolds == MInv => InStep
<1> SUFFICES ASSUME MInv PROVE InStep
  OBVIOUS
<1>1. client.array \in Sorted(client.cats)
  BY ClientIs
<1> SUFFICES ASSUME Listening, ~missed, NoEnd(bus)
             PROVE  /\ \A id \in 0..(Modulus - 1) :
                         KnowsAfter(client.cats, bus, Len(bus), id) <=> id \in table
                    /\ \A id \in table :
                         /\ NameAfter(client.cats, bus, id, categories[id].name)
                         /\ \/ FlagsAfter(client.cats, bus, id, categories[id].flags)
                            \/ Announcing("flags", id)
  BY <1>1 DEF InStep, NoEnd
<1>2. started /\ Agreed(client.cats, bus, announced.cats)
  BY DEF MInv, Followed, Follows, Listening
<1>3. DOMAIN announced.cats = table
  BY <1>2 DEF MInv, CInv, Shape, Published
<1>4. \A id \in table : announced.cats[id].name = categories[id].name
  BY <1>2 DEF MInv, NamesKnown
<1>5. \A id \in table : \/ announced.cats[id].flags = categories[id].flags
                        \/ Announcing("flags", id)
  BY <1>2 DEF MInv, CInv, Shape, Published, AnnouncedOrPending
<1>6. QED
  BY <1>2, <1>3, <1>4, <1>5 DEF Agreed

(* The inductive invariant: the messages on their way to the client turn its *)
(* copy, or the one in the answer it waits for, into what was announced.     *)
THEOREM MirrorInvariance == MirrorSpec => []MInv
  BY MirrorInitShape, MirrorStep, PTL DEF MirrorSpec

(* dbus_log_client_init_get_all2_finished and the handlers of the signals    *)
(* keep the copy of the client in step with the server, whatever the sizes,  *)
(* however often the server is restarted, and even if handlers of the        *)
(* application change categories while a change is being announced.          *)
THEOREM CopyInStep == MirrorSpec => []InStep
  BY MirrorInvariance, InStepHolds, PTL

(* GVERIFY_FALSE in dbus_log_client_category_added and GVERIFY in            *)
(* dbus_log_client_category_removed, the assertions about what the client    *)
(* knows, never fail if the server is not stopped.                           *)
THEOREM SignalsExpected == ~Stops => (MirrorSpec => []SignalsAreExpected)
<1> SUFFICES ASSUME ~Stops PROVE MirrorSpec => []SignalsAreExpected
  OBVIOUS
<1>1. MInv => SignalsAreExpected
  BY DEF MInv, Expected
<1>2. QED
  BY <1>1, MirrorInvariance, PTL
=============================================================================
