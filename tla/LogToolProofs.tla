--------------------------- MODULE LogToolProofs ---------------------------
(***************************************************************************)
(* Theorems about LogTool, for any command lines, servers, policies and    *)
(* calls of others: what the tool is told about its calls is what became   *)
(* of them, and it makes the next one only when it may.  The argument is   *)
(* about which server each call was made to: the tool is connected to one  *)
(* at a time, and hears that it has gone before it hears of the next; and  *)
(* about what its client takes the categories to be when it resets them.   *)
(***************************************************************************)
EXTENDS LogTool, FiniteSetTheorems, WellFoundedInduction, TLAPS

-----------------------------------------------------------------------------
(* Types                                                                     *)

Keys == {"none", "init", "open", "action", "half"} \X Nat
Action == [type : Types, names : SUBSET Names, value : Int, pos : Nat]
App ==
  [actions : Seq(Action), call : Keys, follow : BOOLEAN,
   ret : {"OK", "ERR", "CANCEL", "TIMEOUT"}, quitting : BOOLEAN, running : BOOLEAN,
   sigs : SUBSET {"SIGTERM", "SIGINT"}, timer : BOOLEAN]
Client ==
  [proxy : Nat, init : Keys, started : BOOLEAN, enabled : SUBSET Names, version : Nat]
Core ==
  [default_level : Int, enabled : SUBSET Categories, backlog : Int,
   levels : [Categories -> Int]]
Server ==
  [up : BOOLEAN, started : BOOLEAN, api : {"gio", "libdbus"}, version : Nat, life : Nat,
   policy : [Peers -> SUBSET Actions], core : Core]
Answers == {"OK", "AccessDenied", "InvalidArgs", "Failed", "UnknownMethod"}
Asking == [method : Methods, names : SUBSET Names, value : Int, key : Keys]
Telling ==
  [type : {"Reply", "Flags", "Appeared", "Vanished"}, key : Keys,
   answer : Answers \cup {"", "NoReply"}, names : SUBSET Names, value : Nat]

TInv ==
  /\ app \in App /\ client \in Client /\ server \in Server /\ pending \in SUBSET Keys
  /\ requests \in Seq([to : Nat, call : Asking]) /\ events \in Seq(Telling)
  /\ program \in Seq(Action)
  /\ done \in Seq([key : Keys, answer : Answers, life : Nat])

-----------------------------------------------------------------------------
(* Lemmas about keys and sequences                                           *)

LEMMA KeysAre ==
  /\ \A k \in Keys : k[1] \in {"none", "init", "open", "action", "half"} /\ k[2] \in Nat
  /\ \A type \in {"none", "init", "open", "action", "half"}, n \in Nat :
       <<type, n>> \in Keys /\ <<type, n>>[1] = type /\ <<type, n>>[2] = n
  /\ None \in Keys /\ None[1] = "none" /\ None[2] = 0
BY DEF Keys, None

LEMMA TailIs ==
  ASSUME NEW S, NEW seq \in Seq(S), seq # <<>>
  PROVE  /\ Head(seq) \in S /\ Head(seq) = seq[1] /\ 1 \in 1..Len(seq)
         /\ Tail(seq) \in Seq(S) /\ Len(Tail(seq)) = Len(seq) - 1
         /\ \A i \in 1..Len(seq) - 1 : Tail(seq)[i] = seq[i + 1]
OBVIOUS

LEMMA JoinIs ==
  ASSUME NEW S, NEW seq \in Seq(S), NEW t \in Seq(S)
  PROVE  /\ seq \o t \in Seq(S) /\ Len(seq \o t) = Len(seq) + Len(t)
         /\ \A i \in 1..Len(seq) : (seq \o t)[i] = seq[i]
         /\ \A i \in 1..Len(t) : (seq \o t)[Len(seq) + i] = t[i]
OBVIOUS

LEMMA RestIs ==
  ASSUME NEW S, NEW seq \in Seq(S), NEW i \in 1..Len(seq)
  PROVE  /\ SubSeq(seq, i + 1, Len(seq)) \in Seq(S)
         /\ Len(SubSeq(seq, i + 1, Len(seq))) = Len(seq) - i
         /\ \A j \in 1..Len(seq) - i : SubSeq(seq, i + 1, Len(seq))[j] = seq[j + i]
OBVIOUS

(* A set of numbers has a least one.                                         *)
LEMMA LeastIs ==
  ASSUME NEW S \in SUBSET Nat, S # {}
  PROVE  \E n \in S : \A m \in S : n <= m
<1> DEFINE T == {0..n : n \in S}
           Smaller == StrictSubsetOrdering(Nat)
<1>1. IsWellFoundedOn(Smaller, FiniteSubsetsOf(Nat))
  BY FS_StrictSubsetOrderingWellFounded
<1>2. T \subseteq FiniteSubsetsOf(Nat) /\ T # {}
  <2>1. \A n \in S : IsFiniteSet(0..n) /\ 0..n \subseteq Nat
    BY FS_Interval
  <2>2. QED
    BY <2>1 DEF FiniteSubsetsOf
<1>3. \E x \in T : \A y \in T : <<y, x>> \notin Smaller
  <2> HIDE DEF T, Smaller
  <2>1. QED
    BY <1>1, <1>2, WFMin
<1>4. PICK n \in S : \A m \in S : <<0..m, 0..n>> \notin Smaller
  BY <1>3
<1>5. ASSUME NEW m \in S, m < n PROVE FALSE
  <2>1. 0..m \subseteq 0..n /\ n \in 0..n /\ n \notin 0..m /\ 0..n \subseteq Nat
    BY <1>5
  <2>2. <<0..m, 0..n>> \in Smaller
    BY <2>1 DEF StrictSubsetOrdering
  <2>3. QED
    BY <1>4, <2>2
<1>6. QED
  BY <1>5

-----------------------------------------------------------------------------
(* Calls to the server                                                       *)

LEMMA PerformIs ==
  ASSUME NEW core \in Core, NEW policy, NEW who, NEW c, c.names \in SUBSET Names,
         c.value \in Int, NEW first, NEW second, NEW r, r = Perform(core, policy, who, c, first, second)
  PROVE  /\ r.core \in Core /\ r.err \in {"none", "EACCES", "EINVAL"}
         /\ r.changed \in SUBSET Names
<1>1. Categories \subseteq Names
  BY CallConstants
<1>2. \A err : LET q == Refused(core, err)
               IN  q.err = err /\ q.core \in Core /\ q.changed \in SUBSET Names
  BY DEF Refused
<1>3. ASSUME NEW o \in Core, NEW changed \in SUBSET Names
      PROVE  LET q == Accepted(o, changed)
             IN  q.err = "none" /\ q.core \in Core /\ q.changed \in SUBSET Names
  BY DEF Accepted
<1>4. CASE c.method = "SetDefaultLevel"
  <2>1. [core EXCEPT !.default_level = c.value] \in Core
    BY DEF Core
  <2>2. r = CallSetDefaultLevel(core, policy, who, c.value)
    BY <1>4 DEF Perform
  <2>3. QED
    BY <1>2, <1>3, <2>1, <2>2 DEF CallSetDefaultLevel
<1>5. CASE c.method = "SetCategoryLevel"
  <2>1. r = CallSetCategoryLevel(core, policy, first, second, c.value)
    BY <1>5 DEF Perform
  <2>2. ASSUME second \in Categories PROVE [core EXCEPT !.levels[second] = c.value] \in Core
    <3>1. PICK levels : levels = [core.levels EXCEPT ![second] = c.value]
      OBVIOUS
    <3>2. levels \in [Categories -> Int]
      BY <3>1 DEF Core
    <3>3. [core EXCEPT !.levels = levels] \in Core
      BY <3>2 DEF Core
    <3>4. QED
      BY <3>1, <3>3
  <2>3. QED
    BY <1>2, <1>3, <2>1, <2>2 DEF CallSetCategoryLevel
<1>6. ASSUME NEW enable \in BOOLEAN, r = CallSetEnabled(core, policy, who, c.names, enable)
      PROVE  /\ r.core \in Core /\ r.err \in {"none", "EACCES", "EINVAL"}
             /\ r.changed \in SUBSET Names
  <2>1. PICK changed : changed = {n \in c.names \cap Categories : (n \in core.enabled) # enable}
    OBVIOUS
  <2>2. changed \in SUBSET Categories /\ changed \in SUBSET Names
    BY <1>1, <2>1
  <2>3. PICK enabled : enabled = IF enable THEN core.enabled \cup changed
                                 ELSE core.enabled \ changed
    OBVIOUS
  <2>4. enabled \in SUBSET Categories
    BY <2>2, <2>3 DEF Core
  <2>5. [core EXCEPT !.enabled = enabled] \in Core
    BY <2>4 DEF Core
  <2>6. \/ \E err \in {"EACCES"} : r = Refused(core, err)
        \/ r = Accepted([core EXCEPT !.enabled = enabled], changed)
    BY <1>6, <2>1, <2>3 DEF CallSetEnabled
  <2>7. QED
    BY <1>2, <1>3, <2>2, <2>5, <2>6
<1>7. CASE c.method \in {"CategoryEnable", "CategoryEnablePattern"}
  BY <1>6, <1>7 DEF Perform
<1>8. CASE c.method \in {"CategoryDisable", "CategoryDisablePattern"}
  BY <1>6, <1>8 DEF Perform
<1>9. CASE c.method = "SetBacklog"
  <2>1. r = CallSetBacklog(core, policy, who, c.value)
    BY <1>9 DEF Perform
  <2>2. \A n \in Int : [core EXCEPT !.backlog = n] \in Core
    BY DEF Core
  <2>3. QED
    BY <1>2, <1>3, <2>1, <2>2 DEF CallSetBacklog
<1>10. CASE c.method = "LogOpen"
  BY <1>2, <1>3, <1>10 DEF Perform, CallLogOpen
<1>11. CASE c.method \notin {"SetDefaultLevel", "SetCategoryLevel", "CategoryEnable",
                             "CategoryEnablePattern", "CategoryDisable",
                             "CategoryDisablePattern", "SetBacklog", "LogOpen"}
  BY <1>2, <1>3, <1>11 DEF Perform
<1>12. QED
  BY <1>4, <1>5, <1>7, <1>8, <1>9, <1>10, <1>11

LEMMA HandleIs ==
  ASSUME NEW s \in Server, NEW who, NEW c, c.names \in SUBSET Names, c.value \in Int,
         NEW h, h = Handle(s, who, c)
  PROVE  /\ h.server \in Server /\ h.answer \in Answers /\ h.changed \in SUBSET Names
         /\ h.server.up = s.up /\ h.server.life = s.life /\ h.server.version = s.version
<1>1. PICK r : r = IF s.api = "gio" THEN GioPerform(s.core, s.policy, who, c)
                                    ELSE DbusPerform(s.core, s.policy, who, c)
  OBVIOUS
<1>2. s.core \in Core
  BY DEF Server
<1>3. /\ r.core \in Core /\ r.err \in {"none", "EACCES", "EINVAL"} /\ r.changed \in SUBSET Names
  BY <1>1, <1>2, PerformIs DEF GioPerform, DbusPerform
<1>4. CASE Knows(s, c)
  <2>1. PICK t : t = [s EXCEPT !.core = r.core]
    OBVIOUS
  <2>2. t \in Server /\ t.up = s.up /\ t.life = s.life /\ t.version = s.version
    BY <1>3, <2>1 DEF Server
  <2>3. Answer(r.err) \in Answers
    BY <1>3 DEF Answer, Answers
  <2>4. h = [server |-> t, answer |-> Answer(r.err), changed |-> r.changed]
    BY <1>1, <1>4, <2>1 DEF Handle
  <2>5. h.server = t /\ h.answer = Answer(r.err) /\ h.changed = r.changed
    BY <2>4
  <2>6. QED
    BY <1>3, <2>2, <2>3, <2>5
<1>5. CASE ~Knows(s, c)
  <2>1. h = [server |-> s, answer |-> "UnknownMethod", changed |-> {}]
    BY <1>5 DEF Handle
  <2>2. h.server = s /\ h.answer = "UnknownMethod" /\ h.changed = {}
    BY <2>1
  <2>3. "UnknownMethod" \in Answers /\ {} \in SUBSET Names
    BY DEF Answers
  <2>4. h.server \in Server /\ h.answer \in Answers /\ h.changed \in SUBSET Names
    BY <2>2, <2>3
  <2>5. QED
    BY <2>2, <2>4
<1>6. QED
  BY <1>4, <1>5

-----------------------------------------------------------------------------
(* What the tool does next                                                   *)

IsCall(key) == key[1] \in {"action", "half"}

(* The calls of one action: its position is in their keys, and only the last *)
(* one counts.                                                               *)
CallsAre(a, sent) ==
  /\ sent \in Seq(Asking)
  /\ \A i \in 1..Len(sent) : /\ IsCall(sent[i].key) /\ sent[i].key[2] = a.pos
                             /\ i < Len(sent) => sent[i].key[1] = "half"
  /\ sent # <<>> => 1 \in 1..Len(sent) /\ sent[Len(sent)].key = <<"action", a.pos>>

LEMMA OneCallIs ==
  ASSUME NEW a \in Action, NEW method \in Methods, NEW names \in SUBSET Names, NEW value \in Int,
         NEW sent, sent = <<Request(method, names, value, <<"action", a.pos>>)>>
  PROVE  CallsAre(a, sent) /\ sent # <<>>
<1>1. PICK key, r : key = <<"action", a.pos>> /\ r = Request(method, names, value, key)
  OBVIOUS
<1>2. a.pos \in Nat
  BY DEF Action
<1>3. key \in Keys /\ key[1] = "action" /\ key[2] = a.pos
  BY <1>1, <1>2, KeysAre
<1>4. r \in Asking /\ r.key = key
  BY <1>1, <1>3 DEF Request, Asking
<1>5. sent = <<r>>
  BY <1>1
<1>6. sent \in Seq(Asking) /\ Len(sent) = 1 /\ sent[1] = r /\ sent # <<>>
  BY <1>4, <1>5
<1>7. QED
  BY <1>1, <1>3, <1>4, <1>6 DEF CallsAre, IsCall

LEMMA TwoCallsAre ==
  ASSUME NEW a \in Action, NEW on \in SUBSET Names, NEW off \in SUBSET Names, NEW sent,
         sent = <<Request("CategoryEnable", on, 0, <<"half", a.pos>>)>>
                \o <<Request("CategoryDisable", off, 0, <<"action", a.pos>>)>>
  PROVE  CallsAre(a, sent) /\ sent # <<>>
<1>1. PICK h, k, p, q : /\ h = <<"half", a.pos>> /\ k = <<"action", a.pos>>
                        /\ p = Request("CategoryEnable", on, 0, h)
                        /\ q = Request("CategoryDisable", off, 0, k)
  OBVIOUS
<1>2. a.pos \in Nat
  BY DEF Action
<1>3. /\ h \in Keys /\ h[1] = "half" /\ h[2] = a.pos
      /\ k \in Keys /\ k[1] = "action" /\ k[2] = a.pos
  BY <1>1, <1>2, KeysAre
<1>4. p \in Asking /\ p.key = h /\ q \in Asking /\ q.key = k
  BY <1>1, <1>3 DEF Request, Asking, Methods
<1>5. sent = <<p>> \o <<q>>
  BY <1>1
<1>6. sent \in Seq(Asking) /\ Len(sent) = 2 /\ sent[1] = p /\ sent[2] = q /\ sent # <<>>
  <2>1. PICK f, g : f = <<p>> /\ g = <<q>>
    OBVIOUS
  <2>2. /\ f \in Seq(Asking) /\ g \in Seq(Asking) /\ Len(f) = 1 /\ Len(g) = 1
        /\ f[1] = p /\ g[1] = q
    BY <1>4, <2>1
  <2>3. sent = f \o g
    BY <1>5, <2>1
  <2>4. /\ sent \in Seq(Asking) /\ Len(sent) = 1 + 1
        /\ \A i \in 1..1 : sent[i] = f[i]
        /\ \A i \in 1..1 : sent[1 + i] = g[i]
    BY <2>2, <2>3, JoinIs
  <2>5. QED
    BY <2>2, <2>4
<1>7. QED
  BY <1>1, <1>3, <1>4, <1>6 DEF CallsAre, IsCall

LEMMA NoCallIs ==
  ASSUME NEW a, NEW sent, sent = <<>>
  PROVE  CallsAre(a, sent)
BY DEF CallsAre

LEMMA CallsOfIs ==
  ASSUME NEW a \in Action, NEW x \in Client, NEW sent, sent = CallsOf(a, x)
  PROVE  /\ CallsAre(a, sent)
         /\ a.type \in {"enable", "disable", "level"} => sent # <<>>
         /\ a.type = "backlog" /\ x.version > 1 => sent # <<>>
         /\ a.type = "list" => sent = <<>>
<1>1. /\ a.names \in SUBSET Names /\ a.value \in Int /\ {} \in SUBSET Names /\ 0 \in Int
      /\ {"CategoryEnablePattern", "CategoryDisablePattern", "SetDefaultLevel", "SetBacklog",
          "CategoryEnable", "CategoryDisable"} \subseteq Methods
  BY DEF Action, Methods
<1>2. CASE a.type = "enable"
  BY <1>1, <1>2, OneCallIs DEF CallsOf
<1>3. CASE a.type = "disable"
  BY <1>1, <1>3, OneCallIs DEF CallsOf
<1>4. CASE a.type = "level"
  BY <1>1, <1>4, OneCallIs DEF CallsOf
<1>5. CASE a.type = "backlog"
  BY <1>1, <1>5, OneCallIs, NoCallIs DEF CallsOf
<1>6. CASE a.type = "reset"
  <2>1. PICK on, off : on = Defaults \ x.enabled /\ off = x.enabled \ Defaults
    OBVIOUS
  <2>2. on \in SUBSET Names /\ off \in SUBSET Names
    BY <2>1, CallConstants DEF Client
  <2>3. sent = ResetCalls(on, off, a.pos)
    BY <1>6, <2>1 DEF CallsOf
  <2>4. CASE on = {} /\ off = {}
    <3>1. sent = <<>>
      BY <2>3, <2>4 DEF ResetCalls
    <3>2. QED
      BY <1>6, <3>1, NoCallIs
  <2>5. CASE on # {} /\ off = {}
    <3>1. sent = <<Request("CategoryEnable", on, 0, <<"action", a.pos>>)>>
      BY <2>3, <2>5 DEF ResetCalls
    <3>2. QED
      BY <1>1, <1>6, <2>2, <3>1, OneCallIs
  <2>6. CASE on = {} /\ off # {}
    <3>1. sent = <<Request("CategoryDisable", off, 0, <<"action", a.pos>>)>>
      BY <2>3, <2>6 DEF ResetCalls
    <3>2. QED
      BY <1>1, <1>6, <2>2, <3>1, OneCallIs
  <2>7. CASE on # {} /\ off # {}
    <3>1. sent = <<Request("CategoryEnable", on, 0, <<"half", a.pos>>)>>
                 \o <<Request("CategoryDisable", off, 0, <<"action", a.pos>>)>>
      BY <2>3, <2>7 DEF ResetCalls
    <3>2. QED
      BY <1>6, <2>2, <3>1, TwoCallsAre
  <2>8. QED
    BY <2>4, <2>5, <2>6, <2>7
<1>7. CASE a.type \notin {"enable", "disable", "level", "backlog", "reset"}
  BY <1>7, NoCallIs DEF CallsOf
<1>8. QED
  BY <1>2, <1>3, <1>4, <1>5, <1>6, <1>7

(* Calls which are not those of an action.                                   *)
MethodOf(kind) == IF kind = "init" THEN "GetAll" ELSE "LogOpen"
IsOf(kind, call) == call.key[1] = kind /\ call.method = MethodOf(kind)

(* Nothing more to be done, but to follow the log.                           *)
Ends(a, x, r) ==
  /\ \A i \in 1..Len(a.actions) : CallsOf(a.actions[i], x) = <<>>
  /\ r.app.actions = <<>> /\ r.app.call = None /\ r.waits = {}
  /\ \A i \in 1..Len(r.sent) : IsOf("open", r.sent[i])

(* The next call is made, by action i.                                       *)
Goes(a, x, r, i) ==
  /\ \A j \in 1..i - 1 : CallsOf(a.actions[j], x) = <<>>
  /\ CallsAre(a.actions[i], r.sent) /\ r.sent # <<>> /\ r.sent = CallsOf(a.actions[i], x)
  /\ r.app.actions = SubSeq(a.actions, i + 1, Len(a.actions))
  /\ r.app.call = <<"action", a.actions[i].pos>> /\ r.waits = {r.app.call}

LEMMA NextActionIs ==
  ASSUME NEW a \in App, NEW x \in Client, NEW r, r = NextAction(a, x)
  PROVE  /\ r.app \in App /\ r.client = x /\ r.sent \in Seq(Asking) /\ r.waits \in SUBSET Keys
         /\ r.app.ret = a.ret /\ r.app.running = a.running
         /\ a.call # None => r.app = a /\ r.sent = <<>> /\ r.waits = {}
         /\ a.call = None =>
              Ends(a, x, r) \/ \E i \in 1..Len(a.actions) : Goes(a, x, r, i) /\ r.app.quitting = a.quitting
<1>1. CASE a.call # None
  <2>1. r = [app |-> a, client |-> x, sent |-> <<>>, waits |-> {}]
    BY <1>1 DEF NextAction, Idle
  <2>2. QED
    BY <1>1, <2>1
<1>2. CASE a.call = None
  <2>1. r = Run(a, x) /\ a.actions \in Seq(Action)
    BY <1>2 DEF NextAction, App
  <2>2. PICK all : all = {i \in DOMAIN a.actions :
                            /\ CallsOf(a.actions[i], x) # <<>>
                            /\ \A j \in 1..i - 1 : CallsOf(a.actions[j], x) = <<>>}
    OBVIOUS
  <2>3. CASE all = {}
    <3>1. PICK rest : rest = [a EXCEPT !.actions = <<>>]
      OBVIOUS
    <3>2. /\ rest \in App /\ rest.actions = <<>> /\ rest.call = None /\ rest.ret = a.ret
          /\ rest.running = a.running
      <4>1. <<>> \in Seq(Action)
        OBVIOUS
      <4>2. QED
        BY <1>2, <3>1, <4>1 DEF App
    <3>3. \A i \in 1..Len(a.actions) : CallsOf(a.actions[i], x) = <<>>
      <4>1. PICK n \in Nat : n = Len(a.actions) /\ DOMAIN a.actions = 1..n
        BY <2>1
      <4>2. PICK S : S = {i \in 1..n : CallsOf(a.actions[i], x) # <<>>}
        OBVIOUS
      <4>3. ASSUME S # {} PROVE FALSE
        <5>1. S \in SUBSET Nat
          BY <4>2
        <5>2. PICK i \in S : \A j \in S : i <= j
          BY <4>3, <5>1, LeastIs
        <5>3. i \in all
          <6>1. ASSUME NEW j \in 1..i - 1 PROVE j \notin S /\ j \in 1..n
            BY <4>2, <5>1, <5>2
          <6>2. QED
            BY <2>2, <4>1, <4>2, <6>1
        <5>4. QED
          BY <2>3, <5>3
      <4>4. QED
        BY <4>1, <4>2, <4>3
    <3>4. r = IF a.follow THEN Follow(rest, x) ELSE Idle(Quitting(rest), x)
      <4>1. rest.follow = a.follow
        BY <3>1 DEF App
      <4>2. QED
        BY <2>1, <2>2, <2>3, <3>1, <4>1 DEF Run
    <3>5. CASE r = Idle(rest, x)
      <4>1. r = [app |-> rest, client |-> x, sent |-> <<>>, waits |-> {}]
        BY <3>5 DEF Idle
      <4>2. QED
        BY <1>2, <3>2, <3>3, <4>1 DEF Ends
    <3>6. CASE r = Idle(Quitting(rest), x)
      <4>1. PICK end : end = Quitting(rest)
        OBVIOUS
      <4>2. /\ end \in App /\ end.actions = <<>> /\ end.call = None /\ end.ret = a.ret
            /\ end.running = a.running
        BY <3>2, <4>1 DEF Quitting, App
      <4>3. r = [app |-> end, client |-> x, sent |-> <<>>, waits |-> {}]
        BY <3>6, <4>1 DEF Idle
      <4>4. QED
        BY <1>2, <3>3, <4>2, <4>3 DEF Ends
    <3>7. CASE r = [Idle(rest, x) EXCEPT !.sent = <<Request("LogOpen", {}, 0, <<"open", x.proxy>>)>>]
      <4>1. PICK q : q = Request("LogOpen", {}, 0, <<"open", x.proxy>>)
        OBVIOUS
      <4>2. x.proxy \in Nat
        BY DEF Client
      <4>3. <<"open", x.proxy>> \in Keys /\ <<"open", x.proxy>>[1] = "open"
        BY <4>2, KeysAre
      <4>4. q \in Asking /\ IsOf("open", q)
        BY <4>1, <4>3 DEF Request, Asking, Methods, IsOf, MethodOf
      <4>5. r = [app |-> rest, client |-> x, sent |-> <<q>>, waits |-> {}]
        BY <3>7, <4>1 DEF Idle
      <4>6. <<q>> \in Seq(Asking) /\ Len(<<q>>) = 1 /\ <<q>>[1] = q
        BY <4>4
      <4>7. QED
        BY <1>2, <3>2, <3>3, <4>4, <4>5, <4>6 DEF Ends
    <3>8. QED
      BY <3>4, <3>5, <3>6, <3>7 DEF Follow
  <2>4. CASE all # {}
    <3>1. PICK i : i = CHOOSE h \in all : TRUE
      OBVIOUS
    <3>2. /\ i \in 1..Len(a.actions) /\ CallsOf(a.actions[i], x) # <<>>
          /\ \A j \in 1..i - 1 : CallsOf(a.actions[j], x) = <<>>
      <4>1. i \in all
        BY <2>4, <3>1
      <4>2. DOMAIN a.actions = 1..Len(a.actions)
        BY <2>1
      <4>3. QED
        BY <2>2, <4>1, <4>2
    <3>3. PICK sent, rest, key : /\ sent = CallsOf(a.actions[i], x) /\ key = Last(sent).key
                                 /\ rest = SubSeq(a.actions, i + 1, Len(a.actions))
      OBVIOUS
    <3>4. a.actions[i] \in Action
      BY <2>1, <3>2
    <3>5. CallsAre(a.actions[i], sent) /\ sent # <<>>
      BY <3>2, <3>3, <3>4, CallsOfIs
    <3>6. key = <<"action", a.actions[i].pos>> /\ key \in Keys
      <4>1. a.actions[i].pos \in Nat
        BY <3>4 DEF Action
      <4>2. key = <<"action", a.actions[i].pos>>
        BY <3>3, <3>5 DEF Last, CallsAre
      <4>3. QED
        BY <4>1, <4>2, KeysAre
    <3>7. rest \in Seq(Action)
      BY <2>1, <3>2, <3>3, RestIs
    <3>8. r = [app |-> [a EXCEPT !.actions = rest, !.call = key], client |-> x,
               sent |-> sent, waits |-> {key}]
      BY <2>1, <2>2, <2>4, <3>1, <3>3 DEF Run
    <3>9. PICK next : next = [a EXCEPT !.actions = rest, !.call = key]
      OBVIOUS
    <3>10. /\ next \in App /\ next.actions = rest /\ next.call = key /\ next.ret = a.ret
           /\ next.running = a.running /\ next.quitting = a.quitting
      BY <3>6, <3>7, <3>9 DEF App
    <3>11. r.app = next /\ r.client = x /\ r.sent = sent /\ r.waits = {key}
      BY <3>8, <3>9
    <3>12. Goes(a, x, r, i)
      BY <3>2, <3>3, <3>5, <3>6, <3>10, <3>11 DEF Goes
    <3>13. r.sent \in Seq(Asking) /\ r.waits \in SUBSET Keys
      BY <3>5, <3>6, <3>11 DEF CallsAre
    <3>14. QED
      BY <1>2, <3>2, <3>10, <3>11, <3>12, <3>13
  <2>5. QED
    BY <2>3, <2>4
<1>3. QED
  BY <1>1, <1>2

-----------------------------------------------------------------------------
(* Every step keeps the types                                                *)

(* The calls sent are made to the server of that life.                       *)
Sends(sent, life) ==
  /\ requests' \in Seq([to : Nat, call : Asking])
  /\ Len(requests') = Len(requests) + Len(sent)
  /\ \A i \in 1..Len(requests) : requests'[i] = requests[i]
  /\ \A i \in 1..Len(sent) :
       /\ requests'[Len(requests) + i].to = life
       /\ requests'[Len(requests) + i].call = sent[i]

LEMMA SendsIs ==
  ASSUME TInv, NEW sent \in Seq(Asking), NEW life \in Nat,
         requests' = requests \o Addressed(sent, life)
  PROVE  Sends(sent, life)
<1>n. PICK n \in Nat : n = Len(sent)
  OBVIOUS
<1>t. PICK t : t = Addressed(sent, life)
  OBVIOUS
<1>1. n = Len(sent) /\ t = Addressed(sent, life)
  BY <1>n, <1>t
<1>2. t = [i \in 1..n |-> [to |-> life, call |-> sent[i]]]
  BY <1>1 DEF Addressed
<1>3. t \in Seq([to : Nat, call : Asking]) /\ Len(t) = n
  BY <1>1, <1>2
<1>4. \A i \in 1..n : t[i].to = life /\ t[i].call = sent[i]
  BY <1>2
<1>5. requests \in Seq([to : Nat, call : Asking]) /\ requests' = requests \o t
  BY <1>1 DEF TInv
<1>6. /\ requests' \in Seq([to : Nat, call : Asking]) /\ Len(requests') = Len(requests) + Len(t)
      /\ \A i \in 1..Len(requests) : requests'[i] = requests[i]
      /\ \A i \in 1..Len(t) : requests'[Len(requests) + i] = t[i]
  <2>1. PICK S, q : S = [to : Nat, call : Asking] /\ q = requests \o t
    OBVIOUS
  <2>2. requests \in Seq(S) /\ t \in Seq(S)
    BY <1>3, <1>5, <2>1
  <2>3. /\ q \in Seq(S) /\ Len(q) = Len(requests) + Len(t)
        /\ \A i \in 1..Len(requests) : q[i] = requests[i]
        /\ \A i \in 1..Len(t) : q[Len(requests) + i] = t[i]
    BY <2>1, <2>2, JoinIs
  <2>4. requests' = q
    BY <1>5, <2>1
  <2>5. QED
    BY <2>1, <2>3, <2>4
<1>7. QED
  BY <1>1, <1>3, <1>4, <1>6 DEF Sends

LEMMA NothingSent ==
  ASSUME TInv, requests' = requests \o Addressed(<<>>, client'.proxy)
  PROVE  requests' = requests
<1>1. Addressed(<<>>, client'.proxy) = <<>>
  BY DEF Addressed
<1>2. QED
  BY <1>1 DEF TInv

LEMMA BecomeTyped ==
  ASSUME TInv, NEW a \in App, NEW x \in Client, NEW kept \in SUBSET Keys, NEW r,
         r = NextAction(a, x) \/ r = Idle(a, x), Become(r, kept)
  PROVE  /\ app' \in App /\ client' \in Client /\ pending' \in SUBSET Keys
         /\ requests' \in Seq([to : Nat, call : Asking])
<1>1. /\ r.app \in App /\ r.client = x /\ r.sent \in Seq(Asking) /\ r.waits \in SUBSET Keys
  <2>1. CASE r = NextAction(a, x)
    BY <2>1, NextActionIs
  <2>2. CASE r = Idle(a, x)
    <3>1. r = [app |-> a, client |-> x, sent |-> <<>>, waits |-> {}]
      BY <2>2 DEF Idle
    <3>2. QED
      BY <3>1
  <2>3. QED
    BY <2>1, <2>2
<1>2. x.proxy \in Nat
  BY DEF Client
<1>3. requests' = requests \o Addressed(r.sent, x.proxy)
  BY <1>1 DEF Become
<1>4. Sends(r.sent, x.proxy)
  BY <1>1, <1>2, <1>3, SendsIs
<1>5. QED
  BY <1>1, <1>4 DEF Become, Sends

LEMMA Received ==
  ASSUME TInv, events # <<>>
  PROVE  /\ Head(events) \in Telling /\ Tail(events) \in Seq(Telling)
         /\ Head(events).key \in Keys /\ Head(events).value \in Nat
         /\ Head(events).names \in SUBSET Names /\ Head(events).key[2] \in Nat
<1>1. events \in Seq(Telling)
  BY DEF TInv
<1>2. Head(events) \in Telling /\ Tail(events) \in Seq(Telling)
  BY <1>1, TailIs
<1>3. QED
  BY <1>2, KeysAre DEF Telling

LEMMA FailTyped ==
  ASSUME NEW a \in App, NEW ret \in {"ERR", "CANCEL", "TIMEOUT"}
  PROVE  /\ Fail(a, ret) \in App /\ Fail(a, ret).ret = ret /\ Fail(a, ret).call = a.call
         /\ Fail(a, ret).actions = a.actions /\ Fail(a, ret).running = a.running
BY DEF Fail, Quitting, App

LEMMA NoCallTyped ==
  ASSUME NEW a \in App
  PROVE  /\ [a EXCEPT !.call = None] \in App /\ [a EXCEPT !.call = None].call = None
         /\ [a EXCEPT !.call = None].ret = a.ret /\ [a EXCEPT !.call = None].actions = a.actions
         /\ [a EXCEPT !.call = None].running = a.running
         /\ [a EXCEPT !.call = None].quitting = a.quitting
BY KeysAre DEF App

LEMMA SignalledTyped ==
  ASSUME NEW a \in App, NEW s
  PROVE  /\ Signalled(a, s) \in App /\ Signalled(a, s).ret = "CANCEL"
         /\ Signalled(a, s).call = None /\ Signalled(a, s).actions = a.actions
         /\ Signalled(a, s).running = a.running
<1>1. CASE a.call # None
  BY <1>1, KeysAre DEF Signalled, App
<1>2. CASE a.call = None
  <2>1. PICK b : b = Fail(a, "CANCEL")
    OBVIOUS
  <2>2. /\ b \in App /\ b.ret = "CANCEL" /\ b.call = None /\ b.actions = a.actions
        /\ b.running = a.running
    BY <1>2, <2>1, FailTyped
  <2>3. Signalled(a, s) = [b EXCEPT !.sigs = b.sigs \ {s}]
    BY <1>2, <2>1 DEF Signalled
  <2>4. b.sigs \ {s} \in SUBSET {"SIGTERM", "SIGINT"}
    BY <2>2 DEF App
  <2>5. QED
    BY <2>2, <2>3, <2>4 DEF App
<1>3. QED
  BY <1>1, <1>2

(* The news of a change, and the answer to a call.                           *)
LEMMA FlagsAre ==
  ASSUME NEW changed \in SUBSET Names, NEW s
  PROVE  /\ Flags(changed, s) \in Seq(Telling)
         /\ \A i \in 1..Len(Flags(changed, s)) : Flags(changed, s)[i].type = "Flags"
<1>1. PICK e : e = Event("Flags", None, "", changed, IF changed \subseteq s.core.enabled THEN 1 ELSE 0)
  OBVIOUS
<1>2. e \in Telling /\ e.type = "Flags"
  <2>1. CASE changed \subseteq s.core.enabled
    BY <1>1, <2>1, KeysAre DEF Event, Telling
  <2>2. CASE ~(changed \subseteq s.core.enabled)
    BY <1>1, <2>2, KeysAre DEF Event, Telling
  <2>3. QED
    BY <2>1, <2>2
<1>3. Flags(changed, s) = <<>> \/ Flags(changed, s) = <<e>>
  BY <1>1 DEF Flags
<1>4. /\ <<e>> \in Seq(Telling) /\ Len(<<e>>) = 1 /\ <<e>>[1] = e
      /\ <<>> \in Seq(Telling) /\ Len(<<>>) = 0
  BY <1>2
<1>5. PICK f : f = Flags(changed, s)
  OBVIOUS
<1>6. f \in Seq(Telling) /\ \A i \in 1..Len(f) : f[i].type = "Flags"
  <2>1. CASE f = <<>>
    BY <1>4, <2>1
  <2>2. CASE f = <<e>>
    BY <1>2, <1>4, <2>2
  <2>3. QED
    BY <1>3, <1>5, <2>1, <2>2
<1>7. QED
  BY <1>5, <1>6

LEMMA ReplyIs ==
  ASSUME server \in Server, NEW key \in Keys, NEW answer \in Answers \cup {"NoReply"}
  PROVE  /\ Reply(key, answer) \in Telling /\ Reply(key, answer).type = "Reply"
         /\ Reply(key, answer).key = key /\ Reply(key, answer).answer = answer
         /\ Reply(key, answer).value = server.version
<1>1. PICK names, version : names = server.core.enabled /\ version = server.version
  OBVIOUS
<1>2. names \in SUBSET Names /\ version \in Nat
  BY <1>1, CallConstants DEF Server, Core
<1>3. PICK e : e = Reply(key, answer)
  OBVIOUS
<1>4. e = [type |-> "Reply", key |-> key, answer |-> answer, names |-> names,
           value |-> version]
  BY <1>1, <1>3 DEF Reply, Event
<1>5. /\ e \in Telling /\ e.type = "Reply" /\ e.key = key /\ e.answer = answer
      /\ e.value = version
  BY <1>2, <1>4 DEF Telling
<1>6. QED
  BY <1>1, <1>3, <1>5

-----------------------------------------------------------------------------
(* The command line                                                          *)

(* The actions are in the order of their places, and the list comes last.    *)
InOrder(seq) ==
  \A m, n \in 1..Len(seq) :
    m < n /\ seq[m].type # "list" /\ seq[n].type # "list" => seq[m].pos < seq[n].pos

(* How many actions there are before each of them: all numbers below how     *)
(* many there are, each of them once.                                        *)
LEMMA RanksAre ==
  ASSUME NEW o \in Programs, NEW S, S = ActionsOf(o),
         NEW rank, rank = [i \in S |-> Cardinality({j \in S : After(o, i, j)})]
  PROVE  /\ IsFiniteSet(S) /\ Cardinality(S) \in Nat /\ S \subseteq 1..Len(o)
         /\ \A i, j \in S : After(o, i, j) => rank[j] < rank[i]
         /\ \A i, j \in S : i = j \/ After(o, i, j) \/ After(o, j, i)
         /\ \A n \in 0..Cardinality(S) - 1 : \E i \in S : rank[i] = n
<1>1. o \in Seq([type : Types, names : SUBSET Names, value : Int])
  BY ToolConstants
<1>2. S \subseteq 1..Len(o) /\ Len(o) \in Nat
  BY <1>1 DEF ActionsOf
<1>3. IsFiniteSet(S) /\ Cardinality(S) \in Nat
  <2>1. IsFiniteSet(1..Len(o))
    BY <1>2, FS_Interval
  <2>2. QED
    BY <1>2, <2>1, FS_Subset, FS_CardinalityType
<1>4. PICK N : N = Cardinality(S)
  OBVIOUS
<1>5. \A i, j \in S : i = j \/ After(o, i, j) \/ After(o, j, i)
  BY <1>2 DEF After
<1>6. \A i, j, k \in S : /\ ~After(o, i, i)
                         /\ After(o, i, j) /\ After(o, j, k) => After(o, i, k)
  BY <1>2 DEF After
<1>7. ASSUME NEW i \in S PROVE rank[i] \in 0..N - 1
  <2>1. PICK T : T = {j \in S : After(o, i, j)}
    OBVIOUS
  <2>2. T \in SUBSET S /\ i \notin T
    BY <1>6, <2>1
  <2>3. IsFiniteSet(T) /\ Cardinality(T) <= N /\ Cardinality(T) # N
    BY <1>3, <1>4, <2>2, FS_Subset
  <2>4. Cardinality(T) \in Nat
    BY <2>3, FS_CardinalityType
  <2>5. rank[i] = Cardinality(T)
    BY <2>1
  <2>6. QED
    BY <1>3, <1>4, <2>3, <2>4, <2>5
<1>8. ASSUME NEW i \in S, NEW j \in S, After(o, i, j) PROVE rank[j] < rank[i]
  <2>1. PICK T, U : T = {k \in S : After(o, i, k)} /\ U = {k \in S : After(o, j, k)}
    OBVIOUS
  <2>2. U \subseteq T /\ j \in T /\ j \notin U /\ T \subseteq S
    BY <1>6, <1>8, <2>1
  <2>3. IsFiniteSet(T)
    BY <1>3, <2>2, FS_Subset
  <2>4. Cardinality(U) <= Cardinality(T) /\ Cardinality(U) # Cardinality(T) /\ IsFiniteSet(U)
    BY <2>2, <2>3, FS_Subset
  <2>5. Cardinality(U) \in Nat /\ Cardinality(T) \in Nat
    BY <2>3, <2>4, FS_CardinalityType
  <2>6. rank[i] = Cardinality(T) /\ rank[j] = Cardinality(U)
    BY <2>1
  <2>7. QED
    BY <2>4, <2>5, <2>6
<1>9. rank \in Injection(S, 0..N - 1)
  <2>1. rank \in [S -> 0..N - 1]
    BY <1>7
  <2>2. ASSUME NEW i \in S, NEW j \in S, rank[i] = rank[j] PROVE i = j
    <3>1. rank[i] \in Nat /\ rank[j] \in Nat
      BY <1>3, <1>4, <1>7
    <3>2. QED
      BY <1>5, <1>8, <2>2, <3>1
  <2>3. QED
    BY <2>1, <2>2 DEF Injection, IsInjective
<1>10. rank \in Surjection(S, 0..N - 1)
  <2>1. IsFiniteSet(0..N - 1) /\ Cardinality(0..N - 1) = N
    <3>1. N \in Nat /\ 0 \in Int /\ N - 1 \in Int
      BY <1>3, <1>4
    <3>2. /\ IsFiniteSet(0..N - 1)
          /\ Cardinality(0..N - 1) = IF 0 > N - 1 THEN 0 ELSE N - 1 - 0 + 1
      BY <3>1, FS_Interval
    <3>3. QED
      BY <3>1, <3>2
  <2>2. QED
    BY <1>4, <1>9, <2>1, FS_Injection
<1>11. QED
  BY <1>2, <1>3, <1>4, <1>5, <1>8, <1>10 DEF Surjection

LEMMA ParsedIs ==
  ASSUME NEW o \in Programs, NEW q, q = Parsed(o)
  PROVE  q \in Seq(Action) /\ InOrder(q)
<1>1. PICK S : S = ActionsOf(o)
  OBVIOUS
<1>2. PICK rank : rank = [i \in S |-> Cardinality({j \in S : After(o, i, j)})]
  OBVIOUS
<1>3. /\ IsFiniteSet(S) /\ Cardinality(S) \in Nat /\ S \subseteq 1..Len(o)
      /\ \A i, j \in S : After(o, i, j) => rank[j] < rank[i]
      /\ \A i, j \in S : i = j \/ After(o, i, j) \/ After(o, j, i)
      /\ \A n \in 0..Cardinality(S) - 1 : \E i \in S : rank[i] = n
  <2>1. /\ IsFiniteSet(S) /\ Cardinality(S) \in Nat /\ S \subseteq 1..Len(o)
        /\ \A i, j \in S : After(o, i, j) => rank[j] < rank[i]
    BY <1>1, <1>2, RanksAre
  <2>2. \A i, j \in S : i = j \/ After(o, i, j) \/ After(o, j, i)
    BY <1>1, <1>2, RanksAre
  <2>3. \A n \in 0..Cardinality(S) - 1 : \E i \in S : rank[i] = n
    BY <1>1, <1>2, RanksAre
  <2>4. QED
    BY <2>1, <2>2, <2>3
<1>4. PICK N \in Nat : N = Cardinality(S)
  BY <1>3
<1>5. PICK place : place = [n \in 1..N |-> CHOOSE i \in S : rank[i] = n - 1]
  OBVIOUS
<1>6. ASSUME NEW n \in 1..N PROVE place[n] \in S /\ rank[place[n]] = n - 1
  <2>1. n - 1 \in 0..N - 1
    OBVIOUS
  <2>2. \E i \in S : rank[i] = n - 1
    BY <1>3, <1>4, <2>1
  <2>3. QED
    BY <1>5, <2>2
<1>7. q = [n \in 1..N |-> [type |-> o[place[n]].type, names |-> o[place[n]].names,
                            value |-> o[place[n]].value, pos |-> place[n]]]
  <2>1. ASSUME NEW n \in 1..N
        PROVE  (CHOOSE i \in S : Cardinality({j \in S : After(o, i, j)}) = n - 1) = place[n]
    <3>1. \A i \in S : Cardinality({j \in S : After(o, i, j)}) = rank[i]
      BY <1>2
    <3>2. (CHOOSE i \in S : Cardinality({j \in S : After(o, i, j)}) = n - 1)
            = CHOOSE i \in S : rank[i] = n - 1
      BY <3>1
    <3>3. QED
      BY <1>5, <3>2
  <2>2. QED
    BY <1>1, <1>4, <2>1 DEF Parsed
<1>8. \A i \in S : o[i] \in [type : Types, names : SUBSET Names, value : Int]
  <2>1. PICK R : R = [type : Types, names : SUBSET Names, value : Int]
    OBVIOUS
  <2>2. o \in Seq(R)
    BY <2>1, ToolConstants
  <2>3. \A i \in 1..Len(o) : o[i] \in R
    BY <2>2
  <2>4. QED
    BY <1>3, <2>1, <2>3
<1>9. \A n \in 1..N : q[n] \in Action /\ q[n].pos = place[n] /\ q[n].type = o[place[n]].type
  <2>1. ASSUME NEW n \in 1..N
        PROVE  q[n] \in Action /\ q[n].pos = place[n] /\ q[n].type = o[place[n]].type
    <3>1. PICK i, r : i = place[n] /\ r = o[i]
      OBVIOUS
    <3>2. i \in Nat /\ r \in [type : Types, names : SUBSET Names, value : Int]
      BY <1>3, <1>6, <1>8, <3>1
    <3>3. q[n] = [type |-> r.type, names |-> r.names, value |-> r.value, pos |-> i]
      BY <1>7, <3>1
    <3>4. QED
      BY <3>1, <3>2, <3>3 DEF Action
  <2>2. QED
    BY <2>1
<1>10. q \in Seq(Action) /\ Len(q) = N
  BY <1>7, <1>9
<1>11. InOrder(q)
  <2>1. ASSUME NEW m \in 1..N, NEW n \in 1..N, m < n, q[m].type # "list", q[n].type # "list"
        PROVE  q[m].pos < q[n].pos
    <3>1. PICK i, j : i = place[m] /\ j = place[n]
      OBVIOUS
    <3>2. i \in S /\ j \in S /\ rank[i] = m - 1 /\ rank[j] = n - 1
      BY <1>6, <3>1
    <3>3. ~After(o, i, j) /\ i # j
      BY <1>3, <2>1, <3>2
    <3>4. After(o, j, i)
      BY <1>3, <3>2, <3>3
    <3>5. o[i].type # "list" /\ o[j].type # "list" /\ q[m].pos = i /\ q[n].pos = j
      BY <1>9, <2>1, <3>1
    <3>6. QED
      BY <3>4, <3>5 DEF After
  <2>2. QED
    BY <1>10, <2>1 DEF InOrder
<1>12. QED
  BY <1>10, <1>11

LEMMA TypedAtFirst ==
  ASSUME Init
  PROVE  TInv
<1>1. PICK o \in Programs : app = NewApp(o)
  BY DEF Init
<1>2. app \in App /\ app.actions \in Seq(Action)
  <2>1. PICK q : q = IF Valid(o) THEN Parsed(o) ELSE <<>>
    OBVIOUS
  <2>2. q \in Seq(Action)
    BY <2>1, ParsedIs
  <2>3. PICK follow, ret, running, timer :
          /\ follow = Follows(o) /\ ret = (IF Valid(o) THEN "OK" ELSE "ERR")
          /\ running = Valid(o) /\ timer = Given(o, "timeout")
    OBVIOUS
  <2>4. follow \in BOOLEAN /\ ret \in {"OK", "ERR"} /\ running \in BOOLEAN /\ timer \in BOOLEAN
    BY <2>3 DEF Follows, Valid, Given
  <2>5. app = [actions |-> q, call |-> None, follow |-> follow, ret |-> ret, quitting |-> FALSE,
               running |-> running, sigs |-> {"SIGTERM", "SIGINT"}, timer |-> timer]
    BY <1>1, <2>1, <2>3 DEF NewApp
  <2>6. QED
    BY <2>2, <2>4, <2>5, KeysAre DEF App
<1>3. client \in Client
  BY KeysAre DEF Init, Client, Down
<1>4. server \in Server
  <2>1. PICK p \in Policies, s \in Servers :
          server = [up |-> FALSE, started |-> TRUE, api |-> s.api, version |-> s.version,
                    life |-> 0, policy |-> p, core |-> NewCore]
    BY DEF Init
  <2>2. NewCore \in Core
    BY CallConstants DEF NewCore, Core, Info, Undefined
  <2>3. PICK core, api, version : core = NewCore /\ api = s.api /\ version = s.version
    OBVIOUS
  <2>4. api \in {"gio", "libdbus"} /\ version \in Nat /\ p \in [Peers -> SUBSET Actions]
    BY <2>3, ToolConstants
  <2>5. server = [up |-> FALSE, started |-> TRUE, api |-> api, version |-> version,
                  life |-> 0, policy |-> p, core |-> core]
    BY <2>1, <2>3
  <2>6. QED
    BY <2>2, <2>3, <2>4, <2>5 DEF Server
<1>5. QED
  BY <1>2, <1>3, <1>4 DEF Init, TInv

(* The tool has taken k of what was on its way to it, or the rest is lost.   *)
Took(k) ==
  /\ events' \in Seq(Telling) /\ Len(events') + k <= Len(events)
  /\ \A i \in 1..Len(events') : events'[i] = events[i + k]

(* What is on its way to the tool is followed by n more.                     *)
Adds(n) ==
  /\ events' \in Seq(Telling) /\ Len(events') = Len(events) + n
  /\ \A i \in 1..Len(events) : events'[i] = events[i]

Inside == UNCHANGED <<server, program, done>>

LEMMA ReceivedIs ==
  ASSUME TInv, NEW type, Receive(type), NEW e, e = Head(events)
  PROVE  /\ Inside /\ Took(1) /\ app.running /\ 1 \in 1..Len(events)
         /\ e = events[1] /\ e.type = type /\ e \in Telling
         /\ e.key \in Keys /\ e.value \in Nat /\ e.names \in SUBSET Names /\ e.key[2] \in Nat
<1>1. events \in Seq(Telling) /\ events # <<>> /\ events' = Tail(events)
  BY DEF TInv, Receive
<1>2. /\ e \in Telling /\ e = events[1] /\ 1 \in 1..Len(events) /\ events' \in Seq(Telling)
      /\ Len(events') = Len(events) - 1
      /\ \A i \in 1..Len(events) - 1 : events'[i] = events[i + 1]
  BY <1>1, TailIs
<1>3. Took(1)
  BY <1>1, <1>2 DEF Took
<1>4. QED
  BY <1>1, <1>2, <1>3, Received DEF Receive, Inside

(* A step of the tool, by what becomes of each part.                         *)
LEMMA StepTyped ==
  ASSUME TInv, Inside, app' \in App, client' \in Client, pending' \in SUBSET Keys,
         requests' \in Seq([to : Nat, call : Asking]), events' \in Seq(Telling)
  PROVE  TInv'
BY DEF TInv, Inside

LEMMA AppearedStep ==
  ASSUME TInv, NameAppeared
  PROVE  /\ TInv' /\ Inside /\ Took(1) /\ events[1].type = "Appeared" /\ 1 \in 1..Len(events)
         /\ UNCHANGED <<app, pending>> /\ client'.proxy = client.proxy
         /\ client'.version = client.version /\ client'.enabled = client.enabled
         /\ client'.init = <<"init", events[1].value>> /\ client'.init \in Keys
         /\ \E q \in Asking : /\ q.key = <<"init", events[1].value>> /\ q.method = "GetAll"
                              /\ Sends(<<q>>, events[1].value)
<1>1. PICK e : e = Head(events)
  OBVIOUS
<1>2. /\ Inside /\ Took(1) /\ 1 \in 1..Len(events)
      /\ e = events[1] /\ e.type = "Appeared" /\ e.value \in Nat
  BY <1>1, ReceivedIs DEF NameAppeared
<1>l. PICK life \in Nat : life = e.value
  BY <1>2
<1>k. PICK key : key = <<"init", life>>
  OBVIOUS
<1>3. life = e.value /\ key = <<"init", life>>
  BY <1>l, <1>k
<1>4. key \in Keys /\ key[1] = "init" /\ key[2] = life
  BY <1>3, KeysAre
<1>5. PICK q : q = Request("GetAll", {}, 0, key)
  OBVIOUS
<1>6. q \in Asking /\ q.key = key /\ q.method = "GetAll"
  BY <1>4, <1>5 DEF Request, Asking, Methods
<1>7. <<q>> \in Seq(Asking)
  BY <1>6
<1>8. Sends(<<q>>, life)
  <2>1. requests' = requests \o Addressed(<<q>>, life)
    BY <1>1, <1>3, <1>5 DEF NameAppeared
  <2>2. QED
    BY <1>7, <2>1, SendsIs
<1>9. client' = [client EXCEPT !.init = key] /\ client \in Client
  BY <1>1, <1>3 DEF NameAppeared, TInv
<1>10. /\ client' \in Client /\ client'.init = key /\ client'.proxy = client.proxy
       /\ client'.version = client.version /\ client'.enabled = client.enabled
  <2>1. PICK x : x = [client EXCEPT !.init = key]
    OBVIOUS
  <2>2. /\ x \in Client /\ x.init = key /\ x.proxy = client.proxy /\ x.version = client.version
        /\ x.enabled = client.enabled
    BY <1>4, <1>9, <2>1 DEF Client
  <2>3. QED
    BY <1>9, <2>1, <2>2
<1>11. TInv'
  BY <1>2, <1>8, <1>10, StepTyped DEF NameAppeared, TInv, Sends, Took
<1>12. QED
  BY <1>2, <1>3, <1>4, <1>6, <1>8, <1>10, <1>11 DEF NameAppeared

LEMMA VanishedStep ==
  ASSUME TInv, NameVanished
  PROVE  /\ TInv' /\ Inside /\ Took(1) /\ events[1].type = "Vanished" /\ 1 \in 1..Len(events)
         /\ UNCHANGED <<app, pending, requests>>
         /\ client'.proxy = Down /\ client'.init = None /\ client'.version = client.version
<1>1. PICK e : e = Head(events)
  OBVIOUS
<1>2. /\ Inside /\ Took(1) /\ 1 \in 1..Len(events) /\ e = events[1] /\ e.type = "Vanished"
  BY <1>1, ReceivedIs DEF NameVanished
<1>3. PICK x : x = [client EXCEPT !.init = None, !.proxy = Down, !.started = FALSE,
                                  !.enabled = {}]
  OBVIOUS
<1>4. x \in Client /\ x.proxy = Down /\ x.init = None /\ x.version = client.version
  BY <1>3, KeysAre DEF TInv, Client, Down
<1>5. client' = x /\ UNCHANGED <<app, pending, requests>>
  BY <1>3 DEF NameVanished
<1>6. TInv'
  BY <1>2, <1>4, <1>5, StepTyped DEF TInv, Took
<1>7. QED
  BY <1>2, <1>4, <1>5, <1>6

(* What changes in the tool when it is told what does not matter to it.      *)
LEMMA HeardStep ==
  ASSUME TInv, StartFinished \/ FlagsChanged
  PROVE  /\ TInv' /\ Inside /\ Took(1) /\ UNCHANGED <<app, pending, requests>>
         /\ client'.proxy = client.proxy /\ client'.init = client.init
         /\ client'.version = client.version
<1>1. PICK e : e = Head(events)
  OBVIOUS
<1>2. /\ Inside /\ Took(1) /\ e \in Telling /\ e.names \in SUBSET Names
  BY <1>1, ReceivedIs DEF StartFinished, FlagsChanged
<1>3. client \in Client
  BY DEF TInv
<1>4. /\ client' \in Client /\ client'.proxy = client.proxy /\ client'.init = client.init
      /\ client'.version = client.version
  <2>1. CASE StartFinished
    <3>1. PICK b \in BOOLEAN : b = (client.started \/ e.answer = "OK")
      OBVIOUS
    <3>2. client' = [client EXCEPT !.started = b]
      BY <1>1, <2>1, <3>1 DEF StartFinished
    <3>3. PICK x : x = [client EXCEPT !.started = b]
      OBVIOUS
    <3>4. x \in Client /\ x.proxy = client.proxy /\ x.init = client.init /\ x.version = client.version
      BY <1>3, <3>3 DEF Client
    <3>5. QED
      BY <3>2, <3>3, <3>4
  <2>2. CASE FlagsChanged
    <3>1. PICK S : S = IF e.value = 1 THEN client.enabled \cup e.names
                                      ELSE client.enabled \ e.names
      OBVIOUS
    <3>2. S \in SUBSET Names
      BY <1>2, <1>3, <3>1 DEF Client
    <3>3. client' = client \/ client' = [client EXCEPT !.enabled = S]
      BY <1>1, <2>2, <3>1 DEF FlagsChanged
    <3>4. PICK x : x = [client EXCEPT !.enabled = S]
      OBVIOUS
    <3>5. x \in Client /\ x.proxy = client.proxy /\ x.init = client.init /\ x.version = client.version
      BY <1>3, <3>2, <3>4 DEF Client
    <3>6. QED
      BY <1>3, <3>3, <3>4, <3>5
  <2>3. QED
    BY <2>1, <2>2
<1>5. UNCHANGED <<app, pending, requests>>
  BY DEF StartFinished, FlagsChanged
<1>6. TInv'
  BY <1>2, <1>4, <1>5, StepTyped DEF TInv, Took
<1>7. QED
  BY <1>2, <1>4, <1>5, <1>6

(* Only calls of that kind are made, to a server of that life.               *)
Opens(kind, life) ==
  /\ requests' \in Seq([to : Nat, call : Asking]) /\ Len(requests) <= Len(requests')
  /\ \A i \in 1..Len(requests) : requests'[i] = requests[i]
  /\ \A i \in Len(requests) + 1..Len(requests') :
       IsOf(kind, requests'[i].call) /\ requests'[i].to = life

LEMMA OpensIs ==
  ASSUME TInv, NEW kind, NEW sent \in Seq(Asking), NEW life \in Nat,
         \A i \in 1..Len(sent) : IsOf(kind, sent[i]), Sends(sent, life)
  PROVE  Opens(kind, life)
<1>1. PICK m, n \in Nat : m = Len(requests) /\ n = Len(sent)
  BY DEF TInv
<1>2. /\ Len(requests') = m + n
      /\ \A i \in 1..n : requests'[m + i].to = life /\ requests'[m + i].call = sent[i]
  BY <1>1 DEF Sends
<1>3. ASSUME NEW i \in m + 1..m + n
      PROVE  IsOf(kind, requests'[i].call) /\ requests'[i].to = life
  <2>1. i - m \in 1..n /\ m + (i - m) = i
    BY <1>1
  <2>2. requests'[i].to = life /\ requests'[i].call = sent[i - m]
    BY <1>2, <2>1
  <2>3. QED
    BY <1>1, <2>1, <2>2
<1>4. QED
  BY <1>1, <1>2, <1>3 DEF Sends, Opens

(* The tool is at its end, but for following the log.                        *)
EndsNow(a, x, kept) ==
  /\ \A i \in 1..Len(a.actions) : CallsOf(a.actions[i], x) = <<>>
  /\ app'.actions = <<>> /\ app'.call = None /\ pending' = kept
  /\ Opens("open", x.proxy)

(* The tool makes the calls of its next action.                              *)
GoesOn(a, x, kept, i) ==
  /\ \A j \in 1..i - 1 : CallsOf(a.actions[j], x) = <<>>
  /\ app'.actions = SubSeq(a.actions, i + 1, Len(a.actions))
  /\ app'.call = <<"action", a.actions[i].pos>> /\ app'.quitting = a.quitting
  /\ pending' = kept \cup {app'.call}
  /\ \E sent \in Seq(Asking) : /\ sent = CallsOf(a.actions[i], x) /\ sent # <<>>
                               /\ CallsAre(a.actions[i], sent) /\ Sends(sent, x.proxy)

LEMMA AdvanceIs ==
  ASSUME TInv, NEW a \in App, NEW x \in Client, NEW kept \in SUBSET Keys,
         Become(NextAction(a, x), kept)
  PROVE  /\ app' \in App /\ client' \in Client /\ pending' \in SUBSET Keys
         /\ requests' \in Seq([to : Nat, call : Asking])
         /\ client' = x /\ app'.ret = a.ret /\ app'.running = a.running
         /\ a.call # None => app' = a /\ pending' = kept /\ requests' = requests
         /\ a.call = None => \/ EndsNow(a, x, kept)
                             \/ \E i \in 1..Len(a.actions) : GoesOn(a, x, kept, i)
<1>1. PICK r : r = NextAction(a, x)
  OBVIOUS
<1>2. /\ r.app \in App /\ r.client = x /\ r.sent \in Seq(Asking) /\ r.waits \in SUBSET Keys
      /\ r.app.ret = a.ret /\ r.app.running = a.running
      /\ a.call # None => r.app = a /\ r.sent = <<>> /\ r.waits = {}
      /\ a.call = None =>
           Ends(a, x, r) \/ \E i \in 1..Len(a.actions) : Goes(a, x, r, i) /\ r.app.quitting = a.quitting
  BY <1>1, NextActionIs
<1>3. x.proxy \in Nat
  BY DEF Client
<1>4. /\ app' = r.app /\ client' = x /\ pending' = kept \cup r.waits
      /\ requests' = requests \o Addressed(r.sent, x.proxy)
  BY <1>1, <1>2 DEF Become
<1>5. Sends(r.sent, x.proxy)
  BY <1>2, <1>3, <1>4, SendsIs
<1>6. ASSUME a.call # None PROVE app' = a /\ pending' = kept /\ requests' = requests
  <2>1. r.app = a /\ r.sent = <<>> /\ r.waits = {}
    BY <1>2, <1>6
  <2>2. requests' = requests \o Addressed(<<>>, client'.proxy)
    BY <1>4, <2>1
  <2>3. requests' = requests
    BY <2>2, NothingSent
  <2>4. QED
    BY <1>4, <2>1, <2>3
<1>7. ASSUME a.call = None, Ends(a, x, r) PROVE EndsNow(a, x, kept)
  <2>1. \A i \in 1..Len(r.sent) : IsOf("open", r.sent[i])
    BY <1>7 DEF Ends
  <2>2. Opens("open", x.proxy)
    BY <1>2, <1>3, <1>5, <2>1, OpensIs
  <2>3. QED
    BY <1>4, <1>7, <2>2 DEF Ends, EndsNow
<1>8. ASSUME NEW i \in 1..Len(a.actions), Goes(a, x, r, i), r.app.quitting = a.quitting
      PROVE  GoesOn(a, x, kept, i)
  <2>1. /\ r.sent \in Seq(Asking) /\ r.sent = CallsOf(a.actions[i], x) /\ r.sent # <<>>
        /\ CallsAre(a.actions[i], r.sent) /\ Sends(r.sent, x.proxy)
    BY <1>2, <1>5, <1>8 DEF Goes
  <2>2. QED
    BY <1>4, <1>8, <2>1 DEF Goes, GoesOn
<1>9. QED
  BY <1>2, <1>3, <1>4, <1>5, <1>6, <1>7, <1>8 DEF Sends

(* The initialization of the client has ended well, or not.                  *)
Initialized(e, x) ==
  /\ e.answer = "OK" /\ e.key = client.init
  /\ x \in Client /\ x.proxy = e.key[2] /\ x.init = None /\ x.version = e.value
  /\ x.enabled = e.names
  /\ Become(NextAction(app, x), pending)
InitFailed(e) ==
  /\ e.key = client.init
  /\ app' = Fail(app, "ERR") /\ client'.proxy = client.proxy /\ client'.init = None
  /\ client'.version = client.version /\ client'.enabled = client.enabled
  /\ UNCHANGED <<pending, requests>>

LEMMA InitStep ==
  ASSUME TInv, InitFinished
  PROVE  /\ TInv' /\ Inside /\ Took(1) /\ 1 \in 1..Len(events)
         /\ events[1].type = "Reply" /\ events[1].key[1] = "init"
         /\ \/ events[1].key # client.init /\ UNCHANGED <<app, client, pending, requests>>
            \/ \E x \in Client : Initialized(events[1], x)
            \/ InitFailed(events[1])
<1>1. PICK e : e = Head(events)
  OBVIOUS
<1>2. /\ Inside /\ Took(1) /\ 1 \in 1..Len(events) /\ e = events[1] /\ e.type = "Reply"
      /\ e.key \in Keys /\ e.names \in SUBSET Names /\ e.value \in Nat /\ e.key[2] \in Nat
  BY <1>1, ReceivedIs DEF InitFinished
<1>3. e.key[1] = "init" /\ app \in App /\ client \in Client /\ pending \in SUBSET Keys
  BY <1>1 DEF InitFinished, TInv
<1>4. CASE e.key # client.init
  <2>1. UNCHANGED <<app, client, pending, requests>>
    BY <1>1, <1>4 DEF InitFinished
  <2>2. TInv'
    BY <1>2, <1>3, <2>1, StepTyped DEF TInv, Took
  <2>3. QED
    BY <1>2, <1>3, <1>4, <2>1, <2>2
<1>5. CASE e.key = client.init /\ e.answer = "OK"
  <2>1. PICK x : x = [client EXCEPT !.proxy = e.key[2], !.init = None, !.started = FALSE,
                                    !.enabled = e.names, !.version = e.value]
    OBVIOUS
  <2>2. /\ x \in Client /\ x.proxy = e.key[2] /\ x.init = None /\ x.version = e.value
        /\ x.enabled = e.names
    BY <1>2, <1>3, <2>1, KeysAre DEF Client
  <2>3. Become(NextAction(app, x), pending)
    BY <1>1, <1>5, <2>1 DEF InitFinished, Connected
  <2>4. Initialized(events[1], x)
    BY <1>2, <1>5, <2>2, <2>3 DEF Initialized
  <2>5. /\ app' \in App /\ client' \in Client /\ pending' \in SUBSET Keys
        /\ requests' \in Seq([to : Nat, call : Asking])
    BY <1>3, <2>2, <2>3, AdvanceIs
  <2>6. TInv'
    BY <1>2, <2>5, StepTyped DEF Took
  <2>7. QED
    BY <1>2, <1>3, <2>2, <2>4, <2>6
<1>6. CASE e.key = client.init /\ e.answer # "OK"
  <2>1. PICK x, a, r : /\ x = [client EXCEPT !.init = None] /\ a = Fail(app, "ERR")
                       /\ r = Idle(a, x)
    OBVIOUS
  <2>2. /\ x \in Client /\ x.proxy = client.proxy /\ x.init = None /\ x.version = client.version
        /\ x.enabled = client.enabled /\ a \in App
    BY <1>3, <2>1, KeysAre, FailTyped DEF Client
  <2>3. r.app = a /\ r.client = x /\ r.sent = <<>> /\ r.waits = {}
    BY <2>1 DEF Idle
  <2>4. Become(r, pending)
    BY <1>1, <1>6, <2>1 DEF InitFinished, ConnectError
  <2>5. /\ app' = a /\ client' = x /\ pending' = pending
        /\ requests' = requests \o Addressed(<<>>, client'.proxy)
    BY <2>3, <2>4 DEF Become
  <2>6. requests' = requests
    BY <2>5, NothingSent
  <2>7. InitFailed(events[1])
    BY <1>2, <1>6, <2>1, <2>2, <2>5, <2>6 DEF InitFailed
  <2>8. TInv'
    BY <1>2, <1>3, <2>2, <2>5, <2>6, StepTyped DEF TInv, Took
  <2>9. QED
    BY <1>2, <1>3, <2>7, <2>8
<1>7. QED
  BY <1>4, <1>5, <1>6

(* The call of an action has ended, well or not.                             *)
CallDoneWell(e, a) ==
  /\ e.answer = "OK" /\ e.key \in pending
  /\ a \in App /\ a.call = None /\ a.actions = app.actions /\ a.ret = app.ret
  /\ a.running = app.running /\ a.quitting = app.quitting
  /\ Become(NextAction(a, client), pending \ {e.key})
CallFailed(e) ==
  /\ e.key \in pending /\ e.answer # "OK"
  /\ app'.call = None /\ app'.actions = app.actions /\ app'.ret = "ERR"
  /\ app'.running = app.running
  /\ pending' = pending \ {e.key} /\ UNCHANGED <<client, requests>>

LEMMA CallStep ==
  ASSUME TInv, CallFinished
  PROVE  /\ TInv' /\ Inside /\ Took(1) /\ 1 \in 1..Len(events)
         /\ events[1].type = "Reply" /\ IsCall(events[1].key)
         /\ \/ UNCHANGED <<app, client, pending, requests>>
            \/ \E a \in App : CallDoneWell(events[1], a)
            \/ CallFailed(events[1])
<1>1. PICK e : e = Head(events)
  OBVIOUS
<1>2. /\ Inside /\ Took(1) /\ 1 \in 1..Len(events) /\ e = events[1] /\ e.type = "Reply"
  BY <1>1, ReceivedIs DEF CallFinished
<1>3. IsCall(e.key) /\ app \in App /\ client \in Client /\ pending \in SUBSET Keys
  BY <1>1 DEF CallFinished, TInv, IsCall
<1>4. PICK kept : kept = pending \ {e.key}
  OBVIOUS
<1>5. kept \in SUBSET Keys
  BY <1>3, <1>4
<1>6. PICK b : b = [app EXCEPT !.call = None]
  OBVIOUS
<1>7. /\ b \in App /\ b.call = None /\ b.actions = app.actions /\ b.ret = app.ret
      /\ b.running = app.running /\ b.quitting = app.quitting
  BY <1>3, <1>6, NoCallTyped
<1>8. CASE e.key \notin pending
  <2>1. UNCHANGED <<app, client, pending, requests>>
    BY <1>1, <1>8 DEF CallFinished
  <2>2. TInv'
    BY <1>2, <1>3, <2>1, StepTyped DEF TInv, Took
  <2>3. QED
    BY <1>2, <1>3, <2>1, <2>2
<1>9. CASE e.key \in pending /\ e.answer = "OK"
  <2>1. Become(NextAction(b, client), kept)
    BY <1>1, <1>4, <1>6, <1>9 DEF CallFinished, CallDone
  <2>2. CallDoneWell(events[1], b)
    BY <1>2, <1>4, <1>7, <1>9, <2>1 DEF CallDoneWell
  <2>3. /\ app' \in App /\ client' \in Client /\ pending' \in SUBSET Keys
        /\ requests' \in Seq([to : Nat, call : Asking])
    BY <1>3, <1>5, <1>7, <2>1, AdvanceIs
  <2>4. TInv'
    BY <1>2, <2>3, StepTyped DEF Took
  <2>5. QED
    BY <1>2, <1>3, <1>7, <2>2, <2>4
<1>10. CASE e.key \in pending /\ e.answer # "OK"
  <2>1. PICK a, r : a = Fail(b, "ERR") /\ r = Idle(a, client)
    OBVIOUS
  <2>2. /\ a \in App /\ a.call = None /\ a.actions = app.actions /\ a.ret = "ERR"
        /\ a.running = app.running
    BY <1>7, <2>1, FailTyped
  <2>3. r.app = a /\ r.client = client /\ r.sent = <<>> /\ r.waits = {}
    BY <2>1 DEF Idle
  <2>4. Become(r, kept)
    BY <1>1, <1>4, <1>6, <1>10, <2>1 DEF CallFinished, CallDone
  <2>5. /\ app' = a /\ client' = client /\ pending' = kept
        /\ requests' = requests \o Addressed(<<>>, client'.proxy)
    BY <2>3, <2>4 DEF Become
  <2>6. requests' = requests
    BY <2>5, NothingSent
  <2>7. CallFailed(events[1])
    BY <1>2, <1>4, <1>10, <2>2, <2>5, <2>6 DEF CallFailed
  <2>8. TInv'
    BY <1>2, <1>3, <1>5, <2>2, <2>5, <2>6, StepTyped DEF TInv, Took
  <2>9. QED
    BY <1>2, <1>3, <2>7, <2>8
<1>11. QED
  BY <1>8, <1>9, <1>10

(* A signal, the timeout and the end of the main loop.                       *)
LEMMA SignalStep ==
  ASSUME TInv, NEW s \in {"SIGTERM", "SIGINT"}, Signal(s)
  PROVE  /\ TInv' /\ Inside /\ UNCHANGED <<client, requests, events>> /\ app.running
         /\ app'.ret = "CANCEL" /\ app'.call = None /\ app'.actions = app.actions
         /\ app'.running = app.running /\ pending' = pending \ {app.call}
<1>1. app \in App /\ app' = Signalled(app, s)
  BY DEF TInv, Signal
<1>2. PICK a : a = Signalled(app, s)
  OBVIOUS
<1>3. /\ a \in App /\ a.ret = "CANCEL" /\ a.call = None /\ a.actions = app.actions
      /\ a.running = app.running
  BY <1>1, <1>2, SignalledTyped
<1>4. /\ app' = a /\ Inside /\ UNCHANGED <<client, requests, events>> /\ app.running
      /\ pending' = pending \ {app.call}
  BY <1>1, <1>2 DEF Signal, Inside
<1>5. TInv'
  BY <1>3, <1>4, StepTyped DEF TInv
<1>6. QED
  BY <1>3, <1>4, <1>5

LEMMA TimeoutStep ==
  ASSUME TInv, Timeout
  PROVE  /\ TInv' /\ Inside /\ UNCHANGED <<client, pending, requests, events>> /\ app.running
         /\ app'.ret = "TIMEOUT" /\ app'.call = app.call /\ app'.actions = app.actions
         /\ app'.running = app.running
<1>1. PICK b, a : b = Fail(app, "TIMEOUT") /\ a = [b EXCEPT !.timer = FALSE]
  OBVIOUS
<1>2. /\ b \in App /\ b.ret = "TIMEOUT" /\ b.call = app.call /\ b.actions = app.actions
      /\ b.running = app.running
  BY <1>1, FailTyped DEF TInv
<1>3. /\ a \in App /\ a.ret = "TIMEOUT" /\ a.call = app.call /\ a.actions = app.actions
      /\ a.running = app.running
  BY <1>1, <1>2 DEF App
<1>4. /\ app' = a /\ Inside /\ UNCHANGED <<client, pending, requests, events>> /\ app.running
  BY <1>1 DEF Timeout, Inside
<1>5. TInv'
  BY <1>3, <1>4, StepTyped DEF TInv
<1>6. QED
  BY <1>3, <1>4, <1>5

LEMMA QuitStep ==
  ASSUME TInv, Quit
  PROVE  /\ TInv' /\ Inside /\ Took(0) /\ UNCHANGED <<client, pending, requests>>
         /\ app.running /\ app.quitting /\ events' = <<>>
         /\ app'.ret = app.ret /\ app'.call = app.call /\ app'.actions = app.actions
         /\ app'.quitting = app.quitting /\ ~app'.running
<1>1. PICK a : a = [app EXCEPT !.running = FALSE]
  OBVIOUS
<1>2. /\ a \in App /\ a.ret = app.ret /\ a.call = app.call /\ a.actions = app.actions
      /\ a.quitting = app.quitting /\ ~a.running
  BY <1>1 DEF TInv, App
<1>3. /\ app' = a /\ Inside /\ events' = <<>> /\ UNCHANGED <<client, pending, requests>>
      /\ app.running /\ app.quitting
  BY <1>1 DEF Quit, Inside
<1>4. <<>> \in Seq(Telling) /\ Len(<<>>) = 0 /\ events \in Seq(Telling)
  BY DEF TInv
<1>5. Took(0)
  BY <1>3, <1>4 DEF Took
<1>6. TInv'
  BY <1>2, <1>3, <1>4, StepTyped DEF TInv
<1>7. QED
  BY <1>2, <1>3, <1>5, <1>6

(* What is told to a tool which still runs.                                  *)
LEMMA TellIs ==
  ASSUME TInv, NEW t \in Seq(Telling), Tell(t)
  PROVE  \E n \in {0, Len(t)} :
           Adds(n) /\ \A i \in 1..n : events'[Len(events) + i] = t[i]
<1>1. events \in Seq(Telling)
  BY DEF TInv
<1>2. CASE app.running
  <2>1. PICK q : q = events \o t
    OBVIOUS
  <2>2. /\ q \in Seq(Telling) /\ Len(q) = Len(events) + Len(t)
        /\ \A i \in 1..Len(events) : q[i] = events[i]
        /\ \A i \in 1..Len(t) : q[Len(events) + i] = t[i]
    BY <1>1, <2>1, JoinIs
  <2>3. events' = q
    BY <1>2, <2>1 DEF Tell
  <2>4. QED
    BY <2>2, <2>3 DEF Adds
<1>3. CASE ~app.running
  <2>1. events' = events
    BY <1>3 DEF Tell
  <2>2. Adds(0)
    BY <1>1, <2>1 DEF Adds
  <2>3. QED
    BY <2>2
<1>4. QED
  BY <1>2, <1>3

(* What others do, for all the tool is told about it.                        *)
Elsewhere ==
  /\ UNCHANGED <<app, client, pending, requests, program, done>>
  /\ server'.up = server.up /\ server'.life = server.life /\ server'.version = server.version
  /\ \E n \in Nat : Adds(n) /\ \A i \in 1..n : events'[Len(events) + i].type = "Flags"

LEMMA WorldTyped ==
  ASSUME TInv, server' \in Server, events' \in Seq(Telling),
         UNCHANGED <<app, client, pending, requests, program, done>>
  PROVE  TInv'
BY DEF TInv

LEMMA NothingToldIs ==
  ASSUME TInv, events' = events
  PROVE  Adds(0)
BY DEF TInv, Adds

LEMMA OtherStep ==
  ASSUME TInv, NEW c \in Calls, OtherCalls(c)
  PROVE  TInv' /\ Elsewhere
<1>1. PICK h : h = Handle(server, Other, c)
  OBVIOUS
<1>2. c.names \in SUBSET Names /\ c.value \in Int /\ server \in Server
  BY ToolConstants DEF TInv
<1>3. /\ h.server \in Server /\ h.changed \in SUBSET Names
      /\ h.server.up = server.up /\ h.server.life = server.life
      /\ h.server.version = server.version
  BY <1>1, <1>2, HandleIs
<1>4. PICK t : t = Flags(h.changed, h.server)
  OBVIOUS
<1>5. t \in Seq(Telling) /\ \A i \in 1..Len(t) : t[i].type = "Flags"
  BY <1>3, <1>4, FlagsAre
<1>6. server' = h.server /\ Tell(t) /\ UNCHANGED <<app, client, pending, requests, program, done>>
  BY <1>1, <1>4 DEF OtherCalls
<1>7. PICK n \in {0, Len(t)} : Adds(n) /\ \A i \in 1..n : events'[Len(events) + i] = t[i]
  BY <1>5, <1>6, TellIs
<1>8. n \in Nat /\ \A i \in 1..n : events'[Len(events) + i].type = "Flags"
  BY <1>5, <1>7
<1>9. Elsewhere
  BY <1>3, <1>6, <1>7, <1>8 DEF Elsewhere
<1>10. TInv'
  BY <1>3, <1>6, <1>7, WorldTyped DEF Adds
<1>11. QED
  BY <1>9, <1>10

LEMMA ChangeStep ==
  ASSUME TInv, \/ \E p \in Policies : SetAccessPolicy(p)
               \/ Start \/ Stop
  PROVE  TInv' /\ Elsewhere
<1>1. server \in Server
  BY DEF TInv
<1>2. /\ UNCHANGED <<app, client, pending, requests, events, program, done>>
      /\ server' \in Server
      /\ server'.up = server.up /\ server'.life = server.life
      /\ server'.version = server.version
  <2>1. CASE \E p \in Policies : SetAccessPolicy(p)
    <3>1. PICK p \in Policies : SetAccessPolicy(p)
      BY <2>1
    <3>2. p \in [Peers -> SUBSET Actions]
      BY ToolConstants
    <3>3. PICK s : s = [server EXCEPT !.policy = p]
      OBVIOUS
    <3>4. s \in Server /\ s.up = server.up /\ s.life = server.life /\ s.version = server.version
      BY <1>1, <3>2, <3>3 DEF Server
    <3>5. server' = s /\ UNCHANGED <<app, client, pending, requests, events, program, done>>
      BY <3>1, <3>3 DEF SetAccessPolicy, Change
    <3>6. QED
      BY <3>4, <3>5
  <2>2. CASE Start \/ Stop
    <3>1. PICK b \in BOOLEAN : /\ server' = [server EXCEPT !.started = b]
                               /\ UNCHANGED <<app, client, pending, requests, events, program, done>>
      BY <2>2 DEF Start, Stop, Change
    <3>2. PICK s : s = [server EXCEPT !.started = b]
      OBVIOUS
    <3>3. s \in Server /\ s.up = server.up /\ s.life = server.life /\ s.version = server.version
      BY <1>1, <3>2 DEF Server
    <3>4. QED
      BY <3>1, <3>2, <3>3
  <2>3. QED
    BY <2>1, <2>2
<1>3. Adds(0)
  BY <1>2, NothingToldIs
<1>4. Elsewhere
  <2>1. 0 \in Nat /\ \A i \in 1..0 : events'[Len(events) + i].type = "Flags"
    OBVIOUS
  <2>2. QED
    BY <1>2, <1>3, <2>1 DEF Elsewhere
<1>5. TInv'
  BY <1>2, <1>3, WorldTyped DEF Adds
<1>6. QED
  BY <1>4, <1>5

LEMMA StutterStep ==
  ASSUME TInv, UNCHANGED vars
  PROVE  TInv' /\ Elsewhere
<1>1. UNCHANGED <<app, client, pending, requests, events, program, done, server>>
  BY DEF vars
<1>2. Adds(0)
  BY <1>1, NothingToldIs
<1>3. 0 \in Nat /\ \A i \in 1..0 : events'[Len(events) + i].type = "Flags"
  OBVIOUS
<1>4. Elsewhere
  BY <1>1, <1>2, <1>3 DEF Elsewhere
<1>5. TInv'
  BY <1>1, <1>2, WorldTyped DEF TInv, Adds
<1>6. QED
  BY <1>4, <1>5

LEMMA DieStep ==
  ASSUME TInv, Die
  PROVE  /\ TInv' /\ UNCHANGED <<app, client, pending, requests, program, done>>
         /\ server.up /\ ~server'.up /\ server'.life = server.life
         /\ server'.version = server.version
         /\ \E n \in {0, 1} : Adds(n) /\ \A i \in 1..n : events'[Len(events) + i].type = "Vanished"
<1>1. PICK s : s = [server EXCEPT !.up = FALSE]
  OBVIOUS
<1>2. s \in Server /\ ~s.up /\ s.life = server.life /\ s.version = server.version
  BY <1>1 DEF TInv, Server
<1>3. PICK e : e = Event("Vanished", None, "", {}, 0)
  OBVIOUS
<1>4. e \in Telling /\ e.type = "Vanished"
  BY <1>3, KeysAre DEF Event, Telling
<1>5. PICK t : t = <<e>>
  OBVIOUS
<1>6. t \in Seq(Telling) /\ Len(t) = 1 /\ t[1] = e
  BY <1>4, <1>5
<1>7. /\ server.up /\ server' = s /\ Tell(t)
      /\ UNCHANGED <<app, client, pending, requests, program, done>>
  BY <1>1, <1>3, <1>5 DEF Die
<1>8. PICK n \in {0, Len(t)} : Adds(n) /\ \A i \in 1..n : events'[Len(events) + i] = t[i]
  BY <1>6, <1>7, TellIs
<1>9. n \in {0, 1} /\ \A i \in 1..n : events'[Len(events) + i].type = "Vanished"
  BY <1>4, <1>6, <1>8
<1>10. TInv'
  BY <1>2, <1>7, <1>8, WorldTyped DEF Adds
<1>11. QED
  BY <1>2, <1>7, <1>8, <1>9, <1>10

LEMMA BeginStep ==
  ASSUME TInv, Begin
  PROVE  /\ TInv' /\ UNCHANGED <<app, client, pending, requests, program, done>>
         /\ ~server.up /\ server'.up /\ server'.life = server.life + 1
         /\ server'.version = server.version
         /\ \E n \in {0, 1} : Adds(n) /\ \A i \in 1..n :
              /\ events'[Len(events) + i].type = "Appeared"
              /\ events'[Len(events) + i].value = server.life + 1
<1>1. PICK life, core : life = server.life + 1 /\ core = NewCore
  OBVIOUS
<1>2. server \in Server /\ life \in Nat /\ core \in Core
  <2>1. server \in Server /\ server.life \in Nat
    BY DEF TInv, Server
  <2>2. core \in Core
    BY <1>1, CallConstants DEF NewCore, Core, Info, Undefined
  <2>3. QED
    BY <1>1, <2>1, <2>2
<1>3. PICK s : s = [server EXCEPT !.up = TRUE, !.started = TRUE, !.life = life, !.core = core]
  OBVIOUS
<1>4. s \in Server /\ s.up /\ s.life = life /\ s.version = server.version
  BY <1>2, <1>3 DEF Server
<1>5. PICK e : e = Event("Appeared", None, "", {}, life)
  OBVIOUS
<1>6. e \in Telling /\ e.type = "Appeared" /\ e.value = life
  BY <1>2, <1>5, KeysAre DEF Event, Telling
<1>7. PICK t : t = <<e>>
  OBVIOUS
<1>8. t \in Seq(Telling) /\ Len(t) = 1 /\ t[1] = e
  BY <1>6, <1>7
<1>9. /\ ~server.up /\ server' = s /\ Tell(t)
      /\ UNCHANGED <<app, client, pending, requests, program, done>>
  BY <1>1, <1>3, <1>5, <1>7 DEF Begin
<1>10. PICK n \in {0, Len(t)} : Adds(n) /\ \A i \in 1..n : events'[Len(events) + i] = t[i]
  BY <1>8, <1>9, TellIs
<1>11. n \in {0, 1} /\ \A i \in 1..n : /\ events'[Len(events) + i].type = "Appeared"
                                       /\ events'[Len(events) + i].value = life
  BY <1>6, <1>8, <1>10
<1>12. TInv'
  BY <1>4, <1>9, <1>10, WorldTyped DEF Adds
<1>13. QED
  BY <1>1, <1>4, <1>9, <1>10, <1>11, <1>12

(* The process of the server which now runs.                                 *)
Current(life) == server.up /\ life = server.life

(* The end of a call, and n - 1 changes, are told to the tool.               *)
Says(key, answer, n) ==
  /\ Adds(n)
  /\ \A i \in 1..n :
       LET e == events'[Len(events) + i]
       IN  \/ e.type = "Flags"
           \/ /\ e.type = "Reply" /\ e.key = key /\ e.answer = answer
              /\ e.value = server.version

AllFlags(f) == f \in Seq(Telling) /\ \A i \in 1..Len(f) : f[i].type = "Flags"

(* The server takes the first call there is, or nobody is there to take it.  *)
Serves(q, answer) ==
  /\ 1 \in 1..Len(requests) /\ q = requests[1] /\ q \in [to : Nat, call : Asking]
  /\ Len(requests') = Len(requests) - 1
  /\ \A i \in 1..Len(requests') : requests'[i] = requests[i + 1]
  /\ UNCHANGED <<app, client, pending, program>>
  /\ server'.up = server.up /\ server'.life = server.life /\ server'.version = server.version
  /\ Current(q.to) => answer \in Answers
  /\ ~Current(q.to) => answer = "NoReply"
  /\ IF Current(q.to) /\ IsCall(q.call.key)
     THEN /\ Len(done') = Len(done) + 1 /\ \A i \in 1..Len(done) : done'[i] = done[i]
          /\ done'[Len(done) + 1] = [key |-> q.call.key, answer |-> answer, life |-> q.to]
     ELSE done' = done
  /\ \E n \in Nat : Says(q.call.key, answer, n)

(* What is said at the end of a call.                                        *)
LEMMA NewsIs ==
  ASSUME TInv, NEW key \in Keys, NEW answer \in Answers \cup {"NoReply"},
         NEW f, AllFlags(f), NEW t, t = f \o <<Reply(key, answer)>>, Tell(t)
  PROVE  \E n \in Nat : Says(key, answer, n)
<1>0. f \in Seq(Telling) /\ \A i \in 1..Len(f) : f[i].type = "Flags"
  BY DEF AllFlags
<1>1. PICK r : r = Reply(key, answer)
  OBVIOUS
<1>2. server \in Server
  BY DEF TInv
<1>3. /\ r \in Telling /\ r.type = "Reply" /\ r.key = key /\ r.answer = answer
      /\ r.value = server.version
  BY <1>1, <1>2, ReplyIs
<1>4. PICK g : g = <<r>> /\ t = f \o g
  BY <1>1
<1>5. g \in Seq(Telling) /\ Len(g) = 1 /\ g[1] = r
  BY <1>3, <1>4
<1>6. /\ t \in Seq(Telling) /\ Len(t) = Len(f) + Len(g)
      /\ \A i \in 1..Len(f) : t[i] = f[i]
      /\ \A i \in 1..Len(g) : t[Len(f) + i] = g[i]
  BY <1>0, <1>4, <1>5, JoinIs
<1>7. PICK m \in Nat : m = Len(f)
  BY <1>0
<1>8. Len(t) = m + 1 /\ (\A i \in 1..m : t[i].type = "Flags") /\ t[m + 1] = r
  BY <1>0, <1>5, <1>6, <1>7
<1>9. Tell(t)
  OBVIOUS
<1>10. PICK n \in {0, Len(t)} : Adds(n) /\ \A i \in 1..n : events'[Len(events) + i] = t[i]
  BY <1>6, <1>9, TellIs
<1>11. n \in Nat
  BY <1>7, <1>8
<1>12. ASSUME NEW i \in 1..n
       PROVE  LET e == events'[Len(events) + i]
              IN  \/ e.type = "Flags"
                  \/ /\ e.type = "Reply" /\ e.key = key /\ e.answer = answer
                     /\ e.value = server.version
  <2>1. events'[Len(events) + i] = t[i]
    BY <1>10
  <2>2. i \in 1..m + 1
    BY <1>7, <1>8, <1>10
  <2>3. i \in 1..m \/ i = m + 1
    BY <1>7, <2>2
  <2>4. t[i].type = "Flags" \/ t[i] = r
    BY <1>8, <2>3
  <2>5. QED
    BY <1>3, <2>1, <2>4
<1>13. QED
  BY <1>10, <1>11, <1>12 DEF Says

LEMMA ServeStep ==
  ASSUME TInv, Serve
  PROVE  TInv' /\ \E q, answer :
                     /\ Serves(q, answer)
                     /\ answer = IF Current(q.to) THEN Handle(server, Tool, q.call).answer
                                                  ELSE "NoReply"
<1>1. PICK q, h : q = Head(requests) /\ h = Handle(server, Tool, q.call)
  OBVIOUS
<1>2. PICK S : S = [to : Nat, call : Asking]
  OBVIOUS
<1>3. requests \in Seq(S) /\ requests # <<>> /\ requests' = Tail(requests)
  BY <1>2 DEF TInv, Serve
<1>4. /\ q \in S /\ q = requests[1] /\ 1 \in 1..Len(requests)
      /\ Tail(requests) \in Seq(S) /\ Len(Tail(requests)) = Len(requests) - 1
      /\ \A i \in 1..Len(requests) - 1 : Tail(requests)[i] = requests[i + 1]
  BY <1>1, <1>3, TailIs
<1>5. PICK c, key : c = q.call /\ key = c.key
  OBVIOUS
<1>6. c \in Asking /\ q.to \in Nat
  BY <1>2, <1>4, <1>5
<1>7. c.names \in SUBSET Names /\ c.value \in Int /\ key \in Keys
  BY <1>5, <1>6 DEF Asking
<1>8. server \in Server /\ done \in Seq([key : Keys, answer : Answers, life : Nat])
  BY DEF TInv
<1>9. /\ h.server \in Server /\ h.answer \in Answers /\ h.changed \in SUBSET Names
      /\ h.server.up = server.up /\ h.server.life = server.life
      /\ h.server.version = server.version
  BY <1>1, <1>5, <1>7, <1>8, HandleIs
<1>10. PICK answer : answer = IF Current(q.to) THEN h.answer ELSE "NoReply"
  OBVIOUS
<1>11. /\ answer \in Answers \cup {"NoReply"}
       /\ Current(q.to) => answer \in Answers
       /\ ~Current(q.to) => answer = "NoReply"
  BY <1>9, <1>10
<1>12. PICK f : f = IF Current(q.to) THEN Flags(h.changed, h.server) ELSE <<>>
  OBVIOUS
<1>13. AllFlags(f)
  <2>1. CASE Current(q.to)
    BY <1>9, <1>12, <2>1, FlagsAre DEF AllFlags
  <2>2. CASE ~Current(q.to)
    BY <1>12, <2>2 DEF AllFlags
  <2>3. QED
    BY <2>1, <2>2
<1>14. Current(q.to) <=> (server.up /\ server.life = q.to)
  BY DEF Current
<1>15. Tell(f \o <<Reply(key, answer)>>)
  <2>1. CASE Current(q.to)
    <3>1. Tell(News(h, Reply(key, answer)))
      BY <1>1, <1>5, <1>10, <1>14, <2>1 DEF Serve
    <3>2. QED
      BY <1>12, <2>1, <3>1 DEF News
  <2>2. CASE ~Current(q.to)
    <3>1. PICK g : g = <<Reply(key, answer)>>
      OBVIOUS
    <3>2. Tell(g)
      BY <1>1, <1>5, <1>10, <1>14, <2>2, <3>1 DEF Serve
    <3>3. f \o g = g
      <4>1. f = <<>> /\ g \in Seq({Reply(key, answer)})
        BY <1>12, <2>2, <3>1
      <4>2. QED
        BY <4>1
    <3>4. QED
      BY <3>1, <3>2, <3>3
  <2>3. QED
    BY <2>1, <2>2
<1>16. PICK n \in Nat : Says(key, answer, n)
  <2>1. PICK t : t = f \o <<Reply(key, answer)>>
    OBVIOUS
  <2>2. Tell(t)
    BY <1>15, <2>1
  <2>3. QED
    BY <1>7, <1>11, <1>13, <2>1, <2>2, NewsIs
<1>17. /\ server' \in Server /\ server'.up = server.up /\ server'.life = server.life
       /\ server'.version = server.version
  <2>1. server' = h.server \/ server' = server
    BY <1>1 DEF Serve
  <2>2. QED
    BY <1>8, <1>9, <2>1
<1>18. UNCHANGED <<app, client, pending, program>>
  BY DEF Serve
<1>19. PICK d : d = [key |-> key, answer |-> answer, life |-> q.to]
  OBVIOUS
<1>20. done' = IF Current(q.to) /\ IsCall(key) THEN Append(done, d) ELSE done
  BY <1>1, <1>5, <1>10, <1>14, <1>19 DEF Serve, IsCall
<1>21. /\ done' \in Seq([key : Keys, answer : Answers, life : Nat])
       /\ IF Current(q.to) /\ IsCall(key)
          THEN /\ Len(done') = Len(done) + 1 /\ \A i \in 1..Len(done) : done'[i] = done[i]
               /\ done'[Len(done) + 1] = d
          ELSE done' = done
  <2>1. CASE Current(q.to) /\ IsCall(key)
    <3>1. PICK R : R = [key : Keys, answer : Answers, life : Nat]
      OBVIOUS
    <3>2. d \in R
      BY <1>6, <1>7, <1>11, <1>19, <2>1, <3>1
    <3>3. done \in Seq(R) /\ done' = Append(done, d)
      BY <1>8, <1>20, <2>1, <3>1
    <3>4. QED
      BY <2>1, <3>1, <3>2, <3>3
  <2>2. CASE ~(Current(q.to) /\ IsCall(key))
    BY <1>8, <1>20, <2>2
  <2>3. QED
    BY <2>1, <2>2
<1>22. Serves(q, answer)
  <2>1. /\ 1 \in 1..Len(requests) /\ q = requests[1] /\ q \in [to : Nat, call : Asking]
        /\ Len(requests') = Len(requests) - 1
        /\ \A i \in 1..Len(requests') : requests'[i] = requests[i + 1]
    BY <1>2, <1>3, <1>4
  <2>2. q.call.key = key
    BY <1>5
  <2>3. QED
    BY <1>11, <1>16, <1>17, <1>18, <1>19, <1>21, <2>1, <2>2 DEF Serves
<1>23. TInv'
  BY <1>2, <1>3, <1>4, <1>16, <1>17, <1>18, <1>21 DEF TInv, Adds, Says
<1>24. QED
  BY <1>1, <1>10, <1>22, <1>23

(* Every step, by what it does.                                              *)
LEMMA StepIs ==
  ASSUME TInv, [Next]_vars
  PROVE  \/ NameAppeared \/ NameVanished \/ InitFinished \/ CallFinished
         \/ StartFinished \/ FlagsChanged
         \/ (\E s \in {"SIGTERM", "SIGINT"} : Signal(s)) \/ Timeout \/ Quit
         \/ Serve \/ Elsewhere \/ Die \/ Begin
<1>1. CASE UNCHANGED vars
  BY <1>1, StutterStep
<1>2. CASE \E c \in Calls : OtherCalls(c)
  BY <1>2, OtherStep
<1>3. CASE (\E p \in Policies : SetAccessPolicy(p)) \/ Start \/ Stop
  BY <1>3, ChangeStep
<1>4. QED
  BY <1>1, <1>2, <1>3 DEF Next, Environment, Dispatch

LEMMA TypesKept ==
  ASSUME TInv, [Next]_vars
  PROVE  TInv'
<1>1. CASE UNCHANGED vars
  BY <1>1, StutterStep
<1>2. CASE \E c \in Calls : OtherCalls(c)
  BY <1>2, OtherStep
<1>3. CASE (\E p \in Policies : SetAccessPolicy(p)) \/ Start \/ Stop
  BY <1>3, ChangeStep
<1>4. CASE Die \/ Begin
  BY <1>4, DieStep, BeginStep
<1>5. CASE \E s \in {"SIGTERM", "SIGINT"} : Signal(s)
  BY <1>5, SignalStep
<1>6. CASE Timeout \/ Quit \/ Serve
  BY <1>6, TimeoutStep, QuitStep, ServeStep
<1>7. CASE Dispatch
  BY <1>7, AppearedStep, VanishedStep, InitStep, CallStep, HeardStep DEF Dispatch
<1>8. QED
  BY <1>1, <1>2, <1>3, <1>4, <1>5, <1>6, <1>7 DEF Next, Environment

(* The state of the tool, of its client and of the server, and what is on    *)
(* its way between them, have the types above (app_init, app_next_action,    *)
(* app_action_call_done, dbus_log_client_connected).                         *)
THEOREM ToolTyped == Spec => []TInv
<1>1. Init => TInv
  BY TypedAtFirst
<1>2. TInv /\ [Next]_vars => TInv'
  BY TypesKept
<1>3. QED
  BY <1>1, <1>2, PTL DEF Spec

-----------------------------------------------------------------------------
(* One call at a time                                                        *)

(* A call of an action which is going to be heard; one which was refused by  *)
(* the server which still runs.                                              *)
Live(i) == IsCall(requests[i].call.key) /\ Current(requests[i].to)
Declined(j) == done[j].key[1] = "action" /\ done[j].answer # "OK" /\ Current(done[j].life)

(* No action was asked of the server of that life.                           *)
Fresh(life) ==
  /\ \A i \in 1..Len(requests) : IsCall(requests[i].call.key) => requests[i].to # life
  /\ \A j \in 1..Len(done) : done[j].life # life

Appeared(i) == events[i].type = "Appeared"

(* Nothing is known of a server which has not been started yet.              *)
Known ==
  /\ server.up => server.life # Down
  /\ client.proxy <= server.life /\ client.init[2] <= server.life
  /\ \A i \in 1..Len(requests) : requests[i].to <= server.life
  /\ \A j \in 1..Len(done) : done[j].life <= server.life
  /\ \A i \in 1..Len(events) :
       Appeared(i) => events[i].value <= server.life /\ events[i].value # Down

Waiting ==
  /\ pending = IF app.call = None THEN {} ELSE {app.call}
  /\ app.call # None => app.call[1] = "action"

(* The tool is going to hear that the call it waits for has ended well.      *)
Granted(i) == events[i].type = "Reply" /\ events[i].key \in pending /\ events[i].answer = "OK"

NothingLive ==
  /\ \A j \in 1..Len(requests) : ~Live(j)
  /\ \A j \in 1..Len(done) : ~Declined(j)

(* The server hears of one action at a time, and of none after a refusal.    *)
OneByOne ==
  /\ \A i \in 1..Len(requests), j \in 1..Len(done) : Live(i) => ~Declined(j)
  /\ \A i, j \in 1..Len(requests) :
       i < j /\ Live(i) /\ Live(j) => requests[i].call.key[1] = "half"
  /\ \A i \in 1..Len(events) : Granted(i) => NothingLive

(* A server the client is not connected to yet was not asked for anything.   *)
Connecting ==
  /\ \A i \in 1..Len(events) : Appeared(i) =>
       /\ Fresh(events[i].value)
       /\ events[i].value # client.proxy /\ events[i].value # client.init[2]
  /\ \A i, j \in 1..Len(events) :
       i # j /\ Appeared(i) /\ Appeared(j) => events[i].value # events[j].value
  /\ client.init # None => Fresh(client.init[2]) /\ client.proxy # client.init[2]

Due(i) == app.actions[i].type # "list"

(* The actions which are left come after those whose calls were made.        *)
Before(pos) ==
  /\ app.call # None => app.call[2] < pos
  /\ \A j \in 1..Len(requests) :
       IsCall(requests[j].call.key) => requests[j].call.key[2] < pos
  /\ \A j \in 1..Len(events) :
       events[j].type = "Reply" /\ IsCall(events[j].key) => events[j].key[2] < pos
  /\ \A j \in 1..Len(done) : done[j].key[2] < pos
Numbers ==
  /\ InOrder(app.actions)
  /\ \A i \in 1..Len(app.actions) : Due(i) => Before(app.actions[i].pos)

RInv == TInv /\ Known /\ Waiting /\ OneByOne /\ Connecting /\ Numbers /\ NothingAfterRefusal

LEMMA Lengths ==
  ASSUME TInv
  PROVE  /\ Len(requests) \in Nat /\ Len(events) \in Nat /\ Len(done) \in Nat
         /\ Len(app.actions) \in Nat /\ app.actions \in Seq(Action)
         /\ client.proxy \in Nat /\ client.init \in Keys /\ client.init[2] \in Nat
         /\ server.life \in Nat /\ app.call \in Keys
BY KeysAre DEF TInv, App, Client, Server

(* The calls there are, followed by others, those of actions to the server   *)
(* the client is connected to.                                               *)
Extends ==
  /\ Len(requests) <= Len(requests') /\ Len(requests') \in Nat
  /\ \A i \in 1..Len(requests) : requests'[i] = requests[i]
  /\ \A i \in Len(requests) + 1..Len(requests') :
       /\ requests'[i].to <= server.life
       /\ IsCall(requests'[i].call.key) => requests'[i].to = client'.proxy

(* Of the proxy there was and that which was being initialized, one is kept. *)
Keeps ==
  /\ client'.proxy \in {client.proxy, client.init[2], Down}
  /\ client'.init = None \/ (client'.init = client.init /\ client'.proxy = client.proxy)

LEMMA SameWorld ==
  ASSUME Inside
  PROVE  /\ server' = server /\ done' = done
         /\ \A life : Current(life)' <=> Current(life)
         /\ \A j : Declined(j)' <=> Declined(j)
<1>1. server' = server /\ done' = done
  BY DEF Inside
<1>2. \A life : Current(life)' <=> Current(life)
  BY <1>1 DEF Current
<1>3. \A j : Declined(j)' <=> Declined(j)
  BY <1>1 DEF Declined, Current
<1>4. QED
  BY <1>1, <1>2, <1>3

LEMMA FreshKept ==
  ASSUME TInv, Inside, Extends, NEW life, Fresh(life), life # client'.proxy
  PROVE  Fresh(life)'
<1>1. ASSUME NEW i \in 1..Len(requests'), IsCall(requests'[i].call.key)
      PROVE  requests'[i].to # life
  <2>1. i \in 1..Len(requests) \/ i \in Len(requests) + 1..Len(requests')
    BY Lengths DEF Extends
  <2>2. CASE i \in 1..Len(requests)
    <3>1. requests'[i] = requests[i]
      BY <2>2 DEF Extends
    <3>2. QED
      BY <1>1, <2>2, <3>1 DEF Fresh
  <2>3. CASE i \in Len(requests) + 1..Len(requests')
    BY <1>1, <2>3 DEF Extends
  <2>4. QED
    BY <2>1, <2>2, <2>3
<1>2. \A j \in 1..Len(done') : done'[j].life # life
  BY SameWorld DEF Fresh
<1>3. QED
  BY <1>1, <1>2 DEF Fresh

LEMMA ToolConnecting ==
  ASSUME TInv, TInv', Known, Connecting, Inside, NEW k \in {0, 1}, Took(k), Extends, Keeps
  PROVE  Known' /\ Connecting'
<1>1. /\ server' = server /\ done' = done
  BY SameWorld
<1>2. None[2] = 0 /\ Down = 0
  BY KeysAre DEF Down
<1>3. client'.proxy <= server.life /\ client'.init[2] <= server.life
  BY <1>2, Lengths DEF Known, Keeps
<1>4. ASSUME NEW i \in 1..Len(requests') PROVE requests'[i].to <= server.life
  <2>1. i \in 1..Len(requests) \/ i \in Len(requests) + 1..Len(requests')
    BY Lengths DEF Extends
  <2>2. QED
    BY <2>1 DEF Extends, Known
<1>5. ASSUME NEW i \in 1..Len(events')
      PROVE  i + k \in 1..Len(events) /\ events'[i] = events[i + k]
  <2>1. Len(events) \in Nat /\ Len(events') \in Nat /\ Len(events') + k <= Len(events)
    BY Lengths DEF Took
  <2>2. QED
    BY <2>1 DEF Took
<1>6. Known'
  <2>1. (server.up => server.life # Down)'
    BY <1>1 DEF Known
  <2>2. \A j \in 1..Len(done') : done'[j].life <= server'.life
    BY <1>1 DEF Known
  <2>3. \A i \in 1..Len(events') : Appeared(i)' => events'[i].value <= server'.life /\ events'[i].value # Down
    BY <1>1, <1>5 DEF Known, Appeared
  <2>4. QED
    BY <1>1, <1>3, <1>4, <2>1, <2>2, <2>3 DEF Known
<1>7. ASSUME NEW i \in 1..Len(events'), Appeared(i)'
      PROVE  \E value : /\ events'[i].value = value /\ Fresh(value)'
                        /\ value # client'.proxy /\ value # client'.init[2]
  <2>1. PICK j \in 1..Len(events) : j = i + k /\ events'[i] = events[j] /\ Appeared(j)
    BY <1>5, <1>7 DEF Appeared
  <2>2. PICK value : value = events[j].value
    OBVIOUS
  <2>3. Fresh(value) /\ value # client.proxy /\ value # client.init[2] /\ value # Down
    BY <2>1, <2>2 DEF Connecting, Known
  <2>4. value # client'.proxy /\ value # client'.init[2]
    BY <1>2, <2>3 DEF Keeps
  <2>5. Fresh(value)'
    BY <2>3, <2>4, FreshKept
  <2>6. events'[i].value = value
    BY <2>1, <2>2
  <2>7. QED
    BY <2>4, <2>5, <2>6
<1>8. Connecting'
  <2>1. \A i \in 1..Len(events') : Appeared(i)' =>
           /\ Fresh(events[i].value)'
           /\ events'[i].value # client'.proxy /\ events'[i].value # client'.init[2]
    <3>1. ASSUME NEW i \in 1..Len(events'), Appeared(i)'
          PROVE  /\ Fresh(events[i].value)'
                 /\ events'[i].value # client'.proxy /\ events'[i].value # client'.init[2]
      <4>1. PICK value : /\ events'[i].value = value /\ Fresh(value)'
                         /\ value # client'.proxy /\ value # client'.init[2]
        BY <1>7, <3>1
      <4>2. Fresh(events[i].value)'
        BY <4>1 DEF Fresh
      <4>3. QED
        BY <4>1, <4>2
    <3>2. QED
      BY <3>1
  <2>2. \A i, j \in 1..Len(events') :
           i # j /\ Appeared(i)' /\ Appeared(j)' => events'[i].value # events'[j].value
    <3>1. ASSUME NEW i \in 1..Len(events'), NEW j \in 1..Len(events'), i # j,
                 Appeared(i)', Appeared(j)'
          PROVE  events'[i].value # events'[j].value
      <4>1. PICK m, n \in 1..Len(events) : /\ m = i + k /\ n = j + k
                                           /\ events'[i] = events[m] /\ events'[j] = events[n]
        BY <1>5
      <4>2. m # n /\ Appeared(m) /\ Appeared(n)
        BY <3>1, <4>1 DEF Appeared
      <4>3. QED
        BY <4>1, <4>2 DEF Connecting
    <3>2. QED
      BY <3>1
  <2>3. ASSUME client'.init # None
        PROVE  Fresh(client.init[2])' /\ client'.proxy # client'.init[2]
    <3>1. client'.init = client.init /\ client'.proxy = client.proxy /\ client.init # None
      BY <2>3 DEF Keeps
    <3>2. PICK life : life = client.init[2]
      OBVIOUS
    <3>3. Fresh(life) /\ client.proxy # life
      BY <3>1, <3>2 DEF Connecting
    <3>4. Fresh(life)'
      BY <3>1, <3>3, FreshKept
    <3>5. client'.init[2] = life
      BY <3>1, <3>2
    <3>6. Fresh(client.init[2])'
      BY <3>4, <3>5 DEF Fresh
    <3>7. QED
      BY <3>1, <3>2, <3>3, <3>6
  <2>4. QED
    BY <2>1, <2>2, <2>3 DEF Connecting
<1>9. QED
  BY <1>6, <1>8

(* Nothing is asked of the server, and the call that is waited for may be    *)
(* forgotten.                                                                *)
NoCalls ==
  \A i \in Len(requests) + 1..Len(requests') : ~IsCall(requests'[i].call.key)
Holds ==
  /\ app'.actions \in {app.actions, <<>>}
  /\ \/ app'.call = app.call /\ pending' = pending
     \/ app'.call = None /\ pending' = {}

LEMMA EventsTaken ==
  ASSUME TInv, NEW k \in {0, 1}, Took(k)
  PROVE  \A i \in 1..Len(events') : i + k \in 1..Len(events) /\ events'[i] = events[i + k]
<1>1. Len(events) \in Nat /\ Len(events') \in Nat /\ Len(events') + k <= Len(events)
  BY Lengths DEF Took
<1>2. QED
  BY <1>1 DEF Took

LEMMA BeforeKept ==
  ASSUME TInv, Inside, NEW k \in {0, 1}, Took(k), Extends, NEW pos, Before(pos),
         app'.call # None => app'.call[2] < pos,
         \A i \in Len(requests) + 1..Len(requests') :
            IsCall(requests'[i].call.key) => requests'[i].call.key[2] < pos
  PROVE  Before(pos)'
<1>1. ASSUME NEW i \in 1..Len(requests'), IsCall(requests'[i].call.key)
      PROVE  requests'[i].call.key[2] < pos
  <2>1. i \in 1..Len(requests) \/ i \in Len(requests) + 1..Len(requests')
    BY Lengths DEF Extends
  <2>2. CASE i \in 1..Len(requests)
    <3>1. requests'[i] = requests[i]
      BY <2>2 DEF Extends
    <3>2. QED
      BY <1>1, <2>2, <3>1 DEF Before
  <2>3. QED
    BY <1>1, <2>1, <2>2
<1>2. ASSUME NEW i \in 1..Len(events'), events'[i].type = "Reply", IsCall(events'[i].key)
      PROVE  events'[i].key[2] < pos
  <2>1. PICK j \in 1..Len(events) : events'[i] = events[j]
    BY EventsTaken
  <2>2. QED
    BY <1>2, <2>1 DEF Before
<1>3. \A j \in 1..Len(done') : done'[j].key[2] < pos
  BY SameWorld DEF Before
<1>4. QED
  BY <1>1, <1>2, <1>3 DEF Before

LEMMA IdleKeeps ==
  ASSUME RInv, TInv', Inside, NEW k \in {0, 1}, Took(k), Extends, NoCalls, Holds
  PROVE  Waiting' /\ OneByOne' /\ Numbers' /\ NothingAfterRefusal'
<1>1. TInv /\ Waiting /\ OneByOne /\ Numbers /\ NothingAfterRefusal
  BY DEF RInv
<1>2. done' = done /\ (\A life : Current(life)' <=> Current(life))
      /\ \A j : Declined(j)' <=> Declined(j)
  BY SameWorld
<1>3. Waiting'
  BY <1>1 DEF Waiting, Holds
<1>4. ASSUME NEW i \in 1..Len(requests'), Live(i)'
      PROVE  i \in 1..Len(requests) /\ Live(i) /\ requests'[i] = requests[i]
  <2>1. IsCall(requests'[i].call.key) /\ Current(requests[i].to)'
    BY <1>4 DEF Live
  <2>2. i \in 1..Len(requests) \/ i \in Len(requests) + 1..Len(requests')
    BY <1>1, Lengths DEF Extends
  <2>3. i \in 1..Len(requests) /\ requests'[i] = requests[i]
    BY <2>1, <2>2 DEF Extends, NoCalls
  <2>4. Current(requests[i].to)
    <3>1. PICK life : life = requests[i].to
      OBVIOUS
    <3>2. Current(life)'
      BY <2>1, <2>3, <3>1 DEF Current
    <3>3. QED
      BY <1>2, <3>1, <3>2
  <2>5. QED
    BY <2>1, <2>3, <2>4 DEF Live
<1>5. ASSUME NothingLive PROVE NothingLive'
  <2>1. \A j \in 1..Len(requests') : ~Live(j)'
    BY <1>4, <1>5 DEF NothingLive
  <2>2. \A j \in 1..Len(done') : ~Declined(j)'
    BY <1>2, <1>5 DEF NothingLive
  <2>3. QED
    BY <2>1, <2>2 DEF NothingLive
<1>6. OneByOne'
  <2>1. \A i \in 1..Len(requests'), j \in 1..Len(done') : Live(i)' => ~Declined(j)'
    BY <1>1, <1>2, <1>4 DEF OneByOne
  <2>2. \A i, j \in 1..Len(requests') :
          i < j /\ Live(i)' /\ Live(j)' => requests'[i].call.key[1] = "half"
    <3>1. ASSUME NEW i \in 1..Len(requests'), NEW j \in 1..Len(requests'), i < j, Live(i)', Live(j)'
          PROVE  requests'[i].call.key[1] = "half"
      <4>1. /\ i \in 1..Len(requests) /\ Live(i) /\ requests'[i] = requests[i]
            /\ j \in 1..Len(requests) /\ Live(j)
        BY <1>4, <3>1
      <4>2. QED
        BY <1>1, <3>1, <4>1 DEF OneByOne
    <3>2. QED
      BY <3>1
  <2>3. ASSUME NEW i \in 1..Len(events'), Granted(i)' PROVE NothingLive'
    <3>1. PICK j \in 1..Len(events) : events'[i] = events[j]
      BY <1>1, EventsTaken
    <3>2. pending' \subseteq pending
      BY DEF Holds
    <3>3. Granted(j)
      BY <2>3, <3>1, <3>2 DEF Granted
    <3>4. QED
      BY <1>1, <1>5, <3>3 DEF OneByOne
  <2>4. QED
    BY <2>1, <2>2, <2>3 DEF OneByOne
<1>7. Numbers'
  <2>1. CASE app'.actions = app.actions
    <3>1. InOrder(app.actions)'
      BY <1>1, <2>1 DEF Numbers, InOrder
    <3>2. ASSUME NEW i \in 1..Len(app'.actions), Due(i)' PROVE Before(app.actions[i].pos)'
      <4>1. PICK pos : pos = app.actions[i].pos
        OBVIOUS
      <4>2. Before(pos)
        BY <1>1, <2>1, <3>2, <4>1 DEF Numbers, Due
      <4>3. app'.call # None => app'.call[2] < pos
        BY <4>2 DEF Before, Holds
      <4>4. Before(pos)'
        BY <1>1, <4>2, <4>3, BeforeKept DEF NoCalls
      <4>5. QED
        BY <2>1, <4>1, <4>4 DEF Before
    <3>3. QED
      BY <3>1, <3>2 DEF Numbers
  <2>2. CASE app'.actions = <<>>
    <3>1. Len(app'.actions) = 0
      BY <2>2
    <3>2. QED
      BY <3>1 DEF Numbers, InOrder
  <2>3. QED
    BY <2>1, <2>2 DEF Holds
<1>8. NothingAfterRefusal'
  BY <1>1, <1>2 DEF NothingAfterRefusal
<1>9. QED
  BY <1>3, <1>6, <1>7, <1>8

(* The next call is made when nothing is left of the one before.             *)
LEMMA GoExtends ==
  ASSUME TInv, Known, NEW a \in App, NEW x \in Client, client' = x, x.proxy <= server.life,
         NEW kept, NEW n \in 1..Len(a.actions), GoesOn(a, x, kept, n)
  PROVE  /\ Extends /\ a.actions[n] \in Action /\ a.actions[n].type # "list"
         /\ a.actions[n].pos \in Nat
         /\ \A i \in Len(requests) + 1..Len(requests') :
              /\ requests'[i].to = x.proxy /\ IsCall(requests'[i].call.key)
              /\ requests'[i].call.key[2] = a.actions[n].pos
              /\ i < Len(requests') => requests'[i].call.key[1] = "half"
<1>1. PICK sent \in Seq(Asking) :
        /\ sent = CallsOf(a.actions[n], x) /\ sent # <<>>
        /\ CallsAre(a.actions[n], sent) /\ Sends(sent, x.proxy)
  BY DEF GoesOn
<1>2. a.actions[n] \in Action
  BY DEF App
<1>3. a.actions[n].type # "list" /\ a.actions[n].pos \in Nat
  BY <1>1, <1>2, CallsOfIs DEF Action
<1>4. PICK m, l \in Nat : m = Len(requests) /\ l = Len(sent)
  BY Lengths
<1>5. /\ Len(requests') = m + l
      /\ \A i \in 1..l : requests'[m + i].to = x.proxy /\ requests'[m + i].call = sent[i]
  BY <1>4, <1>1 DEF Sends
<1>6. \A i \in 1..l : /\ IsCall(sent[i].key) /\ sent[i].key[2] = a.actions[n].pos
                      /\ i < l => sent[i].key[1] = "half"
  BY <1>1, <1>4 DEF CallsAre
<1>7. ASSUME NEW i \in m + 1..m + l
      PROVE  /\ requests'[i].to = x.proxy /\ IsCall(requests'[i].call.key)
             /\ requests'[i].call.key[2] = a.actions[n].pos
             /\ i < m + l => requests'[i].call.key[1] = "half"
  <2>1. PICK j \in 1..l : j = i - m /\ m + j = i /\ (i < m + l => j < l)
    <3>1. /\ i - m \in 1..l /\ m + (i - m) = i
          /\ i < m + l => i - m < l
      BY <1>4
    <3>2. QED
      BY <3>1
  <2>2. requests'[i].to = x.proxy /\ requests'[i].call = sent[j]
    BY <1>5, <2>1
  <2>3. QED
    BY <1>6, <2>1, <2>2
<1>8. Extends
  <2>1. Len(requests) <= Len(requests') /\ Len(requests') \in Nat
    BY <1>4, <1>5
  <2>2. QED
    BY <1>1, <1>4, <1>5, <1>7, <2>1 DEF Extends, Sends
<1>9. QED
  BY <1>2, <1>3, <1>4, <1>5, <1>7, <1>8

LEMMA GoKeeps ==
  ASSUME RInv, TInv', Inside, NEW k \in {0, 1}, Took(k), NEW a \in App,
         a.actions = app.actions, NEW x \in Client, client' = x, x.proxy <= server.life,
         NEW n \in 1..Len(a.actions), GoesOn(a, x, {}, n),
         Current(x.proxy) => NothingLive
  PROVE  Waiting' /\ OneByOne' /\ Numbers' /\ NothingAfterRefusal' /\ Extends
<1>1. TInv /\ Known /\ Waiting /\ OneByOne /\ Numbers /\ NothingAfterRefusal
  BY DEF RInv
<1>2. done' = done /\ (\A life : Current(life)' <=> Current(life))
      /\ \A j : Declined(j)' <=> Declined(j)
  BY SameWorld
<1>3. PICK pos : pos = a.actions[n].pos
  OBVIOUS
<1>4. /\ Extends /\ a.actions[n].type # "list" /\ pos \in Nat
      /\ \A i \in Len(requests) + 1..Len(requests') :
           /\ requests'[i].to = x.proxy /\ IsCall(requests'[i].call.key)
           /\ requests'[i].call.key[2] = pos
           /\ i < Len(requests') => requests'[i].call.key[1] = "half"
  BY <1>1, <1>3, GoExtends
<1>5. /\ app'.call = <<"action", pos>> /\ pending' = {<<"action", pos>>}
      /\ app'.actions = SubSeq(a.actions, n + 1, Len(a.actions))
  BY <1>3 DEF GoesOn
<1>6. PICK key : key = <<"action", pos>>
  OBVIOUS
<1>7. key[1] = "action" /\ key[2] = pos /\ key # None
  BY <1>4, <1>6, KeysAre
<1>8. Waiting'
  BY <1>5, <1>6, <1>7 DEF Waiting
<1>9. ASSUME NEW i \in 1..Len(requests'), Live(i)'
      PROVE  \/ i \in 1..Len(requests) /\ Live(i) /\ requests'[i] = requests[i]
             \/ /\ i \in Len(requests) + 1..Len(requests') /\ NothingLive
                /\ i < Len(requests') => requests'[i].call.key[1] = "half"
  <2>1. PICK life : life = requests'[i].to
    OBVIOUS
  <2>2. IsCall(requests'[i].call.key) /\ Current(life)'
    BY <1>9, <2>1 DEF Live, Current
  <2>3. Current(life)
    BY <1>2, <2>2
  <2>4. i \in 1..Len(requests) \/ i \in Len(requests) + 1..Len(requests')
    BY <1>1, <1>4, Lengths DEF Extends
  <2>5. CASE i \in 1..Len(requests)
    <3>1. requests'[i] = requests[i]
      BY <1>4, <2>5 DEF Extends
    <3>2. QED
      BY <2>1, <2>2, <2>3, <2>5, <3>1 DEF Live
  <2>6. CASE i \in Len(requests) + 1..Len(requests')
    BY <1>4, <2>1, <2>3, <2>6
  <2>7. QED
    BY <2>4, <2>5, <2>6
<1>10. OneByOne'
  <2>1. \A i \in 1..Len(requests'), j \in 1..Len(done') : Live(i)' => ~Declined(j)'
    BY <1>1, <1>2, <1>9 DEF OneByOne, NothingLive
  <2>2. ASSUME NEW i \in 1..Len(requests'), NEW j \in 1..Len(requests'), i < j, Live(i)', Live(j)'
        PROVE  requests'[i].call.key[1] = "half"
    <3>1. CASE i \in 1..Len(requests) /\ Live(i) /\ requests'[i] = requests[i]
      <4>1. j \in 1..Len(requests) /\ Live(j)
        BY <1>9, <2>2, <3>1 DEF NothingLive
      <4>2. QED
        BY <1>1, <2>2, <3>1, <4>1 DEF OneByOne
    <3>2. CASE /\ i \in Len(requests) + 1..Len(requests') /\ NothingLive
               /\ i < Len(requests') => requests'[i].call.key[1] = "half"
      <4>1. Len(requests') \in Nat
        BY <1>4 DEF Extends
      <4>2. QED
        BY <2>2, <3>2, <4>1
    <3>3. QED
      BY <1>9, <2>2, <3>1, <3>2
  <2>3. ASSUME NEW i \in 1..Len(events'), Granted(i)' PROVE FALSE
    <3>1. PICK j \in 1..Len(events) : events'[i] = events[j]
      BY <1>1, EventsTaken
    <3>2. events[j].type = "Reply" /\ events[j].key = key
      BY <1>5, <1>6, <2>3, <3>1 DEF Granted
    <3>3. Before(pos)
      BY <1>1, <1>3, <1>4 DEF Numbers, Due
    <3>4. IsCall(key)
      BY <1>7 DEF IsCall
    <3>5. pos < pos
      BY <1>7, <3>2, <3>3, <3>4 DEF Before
    <3>6. QED
      BY <1>4, <3>5
  <2>4. QED
    BY <2>1, <2>2, <2>3 DEF OneByOne
<1>11. Numbers'
  <2>0. PICK rest : rest = SubSeq(a.actions, n + 1, Len(a.actions))
    OBVIOUS
  <2>1. PICK l \in Nat : l = Len(a.actions) /\ rest = SubSeq(a.actions, n + 1, Len(a.actions))
    BY <1>1, <2>0, Lengths
  <2>2. a.actions \in Seq(Action)
    BY <1>1, Lengths
  <2>3. /\ Len(rest) = l - n /\ n \in 1..l
        /\ \A j \in 1..l - n : rest[j] = a.actions[j + n]
    BY <2>1, <2>2, RestIs
  <2>4. ASSUME NEW j \in 1..l - n
        PROVE  j + n \in 1..l /\ n < j + n /\ rest[j] = a.actions[j + n]
    <3>1. n \in Nat /\ j \in Nat /\ j > 0 /\ j <= l - n
      BY <2>1, <2>3
    <3>2. j + n \in 1..l /\ n < j + n
      BY <2>1, <3>1
    <3>3. QED
      BY <2>3, <3>2
  <2>5. InOrder(rest)
    <3>1. ASSUME NEW i \in 1..l - n, NEW j \in 1..l - n, i < j,
                 rest[i].type # "list", rest[j].type # "list"
          PROVE  rest[i].pos < rest[j].pos
      <4>1. PICK v, w \in 1..l : v = i + n /\ w = j + n /\ v < w
        <5>1. i + n \in 1..l /\ j + n \in 1..l /\ i + n < j + n
          BY <2>1, <2>3, <3>1
        <5>2. QED
          BY <5>1
      <4>2. rest[i] = a.actions[v] /\ rest[j] = a.actions[w]
        BY <2>4, <4>1
      <4>3. QED
        BY <1>1, <2>1, <3>1, <4>1, <4>2 DEF Numbers, InOrder
    <3>2. QED
      BY <2>3, <3>1 DEF InOrder
  <2>6. ASSUME NEW j \in 1..l - n, rest[j].type # "list"
        PROVE  \E later : later = rest[j].pos /\ Before(later)'
    <3>0. PICK later : later = rest[j].pos
      OBVIOUS
    <3>1. PICK w \in 1..l : w = j + n /\ n < w /\ later = a.actions[w].pos
      BY <2>4, <3>0
    <3>2. rest[j] = a.actions[w]
      BY <2>4, <3>1
    <3>3. Before(later)
      BY <1>1, <2>1, <2>6, <3>1, <3>2 DEF Numbers, Due
    <3>4. pos < later
      BY <1>1, <1>3, <1>4, <2>1, <2>3, <2>6, <3>1, <3>2 DEF Numbers, InOrder
    <3>5. app'.call # None => app'.call[2] < later
      BY <1>5, <1>6, <1>7, <3>4
    <3>6. \A i \in Len(requests) + 1..Len(requests') :
            IsCall(requests'[i].call.key) => requests'[i].call.key[2] < later
      BY <1>4, <3>4
    <3>7. Before(later)'
      BY <1>1, <1>4, <3>3, <3>5, <3>6, BeforeKept
    <3>8. QED
      BY <3>1, <3>2, <3>7
  <2>7. app'.actions = rest
    BY <1>5, <2>1
  <2>8. ASSUME NEW j \in 1..Len(app'.actions), Due(j)' PROVE Before(app.actions[j].pos)'
    <3>1. j \in 1..l - n /\ rest[j].type # "list"
      BY <2>3, <2>7, <2>8 DEF Due
    <3>2. PICK later : later = rest[j].pos /\ Before(later)'
      BY <2>6, <3>1
    <3>3. QED
      BY <2>7, <3>2 DEF Before
  <2>9. InOrder(app.actions)'
    BY <2>5, <2>7 DEF InOrder
  <2>10. QED
    BY <2>8, <2>9 DEF Numbers
<1>12. NothingAfterRefusal'
  BY <1>1, <1>2 DEF NothingAfterRefusal
<1>13. QED
  BY <1>4, <1>8, <1>10, <1>11, <1>12

LEMMA ToolKeeps ==
  ASSUME RInv, TInv', Inside, NEW k \in {0, 1}, Took(k), Extends, NoCalls, Holds, Keeps
  PROVE  RInv'
<1>1. TInv /\ Known /\ Connecting
  BY DEF RInv
<1>2. Known' /\ Connecting'
  BY <1>1, ToolConnecting
<1>3. Waiting' /\ OneByOne' /\ Numbers' /\ NothingAfterRefusal'
  BY IdleKeeps
<1>4. QED
  BY <1>2, <1>3 DEF RInv

LEMMA SameRequests ==
  ASSUME TInv, requests' = requests
  PROVE  Extends /\ NoCalls
<1>1. Len(requests) \in Nat
  BY Lengths
<1>2. ~(\E i \in Len(requests) + 1..Len(requests') : TRUE)
  BY <1>1
<1>3. QED
  BY <1>1, <1>2 DEF Extends, NoCalls

LEMMA OpensExtends ==
  ASSUME TInv, NEW kind \in {"open", "init"}, NEW life \in Nat, Opens(kind, life),
         life <= server.life
  PROVE  Extends /\ NoCalls
<1>1. /\ Len(requests') \in Nat /\ Len(requests) <= Len(requests')
      /\ \A i \in Len(requests) + 1..Len(requests') :
           ~IsCall(requests'[i].call.key) /\ requests'[i].to = life
  BY DEF Opens, IsCall, IsOf
<1>2. QED
  BY <1>1 DEF Opens, Extends, NoCalls

LEMMA NothingTaken ==
  ASSUME TInv, events' = events
  PROVE  Took(0)
BY DEF TInv, Took

LEMMA AppearedKeeps ==
  ASSUME RInv, NameAppeared
  PROVE  RInv'
<1>1. TInv /\ Known /\ Waiting /\ Connecting
  BY DEF RInv
<1>2. PICK life : life = events[1].value
  OBVIOUS
<1>3. /\ TInv' /\ Inside /\ Took(1) /\ events[1].type = "Appeared" /\ 1 \in 1..Len(events)
      /\ UNCHANGED <<app, pending>> /\ client'.proxy = client.proxy
      /\ client'.init = <<"init", life>>
      /\ \E q \in Asking : q.key = <<"init", life>> /\ q.method = "GetAll" /\ Sends(<<q>>, life)
  BY <1>1, <1>2, AppearedStep
<1>4. /\ Fresh(life) /\ life # client.proxy /\ life <= server.life /\ life \in Nat
  <2>1. events[1] \in Telling
    BY <1>1, <1>3 DEF TInv
  <2>2. Appeared(1) /\ life \in Nat
    BY <1>2, <1>3, <2>1 DEF Appeared, Telling
  <2>3. Fresh(life) /\ life # client.proxy
    BY <1>1, <1>2, <1>3, <2>2 DEF Connecting
  <2>4. life <= server.life
    BY <1>1, <1>2, <1>3, <2>2 DEF Known
  <2>5. QED
    BY <2>2, <2>3, <2>4
<1>5. PICK key : key = <<"init", life>> /\ key[1] = "init" /\ key[2] = life /\ key # None
  <2>1. PICK key : key = <<"init", life>>
    OBVIOUS
  <2>2. key[1] = "init" /\ key[2] = life
    BY <1>4, <2>1, KeysAre
  <2>3. key # None
    BY <2>2, KeysAre
  <2>4. QED
    BY <2>1, <2>2, <2>3
<1>6. Extends /\ NoCalls
  <2>1. PICK q \in Asking : q.key = key /\ q.method = "GetAll" /\ Sends(<<q>>, life)
    BY <1>3, <1>5
  <2>2. PICK sent : sent = <<q>>
    OBVIOUS
  <2>3. sent \in Seq(Asking) /\ Len(sent) = 1 /\ sent[1] = q
    BY <2>2
  <2>4. \A i \in 1..Len(sent) : IsOf("init", sent[i])
    BY <1>5, <2>1, <2>3 DEF IsOf, MethodOf
  <2>5. Opens("init", life)
    BY <1>1, <1>4, <2>1, <2>2, <2>3, <2>4, OpensIs
  <2>6. QED
    BY <1>1, <1>4, <2>5, OpensExtends
<1>7. Holds
  BY <1>3 DEF Holds
<1>8. Waiting' /\ OneByOne' /\ Numbers' /\ NothingAfterRefusal'
  BY <1>3, <1>6, <1>7, IdleKeeps
<1>9. /\ server' = server /\ done' = done
  BY <1>3, SameWorld
<1>10. \A i \in 1..Len(events') : i + 1 \in 1..Len(events) /\ events'[i] = events[i + 1]
  BY <1>1, <1>3, EventsTaken
<1>11. Known'
  <2>1. ASSUME NEW i \in 1..Len(requests') PROVE requests'[i].to <= server.life
    <3>1. i \in 1..Len(requests) \/ i \in Len(requests) + 1..Len(requests')
      BY <1>1, <1>6, Lengths DEF Extends
    <3>2. QED
      BY <1>1, <1>6, <3>1 DEF Extends, Known
  <2>2. (server.up => server.life # Down)'
    BY <1>1, <1>9 DEF Known
  <2>3. \A j \in 1..Len(done') : done'[j].life <= server'.life
    BY <1>1, <1>9 DEF Known
  <2>4. \A i \in 1..Len(events') :
          Appeared(i)' => events'[i].value <= server'.life /\ events'[i].value # Down
    BY <1>1, <1>9, <1>10 DEF Known, Appeared
  <2>5. client'.proxy <= server'.life /\ client'.init[2] <= server'.life
    BY <1>1, <1>3, <1>4, <1>5, <1>9 DEF Known
  <2>6. QED
    BY <1>9, <2>1, <2>2, <2>3, <2>4, <2>5 DEF Known
<1>12. Connecting'
  <2>1. ASSUME NEW i \in 1..Len(events'), Appeared(i)'
        PROVE  /\ Fresh(events[i].value)'
               /\ events'[i].value # client'.proxy /\ events'[i].value # client'.init[2]
    <3>1. PICK j \in 1..Len(events) : j = i + 1 /\ events'[i] = events[j] /\ Appeared(j)
      BY <1>10, <2>1 DEF Appeared
    <3>2. PICK value : value = events[j].value
      OBVIOUS
    <3>3. Fresh(value) /\ value # client'.proxy
      BY <1>1, <1>3, <3>1, <3>2 DEF Connecting
    <3>4. value # life
      <4>1. Appeared(1) /\ j # 1
        BY <1>3, <3>1 DEF Appeared
      <4>2. QED
        BY <1>1, <1>2, <1>3, <3>1, <3>2, <4>1 DEF Connecting
    <3>5. Fresh(value)'
      BY <1>1, <1>3, <1>6, <3>3, FreshKept
    <3>6. events'[i].value = value
      BY <3>1, <3>2
    <3>7. Fresh(events[i].value)'
      BY <3>5, <3>6 DEF Fresh
    <3>8. QED
      BY <1>3, <1>5, <3>3, <3>4, <3>6, <3>7
  <2>2. ASSUME NEW i \in 1..Len(events'), NEW j \in 1..Len(events'), i # j,
               Appeared(i)', Appeared(j)'
        PROVE  events'[i].value # events'[j].value
    <3>1. PICK m, n \in 1..Len(events) : /\ m = i + 1 /\ n = j + 1
                                         /\ events'[i] = events[m] /\ events'[j] = events[n]
      BY <1>10
    <3>2. m # n /\ Appeared(m) /\ Appeared(n)
      BY <2>2, <3>1 DEF Appeared
    <3>3. QED
      BY <1>1, <3>1, <3>2 DEF Connecting
  <2>3. Fresh(client.init[2])' /\ client'.proxy # client'.init[2]
    <3>1. Fresh(life)'
      BY <1>1, <1>3, <1>4, <1>6, FreshKept
    <3>2. client'.init[2] = life
      BY <1>3, <1>5
    <3>3. QED
      BY <1>3, <1>4, <3>1, <3>2 DEF Fresh
  <2>4. QED
    BY <2>1, <2>2, <2>3 DEF Connecting
<1>13. QED
  BY <1>3, <1>8, <1>11, <1>12 DEF RInv

LEMMA InitKeeps ==
  ASSUME RInv, InitFinished
  PROVE  RInv'
<1>1. TInv /\ Known /\ Waiting /\ Connecting
  BY DEF RInv
<1>2. PICK e : e = events[1]
  OBVIOUS
<1>3. /\ TInv' /\ Inside /\ Took(1) /\ e.key[1] = "init"
      /\ \/ UNCHANGED <<app, client, pending, requests>>
         \/ \E x \in Client : Initialized(e, x)
         \/ InitFailed(e)
  BY <1>1, <1>2, InitStep
<1>4. CASE UNCHANGED <<app, client, pending, requests>>
  <2>1. Holds /\ Keeps
    BY <1>4 DEF Holds, Keeps
  <2>2. QED
    BY <1>1, <1>3, <1>4, <2>1, SameRequests, ToolKeeps
<1>5. CASE InitFailed(e)
  <2>1. app'.call = app.call /\ app'.actions = app.actions
    BY <1>1, <1>5, FailTyped DEF InitFailed, TInv
  <2>2. Holds /\ Keeps /\ requests' = requests
    BY <1>5, <2>1 DEF Holds, Keeps, InitFailed
  <2>3. QED
    BY <1>1, <1>3, <2>2, SameRequests, ToolKeeps
<1>6. ASSUME NEW x \in Client, Initialized(e, x) PROVE RInv'
  <2>1. /\ e.key = client.init /\ x.proxy = e.key[2] /\ x.init = None
        /\ Become(NextAction(app, x), pending) /\ app \in App /\ pending \in SUBSET Keys
    BY <1>1, <1>6 DEF Initialized, TInv
  <2>2. /\ client' = x
        /\ app.call # None => app' = app /\ pending' = pending /\ requests' = requests
        /\ app.call = None => \/ EndsNow(app, x, pending)
                              \/ \E i \in 1..Len(app.actions) : GoesOn(app, x, pending, i)
    BY <1>1, <2>1, AdvanceIs
  <2>3. Keeps
    BY <2>1, <2>2 DEF Keeps
  <2>4. x.proxy \in Nat /\ x.proxy <= server.life /\ x.proxy = client.init[2]
    BY <1>1, <2>1 DEF Known, Client
  <2>5. CASE app.call # None
    BY <1>1, <1>3, <2>2, <2>3, <2>5, SameRequests, ToolKeeps DEF Holds
  <2>6. CASE app.call = None /\ EndsNow(app, x, pending)
    <3>1. Holds /\ Opens("open", x.proxy)
      BY <2>6 DEF EndsNow, Holds
    <3>2. Extends /\ NoCalls
      BY <1>1, <2>4, <3>1, OpensExtends
    <3>3. QED
      BY <1>3, <2>3, <3>1, <3>2, ToolKeeps
  <2>7. ASSUME NEW i \in 1..Len(app.actions), app.call = None, GoesOn(app, x, pending, i)
        PROVE  RInv'
    <3>1. pending = {}
      BY <1>1, <2>7 DEF Waiting
    <3>2. GoesOn(app, x, {}, i)
      BY <2>7, <3>1
    <3>3. ASSUME Current(x.proxy) PROVE NothingLive
      <4>1. client.init # None
        BY <1>3, <2>1, KeysAre
      <4>2. Fresh(x.proxy) /\ x.proxy = server.life
        BY <1>1, <2>4, <3>3, <4>1 DEF Connecting, Current
      <4>3. QED
        BY <4>2 DEF NothingLive, Live, Declined, Fresh, Current
    <3>4. Waiting' /\ OneByOne' /\ Numbers' /\ NothingAfterRefusal' /\ Extends
      BY <1>3, <2>1, <2>2, <2>4, <3>2, <3>3, GoKeeps
    <3>5. Known' /\ Connecting'
      BY <1>1, <1>3, <2>3, <3>4, ToolConnecting
    <3>6. QED
      BY <1>3, <3>4, <3>5 DEF RInv
  <2>8. QED
    BY <2>2, <2>5, <2>6, <2>7
<1>7. QED
  BY <1>3, <1>4, <1>5, <1>6

LEMMA CallKeeps ==
  ASSUME RInv, CallFinished
  PROVE  RInv'
<1>1. TInv /\ Known /\ Waiting /\ Connecting /\ OneByOne
  BY DEF RInv
<1>2. PICK e : e = events[1]
  OBVIOUS
<1>3. /\ TInv' /\ Inside /\ Took(1) /\ 1 \in 1..Len(events) /\ e.type = "Reply"
      /\ \/ UNCHANGED <<app, client, pending, requests>>
         \/ \E a \in App : CallDoneWell(e, a)
         \/ CallFailed(e)
  BY <1>1, <1>2, CallStep
<1>4. CASE UNCHANGED <<app, client, pending, requests>>
  <2>1. Holds /\ Keeps
    BY <1>4 DEF Holds, Keeps
  <2>2. QED
    BY <1>1, <1>3, <1>4, <2>1, SameRequests, ToolKeeps
<1>5. e.key \in pending => pending \ {e.key} = {}
  BY <1>1 DEF Waiting
<1>6. CASE CallFailed(e)
  <2>1. Holds /\ Keeps /\ requests' = requests
    BY <1>5, <1>6 DEF Holds, Keeps, CallFailed
  <2>2. QED
    BY <1>1, <1>3, <2>1, SameRequests, ToolKeeps
<1>7. ASSUME NEW a \in App, CallDoneWell(e, a) PROVE RInv'
  <2>1. /\ e.answer = "OK" /\ e.key \in pending /\ a.call = None /\ a.actions = app.actions
        /\ Become(NextAction(a, client), {}) /\ client \in Client /\ {} \in SUBSET Keys
    BY <1>1, <1>5, <1>7 DEF CallDoneWell, TInv
  <2>2. /\ client' = client
        /\ \/ EndsNow(a, client, {})
           \/ \E i \in 1..Len(a.actions) : GoesOn(a, client, {}, i)
    BY <1>1, <2>1, AdvanceIs
  <2>3. Keeps
    BY <2>2 DEF Keeps
  <2>4. client.proxy \in Nat /\ client.proxy <= server.life
    BY <1>1, Lengths DEF Known
  <2>5. CASE EndsNow(a, client, {})
    <3>1. Holds /\ Opens("open", client.proxy)
      BY <2>5 DEF EndsNow, Holds
    <3>2. Extends /\ NoCalls
      BY <1>1, <2>4, <3>1, OpensExtends
    <3>3. QED
      BY <1>3, <2>3, <3>1, <3>2, ToolKeeps
  <2>6. ASSUME NEW i \in 1..Len(a.actions), GoesOn(a, client, {}, i)
        PROVE  RInv'
    <3>1. NothingLive
      <4>1. Granted(1)
        BY <1>2, <1>3, <2>1 DEF Granted
      <4>2. QED
        BY <1>1, <1>3, <4>1 DEF OneByOne
    <3>2. Waiting' /\ OneByOne' /\ Numbers' /\ NothingAfterRefusal' /\ Extends
      BY <1>3, <2>1, <2>2, <2>4, <2>6, <3>1, GoKeeps
    <3>3. Known' /\ Connecting'
      BY <1>1, <1>3, <2>3, <3>2, ToolConnecting
    <3>4. QED
      BY <1>3, <3>2, <3>3 DEF RInv
  <2>7. QED
    BY <2>2, <2>5, <2>6
<1>8. QED
  BY <1>3, <1>4, <1>6, <1>7

LEMMA ToolKeepsRInv ==
  ASSUME RInv,
         \/ NameVanished \/ StartFinished \/ FlagsChanged
         \/ (\E s \in {"SIGTERM", "SIGINT"} : Signal(s)) \/ Timeout \/ Quit
  PROVE  RInv'
<1>1. TInv /\ Waiting
  BY DEF RInv
<1>2. CASE NameVanished
  <2>1. /\ TInv' /\ Inside /\ Took(1) /\ UNCHANGED <<app, pending, requests>>
        /\ client'.proxy = Down /\ client'.init = None
    BY <1>1, <1>2, VanishedStep
  <2>2. Holds /\ Keeps
    BY <2>1 DEF Holds, Keeps
  <2>3. QED
    BY <1>1, <2>1, <2>2, SameRequests, ToolKeeps
<1>3. CASE StartFinished \/ FlagsChanged
  <2>1. /\ TInv' /\ Inside /\ Took(1) /\ UNCHANGED <<app, pending, requests>>
        /\ client'.proxy = client.proxy /\ client'.init = client.init
    BY <1>1, <1>3, HeardStep
  <2>2. Holds /\ Keeps
    BY <2>1 DEF Holds, Keeps
  <2>3. QED
    BY <1>1, <2>1, <2>2, SameRequests, ToolKeeps
<1>4. ASSUME NEW s \in {"SIGTERM", "SIGINT"}, Signal(s) PROVE RInv'
  <2>1. /\ TInv' /\ Inside /\ UNCHANGED <<client, requests, events>>
        /\ app'.call = None /\ app'.actions = app.actions /\ pending' = pending \ {app.call}
    BY <1>1, <1>4, SignalStep
  <2>2. pending' = {}
    BY <1>1, <2>1 DEF Waiting
  <2>3. Holds /\ Keeps /\ Took(0)
    BY <1>1, <2>1, <2>2, NothingTaken DEF Holds, Keeps
  <2>4. QED
    BY <1>1, <2>1, <2>3, SameRequests, ToolKeeps
<1>5. CASE Timeout
  <2>1. /\ TInv' /\ Inside /\ UNCHANGED <<client, pending, requests, events>>
        /\ app'.call = app.call /\ app'.actions = app.actions
    BY <1>1, <1>5, TimeoutStep
  <2>2. Holds /\ Keeps /\ Took(0)
    BY <1>1, <2>1, NothingTaken DEF Holds, Keeps
  <2>3. QED
    BY <1>1, <2>1, <2>2, SameRequests, ToolKeeps
<1>6. CASE Quit
  <2>1. /\ TInv' /\ Inside /\ Took(0) /\ UNCHANGED <<client, pending, requests>>
        /\ app'.call = app.call /\ app'.actions = app.actions
    BY <1>1, <1>6, QuitStep
  <2>2. Holds /\ Keeps
    BY <2>1 DEF Holds, Keeps
  <2>3. QED
    BY <1>1, <2>1, <2>2, SameRequests, ToolKeeps
<1>7. QED
  BY <1>2, <1>3, <1>4, <1>5, <1>6

LEMMA ElementsAre ==
  ASSUME TInv
  PROVE  /\ \A i \in 1..Len(requests) : requests[i].to \in Nat /\ requests[i].call.key \in Keys
         /\ \A i \in 1..Len(done) : done[i].life \in Nat /\ done[i].key \in Keys
         /\ \A i \in 1..Len(events) : events[i].value \in Nat /\ events[i].key \in Keys
<1>1. PICK S : S = [to : Nat, call : Asking]
  OBVIOUS
<1>2. requests \in Seq(S)
  BY <1>1 DEF TInv
<1>3. \A i \in 1..Len(requests) : requests[i] \in S
  BY <1>2
<1>4. \A i \in 1..Len(requests) : requests[i].to \in Nat /\ requests[i].call \in Asking
  BY <1>1, <1>3
<1>5. PICK R : R = [key : Keys, answer : Answers, life : Nat]
  OBVIOUS
<1>6. done \in Seq(R)
  BY <1>5 DEF TInv
<1>7. \A i \in 1..Len(done) : done[i] \in R
  BY <1>6
<1>8. events \in Seq(Telling)
  BY DEF TInv
<1>9. \A i \in 1..Len(events) : events[i] \in Telling
  BY <1>8
<1>10. QED
  BY <1>4, <1>5, <1>7, <1>9 DEF Telling, Asking

LEMMA AddsIs ==
  ASSUME TInv, NEW n \in Nat, Adds(n), NEW i \in 1..Len(events')
  PROVE  \/ i \in 1..Len(events) /\ events'[i] = events[i]
         \/ \E j \in 1..n : i = Len(events) + j
<1>1. Len(events) \in Nat /\ Len(events') = Len(events) + n
  BY Lengths DEF Adds
<1>2. CASE i \in 1..Len(events)
  BY <1>2 DEF Adds
<1>3. CASE i \notin 1..Len(events)
  <2>1. i - Len(events) \in 1..n /\ i = Len(events) + (i - Len(events))
    BY <1>1, <1>3
  <2>2. QED
    BY <2>1
<1>4. QED
  BY <1>2, <1>3

(* What happens to the server: of it, the tool hears what does not matter,   *)
(* or that it has been started, before it has been asked for anything.       *)
World(n) ==
  /\ UNCHANGED <<app, client, pending, requests, program, done>>
  /\ server.life <= server'.life
  /\ \A life : life <= server.life /\ Current(life)' => Current(life)
  /\ server'.up => server'.life # Down
  /\ Adds(n)
  /\ \A i \in 1..n :
       \/ events'[Len(events) + i].type \in {"Flags", "Vanished"}
       \/ /\ n = 1 /\ server.life < server'.life
          /\ events'[Len(events) + i].type = "Appeared"
          /\ events'[Len(events) + i].value = server'.life

LEMMA WorldKeeps ==
  ASSUME RInv, TInv', NEW n \in Nat, World(n)
  PROVE  RInv'
<1>1. TInv /\ Known /\ Waiting /\ OneByOne /\ Connecting /\ Numbers /\ NothingAfterRefusal
  BY DEF RInv
<1>2. /\ app' = app /\ client' = client /\ pending' = pending /\ requests' = requests
      /\ done' = done /\ server.life <= server'.life /\ Adds(n)
      /\ \A life : life <= server.life /\ Current(life)' => Current(life)
  BY DEF World
<1>3. server.life \in Nat /\ server'.life \in Nat
  BY <1>1 DEF TInv, Server
<1>4. ASSUME NEW i \in 1..Len(events')
      PROVE  \/ i \in 1..Len(events) /\ events'[i] = events[i]
             \/ i \notin 1..Len(events) /\ events'[i].type \in {"Flags", "Vanished"}
             \/ /\ n = 1 /\ server.life < server'.life /\ i = Len(events) + 1
                /\ events'[i].type = "Appeared" /\ events'[i].value = server'.life
  <2>1. CASE i \in 1..Len(events)
    BY <1>2, <2>1 DEF Adds
  <2>2. ASSUME i \notin 1..Len(events), NEW j \in 1..n, i = Len(events) + j
        PROVE  \/ i \notin 1..Len(events) /\ events'[i].type \in {"Flags", "Vanished"}
               \/ /\ n = 1 /\ server.life < server'.life /\ i = Len(events) + 1
                  /\ events'[i].type = "Appeared" /\ events'[i].value = server'.life
    BY <2>2 DEF World
  <2>3. QED
    BY <1>1, <1>2, <2>1, <2>2, AddsIs
<1>5. ASSUME NEW i \in 1..Len(requests), Live(i)' PROVE Live(i)
  <2>1. PICK life : life = requests[i].to
    OBVIOUS
  <2>2. Current(life)' /\ life <= server.life /\ IsCall(requests[i].call.key)
    BY <1>1, <1>2, <1>5, <2>1 DEF Live, Current, Known
  <2>3. Current(life)
    BY <1>2, <2>2
  <2>4. QED
    BY <2>1, <2>2, <2>3 DEF Live
<1>6. ASSUME NEW j \in 1..Len(done), Declined(j)' PROVE Declined(j)
  <2>1. PICK life : life = done[j].life
    OBVIOUS
  <2>2. Current(life)' /\ life <= server.life
    BY <1>1, <1>2, <1>6, <2>1 DEF Declined, Current, Known
  <2>3. Current(life)
    BY <1>2, <2>2
  <2>4. QED
    BY <1>2, <1>6, <2>1, <2>3 DEF Declined
<1>7. OneByOne'
  <2>1. ASSUME NothingLive PROVE NothingLive'
    BY <1>2, <1>5, <1>6, <2>1 DEF NothingLive
  <2>2. ASSUME NEW i \in 1..Len(events'), Granted(i)' PROVE NothingLive'
    <3>1. i \in 1..Len(events) /\ events'[i] = events[i]
      BY <1>4, <2>2 DEF Granted
    <3>2. Granted(i)
      BY <1>2, <2>2, <3>1 DEF Granted
    <3>3. QED
      BY <1>1, <2>1, <3>1, <3>2 DEF OneByOne
  <2>3. \A i \in 1..Len(requests'), j \in 1..Len(done') : Live(i)' => ~Declined(j)'
    BY <1>1, <1>2, <1>5, <1>6 DEF OneByOne
  <2>4. \A i, j \in 1..Len(requests') :
          i < j /\ Live(i)' /\ Live(j)' => requests'[i].call.key[1] = "half"
    BY <1>1, <1>2, <1>5 DEF OneByOne
  <2>5. QED
    BY <2>2, <2>3, <2>4 DEF OneByOne
<1>8. Known'
  <2>1. client.proxy <= server'.life /\ client.init[2] <= server'.life
    BY <1>1, <1>2, <1>3, Lengths DEF Known
  <2>2. \A i \in 1..Len(requests) : requests[i].to <= server'.life
    BY <1>1, <1>2, <1>3, ElementsAre DEF Known
  <2>3. \A j \in 1..Len(done) : done[j].life <= server'.life
    BY <1>1, <1>2, <1>3, ElementsAre DEF Known
  <2>4. ASSUME NEW i \in 1..Len(events'), Appeared(i)'
        PROVE  events'[i].value <= server'.life /\ events'[i].value # Down
    <3>1. CASE i \in 1..Len(events) /\ events'[i] = events[i]
      <4>1. Appeared(i) /\ events[i].value \in Nat
        BY <1>1, <2>4, <3>1, ElementsAre DEF Appeared
      <4>2. QED
        BY <1>1, <1>2, <1>3, <3>1, <4>1 DEF Known
    <3>2. CASE server.life < server'.life /\ events'[i].value = server'.life
      BY <1>3, <3>2 DEF Down
    <3>3. QED
      BY <1>4, <2>4, <3>1, <3>2 DEF Appeared
  <2>5. QED
    BY <1>2, <2>1, <2>2, <2>3, <2>4 DEF Known, World
<1>9. \A life : Fresh(life)' <=> Fresh(life)
  BY <1>2 DEF Fresh
<1>10. Connecting'
  <2>1. ASSUME NEW i \in 1..Len(events'), Appeared(i)'
        PROVE  \E value : /\ events'[i].value = value /\ Fresh(value)
                          /\ value # client.proxy /\ value # client.init[2]
    <3>1. CASE i \in 1..Len(events) /\ events'[i] = events[i]
      <4>1. Appeared(i)
        BY <2>1, <3>1 DEF Appeared
      <4>2. QED
        BY <1>1, <3>1, <4>1 DEF Connecting
    <3>2. CASE server.life < server'.life /\ events'[i].value = server'.life
      <4>1. PICK value \in Nat : value = server'.life /\ server.life < value
        BY <1>3, <3>2
      <4>2. Fresh(value)
        <5>1. \A j \in 1..Len(requests) : requests[j].to # value
          BY <1>1, <1>3, <4>1, ElementsAre DEF Known
        <5>2. \A j \in 1..Len(done) : done[j].life # value
          BY <1>1, <1>3, <4>1, ElementsAre DEF Known
        <5>3. QED
          BY <5>1, <5>2 DEF Fresh
      <4>3. value # client.proxy /\ value # client.init[2]
        BY <1>1, <1>3, <4>1, Lengths DEF Known
      <4>4. QED
        BY <3>2, <4>1, <4>2, <4>3
    <3>3. QED
      BY <1>4, <2>1, <3>1, <3>2 DEF Appeared
  <2>2. \A i \in 1..Len(events') : Appeared(i)' =>
           /\ Fresh(events[i].value)'
           /\ events'[i].value # client'.proxy /\ events'[i].value # client'.init[2]
    BY <1>2, <1>9, <2>1 DEF Fresh
  <2>3. ASSUME NEW i \in 1..Len(events'), NEW j \in 1..Len(events'), i # j,
               Appeared(i)', Appeared(j)'
        PROVE  events'[i].value # events'[j].value
    <3>1. ASSUME NEW m \in 1..Len(events'), Appeared(m)'
          PROVE  \/ m \in 1..Len(events) /\ events'[m] = events[m] /\ Appeared(m)
                    /\ events'[m].value <= server.life
                 \/ /\ m = Len(events) + 1 /\ events'[m].value = server'.life
                    /\ server.life < server'.life
      BY <1>1, <1>4, <3>1 DEF Appeared, Known
    <3>2. CASE i = Len(events) + 1 /\ j = Len(events) + 1
      BY <2>3, <3>2
    <3>3. CASE /\ i \in 1..Len(events) /\ events'[i] = events[i] /\ Appeared(i)
               /\ j \in 1..Len(events) /\ events'[j] = events[j] /\ Appeared(j)
      BY <1>1, <2>3, <3>3 DEF Connecting
    <3>4. ASSUME NEW p, NEW q, p \in Nat, p <= server.life, q = server'.life,
                 server.life < server'.life
          PROVE  p # q
      BY <1>3, <3>4
    <3>5. \A m \in 1..Len(events) : events[m].value \in Nat
      BY <1>1, ElementsAre
    <3>6. CASE i \in 1..Len(events) /\ events'[i] = events[i] /\ events'[i].value <= server.life
      BY <2>3, <3>1, <3>3, <3>4, <3>5, <3>6
    <3>7. CASE j \in 1..Len(events) /\ events'[j] = events[j] /\ events'[j].value <= server.life
      BY <2>3, <3>1, <3>3, <3>4, <3>5, <3>7
    <3>8. QED
      BY <2>3, <3>1, <3>2, <3>6, <3>7
  <2>4. (client.init # None => Fresh(client.init[2]) /\ client.proxy # client.init[2])'
    BY <1>1, <1>2 DEF Connecting, Fresh
  <2>5. QED
    BY <2>2, <2>3, <2>4 DEF Connecting
<1>11. Numbers'
  <2>1. ASSUME NEW pos, Before(pos) PROVE Before(pos)'
    <3>1. ASSUME NEW i \in 1..Len(events'), events'[i].type = "Reply", IsCall(events'[i].key)
          PROVE  events'[i].key[2] < pos
      <4>1. i \in 1..Len(events) /\ events'[i] = events[i]
        BY <1>4, <3>1
      <4>2. QED
        BY <2>1, <3>1, <4>1 DEF Before
    <3>2. QED
      BY <1>2, <2>1, <3>1 DEF Before
  <2>2. ASSUME NEW i \in 1..Len(app'.actions), Due(i)' PROVE Before(app.actions[i].pos)'
    <3>1. PICK pos : pos = app.actions[i].pos
      OBVIOUS
    <3>2. Before(pos)
      BY <1>1, <1>2, <2>2, <3>1 DEF Numbers, Due
    <3>3. Before(pos)'
      BY <2>1, <3>2
    <3>4. QED
      BY <1>2, <3>1, <3>3 DEF Before
  <2>3. InOrder(app.actions)'
    BY <1>1, <1>2 DEF Numbers, InOrder
  <2>4. QED
    BY <2>2, <2>3 DEF Numbers
<1>12. Waiting' /\ NothingAfterRefusal'
  BY <1>1, <1>2 DEF Waiting, NothingAfterRefusal
<1>13. QED
  BY <1>7, <1>8, <1>10, <1>11, <1>12 DEF RInv

LEMMA WorldKeepsRInv ==
  ASSUME RInv, Elsewhere \/ Die \/ Begin, TInv'
  PROVE  RInv'
<1>1. TInv /\ Known /\ server.life \in Nat
  BY Lengths DEF RInv
<1>2. CASE Elsewhere
  <2>1. PICK n \in Nat : Adds(n) /\ \A i \in 1..n : events'[Len(events) + i].type = "Flags"
    BY <1>2 DEF Elsewhere
  <2>2. /\ UNCHANGED <<app, client, pending, requests, program, done>>
        /\ server'.up = server.up /\ server'.life = server.life
    BY <1>2 DEF Elsewhere
  <2>3. \A life : Current(life)' => Current(life)
    BY <2>2 DEF Current
  <2>4. World(n)
    BY <1>1, <2>1, <2>2, <2>3 DEF World, Known
  <2>5. QED
    BY <2>4, WorldKeeps
<1>3. CASE Die
  <2>1. /\ UNCHANGED <<app, client, pending, requests, program, done>>
        /\ ~server'.up /\ server'.life = server.life
        /\ \E n \in {0, 1} : Adds(n) /\ \A i \in 1..n : events'[Len(events) + i].type = "Vanished"
    BY <1>1, <1>3, DieStep
  <2>2. PICK n \in {0, 1} : Adds(n) /\ \A i \in 1..n : events'[Len(events) + i].type = "Vanished"
    BY <2>1
  <2>3. World(n)
    BY <1>1, <2>1, <2>2 DEF World, Current
  <2>4. QED
    BY <2>3, WorldKeeps
<1>4. CASE Begin
  <2>1. /\ UNCHANGED <<app, client, pending, requests, program, done>>
        /\ server'.life = server.life + 1
        /\ \E n \in {0, 1} : Adds(n) /\ \A i \in 1..n :
             /\ events'[Len(events) + i].type = "Appeared"
             /\ events'[Len(events) + i].value = server.life + 1
    BY <1>1, <1>4, BeginStep
  <2>2. PICK n \in {0, 1} : Adds(n) /\ \A i \in 1..n :
             /\ events'[Len(events) + i].type = "Appeared"
             /\ events'[Len(events) + i].value = server.life + 1
    BY <2>1
  <2>3. \A life : life <= server.life /\ Current(life)' => Current(life)
    BY <1>1, <2>1 DEF Current
  <2>4. server.life < server'.life /\ server'.life # Down
    BY <1>1, <2>1 DEF Down
  <2>5. World(n)
    BY <1>1, <2>1, <2>2, <2>3, <2>4 DEF World
  <2>6. QED
    BY <2>5, WorldKeeps
<1>5. QED
  BY <1>2, <1>3, <1>4

(* What is left to do, what was done, and what is said after a call.         *)
LEMMA ServeIs ==
  ASSUME TInv, TInv', NEW q, NEW answer, Serves(q, answer)
  PROVE  /\ \A i \in 1..Len(requests') : /\ i + 1 \in 1..Len(requests) /\ 1 < i + 1
                                         /\ requests'[i] = requests[i + 1]
         /\ \A i \in 1..Len(requests') : Live(i)' => Live(i + 1)
         /\ \A j \in 1..Len(done) : j \in 1..Len(done') /\ done'[j] = done[j]
         /\ Live(1) => /\ Len(done) + 1 \in 1..Len(done')
                       /\ done'[Len(done) + 1].key = q.call.key
                       /\ done'[Len(done) + 1].answer = answer
         /\ \A j \in 1..Len(done') :
              \/ j \in 1..Len(done) /\ done'[j] = done[j]
              \/ /\ j = Len(done) + 1 /\ Live(1) /\ done'[j].key = q.call.key
                 /\ done'[j].answer = answer /\ done'[j].life = q.to
         /\ \A i \in 1..Len(events') :
              \/ i \in 1..Len(events) /\ events'[i] = events[i]
              \/ events'[i].type = "Flags"
              \/ /\ events'[i].type = "Reply" /\ events'[i].key = q.call.key
                 /\ events'[i].answer = answer /\ events'[i].value = server.version
<1>1. /\ 1 \in 1..Len(requests) /\ q = requests[1] /\ Len(requests') = Len(requests) - 1
      /\ server'.up = server.up /\ server'.life = server.life
  BY DEF Serves
<1>2. PICK l, m \in Nat : l = Len(requests) /\ m = Len(done)
  BY Lengths
<1>3. PICK k : k = q.call.key
  OBVIOUS
<1>4. PICK n \in Nat : Says(k, answer, n)
  BY <1>3 DEF Serves
<1>5. Live(1) <=> (Current(q.to) /\ IsCall(k))
  BY <1>1, <1>3 DEF Live
<1>6. \A life : Current(life)' <=> Current(life)
  BY <1>1 DEF Current
<1>7. ASSUME NEW i \in 1..Len(requests')
      PROVE  i + 1 \in 1..Len(requests) /\ 1 < i + 1 /\ requests'[i] = requests[i + 1]
  <2>1. i + 1 \in 1..Len(requests) /\ 1 < i + 1
    BY <1>1, <1>2
  <2>2. QED
    BY <2>1 DEF Serves
<1>8. ASSUME NEW i \in 1..Len(requests'), Live(i)'
      PROVE  Live(i + 1)
  <2>1. PICK life : life = requests'[i].to
    OBVIOUS
  <2>2. Current(life)' /\ IsCall(requests'[i].call.key)
    BY <1>8, <2>1 DEF Live, Current
  <2>3. Current(life)
    BY <1>6, <2>2
  <2>4. QED
    BY <1>7, <2>1, <2>2, <2>3 DEF Live
<1>9. ASSUME NEW i \in 1..Len(events')
      PROVE  \/ i \in 1..Len(events) /\ events'[i] = events[i]
             \/ events'[i].type = "Flags"
             \/ /\ events'[i].type = "Reply" /\ events'[i].key = k
                /\ events'[i].answer = answer /\ events'[i].value = server.version
  <2>1. Adds(n)
    BY <1>4 DEF Says
  <2>2. ASSUME NEW j \in 1..n, i = Len(events) + j
        PROVE  \/ events'[i].type = "Flags"
               \/ /\ events'[i].type = "Reply" /\ events'[i].key = k
                  /\ events'[i].answer = answer /\ events'[i].value = server.version
    BY <1>4, <2>2 DEF Says
  <2>3. QED
    BY <2>1, <2>2, AddsIs
<1>10. CASE Live(1)
  <2>1. /\ Len(done') = m + 1 /\ \A i \in 1..m : done'[i] = done[i]
        /\ done'[m + 1] = [key |-> k, answer |-> answer, life |-> q.to]
    BY <1>2, <1>3, <1>5, <1>10 DEF Serves
  <2>2. m + 1 \in 1..Len(done') /\ \A j \in 1..m : j \in 1..Len(done')
    BY <2>1
  <2>3. \A j \in 1..Len(done') : j \in 1..m \/ j = m + 1
    BY <2>1
  <2>4. QED
    BY <1>2, <1>3, <1>7, <1>8, <1>9, <1>10, <2>1, <2>2, <2>3
<1>11. CASE ~Live(1)
  <2>1. done' = done
    BY <1>3, <1>5, <1>11 DEF Serves
  <2>2. QED
    BY <1>3, <1>7, <1>8, <1>9, <1>11, <2>1
<1>12. QED
  BY <1>10, <1>11

LEMMA ServeKeeps ==
  ASSUME RInv, Serve
  PROVE  RInv'
<1>1. TInv /\ Known /\ Waiting /\ OneByOne /\ Connecting /\ Numbers /\ NothingAfterRefusal
  BY DEF RInv
<1>2. TInv' /\ \E q, answer : Serves(q, answer)
  BY <1>1, ServeStep
<1>3. PICK q, answer : Serves(q, answer)
  BY <1>2
<1>4. /\ 1 \in 1..Len(requests) /\ q = requests[1] /\ Len(requests') = Len(requests) - 1
      /\ app' = app /\ client' = client /\ pending' = pending
      /\ server'.up = server.up /\ server'.life = server.life
      /\ ~Current(q.to) => answer = "NoReply"
  BY <1>3 DEF Serves
<1>5. PICK l, m \in Nat : l = Len(requests) /\ m = Len(done)
  BY <1>1, Lengths
<1>6. PICK k : k = q.call.key
  OBVIOUS
<1>7. q.to \in Nat /\ k \in Keys /\ server.life \in Nat
  BY <1>1, <1>4, <1>6, ElementsAre, Lengths
<1>8. PICK n \in Nat : Says(k, answer, n)
  BY <1>3, <1>6 DEF Serves
<1>9. Live(1) <=> (Current(q.to) /\ IsCall(k))
  BY <1>4, <1>6 DEF Live
<1>10. \A life : Current(life)' <=> Current(life)
  BY <1>4 DEF Current
<1>11. \A i \in 1..Len(requests') : /\ i + 1 \in 1..Len(requests) /\ 1 < i + 1
                                    /\ requests'[i] = requests[i + 1]
  BY <1>1, <1>2, <1>3, ServeIs
<1>12. \A i \in 1..Len(requests') : Live(i)' => Live(i + 1)
  BY <1>1, <1>2, <1>3, ServeIs
<1>13. \A j \in 1..Len(done') :
         \/ j \in 1..Len(done) /\ done'[j] = done[j]
         \/ /\ j = Len(done) + 1 /\ Live(1) /\ done'[j].key = k
            /\ done'[j].answer = answer /\ done'[j].life = q.to
  BY <1>1, <1>2, <1>3, <1>6, ServeIs
<1>14. \A i \in 1..Len(events') :
         \/ i \in 1..Len(events) /\ events'[i] = events[i]
         \/ events'[i].type = "Flags"
         \/ events'[i].type = "Reply" /\ events'[i].key = k /\ events'[i].answer = answer
  BY <1>1, <1>2, <1>3, <1>6, ServeIs
<1>15. Live(1) => \A j \in 1..Len(done) : ~Declined(j)
  BY <1>1, <1>4 DEF OneByOne
<1>16. ASSUME Live(1), NEW i \in 1..Len(requests'), Live(i)' PROVE k[1] = "half"
  BY <1>1, <1>4, <1>6, <1>11, <1>12, <1>16 DEF OneByOne
<1>17. ASSUME NEW j \in 1..Len(done'), Declined(j)'
       PROVE  \/ j \in 1..Len(done) /\ Declined(j)
              \/ Live(1) /\ k[1] = "action" /\ answer # "OK"
  <2>1. PICK life : life = done'[j].life
    OBVIOUS
  <2>2. done'[j].key[1] = "action" /\ done'[j].answer # "OK" /\ Current(life)'
    BY <1>17, <2>1 DEF Declined, Current
  <2>3. Current(life)
    BY <1>10, <2>2
  <2>4. QED
    BY <1>13, <2>1, <2>2, <2>3 DEF Declined
<1>18. OneByOne'
  <2>1. ASSUME NEW i \in 1..Len(requests'), NEW j \in 1..Len(done'), Live(i)', Declined(j)'
        PROVE  FALSE
    <3>1. CASE j \in 1..Len(done) /\ Declined(j)
      BY <1>1, <1>11, <1>12, <2>1, <3>1 DEF OneByOne
    <3>2. CASE Live(1) /\ k[1] = "action"
      BY <1>16, <2>1, <3>2
    <3>3. QED
      BY <1>17, <2>1, <3>1, <3>2
  <2>2. ASSUME NEW i \in 1..Len(requests'), NEW j \in 1..Len(requests'), i < j, Live(i)', Live(j)'
        PROVE  requests'[i].call.key[1] = "half"
    <3>1. /\ i + 1 \in 1..Len(requests) /\ j + 1 \in 1..Len(requests) /\ i + 1 < j + 1
          /\ Live(i + 1) /\ Live(j + 1) /\ requests'[i] = requests[i + 1]
      BY <1>11, <1>12, <2>2
    <3>2. QED
      BY <1>1, <3>1 DEF OneByOne
  <2>3. ASSUME NEW i \in 1..Len(events'), Granted(i)' PROVE NothingLive'
    <3>1. events'[i].type = "Reply" /\ events'[i].key \in pending /\ events'[i].answer = "OK"
      BY <1>4, <2>3 DEF Granted
    <3>2. CASE i \in 1..Len(events) /\ events'[i] = events[i]
      <4>1. NothingLive
        BY <1>1, <3>1, <3>2 DEF OneByOne, Granted
      <4>2. \A j \in 1..Len(requests') : ~Live(j)'
        BY <1>11, <1>12, <4>1 DEF NothingLive
      <4>3. \A j \in 1..Len(done') : ~Declined(j)'
        BY <1>4, <1>17, <4>1 DEF NothingLive
      <4>4. QED
        BY <4>2, <4>3 DEF NothingLive
    <3>3. CASE events'[i].key = k /\ events'[i].answer = answer
      <4>1. k[1] = "action" /\ answer = "OK"
        BY <1>1, <3>1, <3>3 DEF Waiting
      <4>2. Live(1)
        BY <1>4, <1>9, <4>1 DEF IsCall
      <4>3. \A j \in 1..Len(requests') : ~Live(j)'
        BY <1>16, <4>1, <4>2
      <4>4. \A j \in 1..Len(done') : ~Declined(j)'
        BY <1>15, <1>17, <4>1, <4>2
      <4>5. QED
        BY <4>3, <4>4 DEF NothingLive
    <3>4. QED
      BY <1>14, <3>1, <3>2, <3>3
  <2>4. QED
    BY <2>1, <2>2, <2>3 DEF OneByOne
<1>19. Known'
  <2>1. (server.up => server.life # Down)'
    BY <1>1, <1>4 DEF Known
  <2>2. \A i \in 1..Len(requests') : requests'[i].to <= server'.life
    BY <1>1, <1>4, <1>11 DEF Known
  <2>3. \A j \in 1..Len(done') : done'[j].life <= server'.life
    BY <1>1, <1>4, <1>13 DEF Known
  <2>4. \A i \in 1..Len(events') :
          Appeared(i)' => events'[i].value <= server'.life /\ events'[i].value # Down
    BY <1>1, <1>4, <1>14 DEF Known, Appeared
  <2>5. client'.proxy <= server'.life /\ client'.init[2] <= server'.life
    BY <1>1, <1>4 DEF Known
  <2>6. QED
    BY <2>1, <2>2, <2>3, <2>4, <2>5 DEF Known
<1>20. ASSUME NEW life, Fresh(life) PROVE Fresh(life)'
  <2>1. \A i \in 1..Len(requests') : IsCall(requests'[i].call.key) => requests'[i].to # life
    BY <1>11, <1>20 DEF Fresh
  <2>2. \A j \in 1..Len(done') : done'[j].life # life
    BY <1>4, <1>6, <1>9, <1>13, <1>20 DEF Fresh
  <2>3. QED
    BY <2>1, <2>2 DEF Fresh
<1>21. Connecting'
  <2>1. ASSUME NEW i \in 1..Len(events'), Appeared(i)'
        PROVE  i \in 1..Len(events) /\ events'[i] = events[i] /\ Appeared(i)
    BY <1>14, <2>1 DEF Appeared
  <2>2. ASSUME NEW i \in 1..Len(events'), Appeared(i)'
        PROVE  /\ Fresh(events[i].value)'
               /\ events'[i].value # client'.proxy /\ events'[i].value # client'.init[2]
    <3>1. PICK value : value = events[i].value
      OBVIOUS
    <3>2. Fresh(value) /\ value # client.proxy /\ value # client.init[2]
      BY <1>1, <2>1, <2>2, <3>1 DEF Connecting
    <3>3. Fresh(value)' /\ events'[i].value = value
      BY <1>20, <2>1, <2>2, <3>1, <3>2
    <3>4. Fresh(events[i].value)'
      BY <3>3 DEF Fresh
    <3>5. QED
      BY <1>4, <3>2, <3>3, <3>4
  <2>3. \A i, j \in 1..Len(events') :
          i # j /\ Appeared(i)' /\ Appeared(j)' => events'[i].value # events'[j].value
    <3>1. ASSUME NEW i \in 1..Len(events'), NEW j \in 1..Len(events'), i # j,
                 Appeared(i)', Appeared(j)'
          PROVE  events'[i].value # events'[j].value
      <4>1. /\ i \in 1..Len(events) /\ events'[i] = events[i] /\ Appeared(i)
            /\ j \in 1..Len(events) /\ events'[j] = events[j] /\ Appeared(j)
        BY <2>1, <3>1
      <4>2. QED
        BY <1>1, <3>1, <4>1 DEF Connecting
    <3>2. QED
      BY <3>1
  <2>4. ASSUME client'.init # None
        PROVE  Fresh(client.init[2])' /\ client'.proxy # client'.init[2]
    <3>1. PICK life : life = client.init[2]
      OBVIOUS
    <3>2. Fresh(life) /\ client.proxy # life
      BY <1>1, <1>4, <2>4, <3>1 DEF Connecting
    <3>3. Fresh(life)'
      BY <1>20, <3>2
    <3>4. Fresh(client.init[2])'
      BY <1>4, <3>1, <3>3 DEF Fresh
    <3>5. QED
      BY <1>4, <3>1, <3>2, <3>4
  <2>5. QED
    BY <2>2, <2>3, <2>4 DEF Connecting
<1>22. Numbers'
  <2>1. ASSUME NEW pos, Before(pos) PROVE Before(pos)'
    <3>1. IsCall(k) => k[2] < pos
      BY <1>4, <1>6, <2>1 DEF Before
    <3>2. \A j \in 1..Len(requests') :
            IsCall(requests'[j].call.key) => requests'[j].call.key[2] < pos
      BY <1>11, <2>1 DEF Before
    <3>3. \A j \in 1..Len(events') :
            events'[j].type = "Reply" /\ IsCall(events'[j].key) => events'[j].key[2] < pos
      BY <1>14, <2>1, <3>1 DEF Before
    <3>4. \A j \in 1..Len(done') : done'[j].key[2] < pos
      BY <1>9, <1>13, <2>1, <3>1 DEF Before
    <3>5. QED
      BY <1>4, <2>1, <3>2, <3>3, <3>4 DEF Before
  <2>2. ASSUME NEW i \in 1..Len(app'.actions), Due(i)' PROVE Before(app.actions[i].pos)'
    <3>1. PICK pos : pos = app.actions[i].pos
      OBVIOUS
    <3>2. Before(pos)
      BY <1>1, <1>4, <2>2, <3>1 DEF Numbers, Due
    <3>3. Before(pos)'
      BY <2>1, <3>2
    <3>4. QED
      BY <1>4, <3>1, <3>3 DEF Before
  <2>3. InOrder(app.actions)'
    BY <1>1, <1>4 DEF Numbers, InOrder
  <2>4. QED
    BY <2>2, <2>3 DEF Numbers
<1>23. NothingAfterRefusal'
  <2>1. done \in Seq([key : Keys, answer : Answers, life : Nat])
        /\ done' \in Seq([key : Keys, answer : Answers, life : Nat])
    BY <1>1, <1>2 DEF TInv
  <2>2. DOMAIN done = 1..Len(done) /\ DOMAIN done' = 1..Len(done')
    BY <2>1
  <2>3. ASSUME NEW i \in 1..Len(done'), NEW j \in 1..Len(done'), i < j,
               done'[i].key[1] = "action", done'[i].answer # "OK"
        PROVE  done'[i].life < done'[j].life
    <3>1. CASE /\ i \in 1..Len(done) /\ done'[i] = done[i]
               /\ j \in 1..Len(done) /\ done'[j] = done[j]
      BY <1>1, <2>2, <2>3, <3>1 DEF NothingAfterRefusal
    <3>2. CASE i \in 1..Len(done) /\ done'[i] = done[i] /\ Live(1) /\ done'[j].life = q.to
      <4>1. ~Declined(i) /\ Current(q.to)
        BY <1>9, <1>15, <3>2
      <4>2. done[i].life # server.life /\ q.to = server.life
        BY <2>3, <3>2, <4>1 DEF Declined, Current
      <4>3. done[i].life <= server.life /\ done[i].life \in Nat
        BY <1>1, <3>2, ElementsAre DEF Known
      <4>4. QED
        BY <1>7, <3>2, <4>2, <4>3
    <3>3. CASE i = Len(done) + 1
      <4>1. j = Len(done) + 1 \/ j \in 1..Len(done)
        BY <1>13
      <4>2. QED
        BY <1>5, <2>3, <3>3, <4>1
    <3>4. QED
      BY <1>13, <3>1, <3>2, <3>3
  <2>4. QED
    BY <2>2, <2>3 DEF NothingAfterRefusal
<1>24. Waiting'
  BY <1>1, <1>4 DEF Waiting
<1>25. QED
  BY <1>2, <1>18, <1>19, <1>21, <1>22, <1>23, <1>24 DEF RInv

LEMMA RefusalAtFirst ==
  ASSUME Init
  PROVE  RInv
<1>1. TInv
  BY TypedAtFirst
<1>2. PICK o \in Programs : app = NewApp(o)
  BY DEF Init
<1>3. /\ client.proxy = Down /\ client.init = None /\ pending = {} /\ requests = <<>>
      /\ events = <<>> /\ done = <<>> /\ ~server.up /\ server.life = 0
  BY DEF Init
<1>4. app.call = None /\ InOrder(app.actions)
  <2>1. app.call = None /\ app.actions = IF Valid(o) THEN Parsed(o) ELSE <<>>
    BY <1>2 DEF NewApp
  <2>2. InOrder(<<>>)
    BY DEF InOrder
  <2>3. QED
    BY <2>1, <2>2, ParsedIs
<1>5. Len(requests) = 0 /\ Len(events) = 0 /\ Len(done) = 0
  BY <1>3
<1>6. Known
  BY <1>3, <1>5, KeysAre DEF Known, Down
<1>7. Waiting
  BY <1>3, <1>4 DEF Waiting
<1>8. OneByOne /\ Connecting
  BY <1>3, <1>5 DEF OneByOne, Connecting
<1>9. Numbers
  BY <1>4, <1>5 DEF Numbers, Before
<1>10. NothingAfterRefusal
  BY <1>3 DEF NothingAfterRefusal
<1>11. QED
  BY <1>1, <1>6, <1>7, <1>8, <1>9, <1>10 DEF RInv

LEMMA RefusalStep ==
  ASSUME RInv, [Next]_vars
  PROVE  RInv'
<1>1. TInv /\ TInv'
  BY TypesKept DEF RInv
<1>2. CASE Elsewhere \/ Die \/ Begin
  BY <1>1, <1>2, WorldKeepsRInv
<1>3. CASE NameAppeared \/ InitFinished \/ CallFinished \/ Serve
  BY <1>3, AppearedKeeps, InitKeeps, CallKeeps, ServeKeeps
<1>4. QED
  BY <1>1, <1>2, <1>3, StepIs, ToolKeepsRInv

(* After an action which was refused the same server is not asked for        *)
(* another one, whatever the server, its policy, the signals and the changes *)
(* of others (app_action_call_done, app_next_action).                        *)
THEOREM RefusalEnds == Spec => []NothingAfterRefusal
<1>1. Init => RInv
  BY RefusalAtFirst
<1>2. RInv /\ [Next]_vars => RInv'
  BY RefusalStep
<1>3. RInv => NothingAfterRefusal
  BY DEF RInv
<1>4. QED
  BY <1>1, <1>2, <1>3, PTL DEF Spec

-----------------------------------------------------------------------------
(* Success                                                                   *)

(* The calls of the tool are made, and answered, in the order of the actions. *)
InSeq ==
  /\ \A i, j \in 1..Len(requests) :
       i < j /\ IsCall(requests[i].call.key) /\ IsCall(requests[j].call.key) =>
         requests[i].call.key[2] <= requests[j].call.key[2]
  /\ \A i, j \in 1..Len(done) : i < j => done[i].key[2] <= done[j].key[2]
  /\ \A i \in 1..Len(done), j \in 1..Len(requests) :
       IsCall(requests[j].call.key) => done[i].key[2] <= requests[j].call.key[2]

(* What takes a call, of the server there is.                                *)
Asked(a) ==
  a.type \in {"enable", "disable", "level"} \/ (a.type = "backlog" /\ server.version > 1)

(* As long as nothing has failed, an action has been done, is being done, or *)
(* is left to do; what the tool is told about its calls is true.             *)
Progress ==
  /\ ~app.running /\ app.ret = "OK" => app.quitting
  /\ app.quitting /\ app.ret = "OK" => app.call = None /\ app.actions = <<>>
  /\ app.ret = "OK" => \A i \in 1..Len(program) : Asked(program[i]) =>
       \/ Did(program[i].pos) \/ app.call = <<"action", program[i].pos>>
       \/ \E j \in 1..Len(app.actions) : app.actions[j] = program[i]
  /\ \A i \in 1..Len(events) : events[i].type = "Reply" =>
       /\ events[i].value = server.version
       /\ events[i].key[1] = "action" /\ events[i].answer = "OK" => Did(events[i].key[2])
  /\ app.call # None => client.version = server.version

(* All calls of actions, those answered and the others, are made to the      *)
(* server of one life; none has been made.                                   *)
Of(life) ==
  /\ \A i \in 1..Len(requests) : IsCall(requests[i].call.key) => requests[i].to = life
  /\ \A j \in 1..Len(done) : done[j].life = life
Unasked == Len(done) = 0 /\ \A i \in 1..Len(requests) : ~IsCall(requests[i].call.key)

ComesOrGoes(i) == events[i].type \in {"Appeared", "Vanished"}
Settled == \A i \in 1..Len(events) : ~ComesOrGoes(i)

(* As long as nothing has failed, all calls are made to one server: a tool   *)
(* which waits for no call, and has still some to make, has made none; when  *)
(* the one it waits for has ended well it is still connected to that server. *)
OneLife ==
  app.ret = "OK" =>
    /\ \E life \in Nat : Of(life)
    /\ app.call = None /\ app.actions # <<>> => Unasked
    /\ \A i \in 1..Len(events) : Granted(i) =>
         /\ Of(client.proxy) /\ client.init = None
         /\ \A j \in 1..i - 1 : ~ComesOrGoes(j)

IsInit(key) == key[1] = "init"

(* What the tool knows of the server which runs now, it knows after it heard *)
(* of the end of those before.                                               *)
Settling ==
  /\ \A i \in 1..Len(requests) : Live(i) => client.proxy = server.life
  /\ Current(client.proxy) => client.init = None /\ Settled
  /\ Current(client.init[2]) => Settled
  /\ \A i \in 1..Len(requests) : IsInit(requests[i].call.key) =>
       /\ requests[i].call.key[2] <= server.life
       /\ Current(requests[i].call.key[2]) => Settled
  /\ \A i \in 1..Len(events) :
       Appeared(i) /\ Current(events[i].value) => \A j \in i + 1..Len(events) : ~ComesOrGoes(j)
  /\ \A i \in 1..Len(events) : events[i].type = "Reply" /\ IsInit(events[i].key) =>
       /\ events[i].key[2] <= server.life
       /\ Current(events[i].key[2]) => Settled

(* As long as nothing has failed, the tool waits for the end of the action   *)
(* whose calls the server hears of, or has answered, unless that was done.   *)
Heeded ==
  app.ret = "OK" =>
    /\ \A j \in 1..Len(done) :
         Did(done[j].key[2]) \/ app.call = <<"action", done[j].key[2]>>
    /\ \A i \in 1..Len(requests) :
         Live(i) => app.call = <<"action", requests[i].call.key[2]>>

SInv == RInv /\ InSeq /\ Progress /\ OneLife /\ Settling /\ Heeded

(* What becomes of the connection of the client.                             *)
Moves(k) ==
  \/ client'.proxy = client.proxy /\ client'.init \in {client.init, None}
  \/ /\ k = 1 /\ Len(events) > 0 /\ events[1].type = "Vanished"
     /\ client'.proxy = Down /\ client'.init = None
  \/ /\ k = 1 /\ Len(events) > 0 /\ Appeared(1)
     /\ client'.proxy = client.proxy /\ client'.init[2] = events[1].value
  \/ client.init # None /\ client'.proxy = client.init[2] /\ client'.init = None

Inits(k) ==
  \A i \in Len(requests) + 1..Len(requests') : IsInit(requests'[i].call.key) =>
    /\ k = 1 /\ Len(events) > 0 /\ Appeared(1)
    /\ requests'[i].call.key[2] = events[1].value

(* The tool makes no call of an action.                                      *)
Rests ==
  /\ NoCalls /\ Holds
  /\ app'.ret = "OK" =>
       /\ app.ret = "OK"
       /\ \/ /\ app'.call = app.call /\ app'.actions = app.actions
             /\ app'.quitting = app.quitting
             /\ app'.running = app.running \/ app.quitting
          \/ /\ app'.running /\ app'.actions = <<>> /\ app'.call = None
             /\ \A i \in 1..Len(program) : Asked(program[i]) => Did(program[i].pos)
             /\ app.call # None => Did(app.call[2])
             /\ \A i \in 1..Len(requests) : ~Live(i)
  /\ app'.call # None => client'.version = server.version

(* It goes on with action n.                                                 *)
Proceeds(a, x, n) ==
  /\ a.actions = app.actions /\ a.quitting = app.quitting
  /\ client' = x /\ x.version = server.version /\ x.proxy <= server.life
  /\ GoesOn(a, x, {}, n)
  /\ app'.ret = app.ret /\ app'.running
  /\ app.ret = "OK" => Of(x.proxy)
  /\ app.call # None => Did(app.call[2])
  /\ \A i \in 1..Len(requests) : ~Live(i)

Steps(k) ==
  /\ Inside /\ Took(k) /\ Extends /\ Moves(k) /\ Inits(k)
  /\ \/ Rests
     \/ \E a \in App : \E x \in Client : \E n \in 1..Len(a.actions) : Proceeds(a, x, n)

LEMMA AskedCalls ==
  ASSUME NEW a \in Action, NEW x \in Client, x.version = server.version, Asked(a)
  PROVE  CallsOf(a, x) # <<>>
BY CallsOfIs DEF Asked

LEMMA NoInits ==
  ASSUME TInv, NEW k, requests' = requests
  PROVE  Inits(k)
<1>1. Len(requests) \in Nat
  BY Lengths
<1>2. ~(\E i \in Len(requests) + 1..Len(requests') : TRUE)
  BY <1>1
<1>3. QED
  BY <1>2 DEF Inits

LEMMA OpensNoInits ==
  ASSUME NEW k, NEW life, Opens("open", life)
  PROVE  Inits(k)
BY DEF Opens, Inits, IsInit, IsOf

(* When the tool is at its end, everything has been done.                    *)
LEMMA EndedIs ==
  ASSUME TInv, Progress, app.ret = "OK", NEW x \in Client, x.version = server.version,
         \A i \in 1..Len(app.actions) : CallsOf(app.actions[i], x) = <<>>,
         app.call # None => Did(app.call[2])
  PROVE  \A i \in 1..Len(program) : Asked(program[i]) => Did(program[i].pos)
<1>1. program \in Seq(Action)
  BY DEF TInv
<1>2. ASSUME NEW i \in 1..Len(program), Asked(program[i])
      PROVE  Did(program[i].pos)
  <2>1. program[i] \in Action
    BY <1>1
  <2>2. program[i].pos \in Nat /\ CallsOf(program[i], x) # <<>>
    BY <1>2, <2>1, AskedCalls DEF Action
  <2>3. CASE Did(program[i].pos)
    BY <2>3
  <2>4. CASE app.call = <<"action", program[i].pos>>
    <3>1. PICK key : key = <<"action", program[i].pos>>
      OBVIOUS
    <3>2. key[2] = program[i].pos /\ key # None
      BY <2>2, <3>1, KeysAre
    <3>3. QED
      BY <2>4, <3>1, <3>2
  <2>5. ASSUME NEW j \in 1..Len(app.actions), app.actions[j] = program[i] PROVE FALSE
    BY <2>2, <2>5
  <2>6. QED
    BY <1>2, <2>3, <2>4, <2>5 DEF Progress
<1>3. QED
  BY <1>2

LEMMA AppearedSteps ==
  ASSUME SInv, NameAppeared
  PROVE  Steps(1)
<1>1. TInv /\ Known /\ Progress
  BY DEF SInv, RInv
<1>2. PICK life : life = events[1].value
  OBVIOUS
<1>3. /\ Inside /\ Took(1) /\ events[1].type = "Appeared" /\ 1 \in 1..Len(events)
      /\ UNCHANGED <<app, pending>> /\ client'.proxy = client.proxy
      /\ client'.version = client.version
      /\ client'.init = <<"init", life>>
      /\ \E q \in Asking : q.key = <<"init", life>> /\ q.method = "GetAll" /\ Sends(<<q>>, life)
  BY <1>1, <1>2, AppearedStep
<1>4. life \in Nat /\ Appeared(1) /\ life <= server.life /\ Len(events) > 0
  <2>1. life \in Nat /\ Appeared(1)
    BY <1>1, <1>2, <1>3, ElementsAre DEF Appeared
  <2>2. QED
    BY <1>1, <1>2, <1>3, <2>1, Lengths DEF Known
<1>5. PICK key : key = <<"init", life>>
  OBVIOUS
<1>6. key[1] = "init" /\ key[2] = life
  BY <1>4, <1>5, KeysAre
<1>7. PICK q \in Asking : q.key = key /\ q.method = "GetAll" /\ Sends(<<q>>, life)
  BY <1>3, <1>5
<1>8. PICK sent : sent = <<q>>
  OBVIOUS
<1>9. sent \in Seq(Asking) /\ Len(sent) = 1 /\ sent[1] = q
  BY <1>8
<1>10. Opens("init", life)
  <2>1. \A i \in 1..Len(sent) : IsOf("init", sent[i])
    BY <1>6, <1>7, <1>9 DEF IsOf, MethodOf
  <2>2. QED
    BY <1>1, <1>4, <1>7, <1>8, <1>9, <2>1, OpensIs
<1>11. Extends /\ NoCalls
  BY <1>1, <1>4, <1>10, OpensExtends
<1>12. Inits(1)
  <2>1. /\ Len(requests') = Len(requests) + 1 /\ Len(requests) \in Nat
        /\ requests'[Len(requests) + 1].call = q
    BY <1>1, <1>7, <1>8, <1>9, Lengths DEF Sends
  <2>2. \A i \in Len(requests) + 1..Len(requests') : i = Len(requests) + 1
    BY <2>1
  <2>3. QED
    BY <1>2, <1>4, <1>6, <1>7, <2>1, <2>2 DEF Inits
<1>13. Moves(1)
  BY <1>2, <1>3, <1>4, <1>5, <1>6 DEF Moves
<1>14. Rests
  BY <1>1, <1>3, <1>11 DEF Rests, Holds, Progress
<1>15. QED
  BY <1>3, <1>11, <1>12, <1>13, <1>14 DEF Steps

LEMMA InitSteps ==
  ASSUME SInv, InitFinished
  PROVE  Steps(1)
<1>1. TInv /\ Known /\ Waiting /\ Connecting /\ Progress /\ OneLife /\ Settling /\ Heeded
  BY DEF SInv, RInv
<1>2. PICK e : e = events[1]
  OBVIOUS
<1>3. /\ Inside /\ Took(1) /\ e.key[1] = "init" /\ 1 \in 1..Len(events) /\ e.type = "Reply"
      /\ \/ UNCHANGED <<app, client, pending, requests>>
         \/ \E x \in Client : Initialized(e, x)
         \/ InitFailed(e)
  BY <1>1, <1>2, InitStep
<1>4. app.running
  BY DEF InitFinished, Receive
<1>5. CASE UNCHANGED <<app, client, pending, requests>>
  <2>1. Extends /\ NoCalls /\ Inits(1)
    BY <1>1, <1>5, SameRequests, NoInits
  <2>2. Rests /\ Moves(1)
    BY <1>1, <1>5, <2>1 DEF Rests, Holds, Moves, Progress
  <2>3. QED
    BY <1>3, <2>1, <2>2 DEF Steps
<1>6. CASE InitFailed(e)
  <2>1. app'.call = app.call /\ app'.actions = app.actions /\ app'.ret = "ERR"
    BY <1>1, <1>6, FailTyped DEF InitFailed, TInv
  <2>2. Extends /\ NoCalls /\ Inits(1)
    BY <1>1, <1>6, SameRequests, NoInits DEF InitFailed
  <2>3. Rests /\ Moves(1)
    BY <1>1, <1>6, <2>1, <2>2 DEF Rests, Holds, Moves, InitFailed, Progress
  <2>4. QED
    BY <1>3, <2>2, <2>3 DEF Steps
<1>7. ASSUME NEW x \in Client, Initialized(e, x) PROVE Steps(1)
  <2>1. /\ e.key = client.init /\ x.proxy = e.key[2] /\ x.init = None /\ x.version = e.value
        /\ Become(NextAction(app, x), pending) /\ app \in App /\ pending \in SUBSET Keys
    BY <1>1, <1>7 DEF Initialized, TInv
  <2>2. /\ client' = x /\ app'.ret = app.ret /\ app'.running
        /\ app.call # None => app' = app /\ pending' = pending /\ requests' = requests
        /\ app.call = None => \/ EndsNow(app, x, pending)
                              \/ \E i \in 1..Len(app.actions) : GoesOn(app, x, pending, i)
    BY <1>1, <1>4, <2>1, AdvanceIs
  <2>3. client.init # None
    BY <1>3, <2>1, KeysAre
  <2>4. x.version = server.version
    BY <1>1, <1>2, <1>3, <2>1 DEF Progress
  <2>5. x.proxy \in Nat /\ x.proxy <= server.life /\ x.proxy = client.init[2]
    BY <1>1, <2>1 DEF Known, Client
  <2>6. Moves(1)
    BY <2>1, <2>2, <2>3, <2>5 DEF Moves
  <2>7. CASE app.call # None
    <3>1. Extends /\ NoCalls /\ Inits(1)
      BY <1>1, <2>2, <2>7, SameRequests, NoInits
    <3>2. Rests
      BY <2>2, <2>4, <2>7, <3>1 DEF Rests, Holds
    <3>3. QED
      BY <1>3, <2>6, <3>1, <3>2 DEF Steps
  <2>8. CASE app.call = None /\ EndsNow(app, x, pending)
    <3>1. /\ Opens("open", x.proxy) /\ app'.actions = <<>> /\ app'.call = None
          /\ pending' = pending /\ \A i \in 1..Len(app.actions) : CallsOf(app.actions[i], x) = <<>>
      BY <2>8 DEF EndsNow
    <3>2. Extends /\ NoCalls /\ Inits(1)
      BY <1>1, <2>5, <3>1, OpensExtends, OpensNoInits
    <3>3. app.ret = "OK" => \A i \in 1..Len(program) : Asked(program[i]) => Did(program[i].pos)
      BY <1>1, <2>4, <2>8, <3>1, EndedIs
    <3>4. Holds
      BY <2>8, <3>1 DEF Holds
    <3>5. app.ret = "OK" => \A i \in 1..Len(requests) : ~Live(i)
      BY <1>1, <2>8 DEF Heeded, None
    <3>6. Rests
      BY <2>2, <2>8, <3>1, <3>2, <3>3, <3>4, <3>5 DEF Rests
    <3>7. QED
      BY <1>3, <2>6, <3>2, <3>6 DEF Steps
  <2>9. ASSUME NEW n \in 1..Len(app.actions), app.call = None, GoesOn(app, x, pending, n)
        PROVE  Steps(1)
    <3>1. GoesOn(app, x, {}, n)
      BY <1>1, <2>9 DEF Waiting
    <3>2. /\ Extends
          /\ \A i \in Len(requests) + 1..Len(requests') : IsCall(requests'[i].call.key)
      BY <1>1, <2>1, <2>2, <2>5, <3>1, GoExtends
    <3>3. Inits(1)
      BY <3>2 DEF Inits, IsCall, IsInit
    <3>4. app.ret = "OK" => Of(x.proxy)
      <4>1. app.actions # <<>>
        BY <2>9
      <4>2. app.ret = "OK" => Unasked
        BY <1>1, <2>9, <4>1 DEF OneLife
      <4>3. Unasked => Of(x.proxy)
        BY DEF Unasked, Of
      <4>4. QED
        BY <4>2, <4>3
    <3>5. \A i \in 1..Len(requests) : ~Live(i)
      <4>1. ASSUME NEW i \in 1..Len(requests), Live(i) PROVE FALSE
        <5>1. client.proxy = server.life /\ server.up
          BY <1>1, <4>1 DEF Settling, Live, Current
        <5>2. QED
          BY <1>1, <2>3, <5>1 DEF Settling, Current
      <4>2. QED
        BY <4>1
    <3>6. Proceeds(app, x, n)
      BY <2>2, <2>4, <2>5, <2>9, <3>1, <3>4, <3>5 DEF Proceeds
    <3>7. QED
      BY <1>3, <2>1, <2>6, <3>2, <3>3, <3>6 DEF Steps
  <2>10. QED
    BY <2>2, <2>7, <2>8, <2>9
<1>8. QED
  BY <1>3, <1>5, <1>6, <1>7

LEMMA CallSteps ==
  ASSUME SInv, CallFinished
  PROVE  Steps(1)
<1>1. TInv /\ Known /\ Waiting /\ OneByOne /\ Progress /\ OneLife
  BY DEF SInv, RInv
<1>2. PICK e : e = events[1]
  OBVIOUS
<1>3. /\ Inside /\ Took(1) /\ 1 \in 1..Len(events) /\ e.type = "Reply"
      /\ \/ UNCHANGED <<app, client, pending, requests>>
         \/ \E a \in App : CallDoneWell(e, a)
         \/ CallFailed(e)
  BY <1>1, <1>2, CallStep
<1>4. app.running
  BY DEF CallFinished, Receive
<1>5. CASE UNCHANGED <<app, client, pending, requests>>
  <2>1. Extends /\ NoCalls /\ Inits(1)
    BY <1>1, <1>5, SameRequests, NoInits
  <2>2. Rests /\ Moves(1)
    BY <1>1, <1>5, <2>1 DEF Rests, Holds, Moves, Progress
  <2>3. QED
    BY <1>3, <2>1, <2>2 DEF Steps
<1>6. e.key \in pending => pending \ {e.key} = {} /\ app.call = e.key /\ app.call # None
  BY <1>1 DEF Waiting
<1>7. CASE CallFailed(e)
  <2>1. Extends /\ NoCalls /\ Inits(1)
    BY <1>1, <1>7, SameRequests, NoInits DEF CallFailed
  <2>2. Rests /\ Moves(1)
    BY <1>6, <1>7, <2>1 DEF Rests, Holds, Moves, CallFailed
  <2>3. QED
    BY <1>3, <2>1, <2>2 DEF Steps
<1>8. ASSUME NEW a \in App, CallDoneWell(e, a) PROVE Steps(1)
  <2>1. /\ e.answer = "OK" /\ e.key \in pending /\ a.call = None /\ a.actions = app.actions
        /\ a.ret = app.ret /\ a.running = app.running /\ a.quitting = app.quitting
        /\ Become(NextAction(a, client), {}) /\ client \in Client /\ {} \in SUBSET Keys
    BY <1>1, <1>6, <1>8 DEF CallDoneWell, TInv
  <2>2. /\ client' = client /\ app'.ret = app.ret /\ app'.running
        /\ \/ EndsNow(a, client, {})
           \/ \E i \in 1..Len(a.actions) : GoesOn(a, client, {}, i)
    BY <1>1, <1>4, <2>1, AdvanceIs
  <2>3. app.call = e.key /\ app.call # None /\ e.key[1] = "action"
    BY <1>1, <1>6, <2>1 DEF Waiting
  <2>4. Did(app.call[2]) /\ client.version = server.version
    BY <1>1, <1>2, <1>3, <2>1, <2>3 DEF Progress
  <2>5. client.proxy \in Nat /\ client.proxy <= server.life
    BY <1>1, Lengths DEF Known
  <2>6. Moves(1)
    BY <2>2 DEF Moves
  <2>7. CASE EndsNow(a, client, {})
    <3>1. /\ Opens("open", client.proxy) /\ app'.actions = <<>> /\ app'.call = None
          /\ pending' = {} /\ \A i \in 1..Len(app.actions) : CallsOf(app.actions[i], client) = <<>>
      BY <2>1, <2>7 DEF EndsNow
    <3>2. Extends /\ NoCalls /\ Inits(1)
      BY <1>1, <2>5, <3>1, OpensExtends, OpensNoInits
    <3>3. app.ret = "OK" => \A i \in 1..Len(program) : Asked(program[i]) => Did(program[i].pos)
      BY <1>1, <2>1, <2>4, <3>1, EndedIs
    <3>4. Holds
      BY <3>1 DEF Holds
    <3>5. \A i \in 1..Len(requests) : ~Live(i)
      BY <1>1, <1>2, <1>3, <2>1 DEF OneByOne, NothingLive, Granted
    <3>6. Rests
      BY <2>2, <2>4, <3>1, <3>2, <3>3, <3>4, <3>5 DEF Rests
    <3>7. QED
      BY <1>3, <2>6, <3>2, <3>6 DEF Steps
  <2>8. ASSUME NEW n \in 1..Len(a.actions), GoesOn(a, client, {}, n)
        PROVE  Steps(1)
    <3>1. /\ Extends
          /\ \A i \in Len(requests) + 1..Len(requests') : IsCall(requests'[i].call.key)
      BY <1>1, <2>1, <2>2, <2>5, <2>8, GoExtends
    <3>2. Inits(1)
      BY <3>1 DEF Inits, IsCall, IsInit
    <3>3. Granted(1)
      BY <1>2, <1>3, <2>1 DEF Granted
    <3>4. app.ret = "OK" => Of(client.proxy)
      BY <1>1, <1>3, <3>3 DEF OneLife
    <3>5. \A i \in 1..Len(requests) : ~Live(i)
      BY <1>1, <1>3, <3>3 DEF OneByOne, NothingLive
    <3>6. Proceeds(a, client, n)
      BY <2>1, <2>2, <2>4, <2>5, <2>8, <3>4, <3>5 DEF Proceeds
    <3>7. QED
      BY <1>3, <2>1, <2>6, <3>1, <3>2, <3>6 DEF Steps
  <2>9. QED
    BY <2>2, <2>7, <2>8
<1>9. QED
  BY <1>3, <1>5, <1>7, <1>8

LEMMA OtherSteps ==
  ASSUME SInv,
         \/ NameVanished \/ StartFinished \/ FlagsChanged
         \/ (\E s \in {"SIGTERM", "SIGINT"} : Signal(s)) \/ Timeout \/ Quit
  PROVE  \E k \in {0, 1} : Steps(k)
<1>1. TInv /\ Waiting /\ Progress
  BY DEF SInv, RInv
<1>2. CASE NameVanished
  <2>1. /\ Inside /\ Took(1) /\ UNCHANGED <<app, pending, requests>>
        /\ events[1].type = "Vanished" /\ 1 \in 1..Len(events)
        /\ client'.proxy = Down /\ client'.init = None /\ client'.version = client.version
    BY <1>1, <1>2, VanishedStep
  <2>2. Extends /\ NoCalls /\ Inits(1)
    BY <1>1, <2>1, SameRequests, NoInits
  <2>3. Rests
    BY <1>1, <2>1, <2>2 DEF Rests, Holds, Progress
  <2>4. Moves(1)
    BY <1>1, <2>1, Lengths DEF Moves
  <2>5. QED
    BY <2>1, <2>2, <2>3, <2>4 DEF Steps
<1>3. CASE StartFinished \/ FlagsChanged
  <2>1. /\ Inside /\ Took(1) /\ UNCHANGED <<app, pending, requests>>
        /\ client'.proxy = client.proxy /\ client'.init = client.init
        /\ client'.version = client.version
    BY <1>1, <1>3, HeardStep
  <2>2. Extends /\ NoCalls /\ Inits(1)
    BY <1>1, <2>1, SameRequests, NoInits
  <2>3. Rests /\ Moves(1)
    BY <1>1, <2>1, <2>2 DEF Rests, Holds, Moves, Progress
  <2>4. QED
    BY <2>1, <2>2, <2>3 DEF Steps
<1>4. ASSUME NEW s \in {"SIGTERM", "SIGINT"}, Signal(s) PROVE Steps(0)
  <2>1. /\ Inside /\ UNCHANGED <<client, requests, events>> /\ app'.ret = "CANCEL"
        /\ app'.call = None /\ app'.actions = app.actions /\ pending' = pending \ {app.call}
    BY <1>1, <1>4, SignalStep
  <2>2. pending' = {} /\ Took(0)
    BY <1>1, <2>1, NothingTaken DEF Waiting
  <2>3. Extends /\ NoCalls /\ Inits(0)
    BY <1>1, <2>1, SameRequests, NoInits
  <2>4. Rests /\ Moves(0)
    BY <2>1, <2>2, <2>3 DEF Rests, Holds, Moves
  <2>5. QED
    BY <2>1, <2>2, <2>3, <2>4 DEF Steps
<1>5. CASE Timeout
  <2>1. /\ Inside /\ UNCHANGED <<client, pending, requests, events>> /\ app'.ret = "TIMEOUT"
        /\ app'.call = app.call /\ app'.actions = app.actions
    BY <1>1, <1>5, TimeoutStep
  <2>2. Extends /\ NoCalls /\ Inits(0) /\ Took(0)
    BY <1>1, <2>1, SameRequests, NoInits, NothingTaken
  <2>3. Rests /\ Moves(0)
    BY <1>1, <2>1, <2>2 DEF Rests, Holds, Moves, Progress
  <2>4. QED
    BY <2>1, <2>2, <2>3 DEF Steps
<1>6. CASE Quit
  <2>1. /\ Inside /\ Took(0) /\ UNCHANGED <<client, pending, requests>>
        /\ app.quitting /\ app'.ret = app.ret /\ app'.quitting = app.quitting
        /\ app'.call = app.call /\ app'.actions = app.actions
    BY <1>1, <1>6, QuitStep
  <2>2. Extends /\ NoCalls /\ Inits(0)
    BY <1>1, <2>1, SameRequests, NoInits
  <2>3. Rests /\ Moves(0)
    BY <1>1, <2>1, <2>2 DEF Rests, Holds, Moves, Progress
  <2>4. QED
    BY <2>1, <2>2, <2>3 DEF Steps
<1>7. QED
  BY <1>2, <1>3, <1>4, <1>5, <1>6

(* The calls of the next action come after all others.                       *)
LEMMA NewCallsAre ==
  ASSUME SInv, NEW k \in {0, 1}, Steps(k)
  PROVE  \/ NoCalls
         \/ \E pos \in Nat :
              /\ Before(pos) /\ pending' = {<<"action", pos>>}
              /\ \A i \in Len(requests) + 1..Len(requests') :
                   /\ IsCall(requests'[i].call.key) /\ requests'[i].call.key[2] = pos
                   /\ requests'[i].to = client'.proxy
<1>1. CASE Rests
  BY <1>1 DEF Rests
<1>2. ASSUME NEW a \in App, NEW x \in Client, NEW n \in 1..Len(a.actions), Proceeds(a, x, n)
      PROVE  \E pos \in Nat :
               /\ Before(pos) /\ pending' = {<<"action", pos>>}
               /\ \A i \in Len(requests) + 1..Len(requests') :
                    /\ IsCall(requests'[i].call.key) /\ requests'[i].call.key[2] = pos
                    /\ requests'[i].to = client'.proxy
  <2>1. TInv /\ Known /\ Numbers
    BY DEF SInv, RInv
  <2>2. /\ a.actions = app.actions /\ client' = x /\ x.proxy <= server.life
        /\ GoesOn(a, x, {}, n)
    BY <1>2 DEF Proceeds
  <2>3. PICK pos : pos = a.actions[n].pos
    OBVIOUS
  <2>4. /\ pos \in Nat /\ a.actions[n].type # "list"
        /\ \A i \in Len(requests) + 1..Len(requests') :
             /\ requests'[i].to = x.proxy /\ IsCall(requests'[i].call.key)
             /\ requests'[i].call.key[2] = pos
    BY <2>1, <2>2, <2>3, GoExtends
  <2>5. Before(pos)
    BY <2>1, <2>2, <2>3, <2>4 DEF Numbers, Due
  <2>6. pending' = {<<"action", pos>>}
    BY <2>2, <2>3 DEF GoesOn
  <2>7. QED
    BY <2>2, <2>4, <2>5, <2>6
<1>3. QED
  BY <1>1, <1>2 DEF Steps

LEMMA ToolInSeq ==
  ASSUME SInv, NEW k \in {0, 1}, Steps(k)
  PROVE  InSeq'
<1>1. TInv /\ InSeq /\ Inside /\ Extends
  BY DEF SInv, RInv, Steps
<1>2. done' = done
  BY <1>1, SameWorld
<1>3. ASSUME NEW i \in 1..Len(requests')
      PROVE  \/ i \in 1..Len(requests) /\ requests'[i] = requests[i]
             \/ i \in Len(requests) + 1..Len(requests')
  BY <1>1, Lengths DEF Extends
<1>4. CASE NoCalls
  <2>1. ASSUME NEW i \in 1..Len(requests'), IsCall(requests'[i].call.key)
        PROVE  i \in 1..Len(requests) /\ requests'[i] = requests[i]
    BY <1>3, <1>4, <2>1 DEF NoCalls
  <2>2. ASSUME NEW i \in 1..Len(requests'), NEW j \in 1..Len(requests'), i < j,
               IsCall(requests'[i].call.key), IsCall(requests'[j].call.key)
        PROVE  requests'[i].call.key[2] <= requests'[j].call.key[2]
    BY <1>1, <2>1, <2>2 DEF InSeq
  <2>3. ASSUME NEW i \in 1..Len(done), NEW j \in 1..Len(requests'),
               IsCall(requests'[j].call.key)
        PROVE  done[i].key[2] <= requests'[j].call.key[2]
    BY <1>1, <2>1, <2>3 DEF InSeq
  <2>4. QED
    BY <1>1, <1>2, <2>2, <2>3 DEF InSeq
<1>5. ASSUME NEW pos \in Nat, Before(pos),
             \A i \in Len(requests) + 1..Len(requests') : requests'[i].call.key[2] = pos
      PROVE  InSeq'
  <2>1. ASSUME NEW i \in 1..Len(requests), IsCall(requests[i].call.key)
        PROVE  requests[i].call.key[2] <= pos
    <3>1. requests[i].call.key[2] < pos /\ requests[i].call.key[2] \in Nat
      BY <1>1, <1>5, <2>1, ElementsAre, KeysAre DEF Before
    <3>2. QED
      BY <3>1
  <2>2. ASSUME NEW i \in 1..Len(done)
        PROVE  done[i].key[2] <= pos
    <3>1. done[i].key[2] < pos /\ done[i].key[2] \in Nat
      BY <1>1, <1>5, ElementsAre, KeysAre DEF Before
    <3>2. QED
      BY <3>1
  <2>3. ASSUME NEW i \in 1..Len(requests'), NEW j \in 1..Len(requests'), i < j,
               IsCall(requests'[i].call.key), IsCall(requests'[j].call.key)
        PROVE  requests'[i].call.key[2] <= requests'[j].call.key[2]
    <3>1. CASE j \in 1..Len(requests) /\ requests'[j] = requests[j]
      <4>1. i \in 1..Len(requests) /\ requests'[i] = requests[i]
        <5>1. Len(requests) \in Nat
          BY <1>1, Lengths
        <5>2. i \in 1..Len(requests)
          BY <2>3, <3>1, <5>1
        <5>3. QED
          BY <1>1, <5>2 DEF Extends
      <4>2. QED
        BY <1>1, <2>3, <3>1, <4>1 DEF InSeq
    <3>2. CASE j \in Len(requests) + 1..Len(requests')
      <4>1. requests'[j].call.key[2] = pos
        BY <1>5, <3>2
      <4>2. requests'[i].call.key[2] <= pos
        BY <1>3, <1>5, <2>1, <2>3
      <4>3. QED
        BY <4>1, <4>2
    <3>3. QED
      BY <1>3, <3>1, <3>2
  <2>4. ASSUME NEW i \in 1..Len(done), NEW j \in 1..Len(requests'),
               IsCall(requests'[j].call.key)
        PROVE  done[i].key[2] <= requests'[j].call.key[2]
    BY <1>1, <1>3, <1>5, <2>2, <2>4 DEF InSeq
  <2>5. QED
    BY <1>1, <1>2, <2>3, <2>4 DEF InSeq
<1>6. QED
  BY <1>4, <1>5, NewCallsAre

LEMMA ToolProgress ==
  ASSUME SInv, NEW k \in {0, 1}, Steps(k)
  PROVE  Progress'
<1>1. TInv /\ Progress /\ Inside /\ Took(k)
  BY DEF SInv, RInv, Steps
<1>2. server' = server /\ done' = done /\ program' = program
  BY <1>1 DEF Inside
<1>3. \A pos : Did(pos)' <=> Did(pos)
  BY <1>2 DEF Did
<1>4. \A i : Asked(program[i])' <=> Asked(program[i])
  BY <1>2 DEF Asked
<1>5. \A i \in 1..Len(events') : events'[i].type = "Reply" =>
        /\ events'[i].value = server.version
        /\ events'[i].key[1] = "action" /\ events'[i].answer = "OK" => Did(events'[i].key[2])
  <2>1. ASSUME NEW i \in 1..Len(events'), events'[i].type = "Reply"
        PROVE  /\ events'[i].value = server.version
               /\ events'[i].key[1] = "action" /\ events'[i].answer = "OK" => Did(events'[i].key[2])
    <3>1. PICK j \in 1..Len(events) : events'[i] = events[j]
      BY <1>1, EventsTaken
    <3>2. QED
      BY <1>1, <2>1, <3>1 DEF Progress
  <2>2. QED
    BY <2>1
<1>6. \A i \in 1..Len(events') : (events[i].type = "Reply" =>
        /\ events[i].value = server.version
        /\ events[i].key[1] = "action" /\ events[i].answer = "OK" => Did(events[i].key[2]))'
  BY <1>2, <1>5 DEF Did
<1>7. CASE Rests
  <2>1. ASSUME app'.ret = "OK"
        PROVE  /\ ~app'.running => app'.quitting
               /\ app'.quitting => app'.call = None /\ app'.actions = <<>>
               /\ \A i \in 1..Len(program) : Asked(program[i]) =>
                    \/ Did(program[i].pos) \/ app'.call = <<"action", program[i].pos>>
                    \/ \E j \in 1..Len(app'.actions) : app'.actions[j] = program[i]
    <3>1. app.ret = "OK"
      BY <1>7, <2>1 DEF Rests
    <3>2. CASE /\ app'.call = app.call /\ app'.actions = app.actions
               /\ app'.quitting = app.quitting
               /\ app'.running = app.running \/ app.quitting
      BY <1>1, <3>1, <3>2 DEF Progress
    <3>3. CASE /\ app'.running /\ app'.actions = <<>> /\ app'.call = None
               /\ \A i \in 1..Len(program) : Asked(program[i]) => Did(program[i].pos)
      BY <3>3
    <3>4. QED
      BY <1>7, <2>1, <3>2, <3>3 DEF Rests
  <2>2. app'.call # None => client'.version = server.version
    BY <1>7 DEF Rests
  <2>3. QED
    BY <1>2, <1>3, <1>4, <1>6, <2>1, <2>2 DEF Progress
<1>8. ASSUME NEW a \in App, NEW x \in Client, NEW n \in 1..Len(a.actions), Proceeds(a, x, n)
      PROVE  Progress'
  <2>1. /\ a.actions = app.actions /\ a.quitting = app.quitting
        /\ client' = x /\ x.version = server.version /\ GoesOn(a, x, {}, n)
        /\ app'.ret = app.ret /\ app'.running
        /\ app.call # None => Did(app.call[2])
    BY <1>8 DEF Proceeds
  <2>2. /\ \A j \in 1..n - 1 : CallsOf(a.actions[j], x) = <<>>
        /\ app'.actions = SubSeq(a.actions, n + 1, Len(a.actions))
        /\ app'.call = <<"action", a.actions[n].pos>> /\ app'.quitting = a.quitting
    BY <2>1 DEF GoesOn
  <2>3. app.actions # <<>>
    BY <2>1
  <2>4. app'.ret = "OK" => ~app'.quitting
    BY <1>1, <2>1, <2>2, <2>3 DEF Progress
  <2>5. ASSUME app'.ret = "OK", NEW i \in 1..Len(program), Asked(program[i])
        PROVE  \/ Did(program[i].pos) \/ app'.call = <<"action", program[i].pos>>
               \/ \E j \in 1..Len(app'.actions) : app'.actions[j] = program[i]
    <3>1. program[i] \in Action /\ program[i].pos \in Nat
      <4>1. program \in Seq(Action)
        BY <1>1 DEF TInv
      <4>2. program[i] \in Action
        BY <2>5, <4>1
      <4>3. QED
        BY <4>2 DEF Action
    <3>2. CASE app.call = <<"action", program[i].pos>>
      <4>1. PICK key : key = <<"action", program[i].pos>>
        OBVIOUS
      <4>2. key[2] = program[i].pos /\ key # None
        BY <3>1, <4>1, KeysAre
      <4>3. QED
        BY <2>1, <3>2, <4>1, <4>2
    <3>3. ASSUME NEW j \in 1..Len(app.actions), app.actions[j] = program[i]
          PROVE  \/ app'.call = <<"action", program[i].pos>>
                 \/ \E m \in 1..Len(app'.actions) : app'.actions[m] = program[i]
      <4>1. PICK l \in Nat : l = Len(app.actions)
        BY <1>1, Lengths
      <4>2. app.actions \in Seq(Action) /\ n \in 1..l /\ j \in 1..l
        BY <1>1, <2>1, <3>3, <4>1, Lengths
      <4>3. CallsOf(app.actions[j], x) # <<>>
        BY <2>1, <2>5, <3>1, <3>3, AskedCalls
      <4>4. ~(j < n)
        BY <2>1, <2>2, <4>2, <4>3
      <4>5. CASE j = n
        BY <2>1, <2>2, <3>3, <4>5
      <4>6. CASE n < j
        <5>1. PICK rest : rest = SubSeq(app.actions, n + 1, Len(app.actions))
          OBVIOUS
        <5>2. /\ Len(rest) = l - n
              /\ \A m \in 1..l - n : rest[m] = app.actions[m + n]
          BY <4>1, <4>2, <5>1, RestIs
        <5>3. j - n \in 1..l - n /\ (j - n) + n = j
          BY <4>2, <4>6
        <5>4. rest[j - n] = program[i]
          BY <3>3, <5>2, <5>3
        <5>5. app'.actions = rest
          BY <2>1, <2>2, <5>1
        <5>6. QED
          BY <5>2, <5>3, <5>4, <5>5
      <4>7. QED
        BY <4>2, <4>4, <4>5, <4>6
    <3>4. QED
      BY <1>1, <2>1, <2>5, <3>2, <3>3 DEF Progress
  <2>6. QED
    BY <1>2, <1>3, <1>4, <1>6, <2>1, <2>4, <2>5 DEF Progress
<1>9. QED
  BY <1>7, <1>8 DEF Steps

LEMMA ToolHeeded ==
  ASSUME SInv, NEW k \in {0, 1}, Steps(k)
  PROVE  Heeded'
<1>1. TInv /\ Known /\ Heeded /\ Inside /\ Extends
  BY DEF SInv, RInv, Steps
<1>2. done' = done /\ (\A life : Current(life)' <=> Current(life))
  BY <1>1, SameWorld
<1>3. \A pos : Did(pos)' <=> Did(pos)
  BY <1>2 DEF Did
<1>4. ASSUME NEW i \in 1..Len(requests') PROVE
         \/ i \in 1..Len(requests) /\ requests'[i] = requests[i] /\ (Live(i)' => Live(i))
         \/ i \in Len(requests) + 1..Len(requests')
  <2>1. i \in 1..Len(requests) \/ i \in Len(requests) + 1..Len(requests')
    BY <1>1, Lengths DEF Extends
  <2>2. QED
    BY <1>1, <1>2, <2>1 DEF Extends, Live
<1>5. ASSUME \A j \in 1..Len(done) :
               Did(done[j].key[2]) \/ app'.call = <<"action", done[j].key[2]>>,
             \A i \in 1..Len(requests') :
               Live(i)' => app'.call = <<"action", requests'[i].call.key[2]>>
      PROVE  Heeded'
  BY <1>2, <1>3, <1>5 DEF Heeded, Did
<1>6. ASSUME app.ret = "OK", NEW j \in 1..Len(done), app.call # None => Did(app.call[2])
      PROVE  Did(done[j].key[2])
  <2>1. PICK pos, key : pos = done[j].key[2] /\ key = <<"action", pos>>
    OBVIOUS
  <2>2. key[2] = pos /\ key # None
    BY <2>1 DEF None
  <2>3. Did(pos) \/ app.call = key
    BY <1>1, <1>6, <2>1 DEF Heeded
  <2>4. QED
    BY <1>6, <2>1, <2>2, <2>3
<1>7. CASE Rests /\ app'.ret = "OK"
  <2>1. app.ret = "OK"
    BY <1>7 DEF Rests
  <2>2. ASSUME NEW i \in 1..Len(requests'), Live(i)'
        PROVE  i \in 1..Len(requests) /\ requests'[i] = requests[i] /\ Live(i)
    BY <1>4, <1>7, <2>2 DEF Rests, NoCalls, Live
  <2>3. CASE app'.call = app.call
    BY <1>1, <1>5, <2>1, <2>2, <2>3 DEF Heeded
  <2>4. CASE /\ app.call # None => Did(app.call[2])
             /\ \A i \in 1..Len(requests) : ~Live(i)
    BY <1>5, <1>6, <2>1, <2>2, <2>4
  <2>5. QED
    BY <1>7, <2>1, <2>3, <2>4 DEF Rests
<1>8. ASSUME NEW a \in App, NEW x \in Client, NEW n \in 1..Len(a.actions), Proceeds(a, x, n),
             app'.ret = "OK"
      PROVE  Heeded'
  <2>1. /\ app.ret = "OK" /\ (app.call # None => Did(app.call[2]))
        /\ \A i \in 1..Len(requests) : ~Live(i)
        /\ client' = x /\ x.proxy <= server.life /\ GoesOn(a, x, {}, n)
    BY <1>8 DEF Proceeds
  <2>2. app'.call = <<"action", a.actions[n].pos>>
    BY <2>1 DEF GoesOn
  <2>3. \A i \in Len(requests) + 1..Len(requests') :
          requests'[i].call.key[2] = a.actions[n].pos
    BY <1>1, <2>1, GoExtends
  <2>4. \A i \in 1..Len(requests') :
          Live(i)' => app'.call = <<"action", requests'[i].call.key[2]>>
    BY <1>4, <2>1, <2>2, <2>3
  <2>5. QED
    BY <1>5, <1>6, <2>1, <2>4
<1>9. CASE app'.ret # "OK"
  BY <1>9 DEF Heeded
<1>10. QED
  BY <1>7, <1>8, <1>9 DEF SInv, Steps

LEMMA OfKept ==
  ASSUME TInv, Inside, Extends, NEW life, Of(life), NoCalls \/ client'.proxy = life
  PROVE  Of(life)'
<1>1. ASSUME NEW i \in 1..Len(requests'), IsCall(requests'[i].call.key)
      PROVE  requests'[i].to = life
  <2>1. i \in 1..Len(requests) \/ i \in Len(requests) + 1..Len(requests')
    BY Lengths DEF Extends
  <2>2. CASE i \in 1..Len(requests)
    <3>1. requests'[i] = requests[i]
      BY <2>2 DEF Extends
    <3>2. QED
      BY <1>1, <2>2, <3>1 DEF Of
  <2>3. CASE i \in Len(requests) + 1..Len(requests')
    BY <1>1, <2>3 DEF Extends, NoCalls
  <2>4. QED
    BY <2>1, <2>2, <2>3
<1>2. \A j \in 1..Len(done') : done'[j].life = life
  BY SameWorld DEF Of
<1>3. QED
  BY <1>1, <1>2 DEF Of

LEMMA ToolOneLife ==
  ASSUME SInv, NEW k \in {0, 1}, Steps(k)
  PROVE  OneLife'
<1>1. TInv /\ OneLife /\ Inside /\ Took(k) /\ Extends /\ Moves(k) /\ Numbers
  BY DEF SInv, RInv, Steps
<1>2. done' = done
  BY <1>1, SameWorld
<1>3. CASE Rests
  <2>1. NoCalls /\ Holds /\ pending' \subseteq pending
    BY <1>3 DEF Rests, Holds
  <2>2. ASSUME app'.ret = "OK" PROVE \E life \in Nat : Of(life)'
    <3>1. PICK life \in Nat : Of(life)
      BY <1>1, <1>3, <2>2 DEF Rests, OneLife
    <3>2. Of(life)'
      BY <1>1, <2>1, <3>1, OfKept
    <3>3. QED
      BY <3>2
  <2>3. ASSUME app'.ret = "OK", app'.call = None, app'.actions # <<>> PROVE Unasked'
    <3>1. Unasked
      BY <1>1, <1>3, <2>3 DEF Rests, OneLife
    <3>2. ASSUME NEW i \in 1..Len(requests') PROVE ~IsCall(requests'[i].call.key)
      <4>1. i \in 1..Len(requests) \/ i \in Len(requests) + 1..Len(requests')
        BY <1>1, Lengths DEF Extends
      <4>2. CASE i \in 1..Len(requests)
        <5>1. requests'[i] = requests[i]
          BY <1>1, <4>2 DEF Extends
        <5>2. QED
          BY <3>1, <4>2, <5>1 DEF Unasked
      <4>3. QED
        BY <2>1, <4>1, <4>2 DEF NoCalls
    <3>3. QED
      BY <1>2, <3>1, <3>2 DEF Unasked
  <2>4. ASSUME app'.ret = "OK", NEW i \in 1..Len(events'), Granted(i)'
        PROVE  /\ Of(client.proxy)' /\ client'.init = None
               /\ \A j \in 1..i - 1 : ~ComesOrGoes(j)'
    <3>1. PICK m \in 1..Len(events) : m = i + k /\ events'[i] = events[m]
      BY <1>1, EventsTaken
    <3>2. Granted(m)
      BY <2>1, <2>4, <3>1 DEF Granted
    <3>3. Of(client.proxy) /\ client.init = None /\ \A j \in 1..m - 1 : ~ComesOrGoes(j)
      BY <1>1, <1>3, <2>4, <3>2 DEF Rests, OneLife
    <3>4. k = 1 => 1 \in 1..m - 1
      BY <3>1
    <3>5. client'.proxy = client.proxy /\ client'.init = None
      BY <1>1, <3>3, <3>4 DEF Moves, ComesOrGoes, Appeared
    <3>6. Of(client.proxy)'
      <4>1. PICK life : life = client.proxy
        OBVIOUS
      <4>2. Of(life)'
        BY <1>1, <2>1, <3>3, <4>1, OfKept
      <4>3. QED
        BY <3>5, <4>1, <4>2 DEF Of
    <3>7. ASSUME NEW j \in 1..i - 1 PROVE ~ComesOrGoes(j)'
      <4>1. j + k \in 1..m - 1 /\ j \in 1..Len(events')
        BY <3>1
      <4>2. events'[j] = events[j + k]
        BY <1>1, <4>1, EventsTaken
      <4>3. QED
        BY <3>3, <4>1, <4>2 DEF ComesOrGoes
    <3>8. QED
      BY <3>5, <3>6, <3>7
  <2>5. QED
    BY <2>2, <2>3, <2>4 DEF OneLife
<1>4. ASSUME NEW a \in App, NEW x \in Client, NEW n \in 1..Len(a.actions), Proceeds(a, x, n)
      PROVE  OneLife'
  <2>1. /\ client' = x /\ app'.ret = app.ret /\ GoesOn(a, x, {}, n)
        /\ app.ret = "OK" => Of(x.proxy)
        /\ a.actions = app.actions /\ x.proxy <= server.life
    BY <1>4 DEF Proceeds
  <2>2. app'.ret = "OK" => \E life \in Nat : Of(life)'
    <3>1. PICK life : life = x.proxy
      OBVIOUS
    <3>2. life \in Nat /\ client'.proxy = life
      BY <2>1, <3>1 DEF Client
    <3>3. app'.ret = "OK" => Of(life)'
      BY <1>1, <2>1, <3>1, <3>2, OfKept
    <3>4. QED
      BY <3>2, <3>3
  <2>3. PICK pos : pos = a.actions[n].pos
    OBVIOUS
  <2>4. pos \in Nat /\ a.actions[n].type # "list"
    BY <1>1, <2>1, <2>3, GoExtends DEF SInv, RInv
  <2>5. PICK key : key = <<"action", pos>>
    OBVIOUS
  <2>6. /\ key[1] = "action" /\ key[2] = pos /\ key # None
        /\ app'.call = key /\ pending' = {key}
    BY <2>1, <2>3, <2>4, <2>5, KeysAre DEF GoesOn
  <2>7. ASSUME NEW i \in 1..Len(events'), Granted(i)' PROVE FALSE
    <3>1. PICK j \in 1..Len(events) : events'[i] = events[j]
      BY <1>1, EventsTaken
    <3>2. events[j].type = "Reply" /\ events[j].key = key
      BY <2>6, <2>7, <3>1 DEF Granted
    <3>3. Before(pos)
      BY <1>1, <2>1, <2>3, <2>4 DEF Numbers, Due
    <3>4. pos < pos
      BY <2>6, <3>2, <3>3 DEF Before, IsCall
    <3>5. QED
      BY <2>4, <3>4
  <2>8. QED
    BY <2>2, <2>6, <2>7 DEF OneLife
<1>5. QED
  BY <1>3, <1>4 DEF Steps

LEMMA ToolSettling ==
  ASSUME SInv, TInv', Known', NEW k \in {0, 1}, Steps(k)
  PROVE  Settling'
<1>1. TInv /\ Known /\ Settling /\ Inside /\ Took(k) /\ Extends /\ Moves(k) /\ Inits(k)
  BY DEF SInv, RInv, Steps
<1>2. server' = server /\ \A life : Current(life)' <=> Current(life)
  BY <1>1, SameWorld
<1>3. ASSUME NEW i \in 1..Len(events')
      PROVE  i + k \in 1..Len(events) /\ events'[i] = events[i + k]
  BY <1>1, EventsTaken
<1>4. Settled => Settled'
  BY <1>3 DEF Settled, ComesOrGoes
<1>5. ASSUME k = 1, Len(events) > 0, Appeared(1), Current(events[1].value)
      PROVE  Settled'
  <2>1. \A j \in 1 + 1..Len(events) : ~ComesOrGoes(j)
    BY <1>1, <1>5 DEF Settling
  <2>2. ASSUME NEW i \in 1..Len(events') PROVE ~ComesOrGoes(i)'
    <3>1. i + 1 \in 1 + 1..Len(events) /\ events'[i] = events[i + 1]
      BY <1>3, <1>5
    <3>2. QED
      BY <2>1, <3>1 DEF ComesOrGoes
  <2>3. QED
    BY <2>2 DEF Settled
<1>6. ASSUME Settled, k = 1, Len(events) > 0, ComesOrGoes(1) PROVE FALSE
  BY <1>1, <1>6, Lengths DEF Settled
<1>7. ASSUME NEW i \in 1..Len(requests')
      PROVE  \/ i \in 1..Len(requests) /\ requests'[i] = requests[i]
             \/ i \in Len(requests) + 1..Len(requests')
  BY <1>1, Lengths DEF Extends
<1>8. ~Current(Down) /\ ~Current(None[2])
  BY <1>1, KeysAre DEF Known, Current, Down
<1>9. ASSUME NEW i \in 1..Len(requests), Live(i) PROVE client'.proxy = server.life
  <2>1. client.proxy = server.life /\ server.up
    BY <1>1, <1>9 DEF Settling, Live, Current
  <2>2. client.init = None /\ Settled
    BY <1>1, <2>1 DEF Settling, Current
  <2>3. QED
    BY <1>1, <1>6, <2>1, <2>2 DEF Moves, ComesOrGoes
<1>10. \A i \in 1..Len(requests') : Live(i)' => client'.proxy = server'.life
  <2>1. ASSUME NEW i \in 1..Len(requests'), Live(i)' PROVE client'.proxy = server'.life
    <3>1. PICK life : life = requests'[i].to
      OBVIOUS
    <3>2. Current(life)' /\ IsCall(requests'[i].call.key)
      BY <2>1, <3>1 DEF Live, Current
    <3>3. Current(life)
      BY <1>2, <3>2
    <3>4. CASE i \in 1..Len(requests) /\ requests'[i] = requests[i]
      <4>1. Live(i)
        BY <3>1, <3>2, <3>3, <3>4 DEF Live
      <4>2. QED
        BY <1>2, <1>9, <3>4, <4>1
    <3>5. CASE i \in Len(requests) + 1..Len(requests')
      <4>1. client'.proxy = life
        BY <1>1, <3>1, <3>2, <3>5 DEF Extends
      <4>2. QED
        BY <1>2, <3>3, <4>1 DEF Current
    <3>6. QED
      BY <1>7, <3>4, <3>5
  <2>2. QED
    BY <2>1
<1>11. Current(client'.proxy) => client'.init = None /\ Settled'
  <2>1. CASE client'.proxy = client.proxy /\ client'.init \in {client.init, None}
    BY <1>1, <1>4, <2>1 DEF Settling
  <2>2. CASE client'.proxy = Down
    BY <1>8, <2>2
  <2>3. CASE k = 1 /\ Len(events) > 0 /\ Appeared(1) /\ client'.proxy = client.proxy
    BY <1>1, <1>6, <2>3 DEF Settling, Appeared, ComesOrGoes
  <2>4. CASE client'.proxy = client.init[2] /\ client'.init = None
    BY <1>1, <1>4, <2>4 DEF Settling
  <2>5. QED
    BY <1>1, <2>1, <2>2, <2>3, <2>4 DEF Moves
<1>12. Current(client'.init[2]) => Settled'
  <2>1. CASE client'.init = None
    BY <1>8, <2>1
  <2>2. CASE client'.init = client.init
    BY <1>1, <1>4, <2>2 DEF Settling
  <2>3. CASE k = 1 /\ Len(events) > 0 /\ Appeared(1) /\ client'.init[2] = events[1].value
    BY <1>5, <2>3
  <2>4. QED
    BY <1>1, <2>1, <2>2, <2>3 DEF Moves
<1>13. \A i \in 1..Len(requests') : IsInit(requests'[i].call.key) =>
         /\ requests'[i].call.key[2] <= server.life
         /\ Current(requests'[i].call.key[2]) => Settled'
  <2>1. ASSUME NEW i \in 1..Len(requests'), IsInit(requests'[i].call.key)
        PROVE  /\ requests'[i].call.key[2] <= server.life
               /\ Current(requests'[i].call.key[2]) => Settled'
    <3>1. CASE i \in 1..Len(requests) /\ requests'[i] = requests[i]
      BY <1>1, <1>4, <2>1, <3>1 DEF Settling
    <3>2. CASE i \in Len(requests) + 1..Len(requests')
      <4>1. /\ k = 1 /\ Len(events) > 0 /\ Appeared(1)
            /\ requests'[i].call.key[2] = events[1].value
        BY <1>1, <2>1, <3>2 DEF Inits
      <4>2. 1 \in 1..Len(events)
        BY <1>1, <4>1, Lengths
      <4>3. events[1].value <= server.life
        BY <1>1, <4>1, <4>2 DEF Known
      <4>4. QED
        BY <1>5, <4>1, <4>3
    <3>3. QED
      BY <1>7, <3>1, <3>2
  <2>2. QED
    BY <2>1
<1>14. \A i \in 1..Len(events') : events'[i].type = "Appeared" /\ Current(events'[i].value) =>
         \A j \in i + 1..Len(events') : ~ComesOrGoes(j)'
  <2>1. ASSUME NEW i \in 1..Len(events'), events'[i].type = "Appeared",
               Current(events'[i].value), NEW j \in i + 1..Len(events')
        PROVE  ~ComesOrGoes(j)'
    <3>1. PICK m \in 1..Len(events) : m = i + k /\ events'[i] = events[m]
      BY <1>3
    <3>2. j \in 1..Len(events') /\ Len(events') \in Nat
      BY <1>1, <2>1 DEF Took
    <3>3. j + k \in m + 1..Len(events) /\ events'[j] = events[j + k]
      <4>1. j + k \in 1..Len(events) /\ events'[j] = events[j + k]
        BY <1>3, <3>2
      <4>2. i \in Nat /\ j \in Nat /\ i < j
        BY <2>1, <3>2
      <4>3. Len(events) \in Nat
        BY <1>1, Lengths
      <4>4. m + 1 <= j + k
        BY <3>1, <4>2
      <4>5. QED
        BY <4>1, <4>3, <4>4
    <3>4. ~ComesOrGoes(j + k)
      BY <1>1, <2>1, <3>1, <3>3 DEF Settling, Appeared
    <3>5. QED
      BY <3>3, <3>4 DEF ComesOrGoes
  <2>2. QED
    BY <2>1
<1>15. \A i \in 1..Len(events') : events'[i].type = "Reply" /\ IsInit(events'[i].key) =>
         /\ events'[i].key[2] <= server.life
         /\ Current(events'[i].key[2]) => Settled'
  <2>1. ASSUME NEW i \in 1..Len(events'), events'[i].type = "Reply", IsInit(events'[i].key)
        PROVE  /\ events'[i].key[2] <= server.life
               /\ Current(events'[i].key[2]) => Settled'
    <3>1. PICK m \in 1..Len(events) : events'[i] = events[m]
      BY <1>3
    <3>2. QED
      BY <1>1, <1>4, <2>1, <3>1 DEF Settling
  <2>2. QED
    BY <2>1
<1>16. QED
  BY <1>2, <1>10, <1>11, <1>12, <1>13, <1>14, <1>15 DEF Settling, Current, Appeared

LEMMA ToolKeepsSInv ==
  ASSUME SInv, RInv',
         \/ NameAppeared \/ NameVanished \/ InitFinished \/ CallFinished
         \/ StartFinished \/ FlagsChanged
         \/ (\E s \in {"SIGTERM", "SIGINT"} : Signal(s)) \/ Timeout \/ Quit
  PROVE  SInv'
<1>1. PICK k \in {0, 1} : Steps(k)
  BY AppearedSteps, InitSteps, CallSteps, OtherSteps
<1>2. TInv' /\ Known'
  BY DEF RInv
<1>3. InSeq' /\ Progress' /\ OneLife' /\ Settling' /\ Heeded'
  BY <1>1, <1>2, ToolInSeq, ToolProgress, ToolOneLife, ToolSettling, ToolHeeded
<1>4. QED
  BY <1>3 DEF SInv

(* What happens to the server is no answer to the tool.                      *)
Hears(n) ==
  /\ UNCHANGED <<app, client, pending, requests, program, done>>
  /\ server'.version = server.version /\ Adds(n)
  /\ \A i \in 1..n : events'[Len(events) + i].type \in {"Flags", "Appeared", "Vanished"}

LEMMA HeardKeeps ==
  ASSUME SInv, NEW n \in Nat, Hears(n)
  PROVE  InSeq' /\ Progress' /\ OneLife'
<1>1. TInv /\ InSeq /\ Progress /\ OneLife
  BY DEF SInv, RInv
<1>2. /\ app' = app /\ client' = client /\ pending' = pending /\ requests' = requests
      /\ program' = program /\ done' = done /\ server'.version = server.version /\ Adds(n)
  BY DEF Hears
<1>3. ASSUME NEW i \in 1..Len(events'), events'[i].type = "Reply"
      PROVE  i \in 1..Len(events) /\ events'[i] = events[i]
  <2>1. ASSUME NEW j \in 1..n, i = Len(events) + j PROVE FALSE
    BY <1>3, <2>1 DEF Hears
  <2>2. QED
    BY <1>1, <1>2, <2>1, AddsIs
<1>4. InSeq'
  BY <1>1, <1>2 DEF InSeq
<1>5. Progress'
  <2>1. \A pos : Did(pos)' <=> Did(pos)
    BY <1>2 DEF Did
  <2>2. \A i : Asked(program[i])' <=> Asked(program[i])
    BY <1>2 DEF Asked
  <2>3. \A i \in 1..Len(events') : (events[i].type = "Reply" =>
          /\ events[i].value = server.version
          /\ events[i].key[1] = "action" /\ events[i].answer = "OK" => Did(events[i].key[2]))'
    <3>1. ASSUME NEW i \in 1..Len(events'), events'[i].type = "Reply"
          PROVE  /\ events'[i].value = server'.version
                 /\ events'[i].key[1] = "action" /\ events'[i].answer = "OK" =>
                      Did(events'[i].key[2])
      <4>1. i \in 1..Len(events) /\ events'[i] = events[i]
        BY <1>3, <3>1
      <4>2. QED
        BY <1>1, <1>2, <3>1, <4>1 DEF Progress
    <3>2. QED
      BY <1>2, <3>1 DEF Did
  <2>4. QED
    BY <1>1, <1>2, <2>1, <2>2, <2>3 DEF Progress
<1>6. OneLife'
  <2>1. \A life : Of(life)' <=> Of(life)
    BY <1>2 DEF Of
  <2>2. Unasked' <=> Unasked
    BY <1>2 DEF Unasked
  <2>3. ASSUME app'.ret = "OK", NEW i \in 1..Len(events'), Granted(i)'
        PROVE  /\ Of(client.proxy)' /\ client'.init = None
               /\ \A j \in 1..i - 1 : ~ComesOrGoes(j)'
    <3>1. i \in 1..Len(events) /\ events'[i] = events[i] /\ Granted(i)
      BY <1>2, <1>3, <2>3 DEF Granted
    <3>2. /\ Of(client.proxy) /\ client.init = None
          /\ \A j \in 1..i - 1 : ~ComesOrGoes(j)
      BY <1>1, <1>2, <2>3, <3>1 DEF OneLife
    <3>3. Of(client.proxy)'
      BY <1>2, <3>2 DEF Of
    <3>4. ASSUME NEW j \in 1..i - 1 PROVE ~ComesOrGoes(j)'
      <4>1. Len(events) \in Nat
        BY <1>1, Lengths
      <4>2. j \in 1..Len(events)
        BY <3>1, <4>1
      <4>3. QED
        BY <1>2, <3>2, <4>2 DEF Adds, ComesOrGoes
    <3>5. QED
      BY <1>2, <3>2, <3>3, <3>4
  <2>4. QED
    BY <1>1, <1>2, <2>1, <2>2, <2>3 DEF OneLife
<1>7. QED
  BY <1>4, <1>5, <1>6

(* What is on its way to a server which dies, or is yet to come, is not heard. *)
LEMMA HeardHeeded ==
  ASSUME SInv, NEW n \in Nat, Hears(n),
         \/ server'.life = server.life /\ (server'.up => server.up)
         \/ server'.life = server.life + 1
  PROVE  Heeded'
<1>1. TInv /\ Known /\ Heeded /\ UNCHANGED <<app, requests, done>>
  BY DEF SInv, RInv, Hears
<1>2. \A pos : Did(pos)' <=> Did(pos)
  BY <1>1 DEF Did
<1>3. ASSUME NEW i \in 1..Len(requests), Live(i)' PROVE Live(i)
  <2>1. requests[i].to <= server.life /\ requests[i].to \in Nat /\ server.life \in Nat
    BY <1>1, ElementsAre, Lengths DEF Known
  <2>2. IsCall(requests[i].call.key) /\ server'.up /\ requests[i].to = server'.life
    BY <1>1, <1>3 DEF Live, Current
  <2>3. server'.life = server.life
    BY <2>1, <2>2
  <2>4. QED
    BY <2>1, <2>2, <2>3 DEF Live, Current
<1>4. QED
  BY <1>1, <1>2, <1>3 DEF Heeded, Did

(* The server goes on, and does not come or go, or nothing is current.       *)
LEMMA StillSettling ==
  ASSUME SInv, NEW n \in Nat, Hears(n), server'.life = server.life,
         \/ server'.up = server.up /\ \A i \in 1..n : events'[Len(events) + i].type = "Flags"
         \/ ~server'.up
  PROVE  Settling'
<1>1. TInv /\ Settling
  BY DEF SInv, RInv
<1>2. client' = client /\ requests' = requests /\ Adds(n)
  BY DEF Hears
<1>3. ASSUME NEW i \in 1..Len(events'), events'[i].type = "Reply"
      PROVE  i \in 1..Len(events) /\ events'[i] = events[i]
  <2>1. ASSUME NEW j \in 1..n, i = Len(events) + j PROVE FALSE
    BY <1>3, <2>1 DEF Hears
  <2>2. QED
    BY <1>1, <1>2, <2>1, AddsIs
<1>4. CASE ~server'.up
  <2>1. \A i \in 1..Len(events') : events'[i].type = "Reply" /\ IsInit(events'[i].key) =>
          events'[i].key[2] <= server'.life
    BY <1>1, <1>3 DEF Settling
  <2>2. QED
    BY <1>1, <1>2, <1>4, <2>1 DEF Settling, Current, Live
<1>5. CASE server'.up = server.up /\ \A i \in 1..n : events'[Len(events) + i].type = "Flags"
  <2>1. ASSUME NEW i \in 1..Len(events'), ComesOrGoes(i)'
        PROVE  i \in 1..Len(events) /\ events'[i] = events[i] /\ ComesOrGoes(i)
    <3>1. ASSUME NEW j \in 1..n, i = Len(events) + j PROVE FALSE
      BY <1>5, <2>1, <3>1 DEF ComesOrGoes
    <3>2. i \in 1..Len(events) /\ events'[i] = events[i]
      BY <1>1, <1>2, <3>1, AddsIs
    <3>3. QED
      BY <2>1, <3>2 DEF ComesOrGoes
  <2>2. Settled => Settled'
    BY <2>1 DEF Settled
  <2>3. ASSUME NEW i \in 1..Len(events'), events'[i].type = "Appeared",
               server'.up, events'[i].value = server'.life, NEW j \in i + 1..Len(events')
        PROVE  ~ComesOrGoes(j)'
    <3>1. i \in 1..Len(events) /\ events'[i] = events[i] /\ Appeared(i)
      BY <2>1, <2>3 DEF ComesOrGoes, Appeared
    <3>2. \A m \in i + 1..Len(events) : ~ComesOrGoes(m)
      BY <1>1, <1>5, <2>3, <3>1 DEF Settling, Current
    <3>3. j \in 1..Len(events')
      BY <1>1, <2>3, <3>1, Lengths
    <3>4. ASSUME ComesOrGoes(j)' PROVE FALSE
      <4>1. j \in 1..Len(events) /\ ComesOrGoes(j)
        BY <2>1, <3>3, <3>4
      <4>2. j \in i + 1..Len(events)
        BY <2>3, <4>1
      <4>3. QED
        BY <3>2, <4>1, <4>2
    <3>5. QED
      BY <3>4
  <2>4. \A i \in 1..Len(events') : events'[i].type = "Reply" /\ IsInit(events'[i].key) =>
           /\ events'[i].key[2] <= server'.life
           /\ server'.up /\ events'[i].key[2] = server'.life => Settled'
    BY <1>1, <1>3, <1>5, <2>2 DEF Settling, Current
  <2>5. QED
    BY <1>1, <1>2, <1>5, <2>2, <2>3, <2>4 DEF Settling, Current, Live, Appeared
<1>6. QED
  BY <1>4, <1>5

(* Nothing is known of a server which has just been started.                 *)
LEMMA BeginSettles ==
  ASSUME SInv, NEW n \in {0, 1}, Hears(n), server'.life = server.life + 1,
         \A i \in 1..n : events'[Len(events) + i].type = "Appeared"
  PROVE  Settling'
<1>1. TInv /\ Settling /\ Known
  BY DEF SInv, RInv
<1>2. client' = client /\ requests' = requests /\ Adds(n)
  BY DEF Hears
<1>3. server.life \in Nat
  BY <1>1, Lengths
<1>4. ASSUME NEW life \in Nat, life <= server.life
      PROVE  life <= server'.life /\ life # server'.life
  BY <1>3, <1>4
<1>5. client.proxy # server'.life /\ client.init[2] # server'.life
  BY <1>1, <1>4, Lengths DEF Known
<1>6. \A i \in 1..Len(requests) : requests[i].to # server'.life
  BY <1>1, <1>4, ElementsAre DEF Known
<1>7. \A i \in 1..Len(requests) : IsInit(requests[i].call.key) =>
        /\ requests[i].call.key[2] <= server'.life
        /\ requests[i].call.key[2] # server'.life
  BY <1>1, <1>4, ElementsAre, KeysAre DEF Settling
<1>8. ASSUME NEW i \in 1..Len(events')
      PROVE  \/ i \in 1..Len(events) /\ events'[i] = events[i]
             \/ n = 1 /\ i = Len(events) + 1 /\ events'[i].type = "Appeared"
  <2>1. ASSUME NEW j \in 1..n, i = Len(events) + j
        PROVE  n = 1 /\ i = Len(events) + 1 /\ events'[i].type = "Appeared"
    <3>1. n = 1 /\ j = 1
      BY <2>1
    <3>2. QED
      BY <2>1, <3>1
  <2>2. QED
    BY <1>1, <1>2, <2>1, AddsIs
<1>9. ASSUME NEW i \in 1..Len(events'), events'[i].type = "Reply", IsInit(events'[i].key)
      PROVE  events'[i].key[2] <= server'.life /\ events'[i].key[2] # server'.life
  <2>1. i \in 1..Len(events) /\ events'[i] = events[i]
    BY <1>8, <1>9
  <2>2. events[i].key[2] <= server.life /\ events[i].key[2] \in Nat
    BY <1>1, <1>9, <2>1, ElementsAre, KeysAre DEF Settling
  <2>3. QED
    BY <1>4, <2>1, <2>2
<1>10. ASSUME NEW i \in 1..Len(events'), events'[i].type = "Appeared",
              events'[i].value = server'.life, NEW j \in i + 1..Len(events')
       PROVE  FALSE
  <2>1. CASE i \in 1..Len(events) /\ events'[i] = events[i]
    <3>1. events[i].value <= server.life /\ events[i].value \in Nat
      BY <1>1, <1>10, <2>1, ElementsAre DEF Known, Appeared
    <3>2. QED
      BY <1>4, <1>10, <2>1, <3>1
  <2>2. CASE n = 1 /\ i = Len(events) + 1
    <3>1. Len(events') = Len(events) + 1 /\ Len(events) \in Nat
      BY <1>1, <1>2, <2>2, Lengths DEF Adds
    <3>2. QED
      BY <1>10, <2>2, <3>1
  <2>3. QED
    BY <1>8, <2>1, <2>2
<1>11. QED
  BY <1>2, <1>5, <1>6, <1>7, <1>9, <1>10 DEF Settling, Current, Live, Appeared

LEMMA WorldKeepsSInv ==
  ASSUME SInv, RInv', Elsewhere \/ Die \/ Begin
  PROVE  SInv'
<1>1. TInv
  BY DEF SInv, RInv
<1>2. CASE Elsewhere
  <2>1. PICK n \in Nat : Adds(n) /\ \A i \in 1..n : events'[Len(events) + i].type = "Flags"
    BY <1>2 DEF Elsewhere
  <2>2. Hears(n) /\ server'.up = server.up /\ server'.life = server.life
    BY <1>2, <2>1 DEF Elsewhere, Hears
  <2>3. QED
    BY <2>1, <2>2, HeardKeeps, StillSettling, HeardHeeded DEF SInv
<1>3. CASE Die
  <2>1. PICK n \in {0, 1} :
          Adds(n) /\ \A i \in 1..n : events'[Len(events) + i].type = "Vanished"
    BY <1>1, <1>3, DieStep
  <2>2. Hears(n) /\ ~server'.up /\ server'.life = server.life
    BY <1>1, <1>3, <2>1, DieStep DEF Hears
  <2>3. n \in Nat
    OBVIOUS
  <2>4. QED
    BY <2>2, <2>3, HeardKeeps, StillSettling, HeardHeeded DEF SInv
<1>4. CASE Begin
  <2>1. PICK n \in {0, 1} : Adds(n) /\ \A i \in 1..n :
             /\ events'[Len(events) + i].type = "Appeared"
             /\ events'[Len(events) + i].value = server.life + 1
    BY <1>1, <1>4, BeginStep
  <2>2. Hears(n) /\ server'.life = server.life + 1
    BY <1>1, <1>4, <2>1, BeginStep DEF Hears
  <2>3. n \in Nat /\ \A i \in 1..n : events'[Len(events) + i].type = "Appeared"
    BY <2>1
  <2>4. QED
    BY <2>2, <2>3, HeardKeeps, BeginSettles, HeardHeeded DEF SInv
<1>5. QED
  BY <1>2, <1>3, <1>4

LEMMA SuccessAtFirst ==
  ASSUME Init
  PROVE  SInv
<1>1. RInv
  BY RefusalAtFirst
<1>2. PICK o \in Programs : app = NewApp(o)
  BY DEF Init
<1>3. /\ app.ret = IF Valid(o) THEN "OK" ELSE "ERR"
      /\ app.running = Valid(o) /\ ~app.quitting /\ app.call = None
  BY <1>2 DEF NewApp
<1>4. /\ program = app.actions /\ client.proxy = Down /\ client.init = None
      /\ ~server.up /\ requests = <<>> /\ events = <<>> /\ done = <<>>
  BY DEF Init
<1>5. Len(requests) = 0 /\ Len(events) = 0 /\ Len(done) = 0
  BY <1>4
<1>6. InSeq
  BY <1>5 DEF InSeq
<1>7. Progress
  <2>1. app.ret = "OK" => app.running
    BY <1>3
  <2>2. QED
    BY <1>3, <1>4, <1>5, <2>1 DEF Progress
<1>8. OneLife
  <2>1. Of(0) /\ Unasked
    BY <1>5 DEF Of, Unasked
  <2>2. QED
    BY <1>5, <2>1 DEF OneLife
<1>9. Settling /\ Heeded
  BY <1>4, <1>5 DEF Settling, Current, Heeded
<1>10. QED
  BY <1>1, <1>6, <1>7, <1>8, <1>9 DEF SInv

LEMMA ServeInSeq ==
  ASSUME SInv, TInv', NEW q, NEW answer, Serves(q, answer)
  PROVE  InSeq'
<1>1. TInv /\ InSeq
  BY DEF SInv, RInv
<1>2. 1 \in 1..Len(requests) /\ q = requests[1] /\ Len(done) \in Nat
  BY <1>1, Lengths DEF Serves
<1>3. \A i \in 1..Len(requests') : /\ i + 1 \in 1..Len(requests) /\ 1 < i + 1
                                   /\ requests'[i] = requests[i + 1]
  BY <1>1, ServeIs
<1>4. \A j \in 1..Len(done') :
         \/ j \in 1..Len(done) /\ done'[j] = done[j]
         \/ j = Len(done) + 1 /\ Live(1) /\ done'[j].key = q.call.key
  BY <1>1, ServeIs
<1>5. Live(1) => IsCall(q.call.key)
  BY <1>2 DEF Live
<1>6. ASSUME NEW i \in 1..Len(requests'), NEW j \in 1..Len(requests'), i < j,
             IsCall(requests'[i].call.key), IsCall(requests'[j].call.key)
      PROVE  requests'[i].call.key[2] <= requests'[j].call.key[2]
  <2>1. i + 1 < j + 1
    BY <1>6
  <2>2. QED
    BY <1>1, <1>3, <1>6, <2>1 DEF InSeq
<1>7. ASSUME NEW i \in 1..Len(done'), NEW j \in 1..Len(done'), i < j
      PROVE  done'[i].key[2] <= done'[j].key[2]
  <2>1. CASE i \in 1..Len(done) /\ j \in 1..Len(done)
    <3>1. done'[i] = done[i] /\ done'[j] = done[j]
      BY <1>2, <1>4, <2>1
    <3>2. QED
      BY <1>1, <1>7, <2>1, <3>1 DEF InSeq
  <2>2. CASE i \in 1..Len(done) /\ j = Len(done) + 1
    <3>1. done'[i] = done[i] /\ Live(1) /\ done'[j].key = q.call.key
      BY <1>2, <1>4, <2>2
    <3>2. QED
      BY <1>1, <1>2, <1>5, <2>2, <3>1 DEF InSeq
  <2>3. CASE i = Len(done) + 1
    BY <1>2, <1>4, <1>7, <2>3
  <2>4. QED
    BY <1>4, <2>1, <2>2, <2>3
<1>8. ASSUME NEW i \in 1..Len(done'), NEW j \in 1..Len(requests'), IsCall(requests'[j].call.key)
      PROVE  done'[i].key[2] <= requests'[j].call.key[2]
  <2>1. CASE i \in 1..Len(done) /\ done'[i] = done[i]
    BY <1>1, <1>3, <1>8, <2>1 DEF InSeq
  <2>2. CASE Live(1) /\ done'[i].key = q.call.key
    BY <1>1, <1>2, <1>3, <1>5, <1>8, <2>2 DEF InSeq
  <2>3. QED
    BY <1>4, <2>1, <2>2
<1>9. QED
  BY <1>6, <1>7, <1>8 DEF InSeq

LEMMA ServeProgress ==
  ASSUME SInv, TInv', NEW q, NEW answer, Serves(q, answer)
  PROVE  Progress'
<1>1. TInv /\ Progress
  BY DEF SInv, RInv
<1>2. /\ app' = app /\ client' = client /\ program' = program
      /\ server'.version = server.version /\ 1 \in 1..Len(requests) /\ q = requests[1]
      /\ ~Current(q.to) => answer = "NoReply"
  BY DEF Serves
<1>3. /\ \A j \in 1..Len(done) : j \in 1..Len(done') /\ done'[j] = done[j]
      /\ Live(1) => /\ Len(done) + 1 \in 1..Len(done')
                    /\ done'[Len(done) + 1].key = q.call.key
                    /\ done'[Len(done) + 1].answer = answer
      /\ \A i \in 1..Len(events') :
           \/ i \in 1..Len(events) /\ events'[i] = events[i]
           \/ events'[i].type = "Flags"
           \/ /\ events'[i].type = "Reply" /\ events'[i].key = q.call.key
              /\ events'[i].answer = answer /\ events'[i].value = server.version
  BY <1>1, ServeIs
<1>4. DOMAIN done = 1..Len(done) /\ DOMAIN done' = 1..Len(done')
  <2>1. PICK R : R = [key : Keys, answer : Answers, life : Nat]
    OBVIOUS
  <2>2. done \in Seq(R) /\ done' \in Seq(R)
    BY <1>1, <2>1 DEF TInv
  <2>3. QED
    BY <2>2
<1>5. ASSUME NEW pos, Did(pos) PROVE Did(pos)'
  <2>1. PICK i \in DOMAIN done : done[i].key = <<"action", pos>> /\ done[i].answer = "OK"
    BY <1>5 DEF Did
  <2>2. i \in DOMAIN done' /\ done'[i] = done[i]
    BY <1>3, <1>4
  <2>3. QED
    BY <2>1, <2>2 DEF Did
<1>6. \A i : Asked(program[i])' <=> Asked(program[i])
  BY <1>2 DEF Asked
<1>7. ASSUME NEW i \in 1..Len(events'), events'[i].type = "Reply"
      PROVE  /\ events'[i].value = server.version
             /\ events'[i].key[1] = "action" /\ events'[i].answer = "OK" =>
                  \E pos : pos = events'[i].key[2] /\ Did(pos)'
  <2>1. CASE i \in 1..Len(events) /\ events'[i] = events[i]
    BY <1>1, <1>5, <1>7, <2>1 DEF Progress
  <2>2. CASE /\ events'[i].key = q.call.key /\ events'[i].answer = answer
             /\ events'[i].value = server.version
    <3>1. PICK k : k = q.call.key
      OBVIOUS
    <3>2. ASSUME k[1] = "action", answer = "OK" PROVE Did(k[2])'
      <4>1. IsCall(k) /\ Current(q.to)
        BY <1>2, <3>2 DEF IsCall
      <4>2. Live(1)
        BY <1>2, <3>1, <4>1 DEF Live
      <4>3. k = <<"action", k[2]>>
        BY <1>1, <1>2, <3>1, <3>2, ElementsAre DEF Keys
      <4>4. /\ Len(done) + 1 \in DOMAIN done' /\ done'[Len(done) + 1].key = <<"action", k[2]>>
            /\ done'[Len(done) + 1].answer = "OK"
        BY <1>3, <1>4, <3>1, <3>2, <4>2, <4>3
      <4>5. QED
        BY <4>4 DEF Did
    <3>3. QED
      BY <2>2, <3>1, <3>2
  <2>3. QED
    BY <1>3, <1>7, <2>1, <2>2
<1>8. \A i \in 1..Len(events') : (events[i].type = "Reply" =>
        /\ events[i].value = server.version
        /\ events[i].key[1] = "action" /\ events[i].answer = "OK" => Did(events[i].key[2]))'
  BY <1>2, <1>7 DEF Did
<1>9. QED
  BY <1>1, <1>2, <1>5, <1>6, <1>8 DEF Progress

LEMMA ServeOneLife ==
  ASSUME SInv, TInv', NEW q, NEW answer, Serves(q, answer)
  PROVE  OneLife'
<1>1. TInv /\ OneLife /\ Waiting /\ Settling
  BY DEF SInv, RInv
<1>2. /\ app' = app /\ client' = client /\ pending' = pending
      /\ 1 \in 1..Len(requests) /\ q = requests[1]
      /\ ~Current(q.to) => answer = "NoReply"
  BY DEF Serves
<1>3. \A i \in 1..Len(requests') : i + 1 \in 1..Len(requests) /\ requests'[i] = requests[i + 1]
  BY <1>1, ServeIs
<1>4. \A j \in 1..Len(done') :
         \/ j \in 1..Len(done) /\ done'[j] = done[j]
         \/ Live(1) /\ done'[j].life = q.to
  BY <1>1, ServeIs
<1>5. ASSUME NEW life, Of(life) PROVE Of(life)'
  <2>1. \A i \in 1..Len(requests') : IsCall(requests'[i].call.key) => requests'[i].to = life
    BY <1>3, <1>5 DEF Of
  <2>2. Live(1) => q.to = life
    BY <1>2, <1>5 DEF Live, Of
  <2>3. \A j \in 1..Len(done') : done'[j].life = life
    BY <1>4, <1>5, <2>2 DEF Of
  <2>4. QED
    BY <2>1, <2>3 DEF Of
<1>6. ASSUME Unasked PROVE Unasked'
  <2>1. \A i \in 1..Len(requests') : ~IsCall(requests'[i].call.key)
    BY <1>3, <1>6 DEF Unasked
  <2>2. ~Live(1) /\ Len(done) = 0
    BY <1>2, <1>6 DEF Unasked, Live
  <2>3. ASSUME NEW j \in 1..Len(done') PROVE FALSE
    BY <1>4, <2>2
  <2>4. Len(done') \in Nat
    <3>1. PICK R : R = [key : Keys, answer : Answers, life : Nat]
      OBVIOUS
    <3>2. done' \in Seq(R)
      BY <3>1 DEF TInv
    <3>3. QED
      BY <3>2
  <2>5. Len(done') = 0
    BY <2>3, <2>4
  <2>6. QED
    BY <2>1, <2>5 DEF Unasked
<1>7. ASSUME app'.ret = "OK", NEW i \in 1..Len(events'), Granted(i)'
      PROVE  /\ Of(client.proxy)' /\ client'.init = None
             /\ \A j \in 1..i - 1 : ~ComesOrGoes(j)'
  <2>1. events'[i].type = "Reply" /\ events'[i].key \in pending /\ events'[i].answer = "OK"
    BY <1>2, <1>7 DEF Granted
  <2>2. PICK proxy : proxy = client.proxy
    OBVIOUS
  <2>3. \A j \in 1..Len(events') :
          \/ j \in 1..Len(events) /\ events'[j] = events[j]
          \/ events'[j].type \in {"Flags", "Reply"}
    BY <1>1, ServeIs
  <2>4. CASE i \in 1..Len(events) /\ events'[i] = events[i]
    <3>1. Granted(i)
      BY <2>1, <2>4 DEF Granted
    <3>2. Of(proxy) /\ client.init = None /\ \A j \in 1..i - 1 : ~ComesOrGoes(j)
      BY <1>1, <1>2, <1>7, <2>2, <2>4, <3>1 DEF OneLife
    <3>3. Of(proxy)'
      BY <1>5, <3>2
    <3>4. ASSUME NEW j \in 1..i - 1 PROVE ~ComesOrGoes(j)'
      <4>1. j \in 1..Len(events')
        BY <1>7
      <4>2. QED
        BY <2>3, <3>2, <4>1 DEF ComesOrGoes
    <3>5. QED
      BY <1>2, <2>2, <3>2, <3>3, <3>4 DEF Of
  <2>5. CASE events'[i].key = q.call.key /\ events'[i].answer = answer
    <3>1. IsCall(q.call.key) /\ Current(q.to)
      BY <1>1, <1>2, <2>1, <2>5 DEF Waiting, IsCall
    <3>2. Live(1) /\ q.to = server.life
      BY <1>2, <3>1 DEF Live, Current
    <3>3. client.proxy = server.life
      BY <1>1, <1>2, <3>2 DEF Settling
    <3>4. client.init = None /\ Settled
      BY <1>1, <3>1, <3>3 DEF Settling, Current
    <3>5. PICK life \in Nat : Of(life)
      BY <1>1, <1>2, <1>7 DEF OneLife
    <3>6. life = proxy
      BY <1>2, <2>2, <3>1, <3>2, <3>3, <3>5 DEF Of
    <3>7. Of(proxy)'
      BY <1>5, <3>5, <3>6
    <3>8. ASSUME NEW j \in 1..i - 1 PROVE ~ComesOrGoes(j)'
      <4>1. j \in 1..Len(events')
        BY <1>7
      <4>2. QED
        BY <2>3, <3>4, <4>1 DEF ComesOrGoes, Settled
    <3>9. QED
      BY <1>2, <2>2, <3>4, <3>7, <3>8 DEF Of
  <2>6. QED
    BY <1>1, <2>1, <2>4, <2>5, ServeIs
<1>8. app'.ret = "OK" => \E life \in Nat : Of(life)'
  BY <1>1, <1>2, <1>5 DEF OneLife
<1>9. QED
  BY <1>1, <1>2, <1>6, <1>7, <1>8 DEF OneLife

LEMMA ServeSettling ==
  ASSUME SInv, TInv', NEW q, NEW answer, Serves(q, answer)
  PROVE  Settling'
<1>1. TInv /\ Settling
  BY DEF SInv, RInv
<1>2. /\ client' = client /\ server'.up = server.up /\ server'.life = server.life
      /\ 1 \in 1..Len(requests) /\ q = requests[1]
  BY DEF Serves
<1>3. \A i \in 1..Len(requests') : i + 1 \in 1..Len(requests) /\ requests'[i] = requests[i + 1]
  BY <1>1, ServeIs
<1>4. \A i \in 1..Len(events') :
         \/ i \in 1..Len(events) /\ events'[i] = events[i]
         \/ events'[i].type = "Flags"
         \/ events'[i].type = "Reply" /\ events'[i].key = q.call.key
  BY <1>1, ServeIs
<1>5. \A i \in 1..Len(events') :
        ComesOrGoes(i)' => i \in 1..Len(events) /\ events'[i] = events[i] /\ ComesOrGoes(i)
  BY <1>4 DEF ComesOrGoes
<1>6. Settled => Settled'
  BY <1>5 DEF Settled
<1>7. ASSUME NEW i \in 1..Len(requests'), Live(i)' PROVE client'.proxy = server'.life
  <2>1. Live(i + 1) /\ i + 1 \in 1..Len(requests)
    BY <1>1, <1>3, <1>7, ServeIs
  <2>2. QED
    BY <1>1, <1>2, <2>1 DEF Settling
<1>8. \A i \in 1..Len(requests') : IsInit(requests'[i].call.key) =>
        /\ requests'[i].call.key[2] <= server'.life
        /\ server'.up /\ requests'[i].call.key[2] = server'.life => Settled'
  BY <1>1, <1>2, <1>3, <1>6 DEF Settling, Current
<1>9. ASSUME NEW i \in 1..Len(events'), events'[i].type = "Appeared",
             server'.up, events'[i].value = server'.life, NEW j \in i + 1..Len(events')
      PROVE  ~ComesOrGoes(j)'
  <2>1. i \in 1..Len(events) /\ events'[i] = events[i] /\ Appeared(i)
    BY <1>4, <1>9 DEF Appeared
  <2>2. \A m \in i + 1..Len(events) : ~ComesOrGoes(m)
    BY <1>1, <1>2, <1>9, <2>1 DEF Settling, Current
  <2>3. j \in 1..Len(events')
    BY <1>9
  <2>4. ASSUME ComesOrGoes(j)' PROVE FALSE
    <3>1. j \in 1..Len(events) /\ ComesOrGoes(j)
      BY <1>5, <2>3, <2>4
    <3>2. j \in i + 1..Len(events)
      BY <1>9, <3>1
    <3>3. QED
      BY <2>2, <3>1, <3>2
  <2>5. QED
    BY <2>4
<1>10. ASSUME NEW i \in 1..Len(events'), events'[i].type = "Reply", IsInit(events'[i].key)
       PROVE  /\ events'[i].key[2] <= server'.life
              /\ server'.up /\ events'[i].key[2] = server'.life => Settled'
  <2>1. CASE i \in 1..Len(events) /\ events'[i] = events[i]
    BY <1>1, <1>2, <1>6, <1>10, <2>1 DEF Settling, Current
  <2>2. CASE events'[i].key = q.call.key
    BY <1>1, <1>2, <1>6, <1>10, <2>2 DEF Settling, Current
  <2>3. QED
    BY <1>4, <1>10, <2>1, <2>2
<1>11. QED
  BY <1>1, <1>2, <1>6, <1>7, <1>8, <1>9, <1>10 DEF Settling, Current, Appeared

LEMMA ServeHeeded ==
  ASSUME SInv, TInv', NEW q, NEW answer, Serves(q, answer)
  PROVE  Heeded'
<1>1. TInv /\ Heeded
  BY DEF SInv, RInv
<1>2. app' = app /\ 1 \in 1..Len(requests) /\ q = requests[1]
  BY DEF Serves
<1>3. /\ \A i \in 1..Len(requests') : /\ i + 1 \in 1..Len(requests)
                                      /\ requests'[i] = requests[i + 1]
      /\ \A i \in 1..Len(requests') : Live(i)' => Live(i + 1)
      /\ \A j \in 1..Len(done) : j \in 1..Len(done') /\ done'[j] = done[j]
      /\ \A j \in 1..Len(done') :
           \/ j \in 1..Len(done) /\ done'[j] = done[j]
           \/ Live(1) /\ done'[j].key = q.call.key
  BY <1>1, ServeIs
<1>4. DOMAIN done = 1..Len(done) /\ DOMAIN done' = 1..Len(done')
  <2>1. PICK R : R = [key : Keys, answer : Answers, life : Nat]
    OBVIOUS
  <2>2. done \in Seq(R) /\ done' \in Seq(R)
    BY <1>1, <2>1 DEF TInv
  <2>3. QED
    BY <2>2
<1>5. ASSUME NEW pos, Did(pos) PROVE Did(pos)'
  <2>1. PICK i \in DOMAIN done : done[i].key = <<"action", pos>> /\ done[i].answer = "OK"
    BY <1>5 DEF Did
  <2>2. i \in DOMAIN done' /\ done'[i] = done[i]
    BY <1>3, <1>4
  <2>3. QED
    BY <2>1, <2>2 DEF Did
<1>6. ASSUME app.ret = "OK", NEW j \in 1..Len(done')
      PROVE  \E pos : /\ pos = done'[j].key[2]
                      /\ Did(pos)' \/ app.call = <<"action", pos>>
  <2>1. CASE j \in 1..Len(done) /\ done'[j] = done[j]
    BY <1>1, <1>5, <1>6, <2>1 DEF Heeded
  <2>2. CASE Live(1) /\ done'[j].key = q.call.key
    BY <1>1, <1>2, <1>6, <2>2 DEF Heeded
  <2>3. QED
    BY <1>3, <2>1, <2>2
<1>7. \A j \in 1..Len(done') : app.ret = "OK" =>
        Did(done[j].key[2])' \/ app.call = <<"action", done'[j].key[2]>>
  BY <1>6 DEF Did
<1>8. ASSUME app.ret = "OK", NEW i \in 1..Len(requests'), Live(i)'
      PROVE  app.call = <<"action", requests'[i].call.key[2]>>
  <2>1. i + 1 \in 1..Len(requests) /\ requests'[i] = requests[i + 1] /\ Live(i + 1)
    BY <1>3, <1>8
  <2>2. QED
    BY <1>1, <1>8, <2>1 DEF Heeded
<1>9. QED
  BY <1>2, <1>7, <1>8 DEF Heeded

LEMMA ServeKeepsSInv ==
  ASSUME SInv, RInv', Serve
  PROVE  SInv'
<1>1. TInv /\ TInv'
  BY DEF SInv, RInv
<1>2. PICK q, answer : Serves(q, answer)
  BY <1>1, ServeStep
<1>3. InSeq' /\ Progress' /\ OneLife' /\ Settling' /\ Heeded'
  BY <1>1, <1>2, ServeInSeq, ServeProgress, ServeOneLife, ServeSettling, ServeHeeded
<1>4. QED
  BY <1>3 DEF SInv

LEMMA SuccessStep ==
  ASSUME SInv, [Next]_vars
  PROVE  SInv'
<1>1. TInv /\ RInv'
  BY RefusalStep DEF SInv, RInv
<1>2. CASE Elsewhere \/ Die \/ Begin
  BY <1>1, <1>2, WorldKeepsSInv
<1>3. CASE Serve
  BY <1>1, <1>3, ServeKeepsSInv
<1>4. QED
  BY <1>1, <1>2, <1>3, StepIs, ToolKeepsSInv

LEMMA SuccessIs ==
  ASSUME SInv
  PROVE  SuccessIsReal
<1>1. TInv /\ InSeq /\ Progress /\ OneLife /\ Heeded
  BY DEF SInv, RInv
<1>2. DOMAIN program = 1..Len(program) /\ DOMAIN done = 1..Len(done) /\ Len(done) \in Nat
  <2>1. PICK R : R = [key : Keys, answer : Answers, life : Nat]
    OBVIOUS
  <2>2. done \in Seq(R) /\ program \in Seq(Action)
    BY <1>1, <2>1 DEF TInv
  <2>3. QED
    BY <2>2
<1>3. ASSUME ~app.running, app.ret = "OK", NEW i \in 1..Len(program), Asked(program[i])
      PROVE  Did(program[i].pos)
  <2>1. app.call = None /\ app.actions = <<>>
    BY <1>1, <1>3 DEF Progress
  <2>2. Len(app.actions) = 0
    BY <2>1
  <2>3. program[i].pos \in Nat
    <3>1. program \in Seq(Action)
      BY <1>1 DEF TInv
    <3>2. program[i] \in Action
      BY <1>3, <3>1
    <3>3. QED
      BY <3>2 DEF Action
  <2>4. app.call # <<"action", program[i].pos>>
    BY <2>1 DEF None
  <2>5. QED
    BY <1>1, <1>3, <2>2, <2>4 DEF Progress
<1>4. ASSUME app.ret = "OK", NEW i \in 1..Len(done), i > 1
      PROVE  done[i].key[2] >= done[i - 1].key[2] /\ done[i].life = done[i - 1].life
  <2>1. PICK j \in 1..Len(done) : j = i - 1 /\ j < i
    <3>1. i - 1 \in 1..Len(done) /\ i - 1 < i
      BY <1>2, <1>4
    <3>2. QED
      BY <3>1
  <2>2. done[j].key[2] <= done[i].key[2]
    BY <1>1, <2>1 DEF InSeq
  <2>3. done[j].key[2] \in Nat /\ done[i].key[2] \in Nat
    BY <1>1, <2>1, ElementsAre, KeysAre
  <2>4. done[i].life = done[j].life
    BY <1>1, <1>4, <2>1 DEF OneLife, Of
  <2>5. QED
    BY <2>1, <2>2, <2>3, <2>4
<1>5. ASSUME ~app.running, app.ret = "OK", NEW j \in 1..Len(done)
      PROVE  Did(done[j].key[2])
  <2>1. app.call = None
    BY <1>1, <1>5 DEF Progress
  <2>2. app.call # <<"action", done[j].key[2]>>
    BY <2>1 DEF None
  <2>3. QED
    BY <1>1, <1>5, <2>2 DEF Heeded
<1>6. QED
  BY <1>2, <1>3, <1>4, <1>5 DEF SuccessIsReal, Asked

(* A tool which says that it has succeeded has done, in the order of the     *)
(* command line and by one and the same server, every action which sets      *)
(* something, and every reset it made a call for, as far as the call which   *)
(* is reported tells: that of the two calls of a reset is the second one.    *)
(* This is so whatever the server and others do meanwhile (app_next_action,  *)
(* app_action_call_done, client_connected, app_signal, app_timeout).         *)
THEOREM SuccessIsTrue == Spec => []SuccessIsReal
<1>1. Init => SInv
  BY SuccessAtFirst
<1>2. SInv /\ [Next]_vars => SInv'
  BY SuccessStep
<1>3. SInv => SuccessIsReal
  BY SuccessIs
<1>4. QED
  BY <1>1, <1>2, <1>3, PTL DEF Spec

-----------------------------------------------------------------------------
(* Resets                                                                    *)

(* The calls which change the flags of categories, and which way.            *)
Enablers == {"CategoryEnable", "CategoryEnablePattern"}
Disablers == {"CategoryDisable", "CategoryDisablePattern"}
Setters == Enablers \cup Disablers
Enabling(call, n) == call.method \in Enablers /\ n \in call.names
Disabling(call, n) == call.method \in Disablers /\ n \in call.names

(* What a call does to a category, and what is announced of it.              *)
Flips(n, before, call, after, changed, ok) ==
  /\ n \notin changed => (n \in after <=> n \in before)
  /\ n \in changed => /\ n \in call.names /\ call.method \in Setters
                      /\ changed \subseteq after <=> n \in after
  /\ ok /\ Enabling(call, n) /\ n \in Categories => n \in after
  /\ ok /\ Disabling(call, n) => n \notin after

LEMMA PerformFlips ==
  ASSUME NEW core \in Core, NEW policy, NEW who, NEW c, NEW first, NEW second,
         NEW r, r = Perform(core, policy, who, c, first, second), NEW n
  PROVE  Flips(n, core.enabled, c, r.core.enabled, r.changed, r.err = "none")
<1>1. core.enabled \subseteq Categories
  BY DEF Core
<1>2. ASSUME NEW err, r = Refused(core, err), err # "none"
      PROVE  Flips(n, core.enabled, c, r.core.enabled, r.changed, r.err = "none")
  <2>1. r.err # "none" /\ r.core = core /\ r.changed = {}
    BY <1>2 DEF Refused
  <2>2. QED
    BY <2>1 DEF Flips
<1>3. ASSUME NEW o \in Core, r = Accepted(o, {}), o.enabled = core.enabled, c.method \notin Setters
      PROVE  Flips(n, core.enabled, c, r.core.enabled, r.changed, r.err = "none")
  <2>1. r.core = o /\ r.changed = {}
    BY <1>3 DEF Accepted
  <2>2. QED
    BY <1>3, <2>1 DEF Flips, Enabling, Disabling, Setters
<1>4. CASE c.method = "SetDefaultLevel"
  <2>1. PICK o : o = [core EXCEPT !.default_level = c.value]
    OBVIOUS
  <2>2. o.enabled = core.enabled
    BY <2>1 DEF Core
  <2>3. r = Refused(core, "EACCES") \/ r = Refused(core, "EINVAL") \/ r = Accepted(o, {})
    BY <1>4, <2>1 DEF Perform, CallSetDefaultLevel
  <2>4. ASSUME r = Accepted(o, {})
        PROVE  Flips(n, core.enabled, c, r.core.enabled, r.changed, r.err = "none")
    <3>1. r.core = o /\ r.changed = {}
      BY <2>4 DEF Accepted
    <3>2. QED
      BY <1>4, <2>2, <3>1 DEF Flips, Enabling, Disabling, Setters, Enablers, Disablers
  <2>5. QED
    BY <1>2, <2>3, <2>4
<1>5. CASE c.method = "SetCategoryLevel"
  <2>1. PICK o : o = [core EXCEPT !.levels[second] = c.value]
    OBVIOUS
  <2>2. o.enabled = core.enabled
    BY <2>1 DEF Core
  <2>3. r = Refused(core, "EACCES") \/ r = Accepted(core, {}) \/ r = Accepted(o, {})
    BY <1>5, <2>1 DEF Perform, CallSetCategoryLevel
  <2>4. ASSUME NEW p \in {o, core}, r = Accepted(p, {})
        PROVE  Flips(n, core.enabled, c, r.core.enabled, r.changed, r.err = "none")
    <3>1. r.core = p /\ r.changed = {}
      BY <2>4 DEF Accepted
    <3>2. QED
      BY <1>5, <2>2, <3>1, <2>4 DEF Flips, Enabling, Disabling, Setters, Enablers, Disablers
  <2>5. QED
    BY <1>2, <2>3, <2>4
<1>6. CASE c.method = "SetBacklog"
  <2>1. PICK o : o = [core EXCEPT !.backlog =
                   IF c.value > 0 THEN c.value ELSE IF c.value = 0 THEN 1000 ELSE -1]
    OBVIOUS
  <2>2. o.enabled = core.enabled
    BY <2>1 DEF Core
  <2>3. r = Refused(core, "EACCES") \/ r = Accepted(o, {})
    BY <1>6, <2>1 DEF Perform, CallSetBacklog
  <2>4. ASSUME r = Accepted(o, {})
        PROVE  Flips(n, core.enabled, c, r.core.enabled, r.changed, r.err = "none")
    <3>1. r.core = o /\ r.changed = {}
      BY <2>4 DEF Accepted
    <3>2. QED
      BY <1>6, <2>2, <3>1 DEF Flips, Enabling, Disabling, Setters, Enablers, Disablers
  <2>5. QED
    BY <1>2, <2>3, <2>4
<1>7. CASE c.method \notin {"SetDefaultLevel", "SetCategoryLevel", "SetBacklog"} \cup Setters
  <2>1. r = Refused(core, "EACCES") \/ r = Accepted(core, {})
    BY <1>7 DEF Perform, CallLogOpen, Setters, Enablers, Disablers
  <2>2. QED
    BY <1>2, <1>3, <1>7, <2>1
<1>8. CASE c.method \in Enablers
  <2>1. PICK changed : changed = {m \in c.names \cap Categories : (m \in core.enabled) # TRUE}
    OBVIOUS
  <2>2. PICK after : after = core.enabled \cup changed
    OBVIOUS
  <2>3. PICK o : o = [core EXCEPT !.enabled = after]
    OBVIOUS
  <2>4. r = Refused(core, "EACCES") \/ r = Accepted(o, changed)
    BY <1>8, <2>1, <2>2, <2>3 DEF Perform, CallSetEnabled, Enablers
  <2>5. ASSUME r = Accepted(o, changed)
        PROVE  Flips(n, core.enabled, c, r.core.enabled, r.changed, r.err = "none")
    <3>1. o.enabled = after
      BY <2>3 DEF Core
    <3>2. r.core = o /\ r.changed = changed
      BY <2>5 DEF Accepted
    <3>3. /\ changed \subseteq c.names
          /\ n \in c.names /\ n \in Categories /\ n \notin core.enabled => n \in changed
      BY <2>1
    <3>4. c.method \in Setters /\ c.method \notin Disablers
      BY <1>8 DEF Setters, Enablers, Disablers
    <3>5. QED
      BY <2>2, <3>1, <3>2, <3>3, <3>4 DEF Flips, Enabling, Disabling
  <2>6. QED
    BY <1>2, <2>4, <2>5
<1>9. CASE c.method \in Disablers
  <2>1. PICK changed : changed = {m \in c.names \cap Categories : (m \in core.enabled) # FALSE}
    OBVIOUS
  <2>2. PICK after : after = core.enabled \ changed
    OBVIOUS
  <2>3. PICK o : o = [core EXCEPT !.enabled = after]
    OBVIOUS
  <2>4. r = Refused(core, "EACCES") \/ r = Accepted(o, changed)
    BY <1>9, <2>1, <2>2, <2>3 DEF Perform, CallSetEnabled, Disablers
  <2>5. ASSUME r = Accepted(o, changed)
        PROVE  Flips(n, core.enabled, c, r.core.enabled, r.changed, r.err = "none")
    <3>1. o.enabled = after
      BY <2>3 DEF Core
    <3>2. r.core = o /\ r.changed = changed
      BY <2>5 DEF Accepted
    <3>3. /\ changed \subseteq c.names
          /\ n \in c.names /\ n \in core.enabled => n \in changed
      BY <1>1, <2>1
    <3>4. c.method \in Setters /\ c.method \notin Enablers
      BY <1>9 DEF Setters, Enablers, Disablers
    <3>5. QED
      BY <2>2, <3>1, <3>2, <3>3, <3>4 DEF Flips, Enabling, Disabling
  <2>6. QED
    BY <1>2, <2>4, <2>5
<1>10. QED
  BY <1>4, <1>5, <1>6, <1>7, <1>8, <1>9 DEF Setters

LEMMA HandleFlips ==
  ASSUME NEW s \in Server, NEW who, NEW c, c.names \in SUBSET Names, c.value \in Int,
         NEW h, h = Handle(s, who, c), NEW n
  PROVE  Flips(n, s.core.enabled, c, h.server.core.enabled, h.changed, h.answer = "OK")
<1>1. PICK r : r = IF s.api = "gio" THEN GioPerform(s.core, s.policy, who, c)
                                    ELSE DbusPerform(s.core, s.policy, who, c)
  OBVIOUS
<1>2. s.core \in Core
  BY DEF Server
<1>3. PICK first, second : r = Perform(s.core, s.policy, who, c, first, second)
  BY <1>1 DEF GioPerform, DbusPerform
<1>4. /\ r.err \in {"none", "EACCES", "EINVAL"}
      /\ Flips(n, s.core.enabled, c, r.core.enabled, r.changed, r.err = "none")
  BY <1>2, <1>3, PerformIs, PerformFlips
<1>5. CASE Knows(s, c)
  <2>1. PICK t : t = [s EXCEPT !.core = r.core]
    OBVIOUS
  <2>2. t.core = r.core
    BY <2>1 DEF Server
  <2>3. h = [server |-> t, answer |-> Answer(r.err), changed |-> r.changed]
    BY <1>1, <1>5, <2>1 DEF Handle
  <2>4. h.server = t /\ h.answer = Answer(r.err) /\ h.changed = r.changed
    BY <2>3
  <2>5. h.answer = "OK" => r.err = "none"
    BY <1>4, <2>4 DEF Answer
  <2>6. QED
    BY <1>4, <2>2, <2>4, <2>5 DEF Flips
<1>6. CASE ~Knows(s, c)
  <2>1. h = [server |-> s, answer |-> "UnknownMethod", changed |-> {}]
    BY <1>6 DEF Handle
  <2>2. h.server = s /\ h.answer = "UnknownMethod" /\ h.changed = {}
    BY <2>1
  <2>3. QED
    BY <2>2 DEF Flips
<1>7. QED
  BY <1>5, <1>6

(* The event which tells of a change.                                        *)
LEMMA FlagsTell ==
  ASSUME NEW changed \in SUBSET Names, NEW s
  PROVE  /\ Flags(changed, s) \in Seq(Telling)
         /\ changed = {} => Len(Flags(changed, s)) = 0
         /\ changed # {} => /\ Len(Flags(changed, s)) = 1
                            /\ Flags(changed, s)[1].type = "Flags"
                            /\ Flags(changed, s)[1].names = changed
                            /\ Flags(changed, s)[1].value = 1 <=> changed \subseteq s.core.enabled
<1>1. PICK v : v = IF changed \subseteq s.core.enabled THEN 1 ELSE 0
  OBVIOUS
<1>2. v \in Nat /\ (v = 1 <=> changed \subseteq s.core.enabled)
  BY <1>1
<1>3. PICK e : e = Event("Flags", None, "", changed, v)
  OBVIOUS
<1>4. e \in Telling /\ e.type = "Flags" /\ e.names = changed /\ e.value = v
  BY <1>2, <1>3, KeysAre DEF Event, Telling
<1>5. CASE changed = {}
  <2>1. Flags(changed, s) = <<>>
    BY <1>5 DEF Flags
  <2>2. <<>> \in Seq(Telling) /\ Len(<<>>) = 0
    OBVIOUS
  <2>3. QED
    BY <1>5, <2>1, <2>2
<1>6. CASE changed # {}
  <2>1. Flags(changed, s) = <<e>>
    BY <1>1, <1>3, <1>6 DEF Flags
  <2>2. <<e>> \in Seq(Telling) /\ Len(<<e>>) = 1 /\ <<e>>[1] = e
    BY <1>4
  <2>3. QED
    BY <1>2, <1>4, <1>6, <2>1, <2>2
<1>7. QED
  BY <1>5, <1>6

On(n) == n \in server.core.enabled

(* The tool is going to hear of a change of that category.                   *)
Tells(i, n) == events[i].type = "Flags" /\ n \in events[i].names

(* What the end of a call, and a change of category n, are announced with.   *)
Announces(n, call, answer, k) ==
  /\ Adds(k)
  /\ \A i \in Len(events) + 1..Len(events') :
       \/ /\ events'[i].type = "Flags"
          /\ n \in events'[i].names => /\ call.method \in Setters /\ n \in call.names
                                       /\ events'[i].value = 1 <=> On(n)'
       \/ /\ i = Len(events') /\ events'[i].type = "Reply" /\ events'[i].key = call.key
          /\ events'[i].answer = answer /\ events'[i].names = server.core.enabled
  /\ app.running /\ On(n)' # On(n) => \E i \in Len(events) + 1..Len(events') : Tells(i, n)'

(* The server takes a call: what becomes of category n.                      *)
Takes(n, q, answer) ==
  /\ \E k \in Nat : Announces(n, q.call, answer, k)
  /\ IF Current(q.to)
     THEN /\ On(n)' # On(n) => q.call.method \in Setters /\ n \in q.call.names
          /\ answer = "OK" /\ Enabling(q.call, n) /\ n \in Categories => On(n)'
          /\ answer = "OK" /\ Disabling(q.call, n) => ~On(n)'
     ELSE server' = server /\ \A i \in Len(events) + 1..Len(events') : ~Tells(i, n)'

(* The change and the end of the call are told, if the tool still runs.      *)
NewsTold(f, key, answer, k) ==
  /\ Adds(k)
  /\ app.running => k = Len(f) + 1
  /\ \A i \in Len(events) + 1..Len(events') :
       \/ i = Len(events) + 1 /\ Len(f) = 1 /\ events'[i] = f[1]
       \/ /\ i = Len(events') /\ events'[i].type = "Reply" /\ events'[i].key = key
          /\ events'[i].answer = answer /\ events'[i].names = server.core.enabled
  /\ app.running /\ Len(f) = 1 => /\ Len(events) + 1 \in Len(events) + 1..Len(events')
                                  /\ events'[Len(events) + 1] = f[1]

LEMMA NewsTell ==
  ASSUME TInv, NEW f \in Seq(Telling), Len(f) <= 1, \A i \in 1..Len(f) : f[i].type = "Flags",
         NEW key \in Keys, NEW answer \in Answers \cup {"NoReply"},
         Tell(f \o <<Reply(key, answer)>>)
  PROVE  \E k \in Nat : NewsTold(f, key, answer, k)
<1>1. PICK r : r = Reply(key, answer)
  OBVIOUS
<1>2. server \in Server /\ events \in Seq(Telling)
  BY DEF TInv
<1>3. r \in Telling /\ r.type = "Reply" /\ r.key = key /\ r.answer = answer
  BY <1>1, <1>2, ReplyIs
<1>4. r.names = server.core.enabled
  BY <1>1 DEF Reply, Event
<1>5. PICK g, t : g = <<r>> /\ t = f \o g
  OBVIOUS
<1>6. g \in Seq(Telling) /\ Len(g) = 1 /\ g[1] = r
  BY <1>3, <1>5
<1>7. PICK m \in Nat, l \in Nat : m = Len(f) /\ l = Len(events)
  BY <1>2
<1>8. /\ t \in Seq(Telling) /\ Len(t) = m + 1
      /\ \A i \in 1..m : t[i] = f[i]
      /\ t[m + 1] = r
  <2>1. /\ t \in Seq(Telling) /\ Len(t) = Len(f) + Len(g)
        /\ \A i \in 1..Len(f) : t[i] = f[i]
        /\ \A i \in 1..Len(g) : t[Len(f) + i] = g[i]
    BY <1>5, <1>6, JoinIs
  <2>2. QED
    BY <1>6, <1>7, <2>1
<1>9. PICK q : q = events \o t
  OBVIOUS
<1>10. /\ q \in Seq(Telling) /\ Len(q) = l + (m + 1)
       /\ \A i \in 1..l : q[i] = events[i]
       /\ \A i \in 1..m + 1 : q[l + i] = t[i]
  BY <1>2, <1>7, <1>8, <1>9, JoinIs
<1>11. CASE app.running
  <2>1. events' = q
    BY <1>1, <1>5, <1>9, <1>11 DEF Tell
  <2>2. Adds(m + 1)
    BY <1>7, <1>10, <2>1 DEF Adds
  <2>3. ASSUME NEW i \in l + 1..l + (m + 1)
        PROVE  (i = l + 1 /\ m = 1 /\ q[i] = f[1]) \/ (i = l + (m + 1) /\ q[i] = r)
    <3>1. PICK j \in 1..m + 1 : i = l + j
      <4>1. i - l \in 1..m + 1 /\ i = l + (i - l)
        BY <1>7
      <4>2. QED
        BY <4>1
    <3>2. q[i] = t[j]
      BY <1>10, <3>1
    <3>3. m = 0 \/ m = 1
      BY <1>7
    <3>4. CASE j = m + 1
      BY <1>8, <3>1, <3>2, <3>4
    <3>5. CASE j # m + 1
      <4>1. j = 1 /\ m = 1
        BY <3>3, <3>5
      <4>2. t[1] = f[1]
        BY <1>8, <4>1
      <4>3. QED
        BY <3>1, <3>2, <4>1, <4>2
    <3>6. QED
      BY <3>4, <3>5
  <2>4. ASSUME m = 1
        PROVE  l + 1 \in l + 1..l + (m + 1) /\ q[l + 1] = f[1]
    <3>1. 1 \in 1..m + 1 /\ 1 \in 1..m
      BY <2>4
    <3>2. q[l + 1] = t[1] /\ t[1] = f[1]
      BY <1>8, <1>10, <3>1
    <3>3. QED
      BY <1>7, <2>4, <3>2
  <2>5. QED
    BY <1>3, <1>4, <1>7, <1>10, <2>1, <2>2, <2>3, <2>4 DEF NewsTold
<1>12. CASE ~app.running
  <2>1. events' = events
    BY <1>12 DEF Tell
  <2>2. Adds(0) /\ Len(events) + 1..Len(events') = {}
    BY <1>2, <2>1 DEF Adds
  <2>3. QED
    BY <1>12, <2>2 DEF NewsTold
<1>13. QED
  BY <1>11, <1>12

LEMMA ServeTakes ==
  ASSUME TInv, Serve, NEW n, NEW q, NEW answer, q = requests[1],
         answer = IF Current(q.to) THEN Handle(server, Tool, q.call).answer ELSE "NoReply"
  PROVE  Takes(n, q, answer)
<1>1. PICK h : h = Handle(server, Tool, q.call)
  OBVIOUS
<1>2. PICK S : S = [to : Nat, call : Asking]
  OBVIOUS
<1>3. requests \in Seq(S) /\ requests # <<>> /\ server \in Server
  BY <1>2 DEF TInv, Serve
<1>4. q \in S /\ q = Head(requests)
  BY <1>3, TailIs
<1>5. PICK c, key : c = q.call /\ key = c.key
  OBVIOUS
<1>6. c \in Asking /\ q.to \in Nat
  BY <1>2, <1>4, <1>5
<1>7. c.names \in SUBSET Names /\ c.value \in Int /\ key \in Keys
  BY <1>5, <1>6 DEF Asking
<1>8. h.server \in Server /\ h.answer \in Answers /\ h.changed \in SUBSET Names
  BY <1>1, <1>3, <1>5, <1>7, HandleIs
<1>9. Flips(n, server.core.enabled, c, h.server.core.enabled, h.changed, h.answer = "OK")
  BY <1>1, <1>3, <1>5, <1>7, HandleFlips
<1>10. Current(q.to) <=> (server.up /\ server.life = q.to)
  BY DEF Current
<1>11. CASE Current(q.to)
  <2>1. answer = h.answer /\ server' = h.server /\ Tell(News(h, Reply(key, answer)))
    BY <1>1, <1>4, <1>5, <1>10, <1>11 DEF Serve
  <2>2. PICK f : f = Flags(h.changed, h.server)
    OBVIOUS
  <2>3. /\ f \in Seq(Telling)
        /\ h.changed = {} => Len(f) = 0
        /\ h.changed # {} => /\ Len(f) = 1 /\ f[1].type = "Flags" /\ f[1].names = h.changed
                             /\ f[1].value = 1 <=> h.changed \subseteq h.server.core.enabled
    BY <1>8, <2>2, FlagsTell
  <2>4. Len(f) <= 1 /\ \A i \in 1..Len(f) : f[i].type = "Flags"
    <3>1. CASE h.changed = {}
      BY <2>3, <3>1
    <3>2. CASE h.changed # {}
      <4>1. Len(f) = 1 /\ f[1].type = "Flags"
        BY <2>3, <3>2
      <4>2. \A i \in 1..Len(f) : i = 1
        BY <4>1
      <4>3. QED
        BY <4>1, <4>2
    <3>3. QED
      BY <3>1, <3>2
  <2>5. Tell(f \o <<Reply(key, answer)>>)
    BY <2>1, <2>2 DEF News
  <2>6. PICK k \in Nat : NewsTold(f, key, answer, k)
    BY <1>7, <1>8, <2>1, <2>3, <2>4, <2>5, NewsTell
  <2>7. On(n)' <=> n \in h.server.core.enabled
    BY <2>1 DEF On
  <2>8. ASSUME NEW i \in Len(events) + 1..Len(events'), Len(f) = 1, events'[i] = f[1]
        PROVE  /\ events'[i].type = "Flags"
               /\ n \in events'[i].names => /\ c.method \in Setters /\ n \in c.names
                                            /\ events'[i].value = 1 <=> On(n)'
    BY <1>9, <2>3, <2>7, <2>8 DEF Flips
  <2>9. ASSUME On(n)' # On(n)
        PROVE  n \in h.changed /\ c.method \in Setters /\ n \in c.names
    BY <1>9, <2>7, <2>9 DEF Flips, On
  <2>10. ASSUME app.running, On(n)' # On(n)
         PROVE  \E i \in Len(events) + 1..Len(events') : Tells(i, n)'
    <3>1. n \in h.changed
      BY <2>9, <2>10
    <3>2. Len(f) = 1 /\ f[1].type = "Flags" /\ n \in f[1].names
      BY <2>3, <3>1
    <3>3. QED
      BY <2>6, <2>10, <3>2 DEF Tells, NewsTold
  <2>11. Announces(n, c, answer, k)
    BY <1>5, <2>6, <2>8, <2>10 DEF Announces, NewsTold
  <2>12. /\ answer = "OK" /\ Enabling(c, n) /\ n \in Categories => On(n)'
         /\ answer = "OK" /\ Disabling(c, n) => ~On(n)'
    BY <1>9, <2>1, <2>7 DEF Flips
  <2>13. QED
    BY <1>5, <1>11, <2>9, <2>11, <2>12 DEF Takes
<1>12. CASE ~Current(q.to)
  <2>1. answer = "NoReply" /\ server' = server /\ Tell(<<Reply(key, answer)>>)
    BY <1>1, <1>4, <1>5, <1>10, <1>12 DEF Serve
  <2>2. PICK f, g : f = <<>> /\ g = <<Reply(key, answer)>>
    OBVIOUS
  <2>3. /\ f \in Seq(Telling) /\ Len(f) = 0 /\ Len(f) <= 1
        /\ \A i \in 1..Len(f) : f[i].type = "Flags"
    BY <2>2
  <2>4. f \o g = g
    <3>1. g \in Seq({Reply(key, answer)})
      BY <2>2
    <3>2. QED
      BY <2>2, <3>1
  <2>5. Tell(f \o <<Reply(key, answer)>>)
    BY <2>1, <2>2, <2>4
  <2>6. PICK k \in Nat : NewsTold(f, key, answer, k)
    BY <1>7, <2>1, <2>3, <2>5, NewsTell
  <2>7. On(n)' = On(n)
    BY <2>1 DEF On
  <2>8. Announces(n, c, answer, k)
    BY <1>5, <2>3, <2>6, <2>7 DEF Announces, NewsTold
  <2>9. \A i \in Len(events) + 1..Len(events') : ~Tells(i, n)'
    BY <2>3, <2>6 DEF Tells, NewsTold
  <2>10. QED
    BY <1>5, <1>12, <2>1, <2>8, <2>9 DEF Takes
<1>13. QED
  BY <1>11, <1>12

(* Category n is none of those others change.                                *)
Ignores(n) ==
  /\ n \notin touched' => n \notin touched /\ (On(n)' <=> On(n))
  /\ \A i \in Len(events) + 1..Len(events') : n \notin touched' => ~Tells(i, n)'

LEMMA NothingToldOf ==
  ASSUME TInv, events' = events, touched' = touched, server'.core = server.core, NEW n
  PROVE  Ignores(n)
<1>1. Len(events) + 1..Len(events') = {}
  BY DEF TInv
<1>2. QED
  BY <1>1 DEF Ignores, On

LEMMA ToldOf ==
  ASSUME TInv, NEW k \in Nat, Adds(k), touched' = touched, server'.core = server.core, NEW n,
         \A i \in 1..k : events'[Len(events) + i].type # "Flags"
  PROVE  Ignores(n)
<1>1. PICK l \in Nat : l = Len(events)
  BY DEF TInv
<1>2. Len(events') = l + k
  BY <1>1 DEF Adds
<1>3. ASSUME NEW i \in l + 1..l + k PROVE events'[i].type # "Flags"
  <2>1. i - l \in 1..k /\ l + (i - l) = i
    BY <1>1
  <2>2. QED
    BY <1>1, <2>1
<1>4. QED
  BY <1>1, <1>2, <1>3 DEF Ignores, On, Tells

LEMMA OtherIgnores ==
  ASSUME TInv, NEW c \in Calls, OtherCalls(c), NEW n
  PROVE  Ignores(n)
<1>1. PICK h : h = Handle(server, Other, c)
  OBVIOUS
<1>2. c.names \in SUBSET Names /\ c.value \in Int /\ server \in Server
  BY ToolConstants DEF TInv
<1>3. h.server \in Server /\ h.changed \in SUBSET Names
  BY <1>1, <1>2, HandleIs
<1>4. Flips(n, server.core.enabled, c, h.server.core.enabled, h.changed, h.answer = "OK")
  BY <1>1, <1>2, HandleFlips
<1>5. PICK t : t = Flags(h.changed, h.server)
  OBVIOUS
<1>6. /\ t \in Seq(Telling)
      /\ h.changed = {} => Len(t) = 0
      /\ h.changed # {} => Len(t) = 1 /\ t[1].names = h.changed
  BY <1>3, <1>5, FlagsTell
<1>7. server' = h.server /\ Tell(t) /\ touched' = touched \cup h.changed
  BY <1>1, <1>5 DEF OtherCalls
<1>8. PICK k \in {0, Len(t)} : Adds(k) /\ \A i \in 1..k : events'[Len(events) + i] = t[i]
  BY <1>6, <1>7, TellIs
<1>9. PICK l \in Nat : l = Len(events) /\ Len(events') = l + k
  BY <1>8 DEF TInv, Adds
<1>10. ASSUME NEW i \in l + 1..l + k, n \notin touched' PROVE ~Tells(i, n)'
  <2>1. k = 1 /\ Len(t) = 1 /\ h.changed # {}
    <3>1. Len(t) \in {0, 1}
      BY <1>6
    <3>2. k \in {0, 1}
      BY <1>8, <3>1
    <3>3. k # 0
      BY <1>9
    <3>4. QED
      BY <1>6, <1>8, <3>1, <3>2, <3>3
  <2>2. i = l + 1
    BY <1>9, <2>1
  <2>3. events'[i] = t[1]
    BY <1>8, <1>9, <2>1, <2>2
  <2>4. n \notin h.changed
    BY <1>7, <1>10
  <2>5. QED
    BY <1>6, <2>1, <2>3, <2>4 DEF Tells
<1>11. n \notin touched' => n \notin touched /\ (On(n)' <=> On(n))
  BY <1>4, <1>7 DEF Flips, On
<1>12. QED
  BY <1>9, <1>10, <1>11 DEF Ignores

LEMMA ChangeIgnores ==
  ASSUME TInv, \/ \E p \in Policies : SetAccessPolicy(p)
               \/ Start \/ Stop \/ UNCHANGED vars,
         NEW n
  PROVE  Ignores(n)
<1>1. events' = events /\ touched' = touched
  BY DEF SetAccessPolicy, Start, Stop, Change, vars
<1>2. server'.core = server.core
  <2>1. server \in Server
    BY DEF TInv
  <2>2. CASE \E p \in Policies : SetAccessPolicy(p)
    BY <2>1, <2>2 DEF SetAccessPolicy, Change, Server
  <2>3. CASE Start \/ Stop
    BY <2>1, <2>3 DEF Start, Stop, Change, Server
  <2>4. CASE UNCHANGED vars
    BY <2>4 DEF vars
  <2>5. QED
    BY <2>2, <2>3, <2>4
<1>3. QED
  BY <1>1, <1>2, NothingToldOf

LEMMA DieIgnores ==
  ASSUME TInv, Die, NEW n
  PROVE  Ignores(n)
<1>1. PICK k \in {0, 1} : Adds(k) /\ \A i \in 1..k : events'[Len(events) + i].type = "Vanished"
  BY DieStep
<1>2. touched' = touched /\ server' = [server EXCEPT !.up = FALSE] /\ server \in Server
  BY DEF Die, TInv
<1>3. server'.core = server.core
  BY <1>2 DEF Server
<1>4. k \in Nat /\ \A i \in 1..k : events'[Len(events) + i].type # "Flags"
  BY <1>1
<1>5. QED
  BY <1>1, <1>2, <1>3, <1>4, ToldOf

-----------------------------------------------------------------------------
(* What the tool knows of a category                                         *)

(* The client asks the server which now runs for its categories, or is going *)
(* to be told of them.                                                       *)
Hello(i) == IsInit(requests[i].call.key) /\ Current(requests[i].call.key[2])
Welcome(i) == events[i].type = "Reply" /\ IsInit(events[i].key) /\ Current(events[i].key[2])

(* Only actions of the tool change flags.                                    *)
Kinds ==
  \A i \in 1..Len(requests) :
    /\ requests[i].call.method \in Setters => IsCall(requests[i].call.key)
    /\ IsInit(requests[i].call.key) <=> requests[i].call.method = "GetAll"
    /\ IsInit(requests[i].call.key) => requests[i].to = requests[i].call.key[2]

(* A server is asked once, by a client which waits for the answer.           *)
Greets ==
  /\ \A i \in 1..Len(requests) : Hello(i) => client.init[2] = server.life
  /\ \A i \in 1..Len(events) : Welcome(i) => client.init[2] = server.life
  /\ \A i, j \in 1..Len(requests) : Hello(i) /\ Hello(j) => i = j
  /\ \A i, j \in 1..Len(events) : Welcome(i) /\ Welcome(j) => i = j
  /\ \A i \in 1..Len(requests), j \in 1..Len(events) : ~(Hello(i) /\ Welcome(j))

(* As long as nothing has failed, the tool waits for what is going to be     *)
(* heard.                                                                    *)
Quiet ==
  app.ret = "OK" /\ app.call = None => \A i \in 1..Len(requests) : ~Live(i)

(* A server the client has not turned to has its defaults.                   *)
Unmet(n) ==
  /\ app.ret = "OK" /\ server.up /\ n \notin touched
  /\ client.proxy # server.life /\ client.init[2] # server.life
  => (On(n) <=> n \in Defaults)

(* What the client is going to be told of the categories is so.              *)
Shown(n) ==
  app.running /\ n \notin touched =>
    \A i \in 1..Len(events) : Welcome(i) /\ events[i].answer = "OK" =>
      /\ n \in events[i].names <=> On(n)
      /\ \A j \in 1..Len(events) : i < j => ~Tells(j, n)

LastTells(i, n) == Tells(i, n) /\ \A j \in 1..Len(events) : i < j => ~Tells(j, n)

(* The client of the server which now runs knows of the category, or is      *)
(* going to hear of it.                                                      *)
Aware(n) ==
  app.running /\ n \notin touched /\ Current(client.proxy) =>
    /\ (\A i \in 1..Len(events) : ~Tells(i, n)) => (n \in client.enabled <=> On(n))
    /\ \A i \in 1..Len(events) : LastTells(i, n) => (events[i].value = 1 <=> On(n))

(* A change is announced before the end of the call.                         *)
Own(n) ==
  app.running /\ app.ret = "OK" /\ n \notin touched =>
    \A i, j \in 1..Len(events) : Tells(i, n) /\ Granted(j) => i < j

(* The category is what it was at first, or will be.                         *)
Restored(n) ==
  server.up /\ n \notin touched =>
    /\ \A i \in 1..Len(requests) : Live(i) =>
         /\ Enabling(requests[i].call, n) => n \in Defaults
         /\ Disabling(requests[i].call, n) => n \notin Defaults
    /\ n \in Defaults =>
         On(n) \/ \E i \in 1..Len(requests) : Live(i) /\ Enabling(requests[i].call, n)
    /\ n \notin Defaults =>
         ~On(n) \/ \E i \in 1..Len(requests) : Live(i) /\ Disabling(requests[i].call, n)

OnlyLists(actions) == \A i \in 1..Len(actions) : actions[i].type = "list"
WentWell == app.ret = "OK" /\ \A j \in 1..Len(done) : done[j].answer = "OK"

(* As long as nothing has failed, the last reset is still to come, or has    *)
(* done what it has to do.                                                   *)
Resetting(n) ==
  EndsWithReset(program) /\ WentWell =>
    EndsWithReset(app.actions) \/ (OnlyLists(app.actions) /\ Restored(n))

(* What there is to know of category n.                                      *)
Tracked(n) == Unmet(n) /\ Shown(n) /\ Aware(n) /\ Own(n) /\ Resetting(n)

Tracks == Kinds /\ Greets /\ Quiet /\ \A n \in Names : Tracked(n)

CInv == SInv /\ Tracks

(* The client knows whether the category has to be changed, if it is that of *)
(* the server which now runs.                                                *)
Synced(x, n) ==
  server.up /\ n \notin touched =>
    IF x.proxy = server.life THEN n \in x.enabled <=> On(n) ELSE On(n) <=> n \in Defaults

-----------------------------------------------------------------------------
(* The calls of a reset                                                      *)

LEMMA OneIs ==
  ASSUME NEW method, NEW names, NEW value, NEW key, NEW sent,
         sent = <<Request(method, names, value, key)>>
  PROVE  /\ Len(sent) = 1
         /\ \A i \in 1..Len(sent) : sent[i].method = method /\ sent[i].names = names
<1>1. PICK r : r = Request(method, names, value, key)
  OBVIOUS
<1>2. r.method = method /\ r.names = names
  BY <1>1 DEF Request
<1>3. sent = <<r>>
  BY <1>1
<1>4. Len(sent) = 1 /\ sent[1] = r
  BY <1>3
<1>5. \A i \in 1..Len(sent) : i = 1
  BY <1>4
<1>6. QED
  BY <1>2, <1>4, <1>5

LEMMA TwoAre ==
  ASSUME NEW on, NEW off, NEW first, NEW second, NEW sent,
         sent = <<Request("CategoryEnable", on, 0, first)>>
                \o <<Request("CategoryDisable", off, 0, second)>>
  PROVE  /\ Len(sent) = 2
         /\ sent[1].method = "CategoryEnable" /\ sent[1].names = on
         /\ sent[2].method = "CategoryDisable" /\ sent[2].names = off
<1>1. PICK p, q : /\ p = Request("CategoryEnable", on, 0, first)
                  /\ q = Request("CategoryDisable", off, 0, second)
  OBVIOUS
<1>2. /\ p.method = "CategoryEnable" /\ p.names = on
      /\ q.method = "CategoryDisable" /\ q.names = off
  BY <1>1 DEF Request
<1>3. PICK f, g, S : f = <<p>> /\ g = <<q>> /\ S = {p, q}
  OBVIOUS
<1>4. f \in Seq(S) /\ g \in Seq(S) /\ Len(f) = 1 /\ Len(g) = 1 /\ f[1] = p /\ g[1] = q
  BY <1>3
<1>5. sent = f \o g
  BY <1>1, <1>3
<1>6. /\ Len(sent) = 1 + 1
      /\ \A i \in 1..1 : sent[i] = f[i]
      /\ \A i \in 1..1 : sent[1 + i] = g[i]
  BY <1>4, <1>5, JoinIs
<1>7. sent[1] = p /\ sent[2] = q /\ Len(sent) = 2
  BY <1>4, <1>6
<1>8. QED
  BY <1>2, <1>7

(* A reset asks for what the client takes to be different from the defaults. *)
LEMMA ResetIs ==
  ASSUME NEW a \in Action, a.type = "reset", NEW x, NEW sent, sent = CallsOf(a, x), NEW n
  PROVE  /\ \A i \in 1..Len(sent) : /\ Enabling(sent[i], n) => n \in Defaults
                                    /\ Disabling(sent[i], n) => n \notin Defaults
                                    /\ sent[i].method \in Setters
         /\ n \in Defaults /\ n \notin x.enabled => \E i \in 1..Len(sent) : Enabling(sent[i], n)
         /\ n \notin Defaults /\ n \in x.enabled => \E i \in 1..Len(sent) : Disabling(sent[i], n)
<1>1. PICK on, off : on = Defaults \ x.enabled /\ off = x.enabled \ Defaults
  OBVIOUS
<1>2. sent = ResetCalls(on, off, a.pos)
  BY <1>1 DEF CallsOf
<1>3. /\ "CategoryEnable" \in Enablers /\ "CategoryEnable" \notin Disablers
      /\ "CategoryDisable" \in Disablers /\ "CategoryDisable" \notin Enablers
      /\ Enablers \subseteq Setters /\ Disablers \subseteq Setters
  BY DEF Enablers, Disablers, Setters
<1>4. CASE on = {} /\ off = {}
  <2>1. sent = <<>>
    BY <1>2, <1>4 DEF ResetCalls
  <2>2. Len(sent) = 0
    BY <2>1
  <2>3. QED
    BY <1>1, <1>4, <2>2
<1>5. CASE on # {} /\ off = {}
  <2>1. sent = <<Request("CategoryEnable", on, 0, <<"action", a.pos>>)>>
    BY <1>2, <1>5 DEF ResetCalls
  <2>2. /\ Len(sent) = 1
        /\ \A i \in 1..Len(sent) : sent[i].method = "CategoryEnable" /\ sent[i].names = on
    BY <2>1, OneIs
  <2>3. 1 \in 1..Len(sent)
    BY <2>2
  <2>4. QED
    BY <1>1, <1>3, <1>5, <2>2, <2>3 DEF Enabling, Disabling
<1>6. CASE on = {} /\ off # {}
  <2>1. sent = <<Request("CategoryDisable", off, 0, <<"action", a.pos>>)>>
    BY <1>2, <1>6 DEF ResetCalls
  <2>2. /\ Len(sent) = 1
        /\ \A i \in 1..Len(sent) : sent[i].method = "CategoryDisable" /\ sent[i].names = off
    BY <2>1, OneIs
  <2>3. 1 \in 1..Len(sent)
    BY <2>2
  <2>4. QED
    BY <1>1, <1>3, <1>6, <2>2, <2>3 DEF Enabling, Disabling
<1>7. CASE on # {} /\ off # {}
  <2>1. sent = <<Request("CategoryEnable", on, 0, <<"half", a.pos>>)>>
               \o <<Request("CategoryDisable", off, 0, <<"action", a.pos>>)>>
    BY <1>2, <1>7 DEF ResetCalls
  <2>2. /\ Len(sent) = 2
        /\ sent[1].method = "CategoryEnable" /\ sent[1].names = on
        /\ sent[2].method = "CategoryDisable" /\ sent[2].names = off
    BY <2>1, TwoAre
  <2>3. 1 \in 1..Len(sent) /\ 2 \in 1..Len(sent) /\ \A i \in 1..Len(sent) : i = 1 \/ i = 2
    BY <2>2
  <2>4. /\ \A i \in 1..Len(sent) : /\ Enabling(sent[i], n) => n \in on
                                   /\ Disabling(sent[i], n) => n \in off
                                   /\ sent[i].method \in Setters
        /\ n \in on => Enabling(sent[1], n)
        /\ n \in off => Disabling(sent[2], n)
    BY <1>3, <2>2, <2>3 DEF Enabling, Disabling
  <2>5. QED
    BY <1>1, <2>3, <2>4
<1>8. QED
  BY <1>4, <1>5, <1>6, <1>7

(* No action is a query.                                                     *)
LEMMA ActionAsks ==
  ASSUME NEW a \in Action, NEW x, NEW sent, sent = CallsOf(a, x)
  PROVE  \A i \in 1..Len(sent) : sent[i].method # "GetAll"
<1>1. CASE a.type = "reset"
  <2>1. "GetAll" \notin Setters
    BY DEF Setters, Enablers, Disablers
  <2>2. \A n : \A i \in 1..Len(sent) : sent[i].method \in Setters
    BY <1>1, ResetIs
  <2>3. QED
    BY <2>1, <2>2
<1>2. CASE a.type # "reset"
  <2>1. \/ sent = <<>>
        \/ \E names, value : \E method \in {"CategoryEnablePattern", "CategoryDisablePattern",
                                            "SetDefaultLevel", "SetBacklog"} :
             sent = <<Request(method, names, value, <<"action", a.pos>>)>>
    BY <1>2 DEF CallsOf
  <2>2. CASE sent = <<>>
    <3>1. Len(sent) = 0
      BY <2>2
    <3>2. QED
      BY <3>1
  <2>3. ASSUME NEW names, NEW value,
               NEW method \in {"CategoryEnablePattern", "CategoryDisablePattern",
                               "SetDefaultLevel", "SetBacklog"},
               sent = <<Request(method, names, value, <<"action", a.pos>>)>>
        PROVE  \A i \in 1..Len(sent) : sent[i].method # "GetAll"
    <3>1. \A i \in 1..Len(sent) : sent[i].method = method
      BY <2>3, OneIs
    <3>2. QED
      BY <2>3, <3>1
  <2>4. QED
    BY <2>1, <2>2, <2>3
<1>3. QED
  BY <1>1, <1>2

-----------------------------------------------------------------------------
(* Steps of the tool                                                         *)

(* Neither the server nor others do anything.                                *)
Apart(k) == Inside /\ touched' = touched /\ k \in {0, 1} /\ Took(k) /\ (app'.running => app.running)

LEMMA ApartIs ==
  ASSUME TInv, NEW k, Apart(k), NEW n
  PROVE  /\ server' = server /\ touched' = touched /\ done' = done /\ program' = program
         /\ On(n)' <=> On(n)
         /\ \A life : Current(life)' <=> Current(life)
         /\ \A i \in 1..Len(events') :
              /\ i + k \in 1..Len(events) /\ events'[i] = events[i + k]
              /\ Tells(i, n)' <=> Tells(i + k, n)
              /\ Welcome(i)' <=> Welcome(i + k)
         /\ \A i, j \in 1..Len(events') : i < j => i + k < j + k
<1>1. /\ server' = server /\ touched' = touched /\ done' = done /\ program' = program
      /\ \A life : Current(life)' <=> Current(life)
  BY SameWorld DEF Apart, Inside
<1>2. k \in {0, 1} /\ Took(k)
  BY DEF Apart
<1>3. \A i \in 1..Len(events') : i + k \in 1..Len(events) /\ events'[i] = events[i + k]
  BY <1>2, EventsTaken
<1>4. On(n)' <=> On(n)
  BY <1>1 DEF On
<1>5. \A i, j \in 1..Len(events') : i < j => i + k < j + k
  BY <1>2 DEF Took
<1>6. ASSUME NEW i \in 1..Len(events')
      PROVE  (Tells(i, n)' <=> Tells(i + k, n)) /\ (Welcome(i)' <=> Welcome(i + k))
  BY <1>1, <1>3 DEF Tells, Welcome
<1>7. QED
  BY <1>1, <1>3, <1>4, <1>5, <1>6

LEMMA ShownTaken ==
  ASSUME TInv, NEW k, Apart(k), NEW n, Shown(n)
  PROVE  Shown(n)'
<1>1. /\ touched' = touched
      /\ On(n)' <=> On(n)
      /\ \A i \in 1..Len(events') :
           /\ i + k \in 1..Len(events) /\ events'[i] = events[i + k]
           /\ Tells(i, n)' <=> Tells(i + k, n)
           /\ Welcome(i)' <=> Welcome(i + k)
      /\ \A i, j \in 1..Len(events') : i < j => i + k < j + k
  BY ApartIs
<1>2. SUFFICES ASSUME app'.running, n \notin touched', NEW i \in 1..Len(events'),
                      Welcome(i)', events'[i].answer = "OK"
               PROVE  /\ n \in events'[i].names <=> On(n)'
                      /\ \A j \in 1..Len(events') : i < j => ~Tells(j, n)'
  BY DEF Shown
<1>3. app.running /\ n \notin touched
  BY <1>1, <1>2 DEF Apart
<1>4. i + k \in 1..Len(events) /\ Welcome(i + k) /\ events[i + k].answer = "OK"
  BY <1>1, <1>2
<1>5. /\ n \in events[i + k].names <=> On(n)
      /\ \A j \in 1..Len(events) : i + k < j => ~Tells(j, n)
  BY <1>3, <1>4 DEF Shown
<1>6. QED
  BY <1>1, <1>5

LEMMA OwnTaken ==
  ASSUME TInv, NEW k, Apart(k), NEW n, Own(n), app'.ret = "OK" => app.ret = "OK",
         \A j \in 1..Len(events') : Granted(j)' => Granted(j + k)
  PROVE  Own(n)'
<1>1. /\ touched' = touched
      /\ \A i \in 1..Len(events') :
           /\ i + k \in 1..Len(events)
           /\ Tells(i, n)' <=> Tells(i + k, n)
  BY ApartIs
<1>2. SUFFICES ASSUME app'.running, app'.ret = "OK", n \notin touched',
                      NEW i \in 1..Len(events'), NEW j \in 1..Len(events'),
                      Tells(i, n)', Granted(j)'
               PROVE  i < j
  BY DEF Own
<1>3. app.running /\ app.ret = "OK" /\ n \notin touched
  BY <1>1, <1>2 DEF Apart
<1>4. /\ i + k \in 1..Len(events) /\ Tells(i + k, n)
      /\ j + k \in 1..Len(events) /\ Granted(j + k)
  BY <1>1, <1>2
<1>5. i + k < j + k
  BY <1>3, <1>4 DEF Own
<1>6. i \in Int /\ j \in Int /\ k \in Int
  BY DEF Apart
<1>7. QED
  BY <1>5, <1>6

LEMMA SameWaits ==
  ASSUME TInv, NEW k, Apart(k), pending' \subseteq pending
  PROVE  \A j \in 1..Len(events') : Granted(j)' => Granted(j + k)
<1>1. \A i \in 1..Len(events') : events'[i] = events[i + k]
  BY ApartIs
<1>2. QED
  BY <1>1 DEF Granted

LEMMA TellsTaken ==
  ASSUME TInv, NEW k, Apart(k), NEW n, Len(events') + k = Len(events)
  PROVE  /\ (\A i \in 1..Len(events') : ~Tells(i, n)') =>
              \A i \in 1..Len(events) : Tells(i, n) => i \in 1..k
         /\ \A i \in 1..Len(events') : LastTells(i, n)' => LastTells(i + k, n)
<1>1. \A i \in 1..Len(events') :
         i + k \in 1..Len(events) /\ (Tells(i, n)' <=> Tells(i + k, n))
  BY ApartIs
<1>2. PICK l, m \in Nat : l = Len(events) /\ m = Len(events') /\ m + k = l /\ k \in {0, 1}
  <2>1. Len(events) \in Nat /\ Len(events') \in Nat
    BY DEF Apart, Took, TInv
  <2>2. QED
    BY <2>1 DEF Apart
<1>3. ASSUME NEW i \in 1..l PROVE i \in 1..k \/ \E j \in 1..m : i = j + k
  <2>1. i \in 1..k \/ (i - k \in 1..m /\ i = (i - k) + k)
    BY <1>2
  <2>2. QED
    BY <2>1
<1>4. ASSUME NEW i \in 1..m, LastTells(i, n)' PROVE LastTells(i + k, n)
  <2>1. Tells(i, n)' /\ \A j \in 1..m : i < j => ~Tells(j, n)'
    BY <1>2, <1>4 DEF LastTells
  <2>2. ASSUME NEW j \in 1..l, i + k < j PROVE ~Tells(j, n)
    <3>1. PICK h \in 1..m : j = h + k
      <4>1. j \notin 1..k
        BY <1>2, <2>2
      <4>2. QED
        BY <1>3, <4>1
    <3>2. i < h
      BY <1>2, <2>2, <3>1
    <3>3. QED
      BY <1>1, <1>2, <2>1, <3>1, <3>2
  <2>3. QED
    BY <1>1, <1>2, <2>1, <2>2 DEF LastTells
<1>5. ASSUME \A i \in 1..m : ~Tells(i, n)', NEW i \in 1..l, Tells(i, n) PROVE i \in 1..k
  BY <1>1, <1>2, <1>3, <1>5
<1>6. QED
  BY <1>2, <1>4, <1>5

LEMMA AwareTaken ==
  ASSUME TInv, NEW k, Apart(k), NEW n, Aware(n), Len(events') + k = Len(events),
         \A i \in 1..k : ~Tells(i, n),
         client'.proxy = client.proxy, client'.enabled = client.enabled
  PROVE  Aware(n)'
<1>1. /\ touched' = touched /\ (On(n)' <=> On(n))
      /\ \A life : Current(life)' <=> Current(life)
      /\ \A i \in 1..Len(events') : i + k \in 1..Len(events) /\ events'[i] = events[i + k]
  BY ApartIs
<1>2. SUFFICES ASSUME app'.running, n \notin touched', Current(client.proxy)'
               PROVE  /\ (\A i \in 1..Len(events') : ~Tells(i, n)') =>
                           (n \in client'.enabled <=> On(n)')
                      /\ \A i \in 1..Len(events') :
                           LastTells(i, n)' => (events'[i].value = 1 <=> On(n)')
  BY DEF Aware
<1>3. app.running /\ n \notin touched /\ Current(client.proxy)
  BY <1>1, <1>2 DEF Apart, Current
<1>4. /\ (\A i \in 1..Len(events) : ~Tells(i, n)) => (n \in client.enabled <=> On(n))
      /\ \A i \in 1..Len(events) : LastTells(i, n) => (events[i].value = 1 <=> On(n))
  BY <1>3 DEF Aware
<1>5. /\ (\A i \in 1..Len(events') : ~Tells(i, n)') =>
           \A i \in 1..Len(events) : ~Tells(i, n)
      /\ \A i \in 1..Len(events') : LastTells(i, n)' => LastTells(i + k, n)
  BY TellsTaken
<1>6. QED
  BY <1>1, <1>4, <1>5

(* The client does not turn away from the server which runs.                 *)
LEMMA UnmetKept ==
  ASSUME TInv, NEW k, Apart(k), NEW n, Unmet(n), app'.ret = "OK" => app.ret = "OK",
         Current(client.proxy) \/ Current(client.init[2]) =>
           client'.proxy = server.life \/ client'.init[2] = server.life
  PROVE  Unmet(n)'
<1>1. touched' = touched /\ server' = server /\ (On(n)' <=> On(n))
  BY ApartIs
<1>2. QED
  BY <1>1 DEF Unmet, Current

(* No call is made, and what has failed stays so.                            *)
Stays(k) ==
  /\ Apart(k) /\ Extends /\ NoCalls
  /\ app'.ret = "OK" => app.ret = "OK" /\ app'.call = app.call
  /\ app'.actions = app.actions /\ pending' \subseteq pending

LEMMA RestoredKept ==
  ASSUME TInv, NEW k, Apart(k), Extends, NoCalls, NEW n, Restored(n)
  PROVE  Restored(n)'
<1>1. /\ touched' = touched /\ server' = server /\ (On(n)' <=> On(n))
      /\ \A life : Current(life)' <=> Current(life)
  BY ApartIs
<1>2. /\ \A i \in 1..Len(requests) : i \in 1..Len(requests') /\ (Live(i)' <=> Live(i))
                                     /\ requests'[i] = requests[i]
      /\ \A i \in 1..Len(requests') : Live(i)' => i \in 1..Len(requests)
  <2>1. PICK l, m \in Nat : l = Len(requests) /\ m = Len(requests') /\ l <= m
    BY Lengths DEF Extends
  <2>2. \A i \in 1..l : i \in 1..m
    BY <2>1
  <2>3. \A i \in 1..m : i \in 1..l \/ i \in l + 1..m
    BY <2>1
  <2>4. \A i \in 1..l : requests'[i] = requests[i]
    BY <2>1 DEF Extends
  <2>5. \A i \in l + 1..m : ~IsCall(requests'[i].call.key)
    BY <2>1 DEF NoCalls
  <2>6. QED
    BY <1>1, <2>1, <2>2, <2>3, <2>4, <2>5 DEF Live
<1>3. SUFFICES ASSUME server.up, n \notin touched
               PROVE  /\ \A i \in 1..Len(requests') : Live(i)' =>
                           /\ Enabling(requests'[i].call, n) => n \in Defaults
                           /\ Disabling(requests'[i].call, n) => n \notin Defaults
                      /\ n \in Defaults =>
                           On(n) \/ \E i \in 1..Len(requests') :
                                      Live(i)' /\ Enabling(requests'[i].call, n)
                      /\ n \notin Defaults =>
                           ~On(n) \/ \E i \in 1..Len(requests') :
                                       Live(i)' /\ Disabling(requests'[i].call, n)
  BY <1>1 DEF Restored, Enabling, Disabling
<1>4. /\ \A i \in 1..Len(requests) : Live(i) =>
           /\ Enabling(requests[i].call, n) => n \in Defaults
           /\ Disabling(requests[i].call, n) => n \notin Defaults
      /\ n \in Defaults =>
           On(n) \/ \E i \in 1..Len(requests) : Live(i) /\ Enabling(requests[i].call, n)
      /\ n \notin Defaults =>
           ~On(n) \/ \E i \in 1..Len(requests) : Live(i) /\ Disabling(requests[i].call, n)
  BY <1>3 DEF Restored
<1>5. QED
  BY <1>2, <1>4

LEMMA StaysKeeps ==
  ASSUME TInv, NEW k, Stays(k), NEW n
  PROVE  /\ Shown(n) => Shown(n)'
         /\ Own(n) => Own(n)'
         /\ Resetting(n) => Resetting(n)'
         /\ Quiet => Quiet'
<1>1. Apart(k) /\ Extends /\ NoCalls /\ pending' \subseteq pending /\ app'.actions = app.actions
  BY DEF Stays
<1>2. Shown(n) => Shown(n)'
  BY <1>1, ShownTaken
<1>3. Own(n) => Own(n)'
  BY <1>1, SameWaits, OwnTaken DEF Stays
<1>4. done' = done /\ program' = program /\ \A life : Current(life)' <=> Current(life)
  BY <1>1, ApartIs
<1>5. ASSUME Resetting(n) PROVE Resetting(n)'
  <2>1. WentWell' => WentWell
    BY <1>4 DEF WentWell, Stays
  <2>2. Restored(n) => Restored(n)'
    BY <1>1, RestoredKept
  <2>3. OnlyLists(app.actions) => OnlyLists(app'.actions)
    BY <1>1
  <2>4. EndsWithReset(app.actions) => EndsWithReset(app'.actions)
    BY <1>1
  <2>5. EndsWithReset(program') => EndsWithReset(program)
    BY <1>4
  <2>6. QED
    BY <1>5, <2>1, <2>2, <2>3, <2>4, <2>5 DEF Resetting
<1>6. ASSUME Quiet PROVE Quiet'
  <2>1. ASSUME app'.ret = "OK", app'.call = None, NEW i \in 1..Len(requests'), Live(i)'
        PROVE  FALSE
    <3>1. i \in 1..Len(requests) \/ i \in Len(requests) + 1..Len(requests')
      BY <1>1, Lengths DEF Extends
    <3>2. i \in 1..Len(requests)
      BY <1>1, <2>1, <3>1 DEF NoCalls, Live
    <3>3. requests'[i] = requests[i]
      BY <1>1, <3>2 DEF Extends
    <3>4. Live(i)
      BY <1>4, <2>1, <3>3 DEF Live
    <3>5. QED
      BY <1>6, <2>1, <3>2, <3>4 DEF Quiet, Stays
  <2>2. QED
    BY <2>1 DEF Quiet
<1>7. QED
  BY <1>2, <1>3, <1>5, <1>6

LEMMA EndsIs ==
  ASSUME NEW actions \in Seq(Action)
  PROVE  EndsWithReset(actions) <=>
           \E r \in 1..Len(actions) :
             /\ actions[r].type = "reset"
             /\ \A j \in 1..Len(actions) : r < j => actions[j].type = "list"
BY DEF EndsWithReset

(* The tool has come to its next action, as client x.                        *)
Turns(a, x, k) ==
  /\ Apart(k) /\ a \in App /\ a.actions = app.actions /\ app'.ret = app.ret
  /\ x \in Client /\ client' = x /\ x.proxy <= server.life
  /\ \A i \in 1..Len(requests) : ~Live(i)
  /\ EndsNow(a, x, {}) \/ \E m \in 1..Len(a.actions) : GoesOn(a, x, {}, m)

(* There is nothing to reset.                                                *)
LEMMA ResetNeedless ==
  ASSUME TInv, Known, NEW a, NEW x, NEW k, Turns(a, x, k), EndsNow(a, x, {}), NEW n, Synced(x, n),
         EndsWithReset(app.actions)
  PROVE  OnlyLists(app'.actions) /\ Restored(n)'
<1>1. /\ Apart(k) /\ a \in App /\ a.actions = app.actions /\ x \in Client /\ x.proxy <= server.life
      /\ \A i \in 1..Len(requests) : ~Live(i)
  BY DEF Turns
<1>2. /\ server' = server /\ touched' = touched /\ (On(n)' <=> On(n))
      /\ \A life : Current(life)' <=> Current(life)
  BY <1>1, ApartIs
<1>3. /\ \A i \in 1..Len(app.actions) : CallsOf(app.actions[i], x) = <<>>
      /\ app'.actions = <<>> /\ Opens("open", x.proxy)
  BY <1>1 DEF EndsNow
<1>4. app.actions \in Seq(Action) /\ x.proxy \in Nat
  BY <1>1 DEF TInv, App, Client
<1>5. Extends /\ NoCalls
  BY <1>1, <1>3, <1>4, OpensExtends
<1>6. ASSUME NEW i \in 1..Len(requests') PROVE ~Live(i)'
  <2>1. i \in 1..Len(requests) \/ i \in Len(requests) + 1..Len(requests')
    BY <1>5, Lengths DEF Extends
  <2>2. CASE i \in 1..Len(requests)
    <3>1. requests'[i] = requests[i]
      BY <1>5, <2>2 DEF Extends
    <3>2. QED
      BY <1>1, <1>2, <2>2, <3>1 DEF Live
  <2>3. CASE i \in Len(requests) + 1..Len(requests')
    BY <1>5, <2>3 DEF NoCalls, Live
  <2>4. QED
    BY <2>1, <2>2, <2>3
<1>7. PICK r \in 1..Len(app.actions) : app.actions[r].type = "reset"
  BY <1>4, EndsIs
<1>8. n \in Defaults <=> n \in x.enabled
  <2>1. PICK sent : sent = CallsOf(app.actions[r], x)
    OBVIOUS
  <2>2. app.actions[r] \in Action
    BY <1>4, <1>7
  <2>3. sent = <<>>
    BY <1>3, <1>7, <2>1
  <2>4. 1..Len(sent) = {}
    BY <2>3
  <2>5. QED
    BY <1>7, <2>1, <2>2, <2>4, ResetIs
<1>9. server.up /\ n \notin touched => (On(n) <=> n \in Defaults)
  BY <1>8 DEF Synced
<1>10. Restored(n)'
  BY <1>2, <1>6, <1>9 DEF Restored
<1>11. OnlyLists(app'.actions)
  <2>1. 1..Len(app'.actions) = {}
    BY <1>3
  <2>2. QED
    BY <2>1 DEF OnlyLists
<1>12. QED
  BY <1>10, <1>11

(* The calls of a reset are made.                                            *)
LEMMA ResetMade ==
  ASSUME TInv, Known, NEW a, NEW x, NEW k, Turns(a, x, k), NEW n, Synced(x, n),
         NEW r \in 1..Len(a.actions), GoesOn(a, x, {}, r), a.actions[r].type = "reset"
  PROVE  Restored(n)'
<1>1. /\ Apart(k) /\ a \in App /\ x \in Client /\ x.proxy <= server.life
      /\ \A i \in 1..Len(requests) : ~Live(i)
  BY DEF Turns
<1>2. /\ server' = server /\ touched' = touched /\ (On(n)' <=> On(n))
      /\ \A life : Current(life)' <=> Current(life)
  BY <1>1, ApartIs
<1>3. PICK sent \in Seq(Asking) :
        /\ sent = CallsOf(a.actions[r], x) /\ CallsAre(a.actions[r], sent) /\ Sends(sent, x.proxy)
  BY DEF GoesOn
<1>4. a.actions[r] \in Action
  BY <1>1 DEF App
<1>5. /\ \A i \in 1..Len(sent) : /\ Enabling(sent[i], n) => n \in Defaults
                                 /\ Disabling(sent[i], n) => n \notin Defaults
      /\ n \in Defaults /\ n \notin x.enabled => \E i \in 1..Len(sent) : Enabling(sent[i], n)
      /\ n \notin Defaults /\ n \in x.enabled => \E i \in 1..Len(sent) : Disabling(sent[i], n)
  BY <1>3, <1>4, ResetIs
<1>6. PICK l, m \in Nat : l = Len(requests) /\ m = Len(sent)
  BY <1>3, Lengths
<1>7. /\ Len(requests') = l + m
      /\ \A i \in 1..l : requests'[i] = requests[i]
      /\ \A i \in 1..m : requests'[l + i].to = x.proxy /\ requests'[l + i].call = sent[i]
  BY <1>3, <1>6 DEF Sends
<1>8. \A i \in 1..m : l + i \in 1..l + m /\ IsCall(sent[i].key)
  BY <1>3, <1>6 DEF CallsAre
<1>9. \A i \in 1..l : ~Live(i)'
  BY <1>1, <1>2, <1>6, <1>7 DEF Live
<1>10. \A i \in 1..m : Live(l + i)' <=> Current(x.proxy)
  BY <1>2, <1>7, <1>8 DEF Live
<1>11. ASSUME NEW i \in 1..l + m, Live(i)'
       PROVE  Current(x.proxy) /\ \E j \in 1..m : i = l + j /\ requests'[i].call = sent[j]
  <2>1. i \in 1..l \/ (i - l \in 1..m /\ i = l + (i - l))
    BY <1>6
  <2>2. PICK j \in 1..m : i = l + j
    BY <1>9, <1>11, <2>1
  <2>3. QED
    BY <1>7, <1>10, <1>11, <2>2
<1>12. SUFFICES ASSUME server.up, n \notin touched
                PROVE  /\ \A i \in 1..Len(requests') : Live(i)' =>
                            /\ Enabling(requests'[i].call, n) => n \in Defaults
                            /\ Disabling(requests'[i].call, n) => n \notin Defaults
                       /\ n \in Defaults =>
                            On(n) \/ \E i \in 1..Len(requests') :
                                       Live(i)' /\ Enabling(requests'[i].call, n)
                       /\ n \notin Defaults =>
                            ~On(n) \/ \E i \in 1..Len(requests') :
                                        Live(i)' /\ Disabling(requests'[i].call, n)
  BY <1>2 DEF Restored, Enabling, Disabling
<1>13. \A i \in 1..Len(requests') : Live(i)' =>
         /\ Enabling(requests'[i].call, n) => n \in Defaults
         /\ Disabling(requests'[i].call, n) => n \notin Defaults
  BY <1>5, <1>6, <1>7, <1>11
<1>14. CASE Current(x.proxy)
  <2>1. On(n) <=> n \in x.enabled
    BY <1>12, <1>14 DEF Synced, Current
  <2>2. \A i \in 1..m : /\ l + i \in 1..Len(requests') /\ Live(l + i)'
                        /\ requests'[l + i].call = sent[i]
    BY <1>7, <1>8, <1>10, <1>14
  <2>3. QED
    BY <1>5, <1>6, <1>13, <2>1, <2>2
<1>15. CASE ~Current(x.proxy)
  <2>1. On(n) <=> n \in Defaults
    BY <1>12, <1>15 DEF Synced, Current
  <2>2. QED
    BY <1>13, <2>1
<1>16. QED
  BY <1>14, <1>15

LEMMA TurnsResetting ==
  ASSUME TInv, Known, NEW a, NEW x, NEW k, Turns(a, x, k), NEW n, Resetting(n),
         app.ret = "OK" => Synced(x, n)
  PROVE  Resetting(n)'
<1>1. /\ Apart(k) /\ a \in App /\ a.actions = app.actions /\ x \in Client /\ client' = x
      /\ x.proxy <= server.life /\ app'.ret = app.ret
      /\ EndsNow(a, x, {}) \/ \E m \in 1..Len(a.actions) : GoesOn(a, x, {}, m)
  BY DEF Turns
<1>2. done' = done /\ program' = program
  BY <1>1, ApartIs
<1>3. app.actions \in Seq(Action) /\ x.proxy \in Nat
  BY <1>1 DEF TInv, App, Client
<1>4. SUFFICES ASSUME EndsWithReset(program), WentWell
               PROVE  EndsWithReset(app'.actions) \/ (OnlyLists(app'.actions) /\ Restored(n)')
  BY <1>1, <1>2 DEF Resetting, WentWell
<1>5. Synced(x, n)
  BY <1>4 DEF WentWell
<1>6. EndsWithReset(app.actions) \/ (OnlyLists(app.actions) /\ Restored(n))
  BY <1>4 DEF Resetting
<1>7. CASE EndsNow(a, x, {})
  <2>1. CASE EndsWithReset(app.actions)
    BY <1>5, <1>7, <2>1, ResetNeedless
  <2>2. CASE Restored(n)
    <3>1. app'.actions = <<>> /\ Opens("open", x.proxy)
      BY <1>7 DEF EndsNow
    <3>2. Extends /\ NoCalls
      BY <1>1, <1>3, <3>1, OpensExtends
    <3>3. Restored(n)'
      BY <1>1, <2>2, <3>2, RestoredKept
    <3>4. 1..Len(app'.actions) = {}
      BY <3>1
    <3>5. QED
      BY <3>3, <3>4 DEF OnlyLists
  <2>3. QED
    BY <1>6, <2>1, <2>2
<1>8. ASSUME NEW m \in 1..Len(a.actions), GoesOn(a, x, {}, m)
      PROVE  EndsWithReset(app'.actions) \/ (OnlyLists(app'.actions) /\ Restored(n)')
  <2>1. app.actions[m].type # "list"
    BY <1>1, <1>8, GoExtends
  <2>2. EndsWithReset(app.actions)
    BY <1>1, <1>6, <1>8, <2>1 DEF OnlyLists
  <2>3. PICK r \in 1..Len(app.actions) :
          /\ app.actions[r].type = "reset"
          /\ \A j \in 1..Len(app.actions) : r < j => app.actions[j].type = "list"
    BY <1>3, <2>2, EndsIs
  <2>4. PICK l \in Nat : l = Len(app.actions)
    BY <1>3
  <2>5. m \in 1..l /\ r \in 1..l /\ m <= r
    <3>1. m \in 1..l /\ r \in 1..l /\ ~(r < m)
      BY <1>1, <1>8, <2>1, <2>3, <2>4
    <3>2. QED
      BY <3>1
  <2>6. PICK rest : rest = app'.actions
    OBVIOUS
  <2>7. /\ rest \in Seq(Action) /\ Len(rest) = l - m
        /\ \A j \in 1..l - m : rest[j] = app.actions[j + m]
    <3>1. rest = SubSeq(app.actions, m + 1, Len(app.actions))
      BY <1>1, <1>8, <2>6 DEF GoesOn
    <3>2. QED
      BY <1>3, <2>4, <2>5, <3>1, RestIs
  <2>8. \A j \in 1..l - m : j + m \in 1..l /\ (r - m < j => r < j + m)
    BY <2>5
  <2>9. \A j \in 1..l - m : r - m < j => rest[j].type = "list"
    BY <2>3, <2>4, <2>7, <2>8
  <2>10. CASE m < r
    <3>1. r - m \in 1..l - m /\ (r - m) + m = r
      BY <2>5, <2>10
    <3>2. rest[r - m].type = "reset"
      BY <2>3, <2>7, <3>1
    <3>3. EndsWithReset(rest)
      BY <2>7, <2>9, <3>1, <3>2, EndsIs
    <3>4. QED
      BY <2>6, <3>3
  <2>11. CASE m = r
    <3>1. Restored(n)'
      BY <1>1, <1>5, <1>8, <2>3, <2>11, ResetMade
    <3>2. \A j \in 1..l - m : r - m < j
      BY <2>5, <2>11
    <3>3. OnlyLists(rest)
      BY <2>7, <2>9, <3>2 DEF OnlyLists
    <3>4. QED
      BY <2>6, <3>1, <3>3
  <2>12. QED
    BY <2>5, <2>10, <2>11
<1>9. QED
  BY <1>1, <1>7, <1>8

LEMMA DispatchIs ==
  ASSUME TInv, \/ NameAppeared \/ NameVanished \/ InitFinished \/ CallFinished
               \/ StartFinished \/ FlagsChanged
  PROVE  /\ Apart(1) /\ Len(events') + 1 = Len(events) /\ 1 \in 1..Len(events)
         /\ app.running /\ events[1] = Head(events)
<1>1. PICK type : Receive(type)
  BY DEF NameAppeared, NameVanished, InitFinished, CallFinished, StartFinished, FlagsChanged
<1>2. /\ Inside /\ Took(1) /\ app.running /\ 1 \in 1..Len(events) /\ events[1] = Head(events)
  BY <1>1, ReceivedIs
<1>3. events \in Seq(Telling) /\ events # <<>> /\ events' = Tail(events) /\ touched' = touched
  BY <1>1 DEF TInv, Receive
<1>4. PICK l \in Nat : l = Len(events)
  BY <1>3
<1>5. Len(events') = l - 1
  BY <1>3, <1>4
<1>6. QED
  BY <1>2, <1>3, <1>4, <1>5 DEF Apart

LEMMA KindsExtended ==
  ASSUME TInv, Kinds, Extends,
         \A i \in Len(requests) + 1..Len(requests') :
           /\ requests'[i].call.method \in Setters => IsCall(requests'[i].call.key)
           /\ IsInit(requests'[i].call.key) <=> requests'[i].call.method = "GetAll"
           /\ IsInit(requests'[i].call.key) => requests'[i].to = requests'[i].call.key[2]
  PROVE  Kinds'
<1>1. PICK l, m \in Nat : l = Len(requests) /\ m = Len(requests')
  BY Lengths DEF Extends
<1>2. \A i \in 1..m : i \in 1..l \/ i \in l + 1..m
  BY <1>1
<1>3. \A i \in 1..l : requests'[i] = requests[i]
  BY <1>1 DEF Extends
<1>4. QED
  BY <1>1, <1>2, <1>3 DEF Kinds

LEMMA KindsSame ==
  ASSUME Kinds, requests' = requests
  PROVE  Kinds'
BY DEF Kinds

LEMMA KindsOpened ==
  ASSUME TInv, Kinds, Extends, NEW life, Opens("open", life)
  PROVE  Kinds'
<1>1. "LogOpen" \notin Setters
  BY DEF Setters, Enablers, Disablers
<1>2. QED
  BY <1>1, KindsExtended DEF Opens, IsOf, MethodOf, IsInit

LEMMA KindsTurned ==
  ASSUME TInv, Known, Kinds, NEW a, NEW x, NEW k, Turns(a, x, k)
  PROVE  /\ Kinds' /\ Extends
         /\ \A i \in Len(requests) + 1..Len(requests') : ~IsInit(requests'[i].call.key)
<1>1. /\ a \in App /\ x \in Client /\ client' = x /\ x.proxy <= server.life
      /\ EndsNow(a, x, {}) \/ \E m \in 1..Len(a.actions) : GoesOn(a, x, {}, m)
  BY DEF Turns
<1>2. CASE EndsNow(a, x, {})
  <2>1. Opens("open", x.proxy) /\ x.proxy \in Nat
    BY <1>1, <1>2 DEF EndsNow, Client
  <2>2. Extends
    BY <1>1, <2>1, OpensExtends
  <2>3. QED
    BY <2>1, <2>2, KindsOpened DEF Opens, IsOf, IsInit
<1>3. ASSUME NEW m \in 1..Len(a.actions), GoesOn(a, x, {}, m)
      PROVE  /\ Kinds' /\ Extends
             /\ \A i \in Len(requests) + 1..Len(requests') : ~IsInit(requests'[i].call.key)
  <2>1. Extends /\ a.actions[m] \in Action
    BY <1>1, <1>3, GoExtends
  <2>2. PICK sent \in Seq(Asking) : /\ sent = CallsOf(a.actions[m], x)
                                    /\ CallsAre(a.actions[m], sent) /\ Sends(sent, x.proxy)
    BY <1>3 DEF GoesOn
  <2>3. \A i \in 1..Len(sent) : sent[i].method # "GetAll" /\ IsCall(sent[i].key)
    BY <2>1, <2>2, ActionAsks DEF CallsAre
  <2>4. PICK l, h \in Nat : l = Len(requests) /\ h = Len(sent)
    BY <2>2, Lengths
  <2>5. Len(requests') = l + h /\ \A i \in 1..h : requests'[l + i].call = sent[i]
    BY <2>2, <2>4 DEF Sends
  <2>6. ASSUME NEW i \in l + 1..l + h
        PROVE  requests'[i].call.method # "GetAll" /\ IsCall(requests'[i].call.key)
    <3>1. i - l \in 1..h /\ l + (i - l) = i
      BY <2>4
    <3>2. QED
      BY <2>3, <2>4, <2>5, <3>1
  <2>7. \A i \in Len(requests) + 1..Len(requests') : ~IsInit(requests'[i].call.key)
    BY <2>4, <2>5, <2>6 DEF IsInit, IsCall
  <2>8. Kinds'
    BY <2>1, <2>4, <2>5, <2>6, <2>7, KindsExtended
  <2>9. QED
    BY <2>1, <2>7, <2>8
<1>4. QED
  BY <1>1, <1>2, <1>3

LEMMA GreetsTaken ==
  ASSUME TInv, NEW k, Apart(k), Extends, Greets, client'.init = client.init,
         \A i \in Len(requests) + 1..Len(requests') : ~IsInit(requests'[i].call.key)
  PROVE  Greets'
<1>1. /\ server' = server
      /\ \A life : Current(life)' <=> Current(life)
      /\ \A i \in 1..Len(events') : i + k \in 1..Len(events) /\ (Welcome(i)' <=> Welcome(i + k))
  BY ApartIs
<1>2. ASSUME NEW i \in 1..Len(requests'), Hello(i)'
      PROVE  i \in 1..Len(requests) /\ Hello(i)
  <2>1. i \in 1..Len(requests) \/ i \in Len(requests) + 1..Len(requests')
    BY Lengths DEF Extends
  <2>2. i \in 1..Len(requests)
    BY <1>2, <2>1 DEF Hello
  <2>3. requests'[i] = requests[i]
    BY <2>2 DEF Extends
  <2>4. QED
    BY <1>1, <1>2, <2>2, <2>3 DEF Hello
<1>3. /\ \A i \in 1..Len(requests) : Hello(i) => client.init[2] = server.life
      /\ \A i \in 1..Len(events) : Welcome(i) => client.init[2] = server.life
      /\ \A i, j \in 1..Len(requests) : Hello(i) /\ Hello(j) => i = j
      /\ \A i, j \in 1..Len(events) : Welcome(i) /\ Welcome(j) => i = j
      /\ \A i \in 1..Len(requests), j \in 1..Len(events) : ~(Hello(i) /\ Welcome(j))
  BY DEF Greets
<1>4. (\A i \in 1..Len(requests) : Hello(i) => client.init[2] = server.life)'
  BY <1>1, <1>2, <1>3
<1>5. (\A i \in 1..Len(events) : Welcome(i) => client.init[2] = server.life)'
  BY <1>1, <1>3
<1>6. (\A i, j \in 1..Len(requests) : Hello(i) /\ Hello(j) => i = j)'
  BY <1>2, <1>3
<1>7. ASSUME NEW i \in 1..Len(events'), NEW j \in 1..Len(events'), Welcome(i)', Welcome(j)'
      PROVE  i = j
  <2>1. i + k = j + k
    BY <1>1, <1>3, <1>7
  <2>2. i \in Int /\ j \in Int /\ k \in Int
    BY DEF Apart
  <2>3. QED
    BY <2>1, <2>2
<1>8. (\A i \in 1..Len(requests), j \in 1..Len(events) : ~(Hello(i) /\ Welcome(j)))'
  BY <1>1, <1>2, <1>3
<1>9. QED
  BY <1>4, <1>5, <1>6, <1>7, <1>8 DEF Greets

LEMMA Unwelcome ==
  ASSUME Greets, ~Current(client.init[2])
  PROVE  /\ \A i \in 1..Len(requests) : ~Hello(i)
         /\ \A i \in 1..Len(events) : ~Welcome(i)
BY DEF Greets, Hello, Welcome, Current

LEMMA NoGreets ==
  ASSUME TInv, Apart(1), Extends,
         \A i \in Len(requests) + 1..Len(requests') : ~IsInit(requests'[i].call.key),
         \A i \in 1..Len(requests) : ~Hello(i),
         \A i \in 1..Len(events) : Welcome(i) => i = 1
  PROVE  Greets'
<1>1. /\ \A life : Current(life)' <=> Current(life)
      /\ \A i \in 1..Len(events') : i + 1 \in 1..Len(events) /\ (Welcome(i)' <=> Welcome(i + 1))
  BY ApartIs
<1>2. ASSUME NEW i \in 1..Len(requests') PROVE ~Hello(i)'
  <2>1. i \in 1..Len(requests) \/ i \in Len(requests) + 1..Len(requests')
    BY Lengths DEF Extends
  <2>2. CASE i \in 1..Len(requests)
    <3>1. requests'[i] = requests[i]
      BY <2>2 DEF Extends
    <3>2. QED
      BY <1>1, <2>2, <3>1 DEF Hello
  <2>3. QED
    BY <2>1, <2>2 DEF Hello
<1>3. \A i \in 1..Len(events') : ~Welcome(i)'
  <2>1. \A i \in 1..Len(events') : i + 1 # 1
    OBVIOUS
  <2>2. QED
    BY <1>1, <2>1
<1>4. QED
  BY <1>2, <1>3 DEF Greets

(* While the news that a server has come or gone is on its way, the client   *)
(* is not that of the server which now runs.                                 *)
LEMMA Unsettled ==
  ASSUME Settling, NEW i \in 1..Len(events), ComesOrGoes(i)
  PROVE  ~Current(client.proxy) /\ ~Current(client.init[2])
BY DEF Settling, Settled

-----------------------------------------------------------------------------
(* Every step keeps track of the categories                                  *)

(* A step of the tool in which it makes no call of an action, and its client *)
(* turns away from no server.                                                *)
LEMMA StaysTracks ==
  ASSUME CInv, NEW k, Stays(k), Kinds', Greets',
         \A n \in Names : Aware(n)',
         app'.ret = "OK" /\ (Current(client.proxy) \/ Current(client.init[2])) =>
           client'.proxy = server.life \/ client'.init[2] = server.life
  PROVE  Tracks'
<1>1. TInv /\ Quiet /\ \A n \in Names : Tracked(n)
  BY DEF CInv, Tracks, SInv, RInv
<1>2. Apart(k) /\ (app'.ret = "OK" => app.ret = "OK")
  BY DEF Stays
<1>3. Quiet'
  BY <1>1, StaysKeeps
<1>4. ASSUME NEW n \in Names PROVE Tracked(n)'
  <2>1. Unmet(n) /\ Shown(n) /\ Own(n) /\ Resetting(n)
    BY <1>1 DEF Tracked
  <2>2. Shown(n)' /\ Own(n)' /\ Resetting(n)'
    BY <1>1, <2>1, StaysKeeps
  <2>3. CASE app'.ret = "OK"
    <3>1. Unmet(n)'
      BY <1>1, <1>2, <2>1, <2>3, UnmetKept
    <3>2. QED
      BY <2>2, <3>1 DEF Tracked
  <2>4. CASE app'.ret # "OK"
    <3>1. Unmet(n)'
      BY <2>4 DEF Unmet
    <3>2. QED
      BY <2>2, <3>1 DEF Tracked
  <2>5. QED
    BY <2>3, <2>4
<1>5. QED
  BY <1>3, <1>4 DEF Tracks

LEMMA AppearedTracks ==
  ASSUME CInv, NameAppeared
  PROVE  Tracks'
<1>1. SInv /\ TInv /\ Known /\ Settling /\ Kinds /\ Greets /\ \A n \in Names : Tracked(n)
  BY DEF CInv, Tracks, SInv, RInv
<1>2. PICK life : life = events[1].value
  OBVIOUS
<1>3. /\ events[1].type = "Appeared" /\ UNCHANGED <<app, pending>>
      /\ client'.proxy = client.proxy /\ client'.enabled = client.enabled
      /\ client'.init = <<"init", life>>
      /\ \E q \in Asking : q.key = <<"init", life>> /\ q.method = "GetAll" /\ Sends(<<q>>, life)
  BY <1>1, <1>2, AppearedStep
<1>4. Apart(1) /\ Len(events') + 1 = Len(events) /\ 1 \in 1..Len(events)
  BY <1>1, DispatchIs
<1>5. life \in Nat
  BY <1>1, <1>2, <1>4, ElementsAre
<1>6. PICK key : key = <<"init", life>> /\ key[1] = "init" /\ key[2] = life
  <2>1. PICK key : key = <<"init", life>>
    OBVIOUS
  <2>2. key[1] = "init" /\ key[2] = life
    BY <1>5, <2>1, KeysAre
  <2>3. QED
    BY <2>1, <2>2
<1>7. PICK q \in Asking : q.key = key /\ q.method = "GetAll" /\ Sends(<<q>>, life)
  BY <1>3, <1>6
<1>8. PICK l \in Nat : l = Len(requests)
  BY <1>1, Lengths
<1>9. /\ Len(requests') = l + 1 /\ \A i \in 1..l : requests'[i] = requests[i]
      /\ requests'[l + 1].to = life /\ requests'[l + 1].call = q
  <2>1. PICK sent : sent = <<q>>
    OBVIOUS
  <2>2. Len(sent) = 1 /\ sent[1] = q /\ 1 \in 1..Len(sent)
    BY <2>1
  <2>3. Sends(sent, life)
    BY <1>7, <2>1
  <2>4. QED
    BY <1>8, <2>2, <2>3 DEF Sends
<1>10. \A i \in l + 1..Len(requests') : i = l + 1
  BY <1>8, <1>9
<1>11. Extends
  BY <1>1, AppearedSteps DEF Steps
<1>12. ~Current(client.proxy) /\ ~Current(client.init[2])
  BY <1>1, <1>3, <1>4, Unsettled DEF ComesOrGoes
<1>13. Kinds'
  <2>1. "GetAll" \notin Setters
    BY DEF Setters, Enablers, Disablers
  <2>2. QED
    BY <1>1, <1>6, <1>7, <1>8, <1>9, <1>10, <1>11, <2>1, KindsExtended DEF IsInit
<1>14. \A life2 : Current(life2)' <=> Current(life2)
  BY <1>1, <1>4, ApartIs
<1>15. Greets'
  <2>1. /\ \A i \in 1..Len(requests) : ~Hello(i)
        /\ \A i \in 1..Len(events) : ~Welcome(i)
    BY <1>1, <1>12, Unwelcome
  <2>2. ASSUME NEW i \in 1..Len(events') PROVE ~Welcome(i)'
    BY <1>1, <1>4, <2>1, ApartIs
  <2>3. ASSUME NEW i \in 1..Len(requests'), Hello(i)' PROVE i = l + 1
    <3>1. i \in 1..l \/ i = l + 1
      BY <1>8, <1>9
    <3>2. ASSUME i \in 1..l PROVE FALSE
      <4>1. requests'[i] = requests[i]
        BY <1>9, <3>2
      <4>2. QED
        BY <1>8, <1>14, <2>1, <2>3, <3>2, <4>1 DEF Hello
    <3>3. QED
      BY <3>1, <3>2
  <2>4. ASSUME NEW i \in 1..Len(requests'), Hello(i)' PROVE client'.init[2] = server'.life
    <3>1. requests'[i].call.key[2] = life
      BY <1>6, <1>7, <1>9, <2>3, <2>4
    <3>2. QED
      BY <1>3, <1>6, <2>4, <3>1 DEF Hello, Current
  <2>5. QED
    BY <2>2, <2>3, <2>4 DEF Greets
<1>16. Stays(1)
  <2>1. NoCalls
    BY <1>6, <1>7, <1>8, <1>9, <1>10 DEF NoCalls, IsCall
  <2>2. QED
    BY <1>3, <1>4, <1>11, <2>1 DEF Stays
<1>17. \A n \in Names : Aware(n)'
  <2>1. \A n \in Names : \A i \in 1..1 : ~Tells(i, n)
    BY <1>3 DEF Tells
  <2>2. QED
    BY <1>1, <1>3, <1>4, <2>1, AwareTaken DEF Tracked
<1>18. QED
  BY <1>12, <1>13, <1>15, <1>16, <1>17, StaysTracks

LEMMA VanishedTracks ==
  ASSUME CInv, NameVanished
  PROVE  Tracks'
<1>1. TInv /\ Known /\ Settling /\ Kinds /\ Greets
  BY DEF CInv, Tracks, SInv, RInv
<1>2. /\ events[1].type = "Vanished" /\ UNCHANGED <<app, pending, requests>>
      /\ client'.proxy = Down
  BY <1>1, VanishedStep
<1>3. Apart(1) /\ 1 \in 1..Len(events)
  BY <1>1, DispatchIs
<1>4. Extends /\ NoCalls
  BY <1>1, <1>2, SameRequests
<1>5. ~Current(client.proxy) /\ ~Current(client.init[2])
  BY <1>1, <1>2, <1>3, Unsettled DEF ComesOrGoes
<1>6. Kinds'
  BY <1>1, <1>2, KindsSame
<1>7. Greets'
  <2>1. /\ \A i \in 1..Len(requests) : ~Hello(i)
        /\ \A i \in 1..Len(events) : ~Welcome(i)
    BY <1>1, <1>5, Unwelcome
  <2>2. \A i \in Len(requests) + 1..Len(requests') : ~IsInit(requests'[i].call.key)
    BY <1>1, <1>2, Lengths
  <2>3. QED
    BY <1>1, <1>3, <1>4, <2>1, <2>2, NoGreets
<1>8. Stays(1)
  BY <1>2, <1>3, <1>4 DEF Stays
<1>9. \A n \in Names : Aware(n)'
  <2>1. ~Current(client.proxy)'
    <3>1. server' = server
      BY <1>1, <1>3, ApartIs
    <3>2. QED
      BY <1>1, <1>2, <3>1 DEF Current, Known
  <2>2. QED
    BY <2>1 DEF Aware
<1>10. QED
  BY <1>5, <1>6, <1>7, <1>8, <1>9, StaysTracks

LEMMA TurnsKeeps ==
  ASSUME TInv, Known, Numbers, NEW a, NEW x, NEW k, Turns(a, x, k)
  PROVE  Quiet' /\ \A n : Own(n) => Own(n)'
<1>1. /\ Apart(k) /\ a \in App /\ a.actions = app.actions /\ app'.ret = app.ret
      /\ x \in Client /\ client' = x /\ x.proxy <= server.life
      /\ \A i \in 1..Len(requests) : ~Live(i)
      /\ EndsNow(a, x, {}) \/ \E m \in 1..Len(a.actions) : GoesOn(a, x, {}, m)
  BY DEF Turns
<1>2. CASE EndsNow(a, x, {})
  <2>1. Opens("open", x.proxy) /\ x.proxy \in Nat /\ pending' = {}
    BY <1>1, <1>2 DEF EndsNow, Client
  <2>2. Extends /\ NoCalls
    BY <1>1, <2>1, OpensExtends
  <2>3. \A j \in 1..Len(events') : ~Granted(j)'
    BY <2>1 DEF Granted
  <2>4. \A n : Own(n) => Own(n)'
    BY <1>1, <2>3, OwnTaken
  <2>5. \A life : Current(life)' <=> Current(life)
    BY <1>1, ApartIs
  <2>6. ASSUME NEW i \in 1..Len(requests') PROVE ~Live(i)'
    <3>1. i \in 1..Len(requests) \/ i \in Len(requests) + 1..Len(requests')
      BY <2>2, Lengths DEF Extends
    <3>2. CASE i \in 1..Len(requests)
      <4>1. requests'[i] = requests[i]
        BY <2>2, <3>2 DEF Extends
      <4>2. QED
        BY <1>1, <2>5, <3>2, <4>1 DEF Live
    <3>3. CASE i \in Len(requests) + 1..Len(requests')
      BY <2>2, <3>3 DEF NoCalls, Live
    <3>4. QED
      BY <3>1, <3>2, <3>3
  <2>7. Quiet'
    BY <2>6 DEF Quiet
  <2>8. QED
    BY <2>4, <2>7
<1>3. ASSUME NEW m \in 1..Len(a.actions), GoesOn(a, x, {}, m)
      PROVE  Quiet' /\ \A n : Own(n) => Own(n)'
  <2>1. a.actions[m] \in Action /\ a.actions[m].type # "list" /\ a.actions[m].pos \in Nat
    BY <1>1, <1>3, GoExtends
  <2>2. PICK pos \in Nat : pos = a.actions[m].pos
    BY <2>1
  <2>3. PICK key : key = <<"action", pos>>
    OBVIOUS
  <2>4. IsCall(key) /\ key[2] = pos /\ key # None
    BY <2>2, <2>3, KeysAre DEF IsCall
  <2>5. app'.call = key /\ pending' = {key}
    BY <1>3, <2>2, <2>3 DEF GoesOn
  <2>6. Before(pos)
    BY <1>1, <1>3, <2>1, <2>2 DEF Numbers, Due
  <2>7. ASSUME NEW j \in 1..Len(events'), Granted(j)' PROVE FALSE
    <3>1. j + k \in 1..Len(events) /\ events'[j] = events[j + k]
      BY <1>1, ApartIs
    <3>2. events[j + k].type = "Reply" /\ events[j + k].key = key
      BY <2>5, <2>7, <3>1 DEF Granted
    <3>3. key[2] < pos
      BY <2>4, <2>6, <3>1, <3>2 DEF Before
    <3>4. QED
      BY <2>4, <3>3
  <2>8. \A n : Own(n) => Own(n)'
    BY <1>1, <2>7, OwnTaken
  <2>9. Quiet'
    BY <2>4, <2>5 DEF Quiet
  <2>10. QED
    BY <2>8, <2>9
<1>4. QED
  BY <1>1, <1>2, <1>3

(* A step of the tool in which it comes to its next action.                  *)
LEMMA TurnsTracks ==
  ASSUME CInv, NEW a, NEW x, NEW k, Turns(a, x, k), Greets',
         \A n \in Names : Aware(n)',
         \A n \in Names : app.ret = "OK" => Synced(x, n),
         Current(client.proxy) \/ Current(client.init[2]) =>
           client'.proxy = server.life \/ client'.init[2] = server.life
  PROVE  Tracks'
<1>1. TInv /\ Known /\ Numbers /\ Kinds /\ Quiet /\ \A n \in Names : Tracked(n)
  BY DEF CInv, Tracks, SInv, RInv
<1>2. Apart(k) /\ app'.ret = app.ret
  BY DEF Turns
<1>3. Kinds'
  BY <1>1, KindsTurned
<1>4. Quiet' /\ \A n : Own(n) => Own(n)'
  BY <1>1, TurnsKeeps
<1>5. ASSUME NEW n \in Names PROVE Tracked(n)'
  <2>1. Unmet(n) /\ Shown(n) /\ Own(n) /\ Resetting(n)
    BY <1>1 DEF Tracked
  <2>2. Own(n)'
    BY <1>4, <2>1
  <2>3. Resetting(n)'
    BY <1>1, <2>1, TurnsResetting
  <2>4. Shown(n)'
    BY <1>1, <1>2, <2>1, ShownTaken
  <2>5. Unmet(n)'
    BY <1>1, <1>2, <2>1, UnmetKept
  <2>6. QED
    BY <2>2, <2>3, <2>4, <2>5 DEF Tracked
<1>6. QED
  BY <1>3, <1>4, <1>5 DEF Tracks

LEMMA InitTracks ==
  ASSUME CInv, InitFinished
  PROVE  Tracks'
<1>1. /\ SInv /\ TInv /\ Known /\ Waiting /\ Settling
      /\ Kinds /\ Greets /\ \A n \in Names : Tracked(n)
  BY DEF CInv, Tracks, SInv, RInv
<1>2. PICK e : e = events[1]
  OBVIOUS
<1>3. /\ e.type = "Reply" /\ e.key[1] = "init"
      /\ \/ e.key # client.init /\ UNCHANGED <<app, client, pending, requests>>
         \/ \E x \in Client : Initialized(e, x)
         \/ InitFailed(e)
  BY <1>1, <1>2, InitStep
<1>4. /\ Apart(1) /\ Len(events') + 1 = Len(events) /\ 1 \in 1..Len(events)
      /\ app.running
  BY <1>1, DispatchIs
<1>5. Extends
  BY <1>1, InitSteps DEF Steps
<1>6. \A n : \A i \in 1..1 : ~Tells(i, n)
  BY <1>2, <1>3 DEF Tells
<1>7. ASSUME e.key = client.init
      PROVE  /\ \A i \in 1..Len(requests) : ~Hello(i)
             /\ \A i \in 1..Len(events) : Welcome(i) => i = 1
  <2>1. CASE Current(client.init[2])
    <3>1. Welcome(1)
      BY <1>2, <1>3, <1>7, <2>1 DEF Welcome, IsInit
    <3>2. QED
      BY <1>1, <1>4, <3>1 DEF Greets
  <2>2. CASE ~Current(client.init[2])
    BY <1>1, <2>2, Unwelcome
  <2>3. QED
    BY <2>1, <2>2
<1>8. CASE UNCHANGED <<app, client, pending, requests>>
  <2>1. NoCalls
    BY <1>1, <1>8, SameRequests
  <2>2. Stays(1)
    BY <1>4, <1>5, <1>8, <2>1 DEF Stays
  <2>3. \A i \in Len(requests) + 1..Len(requests') : ~IsInit(requests'[i].call.key)
    BY <1>1, <1>8, Lengths
  <2>4. Kinds' /\ Greets'
    BY <1>1, <1>4, <1>5, <1>8, <2>3, KindsSame, GreetsTaken
  <2>5. \A n \in Names : Aware(n)'
    BY <1>1, <1>4, <1>6, <1>8, AwareTaken DEF Tracked
  <2>6. QED
    BY <1>8, <2>2, <2>4, <2>5, StaysTracks DEF Current
<1>9. CASE InitFailed(e)
  <2>1. /\ app' = Fail(app, "ERR") /\ client'.proxy = client.proxy
        /\ client'.enabled = client.enabled /\ pending' = pending /\ requests' = requests
        /\ e.key = client.init
    BY <1>9 DEF InitFailed
  <2>2. app'.ret = "ERR" /\ app'.actions = app.actions
    BY <1>1, <2>1, FailTyped DEF TInv
  <2>3. NoCalls
    BY <1>1, <2>1, SameRequests
  <2>4. Stays(1)
    BY <1>4, <1>5, <2>1, <2>2, <2>3 DEF Stays
  <2>5. \A i \in Len(requests) + 1..Len(requests') : ~IsInit(requests'[i].call.key)
    BY <1>1, <2>1, Lengths
  <2>6. Kinds' /\ Greets'
    BY <1>1, <1>4, <1>5, <1>7, <2>1, <2>5, KindsSame, NoGreets
  <2>7. \A n \in Names : Aware(n)'
    BY <1>1, <1>4, <1>6, <2>1, AwareTaken DEF Tracked
  <2>8. QED
    BY <2>2, <2>4, <2>6, <2>7, StaysTracks
<1>10. ASSUME NEW x \in Client, Initialized(e, x)
       PROVE  Tracks'
  <2>1. /\ e.answer = "OK" /\ e.key = client.init /\ x.proxy = e.key[2]
        /\ x.enabled = e.names /\ Become(NextAction(app, x), pending)
    BY <1>10 DEF Initialized
  <2>2. app \in App /\ pending \in SUBSET Keys
    BY <1>1 DEF TInv
  <2>3. /\ client' = x /\ app'.ret = app.ret /\ app'.running = app.running
        /\ app.call # None => app' = app /\ pending' = pending /\ requests' = requests
        /\ app.call = None => \/ EndsNow(app, x, pending)
                              \/ \E i \in 1..Len(app.actions) : GoesOn(app, x, pending, i)
    BY <1>1, <2>1, <2>2, AdvanceIs
  <2>4. client.init # None /\ x.proxy = client.init[2] /\ x.proxy <= server.life
    <3>1. None[1] = "none"
      BY DEF None
    <3>2. QED
      BY <1>1, <1>3, <2>1, <3>1 DEF Known
  <2>5. ~Current(client.proxy)
    BY <1>1, <2>4 DEF Settling
  <2>6. \A i \in 1..Len(requests) : ~Live(i)
    BY <1>1, <2>5 DEF Settling, Live, Current
  <2>7. ASSUME NEW n \in Names, n \notin touched, Current(x.proxy)
        PROVE  /\ n \in x.enabled <=> On(n)
               /\ \A j \in 1..Len(events) : 1 < j => ~Tells(j, n)
    <3>1. Welcome(1)
      BY <1>2, <1>3, <2>1, <2>7 DEF Welcome, IsInit
    <3>2. Shown(n)
      BY <1>1 DEF Tracked
    <3>3. QED
      BY <1>2, <1>4, <2>1, <2>7, <3>1, <3>2 DEF Shown
  <2>8. ASSUME NEW n \in Names, app.ret = "OK" PROVE Synced(x, n)
    <3>1. Unmet(n)
      BY <1>1 DEF Tracked
    <3>2. QED
      BY <2>4, <2>5, <2>7, <2>8, <3>1 DEF Synced, Unmet, Current
  <2>9. ASSUME NEW n \in Names PROVE Aware(n)'
    <3>1. /\ touched' = touched /\ (On(n)' <=> On(n)) /\ (Current(x.proxy)' <=> Current(x.proxy))
          /\ \A i \in 1..Len(events') :
               i + 1 \in 1..Len(events) /\ (Tells(i, n)' <=> Tells(i + 1, n))
      BY <1>1, <1>4, ApartIs
    <3>2. ASSUME n \notin touched, Current(x.proxy), NEW i \in 1..Len(events')
          PROVE  ~Tells(i, n)'
      <4>1. 1 < i + 1
        OBVIOUS
      <4>2. QED
        BY <2>7, <3>1, <3>2, <4>1
    <3>3. SUFFICES ASSUME n \notin touched, Current(x.proxy)
                   PROVE  /\ n \in x.enabled <=> On(n)
                          /\ \A i \in 1..Len(events') : ~Tells(i, n)'
      BY <2>3, <3>1 DEF Aware, LastTells, Current
    <3>4. QED
      BY <2>7, <3>2, <3>3
  <2>10. Current(client.proxy) \/ Current(client.init[2]) => client'.proxy = server.life
    BY <2>3, <2>4, <2>5 DEF Current
  <2>11. CASE app.call # None
    <3>1. app' = app /\ pending' = pending /\ requests' = requests
      BY <2>3, <2>11
    <3>2. NoCalls
      BY <1>1, <3>1, SameRequests
    <3>3. Stays(1)
      BY <1>4, <1>5, <3>1, <3>2 DEF Stays
    <3>4. \A i \in Len(requests) + 1..Len(requests') : ~IsInit(requests'[i].call.key)
      BY <1>1, <3>1, Lengths
    <3>5. Kinds' /\ Greets'
      BY <1>1, <1>4, <1>5, <1>7, <2>1, <3>1, <3>4, KindsSame, NoGreets
    <3>6. QED
      BY <2>9, <2>10, <3>3, <3>5, StaysTracks
  <2>12. CASE app.call = None
    <3>1. pending = {}
      BY <1>1, <2>12 DEF Waiting
    <3>2. Turns(app, x, 1)
      BY <1>4, <2>2, <2>3, <2>4, <2>6, <2>12, <3>1 DEF Turns
    <3>3. \A i \in Len(requests) + 1..Len(requests') : ~IsInit(requests'[i].call.key)
      BY <1>1, <3>2, KindsTurned
    <3>4. Greets'
      BY <1>1, <1>4, <1>5, <1>7, <2>1, <3>3, NoGreets
    <3>5. QED
      BY <2>8, <2>9, <2>10, <3>2, <3>4, TurnsTracks
  <2>13. QED
    BY <2>11, <2>12
<1>11. QED
  BY <1>3, <1>8, <1>9, <1>10

LEMMA CallTracks ==
  ASSUME CInv, CallFinished
  PROVE  Tracks'
<1>1. /\ SInv /\ TInv /\ Known /\ Waiting /\ OneByOne /\ OneLife /\ Settling
      /\ Kinds /\ Greets /\ \A n \in Names : Tracked(n)
  BY DEF CInv, Tracks, SInv, RInv
<1>2. PICK e : e = events[1]
  OBVIOUS
<1>3. /\ e.type = "Reply"
      /\ \/ UNCHANGED <<app, client, pending, requests>>
         \/ \E a \in App : CallDoneWell(e, a)
         \/ CallFailed(e)
  BY <1>1, <1>2, CallStep
<1>4. /\ Apart(1) /\ Len(events') + 1 = Len(events) /\ 1 \in 1..Len(events)
      /\ app.running
  BY <1>1, DispatchIs
<1>5. Extends
  BY <1>1, CallSteps DEF Steps
<1>6. \A n : \A i \in 1..1 : ~Tells(i, n)
  BY <1>2, <1>3 DEF Tells
<1>7. ASSUME client' = client PROVE \A n \in Names : Aware(n)'
  BY <1>1, <1>4, <1>6, <1>7, AwareTaken DEF Tracked
<1>8. CASE UNCHANGED <<app, client, pending, requests>> \/ CallFailed(e)
  <2>1. client' = client /\ requests' = requests /\ pending' \subseteq pending
    BY <1>8 DEF CallFailed
  <2>2. /\ app'.actions = app.actions
        /\ app'.ret = "OK" => app.ret = "OK" /\ app'.call = app.call
    BY <1>8 DEF CallFailed
  <2>3. NoCalls
    BY <1>1, <2>1, SameRequests
  <2>4. Stays(1)
    BY <1>4, <1>5, <2>1, <2>2, <2>3 DEF Stays
  <2>5. \A i \in Len(requests) + 1..Len(requests') : ~IsInit(requests'[i].call.key)
    BY <1>1, <2>1, Lengths
  <2>6. Kinds' /\ Greets'
    BY <1>1, <1>4, <1>5, <2>1, <2>5, KindsSame, GreetsTaken
  <2>7. QED
    BY <1>7, <2>1, <2>4, <2>6, StaysTracks DEF Current
<1>9. ASSUME NEW a \in App, CallDoneWell(e, a)
      PROVE  Tracks'
  <2>1. /\ e.answer = "OK" /\ e.key \in pending /\ a.call = None /\ a.actions = app.actions
        /\ a.ret = app.ret /\ Become(NextAction(a, client), pending \ {e.key})
    BY <1>9 DEF CallDoneWell
  <2>2. pending \ {e.key} = {}
    BY <1>1, <2>1 DEF Waiting
  <2>3. client \in Client /\ {} \in SUBSET Keys
    BY <1>1 DEF TInv
  <2>4. /\ client' = client /\ app'.ret = app.ret
        /\ EndsNow(a, client, {}) \/ \E i \in 1..Len(a.actions) : GoesOn(a, client, {}, i)
    BY <1>1, <2>1, <2>2, <2>3, AdvanceIs
  <2>5. Granted(1)
    BY <1>2, <1>3, <2>1 DEF Granted
  <2>6. \A i \in 1..Len(requests) : ~Live(i)
    BY <1>1, <1>4, <2>5 DEF OneByOne, NothingLive
  <2>7. client.proxy <= server.life
    BY <1>1 DEF Known
  <2>8. Turns(a, client, 1)
    BY <1>4, <2>1, <2>3, <2>4, <2>6, <2>7 DEF Turns
  <2>9. ASSUME NEW n \in Names, app.ret = "OK" PROVE Synced(client, n)
    <3>1. Unmet(n) /\ Own(n) /\ Aware(n)
      BY <1>1 DEF Tracked
    <3>2. SUFFICES ASSUME server.up, n \notin touched
                   PROVE  IF client.proxy = server.life THEN n \in client.enabled <=> On(n)
                          ELSE On(n) <=> n \in Defaults
      BY DEF Synced
    <3>3. CASE client.proxy = server.life
      <4>1. Current(client.proxy)
        BY <3>2, <3>3 DEF Current
      <4>2. \A i \in 1..Len(events) : ~Tells(i, n)
        <5>1. ASSUME NEW i \in 1..Len(events), Tells(i, n) PROVE FALSE
          <6>1. i < 1
            BY <1>4, <2>5, <2>9, <3>1, <3>2, <5>1 DEF Own
          <6>2. QED
            BY <6>1
        <5>2. QED
          BY <5>1
      <4>3. QED
        BY <1>4, <3>1, <3>2, <3>3, <4>1, <4>2 DEF Aware
    <3>4. CASE client.proxy # server.life
      <4>1. client.init = None
        BY <1>1, <1>4, <2>5, <2>9 DEF OneLife
      <4>2. client.init[2] # server.life
        BY <1>1, <3>2, <4>1 DEF Known, None, Down
      <4>3. QED
        BY <2>9, <3>1, <3>2, <3>4, <4>2 DEF Unmet
    <3>5. QED
      BY <3>3, <3>4
  <2>10. \A i \in Len(requests) + 1..Len(requests') : ~IsInit(requests'[i].call.key)
    BY <1>1, <2>8, KindsTurned
  <2>11. Greets'
    BY <1>1, <1>4, <1>5, <2>4, <2>10, GreetsTaken
  <2>12. QED
    BY <1>7, <2>4, <2>8, <2>9, <2>11, TurnsTracks DEF Current
<1>10. QED
  BY <1>3, <1>8, <1>9

(* A step of the tool in which it asks for nothing, and its client stays     *)
(* where it is.                                                              *)
LEMMA SameTracks ==
  ASSUME CInv, NEW k, Apart(k), requests' = requests, pending' \subseteq pending,
         app'.actions = app.actions,
         app'.ret = "OK" => app.ret = "OK" /\ app'.call = app.call,
         client'.proxy = client.proxy, client'.init = client.init,
         \A n \in Names : Aware(n)'
  PROVE  Tracks'
<1>1. TInv /\ Kinds /\ Greets
  BY DEF CInv, Tracks, SInv, RInv
<1>2. Extends /\ NoCalls
  BY <1>1, SameRequests
<1>3. Stays(k)
  BY <1>2 DEF Stays
<1>4. \A i \in Len(requests) + 1..Len(requests') : ~IsInit(requests'[i].call.key)
  BY <1>1, Lengths
<1>5. Kinds' /\ Greets'
  BY <1>1, <1>2, <1>4, KindsSame, GreetsTaken
<1>6. QED
  BY <1>3, <1>5, StaysTracks DEF Current

LEMMA StartTracks ==
  ASSUME CInv, StartFinished
  PROVE  Tracks'
<1>1. TInv /\ \A n \in Names : Tracked(n)
  BY DEF CInv, Tracks, SInv, RInv
<1>2. /\ UNCHANGED <<app, pending, requests>>
      /\ client'.proxy = client.proxy /\ client'.init = client.init
  BY <1>1, HeardStep
<1>3. /\ Apart(1) /\ Len(events') + 1 = Len(events) /\ 1 \in 1..Len(events)
      /\ events[1] = Head(events)
  BY <1>1, DispatchIs
<1>4. client'.enabled = client.enabled
  <2>1. client \in Client
    BY <1>1 DEF TInv
  <2>2. PICK b : b = (client.started \/ Head(events).answer = "OK")
    OBVIOUS
  <2>3. client' = [client EXCEPT !.started = b]
    BY <2>2 DEF StartFinished
  <2>4. QED
    BY <2>1, <2>3 DEF Client
<1>5. \A n : \A i \in 1..1 : ~Tells(i, n)
  <2>1. events[1].type = "Reply"
    BY <1>3 DEF StartFinished, Receive
  <2>2. QED
    BY <2>1 DEF Tells
<1>6. \A n \in Names : Aware(n)'
  BY <1>1, <1>2, <1>3, <1>4, <1>5, AwareTaken DEF Tracked
<1>7. QED
  BY <1>2, <1>3, <1>6, SameTracks

LEMMA FlagsTrack ==
  ASSUME CInv, FlagsChanged
  PROVE  Tracks'
<1>1. TInv /\ Known /\ \A n \in Names : Tracked(n)
  BY DEF CInv, Tracks, SInv, RInv
<1>2. /\ UNCHANGED <<app, pending, requests>>
      /\ client'.proxy = client.proxy /\ client'.init = client.init
  BY <1>1, HeardStep
<1>3. /\ Apart(1) /\ Len(events') + 1 = Len(events) /\ 1 \in 1..Len(events)
      /\ events[1] = Head(events) /\ app.running
  BY <1>1, DispatchIs
<1>4. PICK e : e = events[1]
  OBVIOUS
<1>5. e.type = "Flags"
  BY <1>3, <1>4 DEF FlagsChanged, Receive
<1>6. ASSUME client.proxy # Down
      PROVE  client'.enabled = IF e.value = 1 THEN client.enabled \cup e.names
                                              ELSE client.enabled \ e.names
  <2>1. client \in Client
    BY <1>1 DEF TInv
  <2>2. PICK names : names = IF e.value = 1 THEN client.enabled \cup e.names
                                            ELSE client.enabled \ e.names
    OBVIOUS
  <2>3. client' = [client EXCEPT !.enabled = names]
    BY <1>3, <1>4, <1>6, <2>2 DEF FlagsChanged
  <2>4. QED
    BY <2>1, <2>2, <2>3 DEF Client
<1>7. ASSUME NEW n \in Names PROVE Aware(n)'
  <2>1. /\ touched' = touched /\ (On(n)' <=> On(n))
        /\ \A life : Current(life)' <=> Current(life)
        /\ \A i \in 1..Len(events') : i + 1 \in 1..Len(events) /\ events'[i] = events[i + 1]
    BY <1>1, <1>3, ApartIs
  <2>2. SUFFICES ASSUME n \notin touched, Current(client.proxy)
                 PROVE  /\ (\A i \in 1..Len(events') : ~Tells(i, n)') =>
                             (n \in client'.enabled <=> On(n))
                        /\ \A i \in 1..Len(events') :
                             LastTells(i, n)' => (events'[i].value = 1 <=> On(n))
    BY <1>2, <2>1 DEF Aware, Current
  <2>3. /\ (\A i \in 1..Len(events) : ~Tells(i, n)) => (n \in client.enabled <=> On(n))
        /\ \A i \in 1..Len(events) : LastTells(i, n) => (events[i].value = 1 <=> On(n))
    BY <1>1, <1>3, <2>2 DEF Tracked, Aware
  <2>4. client.proxy # Down
    BY <1>1, <2>2 DEF Known, Current
  <2>5. /\ (\A i \in 1..Len(events') : ~Tells(i, n)') =>
             \A i \in 1..Len(events) : Tells(i, n) => i \in 1..1
        /\ \A i \in 1..Len(events') : LastTells(i, n)' => LastTells(i + 1, n)
    BY <1>1, <1>3, TellsTaken
  <2>6. ASSUME \A i \in 1..Len(events') : ~Tells(i, n)'
        PROVE  n \in client'.enabled <=> On(n)
    <3>1. \A i \in 1..Len(events) : Tells(i, n) => i = 1
      BY <2>5, <2>6
    <3>2. CASE Tells(1, n)
      <4>1. LastTells(1, n)
        <5>1. ASSUME NEW j \in 1..Len(events), 1 < j, Tells(j, n) PROVE FALSE
          BY <3>1, <5>1
        <5>2. QED
          BY <3>2, <5>1 DEF LastTells
      <4>2. e.value = 1 <=> On(n)
        BY <1>3, <1>4, <2>3, <4>1
      <4>3. n \in e.names
        BY <1>4, <3>2 DEF Tells
      <4>4. QED
        BY <1>6, <2>4, <4>2, <4>3
    <3>3. CASE ~Tells(1, n)
      <4>1. \A i \in 1..Len(events) : ~Tells(i, n)
        BY <3>1, <3>3
      <4>2. n \notin e.names
        BY <1>4, <1>5, <3>3 DEF Tells
      <4>3. QED
        BY <1>6, <2>3, <2>4, <4>1, <4>2
    <3>4. QED
      BY <3>2, <3>3
  <2>7. QED
    BY <2>1, <2>3, <2>5, <2>6
<1>8. QED
  BY <1>2, <1>3, <1>7, SameTracks

LEMMA StopTracks ==
  ASSUME CInv, (\E s \in {"SIGTERM", "SIGINT"} : Signal(s)) \/ Timeout
  PROVE  Tracks'
<1>1. TInv /\ \A n \in Names : Tracked(n)
  BY DEF CInv, Tracks, SInv, RInv
<1>2. /\ Inside /\ UNCHANGED <<client, requests, events>>
      /\ app'.ret # "OK" /\ app'.actions = app.actions /\ app'.running = app.running
      /\ pending' \subseteq pending
  <2>1. CASE Timeout
    BY <1>1, <2>1, TimeoutStep
  <2>2. ASSUME NEW s \in {"SIGTERM", "SIGINT"}, Signal(s)
        PROVE  /\ Inside /\ UNCHANGED <<client, requests, events>>
               /\ app'.ret # "OK" /\ app'.actions = app.actions /\ app'.running = app.running
               /\ pending' \subseteq pending
    BY <1>1, <2>2, SignalStep
  <2>3. QED
    BY <2>1, <2>2
<1>3. touched' = touched
  BY DEF Signal, Timeout
<1>4. Apart(0)
  BY <1>1, <1>2, <1>3, NothingTaken DEF Apart
<1>5. Len(events') + 0 = Len(events) /\ \A n : \A i \in 1..0 : ~Tells(i, n)
  BY <1>1, <1>2, Lengths
<1>6. \A n \in Names : Aware(n)'
  BY <1>1, <1>2, <1>4, <1>5, AwareTaken DEF Tracked
<1>7. QED
  BY <1>2, <1>4, <1>6, SameTracks

LEMMA QuitTracks ==
  ASSUME CInv, Quit
  PROVE  Tracks'
<1>1. TInv
  BY DEF CInv, SInv, RInv
<1>2. /\ Inside /\ Took(0) /\ UNCHANGED <<client, pending, requests>> /\ ~app'.running
      /\ app'.ret = app.ret /\ app'.call = app.call /\ app'.actions = app.actions
  BY <1>1, QuitStep
<1>3. touched' = touched
  BY DEF Quit
<1>4. Apart(0)
  BY <1>2, <1>3 DEF Apart
<1>5. \A n \in Names : Aware(n)'
  BY <1>2 DEF Aware
<1>6. QED
  BY <1>2, <1>4, <1>5, SameTracks

(* What the tool is going to hear is what it was, and then the rest.         *)
LEMMA AddedIs ==
  ASSUME TInv, NEW k \in Nat, Adds(k)
  PROVE  /\ \A i \in 1..Len(events) : i \in 1..Len(events') /\ events'[i] = events[i]
         /\ \A i \in 1..Len(events') : i \in 1..Len(events) \/ i \in Len(events) + 1..Len(events')
         /\ \A i \in Len(events) + 1..Len(events') :
              /\ i \in 1..Len(events') /\ i \notin 1..Len(events)
              /\ \A j \in 1..Len(events) : j < i /\ ~(i < j)
              /\ \E j \in 1..k : i = Len(events) + j
<1>1. PICK l \in Nat : l = Len(events)
  BY Lengths
<1>2. Len(events') = l + k
  BY <1>1 DEF Adds
<1>3. \A i \in 1..l : i \in 1..l + k
  BY <1>1
<1>4. ASSUME NEW i \in l + 1..l + k
      PROVE  /\ i \in 1..l + k /\ i \notin 1..l
             /\ \A j \in 1..l : j < i /\ ~(i < j)
             /\ \E j \in 1..k : i = l + j
  <2>1. i - l \in 1..k /\ i = l + (i - l)
    BY <1>1
  <2>2. QED
    BY <1>1, <2>1
<1>5. \A i \in 1..l + k : i \in 1..l \/ i \in l + 1..l + k
  BY <1>1
<1>6. QED
  BY <1>1, <1>2, <1>3, <1>4, <1>5 DEF Adds

LEMMA ElsewhereTracks ==
  ASSUME CInv, Elsewhere, \A n \in Names : Ignores(n)
  PROVE  Tracks'
<1>1. TInv /\ Kinds /\ Greets /\ Quiet /\ \A n \in Names : Tracked(n)
  BY DEF CInv, Tracks, SInv, RInv
<1>2. /\ app' = app /\ client' = client /\ pending' = pending /\ requests' = requests
      /\ program' = program /\ done' = done
      /\ server'.up = server.up /\ server'.life = server.life
  BY DEF Elsewhere
<1>3. PICK k \in Nat : Adds(k) /\ \A i \in 1..k : events'[Len(events) + i].type = "Flags"
  BY DEF Elsewhere
<1>4. /\ \A i \in 1..Len(events) : i \in 1..Len(events') /\ events'[i] = events[i]
      /\ \A i \in 1..Len(events') : i \in 1..Len(events) \/ i \in Len(events) + 1..Len(events')
      /\ \A i \in Len(events) + 1..Len(events') :
           /\ i \in 1..Len(events') /\ i \notin 1..Len(events)
           /\ \A j \in 1..Len(events) : j < i /\ ~(i < j)
           /\ \E j \in 1..k : i = Len(events) + j
  BY <1>1, <1>3, AddedIs
<1>5. \A i \in Len(events) + 1..Len(events') : events'[i].type = "Flags"
  BY <1>3, <1>4
<1>6. \A life : Current(life)' <=> Current(life)
  BY <1>2 DEF Current
<1>7. ASSUME NEW i \in 1..Len(events'), events'[i].type = "Reply"
      PROVE  i \in 1..Len(events) /\ events'[i] = events[i]
  BY <1>4, <1>5, <1>7
<1>8. \A i \in 1..Len(events') : Welcome(i)' => i \in 1..Len(events) /\ Welcome(i)
  BY <1>6, <1>7 DEF Welcome
<1>9. \A i : Hello(i)' <=> Hello(i)
  BY <1>2, <1>6 DEF Hello
<1>10. Kinds'
  BY <1>1, <1>2, KindsSame
<1>11. Greets'
  BY <1>1, <1>2, <1>8, <1>9 DEF Greets
<1>12. \A i : Live(i)' <=> Live(i)
  BY <1>2, <1>6 DEF Live
<1>13. Quiet'
  BY <1>1, <1>2, <1>12 DEF Quiet
<1>14. ASSUME NEW n \in Names PROVE Tracked(n)'
  <2>1. Unmet(n) /\ Shown(n) /\ Aware(n) /\ Own(n) /\ Resetting(n)
    BY <1>1 DEF Tracked
  <2>2. n \notin touched' => n \notin touched /\ (On(n)' <=> On(n))
    BY DEF Ignores
  <2>3. ASSUME n \notin touched', NEW i \in 1..Len(events'), Tells(i, n)'
        PROVE  i \in 1..Len(events) /\ Tells(i, n)
    <3>1. i \in 1..Len(events)
      BY <1>4, <2>3 DEF Ignores
    <3>2. QED
      BY <1>4, <2>3, <3>1 DEF Tells
  <2>4. \A i \in 1..Len(events) : i \in 1..Len(events') /\ (Tells(i, n)' <=> Tells(i, n))
    BY <1>4 DEF Tells
  <2>5. Unmet(n)'
    BY <1>2, <2>1, <2>2 DEF Unmet
  <2>6. Shown(n)'
    <3>1. SUFFICES ASSUME app'.running, n \notin touched', NEW i \in 1..Len(events'),
                          Welcome(i)', events'[i].answer = "OK"
                   PROVE  /\ n \in events'[i].names <=> On(n)'
                          /\ \A j \in 1..Len(events') : i < j => ~Tells(j, n)'
      BY DEF Shown
    <3>2. i \in 1..Len(events) /\ Welcome(i) /\ events'[i] = events[i]
      BY <1>4, <1>8, <3>1
    <3>3. /\ n \in events[i].names <=> On(n)
          /\ \A j \in 1..Len(events) : i < j => ~Tells(j, n)
      BY <1>2, <2>1, <2>2, <3>1, <3>2 DEF Shown
    <3>4. QED
      BY <2>2, <2>3, <3>1, <3>2, <3>3
  <2>7. Aware(n)'
    <3>1. SUFFICES ASSUME app'.running, n \notin touched', Current(client.proxy)'
                   PROVE  /\ (\A i \in 1..Len(events') : ~Tells(i, n)') =>
                               (n \in client'.enabled <=> On(n)')
                          /\ \A i \in 1..Len(events') :
                               LastTells(i, n)' => (events'[i].value = 1 <=> On(n)')
      BY DEF Aware
    <3>2. /\ (\A i \in 1..Len(events) : ~Tells(i, n)) => (n \in client.enabled <=> On(n))
          /\ \A i \in 1..Len(events) : LastTells(i, n) => (events[i].value = 1 <=> On(n))
      BY <1>2, <2>1, <2>2, <3>1 DEF Aware, Current
    <3>3. ASSUME NEW i \in 1..Len(events'), LastTells(i, n)'
          PROVE  i \in 1..Len(events) /\ LastTells(i, n) /\ events'[i] = events[i]
      <4>1. Tells(i, n)' /\ \A j \in 1..Len(events') : i < j => ~Tells(j, n)'
        BY <3>3 DEF LastTells
      <4>2. i \in 1..Len(events) /\ Tells(i, n)
        BY <2>3, <3>1, <3>3, <4>1
      <4>3. \A j \in 1..Len(events) : i < j => ~Tells(j, n)
        BY <2>4, <4>1
      <4>4. QED
        BY <1>4, <4>2, <4>3 DEF LastTells
    <3>4. (\A i \in 1..Len(events') : ~Tells(i, n)') => \A i \in 1..Len(events) : ~Tells(i, n)
      BY <2>4
    <3>5. QED
      BY <1>2, <2>2, <3>1, <3>2, <3>3, <3>4
  <2>8. Own(n)'
    <3>1. SUFFICES ASSUME app'.running, app'.ret = "OK", n \notin touched',
                          NEW i \in 1..Len(events'), NEW j \in 1..Len(events'),
                          Tells(i, n)', Granted(j)'
                   PROVE  i < j
      BY DEF Own
    <3>2. i \in 1..Len(events) /\ Tells(i, n)
      BY <2>3, <3>1
    <3>3. j \in 1..Len(events) /\ Granted(j)
      BY <1>2, <1>7, <3>1 DEF Granted
    <3>4. QED
      BY <1>2, <2>1, <2>2, <3>1, <3>2, <3>3 DEF Own
  <2>9. Resetting(n)'
    <3>1. ASSUME Restored(n) PROVE Restored(n)'
      <4>1. CASE n \in touched'
        BY <4>1 DEF Restored
      <4>2. CASE n \notin touched'
        BY <1>2, <1>12, <2>2, <3>1, <4>2 DEF Restored
      <4>3. QED
        BY <4>1, <4>2
    <3>2. QED
      BY <1>2, <2>1, <3>1 DEF Resetting, WentWell
  <2>10. QED
    BY <2>5, <2>6, <2>7, <2>8, <2>9 DEF Tracked
<1>15. QED
  BY <1>10, <1>11, <1>13, <1>14 DEF Tracks

(* The server dies, or is started again with its defaults.                   *)
LEMMA RestartTracks ==
  ASSUME CInv, NEW k \in Nat, Adds(k),
         UNCHANGED <<app, client, pending, requests, program, done, touched>>,
         \A i \in 1..k : events'[Len(events) + i].type \in {"Appeared", "Vanished"},
         \A life \in Nat : life <= server.life => ~Current(life)',
         server'.up => \A n \in Names : On(n)' <=> n \in Defaults
  PROVE  Tracks'
<1>1. TInv /\ Known /\ Settling /\ Kinds /\ \A n \in Names : Tracked(n)
  BY DEF CInv, Tracks, SInv, RInv
<1>2. /\ app' = app /\ client' = client /\ pending' = pending /\ requests' = requests
      /\ program' = program /\ done' = done /\ touched' = touched
  OBVIOUS
<1>3. ASSUME NEW i \in 1..Len(events'), events'[i].type \in {"Reply", "Flags"}
      PROVE  i \in 1..Len(events) /\ events'[i] = events[i]
  <2>1. ASSUME NEW j \in 1..k, i = Len(events) + j PROVE FALSE
    BY <1>3, <2>1
  <2>2. QED
    BY <1>1, <2>1, AddsIs
<1>4. ASSUME NEW i \in 1..Len(requests) PROVE ~Hello(i)' /\ ~Live(i)'
  <2>1. requests[i].to \in Nat /\ requests[i].call.key[2] \in Nat
    BY <1>1, ElementsAre, KeysAre
  <2>2. IsInit(requests[i].call.key) => ~Current(requests[i].call.key[2])'
    BY <1>1, <2>1 DEF Settling
  <2>3. ~Current(requests[i].to)'
    BY <1>1, <2>1 DEF Known
  <2>4. QED
    BY <1>2, <2>2, <2>3 DEF Hello, Live, Current
<1>5. ASSUME NEW i \in 1..Len(events') PROVE ~Welcome(i)'
  <2>1. SUFFICES ASSUME events'[i].type = "Reply", IsInit(events'[i].key)
                 PROVE  ~Current(events[i].key[2])'
    BY DEF Welcome
  <2>2. i \in 1..Len(events) /\ events'[i] = events[i]
    BY <1>3, <2>1
  <2>3. PICK life \in Nat : life = events[i].key[2]
    BY <1>1, <2>2, ElementsAre, KeysAre
  <2>4. life <= server.life
    BY <1>1, <2>1, <2>2, <2>3 DEF Settling
  <2>5. ~Current(life)'
    BY <2>4
  <2>6. QED
    BY <2>2, <2>3, <2>5 DEF Current
<1>6. Kinds' /\ Greets' /\ Quiet'
  BY <1>1, <1>2, <1>4, <1>5, KindsSame DEF Greets, Quiet
<1>7. ~Current(client.proxy)'
  BY <1>1, <1>2, Lengths DEF Known, Current
<1>8. ASSUME NEW n \in Names PROVE Tracked(n)'
  <2>1. Own(n) /\ Resetting(n)
    BY <1>1 DEF Tracked
  <2>2. Unmet(n)' /\ Shown(n)' /\ Aware(n)'
    BY <1>5, <1>7 DEF Unmet, Shown, Aware
  <2>3. Own(n)'
    <3>1. SUFFICES ASSUME app'.running, app'.ret = "OK", n \notin touched',
                          NEW i \in 1..Len(events'), NEW j \in 1..Len(events'),
                          Tells(i, n)', Granted(j)'
                   PROVE  i < j
      BY DEF Own
    <3>2. i \in 1..Len(events) /\ Tells(i, n)
      BY <1>3, <3>1 DEF Tells
    <3>3. j \in 1..Len(events) /\ Granted(j)
      BY <1>2, <1>3, <3>1 DEF Granted
    <3>4. QED
      BY <1>2, <2>1, <3>1, <3>2, <3>3 DEF Own
  <2>4. Restored(n)'
    BY <1>2, <1>4 DEF Restored
  <2>5. Resetting(n)'
    BY <1>2, <2>1, <2>4 DEF Resetting, WentWell
  <2>6. QED
    BY <2>2, <2>3, <2>5 DEF Tracked
<1>9. QED
  BY <1>6, <1>8 DEF Tracks

LEMMA DieTracks ==
  ASSUME CInv, Die
  PROVE  Tracks'
<1>1. TInv
  BY DEF CInv, SInv, RInv
<1>2. /\ UNCHANGED <<app, client, pending, requests, program, done>> /\ ~server'.up
      /\ \E n \in {0, 1} : Adds(n) /\ \A i \in 1..n : events'[Len(events) + i].type = "Vanished"
  BY <1>1, DieStep
<1>3. PICK k \in {0, 1} : Adds(k) /\ \A i \in 1..k : events'[Len(events) + i].type = "Vanished"
  BY <1>2
<1>4. touched' = touched /\ \A life : ~Current(life)'
  BY <1>2 DEF Die, Current
<1>5. k \in Nat
  OBVIOUS
<1>6. QED
  BY <1>2, <1>3, <1>4, <1>5, RestartTracks

LEMMA BeginTracks ==
  ASSUME CInv, Begin
  PROVE  Tracks'
<1>1. TInv /\ server.life \in Nat
  BY Lengths DEF CInv, SInv, RInv
<1>2. /\ UNCHANGED <<app, client, pending, requests, program, done>>
      /\ server'.life = server.life + 1
      /\ \E n \in {0, 1} : Adds(n) /\ \A i \in 1..n :
           /\ events'[Len(events) + i].type = "Appeared"
           /\ events'[Len(events) + i].value = server.life + 1
  BY <1>1, BeginStep
<1>3. PICK k \in {0, 1} : Adds(k) /\ \A i \in 1..k : events'[Len(events) + i].type = "Appeared"
  BY <1>2
<1>4. touched' = touched
  BY DEF Begin
<1>5. \A life \in Nat : life <= server.life => ~Current(life)'
  BY <1>1, <1>2 DEF Current
<1>6. ASSUME NEW n \in Names PROVE On(n)' <=> n \in Defaults
  <2>1. PICK core, life : core = NewCore /\ life = server.life + 1
    OBVIOUS
  <2>2. core.enabled = Defaults
    BY <2>1 DEF NewCore
  <2>3. server' = [server EXCEPT !.up = TRUE, !.started = TRUE, !.life = life, !.core = core]
    BY <2>1 DEF Begin
  <2>4. server \in Server
    BY <1>1 DEF TInv
  <2>5. server'.core = core
    BY <2>3, <2>4 DEF Server
  <2>6. QED
    BY <2>2, <2>5 DEF On
<1>7. k \in Nat
  OBVIOUS
<1>8. QED
  BY <1>2, <1>3, <1>4, <1>5, <1>6, <1>7, RestartTracks

LEMMA ServedIs ==
  ASSUME TInv, NEW q, NEW answer, Serves(q, answer)
  PROVE  /\ 1 \in 1..Len(requests) /\ q = requests[1]
         /\ \A i \in 1..Len(requests') : /\ i + 1 \in 1..Len(requests) /\ i + 1 # 1
                                         /\ requests'[i] = requests[i + 1]
         /\ \A i \in 1..Len(requests) : i = 1 \/ \E j \in 1..Len(requests') : i = j + 1
         /\ \A i, j \in 1..Len(requests') : i + 1 = j + 1 => i = j
         /\ \A life : Current(life)' <=> Current(life)
<1>1. /\ 1 \in 1..Len(requests) /\ q = requests[1] /\ Len(requests') = Len(requests) - 1
      /\ \A i \in 1..Len(requests') : requests'[i] = requests[i + 1]
      /\ server'.up = server.up /\ server'.life = server.life
  BY DEF Serves
<1>2. PICK l \in Nat : l = Len(requests)
  BY Lengths
<1>3. \A i \in 1..l - 1 : i + 1 \in 1..l /\ i + 1 # 1
  BY <1>2
<1>4. ASSUME NEW i \in 1..l, i # 1 PROVE \E j \in 1..l - 1 : i = j + 1
  <2>1. i - 1 \in 1..l - 1 /\ i = (i - 1) + 1
    BY <1>2, <1>4
  <2>2. QED
    BY <2>1
<1>5. \A i, j \in 1..l - 1 : i + 1 = j + 1 => i = j
  OBVIOUS
<1>6. QED
  BY <1>1, <1>2, <1>3, <1>4, <1>5 DEF Current

(* The end of the call, and what is told of category n before it.            *)
Told(n, q, answer) ==
  /\ \A i \in 1..Len(events) : i \in 1..Len(events') /\ events'[i] = events[i]
  /\ \A i \in 1..Len(events') : i \in 1..Len(events) \/ i \in Len(events) + 1..Len(events')
  /\ \A i \in Len(events) + 1..Len(events') :
       /\ i \in 1..Len(events') /\ \A j \in 1..Len(events) : j < i /\ ~(i < j)
       /\ \/ events'[i].type = "Flags" /\ (Tells(i, n)' => (events'[i].value = 1 <=> On(n)'))
          \/ /\ events'[i].type = "Reply" /\ events'[i].key = q.call.key
             /\ events'[i].answer = answer /\ events'[i].names = server.core.enabled
             /\ \A j \in 1..Len(events') : j # i => j < i /\ ~(i < j)

LEMMA ToldIs ==
  ASSUME TInv, NEW n, NEW q, NEW answer, Takes(n, q, answer)
  PROVE  Told(n, q, answer)
<1>1. PICK k \in Nat : Announces(n, q.call, answer, k)
  BY DEF Takes
<1>2. /\ Adds(k)
      /\ \A i \in Len(events) + 1..Len(events') :
           \/ /\ events'[i].type = "Flags"
              /\ n \in events'[i].names => (events'[i].value = 1 <=> On(n)')
           \/ /\ i = Len(events') /\ events'[i].type = "Reply" /\ events'[i].key = q.call.key
              /\ events'[i].answer = answer /\ events'[i].names = server.core.enabled
  BY <1>1 DEF Announces
<1>3. /\ \A i \in 1..Len(events) : i \in 1..Len(events') /\ events'[i] = events[i]
      /\ \A i \in 1..Len(events') : i \in 1..Len(events) \/ i \in Len(events) + 1..Len(events')
      /\ \A i \in Len(events) + 1..Len(events') :
           i \in 1..Len(events') /\ \A j \in 1..Len(events) : j < i /\ ~(i < j)
  BY <1>1, <1>2, AddedIs
<1>4. PICK l \in Nat : l = Len(events')
  BY <1>2 DEF Adds
<1>5. \A i, j \in 1..l : i = l /\ j # i => j < i /\ ~(i < j)
  BY <1>4
<1>6. ASSUME NEW i \in Len(events) + 1..Len(events')
      PROVE  \/ events'[i].type = "Flags" /\ (Tells(i, n)' => (events'[i].value = 1 <=> On(n)'))
             \/ /\ events'[i].type = "Reply" /\ events'[i].key = q.call.key
                /\ events'[i].answer = answer /\ events'[i].names = server.core.enabled
                /\ \A j \in 1..Len(events') : j # i => j < i /\ ~(i < j)
  <2>1. i \in 1..l
    BY <1>3, <1>4, <1>6
  <2>2. CASE i = l
    <3>1. \A j \in 1..Len(events') : j # i => j < i /\ ~(i < j)
      BY <1>4, <1>5, <2>1, <2>2
    <3>2. QED
      BY <1>2, <1>6, <3>1 DEF Tells
  <2>3. CASE i # l
    BY <1>2, <1>4, <1>6, <2>3 DEF Tells
  <2>4. QED
    BY <2>2, <2>3
<1>7. QED
  BY <1>3, <1>6 DEF Told

(* Only a call of an action changes a category, and is made to the server    *)
(* the client is connected to.                                               *)
LEMMA LiveIs ==
  ASSUME TInv, Known, Settling, Greets, NEW i \in 1..Len(requests), Live(i)
  PROVE  /\ Current(client.proxy) /\ client.init[2] # server.life
         /\ \A j \in 1..Len(requests) : ~Hello(j)
         /\ \A j \in 1..Len(events) : ~Welcome(j)
<1>1. Current(client.proxy)
  BY DEF Settling, Live, Current
<1>2. client.init = None
  BY <1>1 DEF Settling
<1>3. client.init[2] # server.life
  BY <1>1, <1>2 DEF Known, Current, None, Down
<1>4. QED
  BY <1>1, <1>3, Unwelcome DEF Current

(* A server which is asked for its categories was not met yet.               *)
LEMMA HelloIs ==
  ASSUME TInv, Known, Settling, Greets, NEW i \in 1..Len(requests), Hello(i)
  PROVE  /\ client.init[2] = server.life /\ client.init # None /\ ~Current(client.proxy)
         /\ \A j \in 1..Len(requests) : Hello(j) => j = i
         /\ \A j \in 1..Len(events) : ~Welcome(j)
<1>1. client.init[2] = server.life /\ server.up
  BY DEF Greets, Hello, Current
<1>2. client.init # None
  BY <1>1 DEF Known, None, Down
<1>3. ~Current(client.proxy)
  BY <1>2 DEF Settling
<1>4. QED
  BY <1>1, <1>2, <1>3 DEF Greets

LEMMA ServeGreets ==
  ASSUME CInv, NEW q, NEW answer, Serves(q, answer), NEW n, Told(n, q, answer)
  PROVE  Kinds' /\ Greets' /\ Quiet'
<1>1. TInv /\ Kinds /\ Greets /\ Quiet
  BY DEF CInv, Tracks, SInv, RInv
<1>2. /\ 1 \in 1..Len(requests) /\ q = requests[1]
      /\ \A i \in 1..Len(requests') : /\ i + 1 \in 1..Len(requests) /\ i + 1 # 1
                                      /\ requests'[i] = requests[i + 1]
      /\ \A i, j \in 1..Len(requests') : i + 1 = j + 1 => i = j
      /\ \A life : Current(life)' <=> Current(life)
  BY <1>1, ServedIs
<1>3. app' = app /\ client' = client /\ server'.life = server.life
  BY DEF Serves
<1>4. ASSUME NEW i \in 1..Len(requests')
      PROVE  (Hello(i)' => Hello(i + 1)) /\ (Live(i)' => Live(i + 1))
  BY <1>2 DEF Hello, Live
<1>5. ASSUME NEW i \in 1..Len(events'), Welcome(i)'
      PROVE  \/ i \in 1..Len(events) /\ Welcome(i)
             \/ Hello(1) /\ \A j \in 1..Len(events') : j # i => j < i /\ ~(i < j)
  <2>1. CASE i \in 1..Len(events)
    <3>1. events'[i] = events[i]
      BY <2>1 DEF Told
    <3>2. QED
      BY <1>2, <1>5, <2>1, <3>1 DEF Welcome
  <2>2. CASE i \in Len(events) + 1..Len(events')
    <3>1. /\ events'[i].key = q.call.key
          /\ \A j \in 1..Len(events') : j # i => j < i /\ ~(i < j)
      BY <1>5, <2>2 DEF Told, Welcome
    <3>2. Hello(1)
      BY <1>2, <1>5, <3>1 DEF Hello, Welcome
    <3>3. QED
      BY <3>1, <3>2
  <2>3. QED
    BY <2>1, <2>2 DEF Told
<1>6. Kinds'
  BY <1>1, <1>2 DEF Kinds
<1>7. Quiet'
  BY <1>1, <1>2, <1>3, <1>4 DEF Quiet
<1>8. /\ \A i \in 1..Len(requests) : Hello(i) => client.init[2] = server.life
      /\ \A i \in 1..Len(events) : Welcome(i) => client.init[2] = server.life
      /\ \A i, j \in 1..Len(requests) : Hello(i) /\ Hello(j) => i = j
      /\ \A i, j \in 1..Len(events) : Welcome(i) /\ Welcome(j) => i = j
      /\ \A i \in 1..Len(requests), j \in 1..Len(events) : ~(Hello(i) /\ Welcome(j))
  BY <1>1 DEF Greets
<1>9. (\A i \in 1..Len(requests) : Hello(i) => client.init[2] = server.life)'
  BY <1>2, <1>3, <1>4, <1>8
<1>10. (\A i \in 1..Len(events) : Welcome(i) => client.init[2] = server.life)'
  BY <1>2, <1>3, <1>5, <1>8
<1>11. (\A i, j \in 1..Len(requests) : Hello(i) /\ Hello(j) => i = j)'
  BY <1>2, <1>4, <1>8
<1>12. ASSUME NEW i \in 1..Len(events'), NEW j \in 1..Len(events'), Welcome(i)', Welcome(j)'
       PROVE  i = j
  <2>1. CASE Hello(1)
    <3>1. \A h \in 1..Len(events) : ~Welcome(h)
      BY <1>2, <1>8, <2>1
    <3>2. i # j => i < j /\ ~(i < j)
      BY <1>5, <1>12, <3>1
    <3>3. QED
      BY <3>2
  <2>2. CASE ~Hello(1)
    BY <1>5, <1>8, <1>12, <2>2
  <2>3. QED
    BY <2>1, <2>2
<1>13. (\A i \in 1..Len(requests), j \in 1..Len(events) : ~(Hello(i) /\ Welcome(j)))'
  <2>1. ASSUME NEW i \in 1..Len(requests'), NEW j \in 1..Len(events'), Hello(i)', Welcome(j)'
        PROVE  FALSE
    <3>1. i + 1 \in 1..Len(requests) /\ i + 1 # 1 /\ Hello(i + 1)
      BY <1>2, <1>4, <2>1
    <3>2. (j \in 1..Len(events) /\ Welcome(j)) \/ Hello(1)
      BY <1>5, <2>1
    <3>3. QED
      BY <1>2, <1>8, <3>1, <3>2
  <2>2. QED
    BY <2>1
<1>14. Greets'
  BY <1>9, <1>10, <1>11, <1>12, <1>13 DEF Greets
<1>15. QED
  BY <1>6, <1>7, <1>14

(* The server takes a call: what follows for category n.                     *)
Served(n, q, answer) ==
  /\ Told(n, q, answer)
  /\ On(n)' # On(n) => Live(1)
  /\ \A i \in Len(events) + 1..Len(events') : Tells(i, n)' => Live(1)
  /\ app.running /\ On(n)' # On(n) => \E i \in Len(events) + 1..Len(events') : Tells(i, n)'
  /\ On(n)' # On(n) => Enabling(q.call, n) \/ Disabling(q.call, n)
  /\ answer = "OK" /\ Live(1) /\ Enabling(q.call, n) /\ n \in Categories => On(n)'
  /\ answer = "OK" /\ Live(1) /\ Disabling(q.call, n) => ~On(n)'

LEMMA ServedOf ==
  ASSUME TInv, Kinds, NEW n, NEW q, NEW answer, Serves(q, answer), Takes(n, q, answer)
  PROVE  Served(n, q, answer)
<1>1. Told(n, q, answer)
  BY ToldIs
<1>2. 1 \in 1..Len(requests) /\ q = requests[1]
  BY ServedIs
<1>3. Current(q.to) /\ q.call.method \in Setters => Live(1)
  BY <1>2 DEF Kinds, Live
<1>4. Live(1) => Current(q.to)
  BY <1>2 DEF Live
<1>5. /\ On(n)' # On(n) => Current(q.to) /\ q.call.method \in Setters /\ n \in q.call.names
      /\ Current(q.to) /\ answer = "OK" /\ Enabling(q.call, n) /\ n \in Categories => On(n)'
      /\ Current(q.to) /\ answer = "OK" /\ Disabling(q.call, n) => ~On(n)'
      /\ ~Current(q.to) => \A i \in Len(events) + 1..Len(events') : ~Tells(i, n)'
  BY DEF Takes, On
<1>6. PICK k \in Nat : Announces(n, q.call, answer, k)
  BY DEF Takes
<1>7. /\ \A i \in Len(events) + 1..Len(events') : Tells(i, n)' => q.call.method \in Setters
      /\ app.running /\ On(n)' # On(n) => \E i \in Len(events) + 1..Len(events') : Tells(i, n)'
  BY <1>6 DEF Announces, Tells
<1>8. On(n)' # On(n) => Enabling(q.call, n) \/ Disabling(q.call, n)
  BY <1>5 DEF Setters, Enabling, Disabling
<1>9. QED
  BY <1>1, <1>3, <1>4, <1>5, <1>7, <1>8 DEF Served

(* What others have changed is forgotten only when the server is asked for   *)
(* its categories.                                                           *)
Forgets == touched' = touched \/ (Hello(1) /\ ToReset(app.actions))

LEMMA ServeShows ==
  ASSUME CInv, NEW n \in Names, NEW q, NEW answer, Serves(q, answer), Served(n, q, answer), Forgets
  PROVE  Unmet(n)' /\ Shown(n)'
<1>1. TInv /\ Known /\ Settling /\ Kinds /\ Greets /\ Unmet(n) /\ Shown(n)
  BY DEF CInv, Tracks, Tracked, SInv, RInv
<1>2. 1 \in 1..Len(requests) /\ q = requests[1] /\ \A life : Current(life)' <=> Current(life)
  BY <1>1, ServedIs
<1>3. app' = app /\ client' = client /\ server'.life = server.life /\ server'.up = server.up
  BY DEF Serves
<1>4. /\ \A i \in 1..Len(events) : i \in 1..Len(events') /\ events'[i] = events[i]
      /\ \A i \in 1..Len(events') : i \in 1..Len(events) \/ i \in Len(events) + 1..Len(events')
      /\ \A i \in Len(events) + 1..Len(events') :
           /\ i \in 1..Len(events') /\ \A j \in 1..Len(events) : j < i /\ ~(i < j)
           /\ \/ events'[i].type = "Flags"
              \/ /\ events'[i].type = "Reply" /\ events'[i].key = q.call.key
                 /\ events'[i].names = server.core.enabled
                 /\ \A j \in 1..Len(events') : j # i => j < i /\ ~(i < j)
  BY DEF Served, Told
<1>5. Unmet(n)'
  <2>1. SUFFICES ASSUME app.ret = "OK", server.up, n \notin touched',
                        client.proxy # server.life, client.init[2] # server.life
                 PROVE  On(n)' <=> n \in Defaults
    BY <1>3 DEF Unmet
  <2>2. n \notin touched
    BY <1>1, <1>2, <2>1, HelloIs DEF Forgets
  <2>3. On(n) <=> n \in Defaults
    BY <1>1, <2>1, <2>2 DEF Unmet
  <2>4. On(n)' = On(n)
    BY <1>1, <1>2, <2>1, LiveIs DEF Served, Current
  <2>5. QED
    BY <2>3, <2>4
<1>6. Shown(n)'
  <2>1. SUFFICES ASSUME app'.running, n \notin touched', NEW i \in 1..Len(events'),
                        Welcome(i)', events'[i].answer = "OK"
                 PROVE  /\ n \in events'[i].names <=> On(n)'
                        /\ \A j \in 1..Len(events') : i < j => ~Tells(j, n)'
    BY DEF Shown
  <2>2. CASE i \in 1..Len(events)
    <3>1. Welcome(i) /\ events'[i] = events[i]
      BY <1>2, <1>4, <2>1, <2>2 DEF Welcome
    <3>2. ~Hello(1) /\ ~Live(1)
      BY <1>1, <1>2, <2>2, <3>1, HelloIs, LiveIs
    <3>3. n \notin touched
      BY <2>1, <3>2 DEF Forgets
    <3>4. /\ n \in events[i].names <=> On(n)
          /\ \A j \in 1..Len(events) : i < j => ~Tells(j, n)
      BY <1>1, <1>3, <2>1, <2>2, <3>1, <3>3 DEF Shown
    <3>5. On(n)' = On(n) /\ \A j \in Len(events) + 1..Len(events') : ~Tells(j, n)'
      BY <3>2 DEF Served
    <3>6. \A j \in 1..Len(events) : Tells(j, n)' <=> Tells(j, n)
      BY <1>4 DEF Tells
    <3>7. QED
      BY <1>4, <3>1, <3>4, <3>5, <3>6
  <2>3. CASE i \in Len(events) + 1..Len(events')
    <3>1. /\ events'[i].key = q.call.key /\ events'[i].names = server.core.enabled
          /\ \A j \in 1..Len(events') : j # i => ~(i < j)
      BY <1>4, <2>1, <2>3 DEF Welcome
    <3>2. IsInit(q.call.key) /\ Current(q.call.key[2])
      BY <1>2, <2>1, <3>1 DEF Welcome
    <3>3. ~Live(1)
      BY <1>2, <3>2 DEF Live, IsCall, IsInit
    <3>4. On(n)' = On(n) /\ \A j \in Len(events) + 1..Len(events') : ~Tells(j, n)'
      BY <3>3 DEF Served
    <3>5. ASSUME NEW j \in 1..Len(events'), i < j PROVE ~Tells(j, n)'
      <4>1. j = i
        BY <3>1, <3>5
      <4>2. QED
        BY <2>3, <3>4, <4>1
    <3>6. QED
      BY <3>1, <3>4, <3>5 DEF On
  <2>4. QED
    BY <1>4, <2>2, <2>3
<1>7. QED
  BY <1>5, <1>6

LEMMA ServeTells ==
  ASSUME CInv, NEW n \in Names, NEW q, NEW answer, Serves(q, answer), Served(n, q, answer), Forgets
  PROVE  Aware(n)' /\ Own(n)'
<1>1. TInv /\ Known /\ OneByOne /\ OneLife /\ Settling /\ Kinds /\ Greets /\ Aware(n) /\ Own(n)
  BY DEF CInv, Tracks, Tracked, SInv, RInv
<1>2. 1 \in 1..Len(requests) /\ q = requests[1] /\ \A life : Current(life)' <=> Current(life)
  BY <1>1, ServedIs
<1>3. /\ app' = app /\ client' = client /\ pending' = pending
      /\ server'.life = server.life /\ server'.up = server.up
  BY DEF Serves
<1>4. /\ \A i \in 1..Len(events) : i \in 1..Len(events') /\ events'[i] = events[i]
      /\ \A i \in 1..Len(events') : i \in 1..Len(events) \/ i \in Len(events) + 1..Len(events')
      /\ \A i \in Len(events) + 1..Len(events') :
           /\ i \in 1..Len(events') /\ \A j \in 1..Len(events) : j < i /\ ~(i < j)
           /\ \/ events'[i].type = "Flags" /\ (Tells(i, n)' => (events'[i].value = 1 <=> On(n)'))
              \/ /\ events'[i].type = "Reply"
                 /\ \A j \in 1..Len(events') : j # i => j < i /\ ~(i < j)
  BY DEF Served, Told
<1>5. \A i \in 1..Len(events) : Tells(i, n)' <=> Tells(i, n)
  BY <1>4 DEF Tells
<1>6. Aware(n)'
  <2>1. SUFFICES ASSUME app.running, n \notin touched', Current(client.proxy)
                 PROVE  /\ (\A i \in 1..Len(events') : ~Tells(i, n)') =>
                             (n \in client.enabled <=> On(n)')
                        /\ \A i \in 1..Len(events') :
                             LastTells(i, n)' => (events'[i].value = 1 <=> On(n)')
    BY <1>3 DEF Aware, Current
  <2>2. n \notin touched
    BY <1>1, <1>2, <2>1, HelloIs DEF Forgets
  <2>3. /\ (\A i \in 1..Len(events) : ~Tells(i, n)) => (n \in client.enabled <=> On(n))
        /\ \A i \in 1..Len(events) : LastTells(i, n) => (events[i].value = 1 <=> On(n))
    BY <1>1, <2>1, <2>2 DEF Aware
  <2>4. ASSUME NEW i \in Len(events) + 1..Len(events'), Tells(i, n)'
        PROVE  events'[i].value = 1 <=> On(n)'
    BY <1>4, <2>4 DEF Tells
  <2>5. CASE \E i \in Len(events) + 1..Len(events') : Tells(i, n)'
    <3>1. PICK h \in Len(events) + 1..Len(events') : Tells(h, n)'
      BY <2>5
    <3>2. h \in 1..Len(events') /\ \A j \in 1..Len(events) : j < h
      BY <1>4, <3>1
    <3>3. ASSUME NEW i \in 1..Len(events'), LastTells(i, n)'
          PROVE  i \in Len(events) + 1..Len(events') /\ Tells(i, n)'
      BY <1>4, <3>1, <3>2, <3>3 DEF LastTells
    <3>4. QED
      BY <2>4, <3>1, <3>2, <3>3
  <2>6. CASE \A i \in Len(events) + 1..Len(events') : ~Tells(i, n)'
    <3>1. On(n)' = On(n)
      BY <2>1, <2>6 DEF Served
    <3>2. (\A i \in 1..Len(events') : ~Tells(i, n)') => \A i \in 1..Len(events) : ~Tells(i, n)
      BY <1>4, <1>5
    <3>3. ASSUME NEW i \in 1..Len(events'), LastTells(i, n)'
          PROVE  i \in 1..Len(events) /\ LastTells(i, n) /\ events'[i] = events[i]
      <4>1. Tells(i, n)' /\ \A j \in 1..Len(events') : i < j => ~Tells(j, n)'
        BY <3>3 DEF LastTells
      <4>2. i \in 1..Len(events)
        BY <1>4, <2>6, <3>3, <4>1
      <4>3. QED
        BY <1>4, <1>5, <4>1, <4>2 DEF LastTells
    <3>4. QED
      BY <2>3, <3>1, <3>2, <3>3
  <2>7. QED
    BY <2>5, <2>6
<1>7. Own(n)'
  <2>1. SUFFICES ASSUME app.running, app.ret = "OK", n \notin touched',
                        NEW i \in 1..Len(events'), NEW j \in 1..Len(events'),
                        Tells(i, n)', Granted(j)'
                 PROVE  i < j
    BY <1>3 DEF Own
  <2>2. CASE j \in Len(events) + 1..Len(events')
    <3>1. i # j
      BY <2>1 DEF Tells, Granted
    <3>2. QED
      BY <1>4, <2>1, <2>2, <3>1 DEF Granted
  <2>3. CASE j \in 1..Len(events)
    <3>1. Granted(j)
      BY <1>3, <1>4, <2>1, <2>3 DEF Granted
    <3>2. ~Live(1)
      BY <1>1, <1>2, <2>3, <3>1 DEF OneByOne, NothingLive
    <3>3. client.init = None
      BY <1>1, <2>1, <2>3, <3>1 DEF OneLife
    <3>4. n \notin touched
      BY <1>1, <1>2, <2>1, <3>3, HelloIs DEF Forgets
    <3>5. i \in 1..Len(events) /\ Tells(i, n)
      BY <1>4, <1>5, <2>1, <3>2 DEF Served
    <3>6. QED
      BY <1>1, <2>1, <2>3, <3>1, <3>4, <3>5 DEF Own
  <2>4. QED
    BY <1>4, <2>2, <2>3
<1>8. QED
  BY <1>6, <1>7

LEMMA ServeRestores ==
  ASSUME CInv, NEW n \in Names, NEW q, NEW answer, Serves(q, answer), Served(n, q, answer),
         touched' = touched, Restored(n), Live(1) => answer = "OK"
  PROVE  Restored(n)'
<1>1. TInv
  BY DEF CInv, SInv, RInv
<1>2. /\ 1 \in 1..Len(requests) /\ q = requests[1]
      /\ \A i \in 1..Len(requests') : /\ i + 1 \in 1..Len(requests) /\ i + 1 # 1
                                      /\ requests'[i] = requests[i + 1]
      /\ \A i \in 1..Len(requests) : i = 1 \/ \E j \in 1..Len(requests') : i = j + 1
      /\ \A life : Current(life)' <=> Current(life)
  BY <1>1, ServedIs
<1>3. server'.up = server.up
  BY DEF Serves
<1>4. \A i \in 1..Len(requests') : Live(i)' <=> Live(i + 1)
  BY <1>2 DEF Live
<1>5. SUFFICES ASSUME server.up, n \notin touched
               PROVE  /\ \A i \in 1..Len(requests') : Live(i)' =>
                           /\ Enabling(requests'[i].call, n) => n \in Defaults
                           /\ Disabling(requests'[i].call, n) => n \notin Defaults
                      /\ n \in Defaults =>
                           On(n)' \/ \E i \in 1..Len(requests') :
                                      Live(i)' /\ Enabling(requests'[i].call, n)
                      /\ n \notin Defaults =>
                           ~On(n)' \/ \E i \in 1..Len(requests') :
                                       Live(i)' /\ Disabling(requests'[i].call, n)
  BY <1>3 DEF Restored, Enabling, Disabling
<1>6. /\ \A i \in 1..Len(requests) : Live(i) =>
           /\ Enabling(requests[i].call, n) => n \in Defaults
           /\ Disabling(requests[i].call, n) => n \notin Defaults
      /\ n \in Defaults =>
           On(n) \/ \E i \in 1..Len(requests) : Live(i) /\ Enabling(requests[i].call, n)
      /\ n \notin Defaults =>
           ~On(n) \/ \E i \in 1..Len(requests) : Live(i) /\ Disabling(requests[i].call, n)
  BY <1>5 DEF Restored
<1>7. /\ On(n)' # On(n) => Live(1) /\ (Enabling(q.call, n) \/ Disabling(q.call, n))
      /\ Live(1) /\ Enabling(q.call, n) /\ n \in Categories => On(n)'
      /\ Live(1) /\ Disabling(q.call, n) => ~On(n)'
  BY DEF Served
<1>8. \A i \in 1..Len(requests') : Live(i)' =>
        /\ Enabling(requests'[i].call, n) => n \in Defaults
        /\ Disabling(requests'[i].call, n) => n \notin Defaults
  BY <1>2, <1>4, <1>6
<1>9. ASSUME n \in Defaults
      PROVE  On(n)' \/ \E i \in 1..Len(requests') : Live(i)' /\ Enabling(requests'[i].call, n)
  <2>1. n \in Categories
    BY <1>9, CallConstants
  <2>2. CASE On(n)
    BY <1>2, <1>6, <1>7, <1>9, <2>1, <2>2
  <2>3. ASSUME NEW i \in 1..Len(requests), Live(i), Enabling(requests[i].call, n)
        PROVE  On(n)' \/ \E j \in 1..Len(requests') : Live(j)' /\ Enabling(requests'[j].call, n)
    BY <1>2, <1>4, <1>7, <2>1, <2>3
  <2>4. QED
    BY <1>6, <1>9, <2>2, <2>3
<1>10. ASSUME n \notin Defaults
       PROVE  ~On(n)' \/ \E i \in 1..Len(requests') : Live(i)' /\ Disabling(requests'[i].call, n)
  <2>1. CASE ~On(n)
    BY <1>2, <1>6, <1>7, <1>10, <2>1
  <2>2. ASSUME NEW i \in 1..Len(requests), Live(i), Disabling(requests[i].call, n)
        PROVE  ~On(n)' \/ \E j \in 1..Len(requests') : Live(j)' /\ Disabling(requests'[j].call, n)
    BY <1>2, <1>4, <1>7, <2>2
  <2>3. QED
    BY <1>6, <1>10, <2>1, <2>2
<1>11. QED
  BY <1>8, <1>9, <1>10

LEMMA ServeResets ==
  ASSUME CInv, TInv', NEW n \in Names, NEW q, NEW answer, Serves(q, answer), Served(n, q, answer),
         Forgets
  PROVE  Resetting(n)'
<1>1. TInv /\ Resetting(n)
  BY DEF CInv, Tracks, Tracked, SInv, RInv
<1>2. app' = app /\ program' = program
  BY DEF Serves
<1>3. /\ \A j \in 1..Len(done) : j \in 1..Len(done') /\ done'[j] = done[j]
      /\ Live(1) => Len(done) + 1 \in 1..Len(done') /\ done'[Len(done) + 1].answer = answer
  BY <1>1, ServeIs
<1>4. SUFFICES ASSUME EndsWithReset(program), WentWell'
               PROVE  EndsWithReset(app.actions) \/ (OnlyLists(app.actions) /\ Restored(n)')
  BY <1>2 DEF Resetting
<1>5. WentWell /\ (Live(1) => answer = "OK")
  BY <1>2, <1>3, <1>4 DEF WentWell
<1>6. EndsWithReset(app.actions) \/ (OnlyLists(app.actions) /\ Restored(n))
  BY <1>1, <1>4, <1>5 DEF Resetting
<1>7. ASSUME OnlyLists(app.actions), Restored(n) PROVE Restored(n)'
  <2>1. ~ToReset(app.actions)
    BY <1>1, <1>7, Lengths DEF ToReset, OnlyLists
  <2>2. touched' = touched
    BY <2>1 DEF Forgets
  <2>3. QED
    BY <1>5, <1>7, <2>2, ServeRestores
<1>8. QED
  BY <1>6, <1>7

LEMMA ServeTracks ==
  ASSUME CInv, TInv', Serve
  PROVE  Tracks'
<1>1. TInv /\ Kinds
  BY DEF CInv, Tracks, SInv, RInv
<1>2. PICK q, answer : /\ Serves(q, answer)
                       /\ answer = IF Current(q.to) THEN Handle(server, Tool, q.call).answer
                                                    ELSE "NoReply"
  BY <1>1, ServeStep
<1>3. 1 \in 1..Len(requests) /\ q = requests[1]
  BY <1>1, <1>2, ServedIs
<1>4. \A n : Takes(n, q, answer)
  BY <1>1, <1>2, <1>3, ServeTakes
<1>5. \A n : Served(n, q, answer)
  BY <1>1, <1>2, <1>4, ServedOf
<1>6. Kinds' /\ Greets' /\ Quiet'
  <2>1. Told(Tool, q, answer)
    BY <1>5 DEF Served
  <2>2. QED
    BY <1>2, <2>1, ServeGreets
<1>7. Forgets
  <2>1. requests \in Seq([to : Nat, call : Asking])
    BY <1>1 DEF TInv
  <2>2. q = Head(requests)
    BY <1>3, <2>1
  <2>3. touched' = IF Current(q.to) /\ q.call.method = "GetAll" /\ ToReset(app.actions)
                   THEN {} ELSE touched
    BY <2>2 DEF Serve, Current
  <2>4. q.call.method = "GetAll" /\ Current(q.to) => Hello(1)
    BY <1>1, <1>3 DEF Kinds, Hello
  <2>5. QED
    BY <2>3, <2>4 DEF Forgets
<1>8. ASSUME NEW n \in Names PROVE Tracked(n)'
  <2>1. Unmet(n)' /\ Shown(n)'
    BY <1>2, <1>5, <1>7, ServeShows
  <2>2. Aware(n)' /\ Own(n)'
    BY <1>2, <1>5, <1>7, ServeTells
  <2>3. Resetting(n)'
    BY <1>2, <1>5, <1>7, ServeResets
  <2>4. QED
    BY <2>1, <2>2, <2>3 DEF Tracked
<1>9. QED
  BY <1>6, <1>8 DEF Tracks

LEMMA TracksAtFirst ==
  ASSUME Init
  PROVE  CInv
<1>1. SInv
  BY SuccessAtFirst
<1>2. program = app.actions /\ ~server.up /\ requests = <<>> /\ events = <<>>
  BY DEF Init
<1>3. 1..Len(requests) = {} /\ 1..Len(events) = {}
  BY <1>2
<1>4. Kinds /\ Greets /\ Quiet
  BY <1>3 DEF Kinds, Greets, Quiet
<1>5. ASSUME NEW n \in Names PROVE Tracked(n)
  <2>1. Unmet(n) /\ Shown(n) /\ Aware(n) /\ Own(n)
    BY <1>2, <1>3 DEF Unmet, Shown, Aware, Own, Current
  <2>2. Resetting(n)
    BY <1>2 DEF Resetting
  <2>3. QED
    BY <2>1, <2>2 DEF Tracked
<1>6. QED
  BY <1>1, <1>4, <1>5 DEF CInv, Tracks

LEMMA TracksStep ==
  ASSUME CInv, [Next]_vars
  PROVE  CInv'
<1>1. SInv /\ TInv
  BY DEF CInv, SInv, RInv
<1>2. SInv' /\ TInv'
  <2>1. SInv'
    BY <1>1, SuccessStep
  <2>2. QED
    BY <2>1 DEF SInv, RInv
<1>3. SUFFICES Tracks'
  BY <1>2 DEF CInv
<1>4. CASE Dispatch
  BY <1>4, AppearedTracks, VanishedTracks, InitTracks, CallTracks, StartTracks, FlagsTrack
     DEF Dispatch
<1>5. CASE (\E s \in {"SIGTERM", "SIGINT"} : Signal(s)) \/ Timeout \/ Quit
  BY <1>5, StopTracks, QuitTracks
<1>6. CASE Serve
  BY <1>2, <1>6, ServeTracks
<1>7. CASE Die \/ Begin
  BY <1>7, DieTracks, BeginTracks
<1>8. ASSUME NEW c \in Calls, OtherCalls(c) PROVE Tracks'
  <2>1. Elsewhere
    BY <1>1, <1>8, OtherStep
  <2>2. \A n \in Names : Ignores(n)
    BY <1>1, <1>8, OtherIgnores
  <2>3. QED
    BY <2>1, <2>2, ElsewhereTracks
<1>9. CASE \/ \E p \in Policies : SetAccessPolicy(p)
           \/ Start \/ Stop \/ UNCHANGED vars
  <2>1. Elsewhere
    BY <1>1, <1>9, ChangeStep, StutterStep
  <2>2. \A n \in Names : Ignores(n)
    BY <1>1, <1>9, ChangeIgnores
  <2>3. QED
    BY <2>1, <2>2, ElsewhereTracks
<1>10. QED
  BY <1>4, <1>5, <1>6, <1>7, <1>8, <1>9 DEF Next, Environment

LEMMA ResetIsDone ==
  ASSUME CInv
  PROVE  ResetIsComplete
<1>1. TInv /\ Progress /\ Quiet /\ \A n \in Names : Tracked(n)
  BY DEF CInv, Tracks, SInv, RInv
<1>2. SUFFICES ASSUME ~app.running, app.ret = "OK", server.up, EndsWithReset(program),
                      \A i \in DOMAIN done : done[i].answer = "OK"
               PROVE  server.core.enabled \ touched = Defaults \ touched
  BY DEF ResetIsComplete
<1>3. WentWell
  <2>1. DOMAIN done = 1..Len(done)
    <3>1. PICK R : R = [key : Keys, answer : Answers, life : Nat]
      OBVIOUS
    <3>2. done \in Seq(R)
      BY <1>1, <3>1 DEF TInv
    <3>3. QED
      BY <3>2
  <2>2. QED
    BY <1>2, <2>1 DEF WentWell
<1>4. app.call = None /\ app.actions = <<>>
  BY <1>1, <1>2 DEF Progress
<1>5. ~EndsWithReset(app.actions)
  BY <1>4 DEF EndsWithReset
<1>6. \A i \in 1..Len(requests) : ~Live(i)
  BY <1>1, <1>2, <1>4 DEF Quiet
<1>7. ASSUME NEW n \in Names, n \notin touched
      PROVE  n \in server.core.enabled <=> n \in Defaults
  <2>1. Restored(n)
    BY <1>1, <1>2, <1>3, <1>5, <1>7 DEF Tracked, Resetting
  <2>2. QED
    BY <1>2, <1>6, <1>7, <2>1 DEF Restored, On
<1>8. server.core.enabled \subseteq Names /\ Defaults \subseteq Names
  BY <1>1, CallConstants DEF TInv, Server, Core
<1>9. QED
  BY <1>7, <1>8

(* When a tool whose last action was a reset says that it has succeeded, and *)
(* none of its calls was refused, the categories of the server are what they *)
(* were at first, except those others have changed since the client asked    *)
(* for them: whatever the actions before it were, and whoever changed        *)
(* settings or started the server again meanwhile (app_action_reset,         *)
(* client_connected, dbus_log_client_category_flags_changed).                *)
THEOREM ResetsRestore == Spec => []ResetIsComplete
<1>1. Init => CInv
  BY TracksAtFirst
<1>2. CInv /\ [Next]_vars => CInv'
  BY TracksStep
<1>3. CInv => ResetIsComplete
  BY ResetIsDone
<1>4. QED
  BY <1>1, <1>2, <1>3, PTL DEF Spec
=============================================================================
