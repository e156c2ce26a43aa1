-------------------------- MODULE LogSessionProofs --------------------------
(***************************************************************************)
(* Theorems about LogSession, for any number of objects, calls and lives   *)
(* of the server.  Calls are known by their numbers, which are never used  *)
(* again; an object notes two of them, and every call knows its object.    *)
(* The last part is about the order in which requests and answers cross.   *)
(***************************************************************************)
EXTENDS LogSession, FiniteSetTheorems, SequenceTheorems, TLAPS

Object ==
  [held : BOOLEAN, alive : BOOLEAN, autostarts : BOOLEAN, proxy : Nat, init : Nat,
   autostart : Nat, started : BOOLEAN, receiver : Nat, cookie : Nat, sound : BOOLEAN]
CallsUpTo(n) == [call : 1..n, object : Objects, cancelled : BOOLEAN]
Server ==
  [up : BOOLEAN, allows : BOOLEAN, lives : Nat,
   peer : [stream : Nat, object : Objects \cup {None}]]
States == {"open", "ended"}

(* What is said of a call which has not finished is said to its object, and  *)
(* streams are not opened by initializations.                                *)
Addressed(m) ==
  /\ \A c \in calls : m.call = c.call => m.object = c.object
  /\ m.type \in {"LogOpen", "Opened"} => m.call \notin {None, objects[m.object].init}
Asking ==
  {r \in [type : {"GetAll", "LogOpen", "LogClose"}, call : 0..made, object : Objects, life : Nat] :
     Addressed(r)}
Telling ==
  {e \in [type : {"Appeared", "Vanished", "Initialized", "Opened", "Failed"},
          call : 0..made, object : Objects, stream : 0..Len(streams), life : Nat] :
     Addressed(e) /\ (e.type = "Opened" => e.stream # None)}

Unique(all) == \A c, d \in all : c.call = d.call => c = d

(* The calls an object notes as its own have neither finished nor been       *)
(* cancelled.                                                                *)
Noted(x, o, all) ==
  /\ x.init # None => CallOf(x.init, o) \in all
  /\ x.autostart # None => CallOf(x.autostart, o) \in all
  /\ x.init = x.autostart => x.init = None

(* One object, and those of `all' which are its calls.                       *)
Sane(x, o, all) ==
  /\ Noted(x, o, all) /\ x.sound
  /\ x.held \/ x.receiver # None => x.alive
  /\ x.started <=> x.receiver # None

CInv ==
  /\ made \in Nat /\ objects \in [Objects -> Object] /\ calls \in SUBSET CallsUpTo(made)
  /\ streams \in Seq(States) /\ server \in Server
  /\ requests \in Seq(Asking) /\ events \in Seq(Telling)
  /\ Unique(calls) /\ \A c \in calls : objects[c.object].alive
  /\ \A o \in Objects : Sane(objects[o], o, calls)

(* A stream is in one answer or at one receiver.                             *)
Owners ==
  /\ \A i, j \in 1..Len(events) :
       events[i].stream = events[j].stream /\ events[i].stream # None => i = j
  /\ \A i \in 1..Len(events), o \in Objects :
       events[i].stream # None => objects[o].receiver # events[i].stream
  /\ \A o, p \in Objects :
       objects[o].receiver = objects[p].receiver /\ objects[o].receiver # None => o = p
  /\ \A o \in Objects : objects[o].receiver <= Len(streams)

SInv == CInv /\ Owners

-----------------------------------------------------------------------------
(* Lemmas about sequences                                                    *)

LEMMA TailIs ==
  ASSUME NEW S, NEW seq \in Seq(S), seq # <<>>
  PROVE  /\ Head(seq) \in S /\ Head(seq) = seq[1] /\ 1 \in 1..Len(seq)
         /\ Tail(seq) \in Seq(S) /\ Len(Tail(seq)) = Len(seq) - 1
         /\ \A i \in 1..Len(seq) - 1 : Tail(seq)[i] = seq[i + 1]
OBVIOUS

LEMMA JoinIs ==
  ASSUME NEW S, NEW seq \in Seq(S), NEW t \in Seq(S)
  PROVE  /\ seq \o t \in Seq(S) /\ Len(seq \o t) = Len(seq) + Len(t)
         /\ \A i \in 1..Len(seq) : (seq \o t)[i] = seq[i]
         /\ \A i \in 1..Len(t) : (seq \o t)[Len(seq) + i] = t[i]
OBVIOUS

LEMMA WiderSeq ==
  ASSUME NEW S, NEW T, S \subseteq T, NEW seq \in Seq(S)
  PROVE  seq \in Seq(T)
OBVIOUS

-----------------------------------------------------------------------------
(* Sets of calls                                                             *)

(* What may be left of the calls when something happens to object o.         *)
Kept(old, o) ==
  /\ old \in SUBSET CallsUpTo(made) /\ Unique(old)
  /\ \A c \in old : \E d \in calls : d.call = c.call /\ d.object = c.object
  /\ \A c \in calls : c.object # o => c \in old
Owned(j, o) == \A c \in calls : c.call = j => c.object = o
New(o, n) == {CallOf(j, o) : j \in made + 1..n}

LEMMA CancelledIs ==
  ASSUME NEW n \in Nat, NEW all \in SUBSET CallsUpTo(n), NEW j
  PROVE  /\ Cancelled(all, j) \in SUBSET CallsUpTo(n)
         /\ \A c \in Cancelled(all, j) : \E d \in all :
              d.call = c.call /\ d.object = c.object
              /\ c = [d EXCEPT !.cancelled = d.cancelled \/ d.call = j]
         /\ \A c \in all : c.call # j => c \in Cancelled(all, j)
<1>1. ASSUME NEW d \in all
      PROVE  LET c == [d EXCEPT !.cancelled = d.cancelled \/ d.call = j]
             IN  c \in CallsUpTo(n) /\ c.call = d.call /\ c.object = d.object
  BY DEF CallsUpTo
<1>2. ASSUME NEW c \in all, c.call # j PROVE c = [c EXCEPT !.cancelled = c.cancelled \/ c.call = j]
  <2>1. c \in CallsUpTo(n)
    OBVIOUS
  <2>2. CASE c.cancelled
    BY <1>2, <2>1, <2>2 DEF CallsUpTo
  <2>3. CASE ~c.cancelled
    BY <1>2, <2>1, <2>3 DEF CallsUpTo
  <2>4. QED
    BY <2>2, <2>3
<1>3. ASSUME NEW c \in Cancelled(all, j)
      PROVE  /\ c \in CallsUpTo(n)
             /\ \E d \in all :
                  d.call = c.call /\ d.object = c.object
                  /\ c = [d EXCEPT !.cancelled = d.cancelled \/ d.call = j]
  <2>1. PICK d \in all : c = [d EXCEPT !.cancelled = d.cancelled \/ d.call = j]
    BY DEF Cancelled
  <2>2. QED
    BY <1>1, <2>1
<1>4. ASSUME NEW c \in all, c.call # j PROVE c \in Cancelled(all, j)
  BY <1>2, <1>4 DEF Cancelled
<1>5. QED
  BY <1>3, <1>4

LEMMA KeptCalls ==
  ASSUME CInv, NEW o \in Objects
  PROVE  Kept(calls, o)
BY DEF CInv, Kept

LEMMA KeptCancelled ==
  ASSUME CInv, NEW o \in Objects, NEW old, Kept(old, o), NEW j, Owned(j, o)
  PROVE  /\ Kept(Cancelled(old, j), o)
         /\ \A c \in old : c.call # j => c \in Cancelled(old, j)
<1>1. made \in Nat /\ old \in SUBSET CallsUpTo(made) /\ Unique(old)
  BY DEF CInv, Kept
<1>2. PICK new : new = Cancelled(old, j)
  OBVIOUS
<1>3. /\ new \in SUBSET CallsUpTo(made)
      /\ \A c \in new : \E d \in old :
           d.call = c.call /\ d.object = c.object
           /\ c = [d EXCEPT !.cancelled = d.cancelled \/ d.call = j]
      /\ \A c \in old : c.call # j => c \in new
  BY <1>1, <1>2, CancelledIs
<1>4. Unique(new)
  BY <1>1, <1>3 DEF Unique
<1>5. \A c \in new : \E d \in calls : d.call = c.call /\ d.object = c.object
  BY <1>3 DEF Kept
<1>6. \A c \in calls : c.object # o => c \in new
  BY <1>3 DEF Kept, Owned
<1>7. QED
  BY <1>2, <1>3, <1>4, <1>5, <1>6 DEF Kept

LEMMA KeptFinished ==
  ASSUME CInv, NEW o \in Objects, NEW k, Owned(k, o)
  PROVE  Kept(Finished(k), o)
BY DEF CInv, Kept, Owned, Finished, Unique

(* The calls an object notes are its own.                                    *)
LEMMA NotedAreOwned ==
  ASSUME CInv, NEW o \in Objects
  PROVE  /\ Owned(objects[o].init, o) /\ Owned(objects[o].autostart, o)
         /\ objects[o].init \in 0..made /\ objects[o].autostart \in 0..made
<1>1. /\ Noted(objects[o], o, calls) /\ Unique(calls) /\ calls \in SUBSET CallsUpTo(made)
      /\ made \in Nat
  BY DEF CInv, Sane
<1>2. ASSUME NEW k, k # None => CallOf(k, o) \in calls
      PROVE  Owned(k, o) /\ k \in 0..made
  <2>1. \A c \in calls : c.call \in 1..made
    BY <1>1 DEF CallsUpTo
  <2>2. CASE k = None
    BY <1>1, <2>1, <2>2 DEF Owned, None
  <2>3. CASE k # None
    <3>1. CallOf(k, o) \in calls /\ CallOf(k, o).call = k /\ CallOf(k, o).object = o
      BY <1>2, <2>3 DEF CallOf
    <3>2. Owned(k, o)
      BY <1>1, <3>1 DEF Owned, Unique
    <3>3. QED
      BY <1>1, <2>1, <3>1, <3>2
  <2>4. QED
    BY <2>2, <2>3
<1>3. QED
  BY <1>1, <1>2 DEF Noted

-----------------------------------------------------------------------------
(* What happens to one object                                                *)

(* Messages on their way stay well addressed: calls are never used again.    *)
LEMMA StillAddressed ==
  ASSUME made \in Nat, made' \in Nat, made <= made',
         Len(streams) \in Nat, Len(streams') \in Nat, Len(streams) <= Len(streams'),
         \A c \in calls' : \/ c.call \in made + 1..made'
                           \/ \E d \in calls : d.call = c.call /\ d.object = c.object,
         \A o \in Objects : \/ objects'[o].init \in {None, objects[o].init}
                            \/ objects'[o].init \in made + 1..made'
  PROVE  Asking \subseteq Asking' /\ Telling \subseteq Telling'
<1>1. ASSUME NEW m, m.call \in 0..made, m.object \in Objects, Addressed(m)
      PROVE  Addressed(m)' /\ m.call \in 0..made'
  <2>1. ASSUME NEW c \in calls', m.call = c.call PROVE m.object = c.object
    <3>1. c.call \notin made + 1..made'
      BY <1>1, <2>1
    <3>2. QED
      BY <1>1, <2>1, <3>1 DEF Addressed
  <2>2. ASSUME m.type \in {"LogOpen", "Opened"}
        PROVE  m.call \notin {None, objects'[m.object].init}
    <3>1. m.call \notin {None, objects[m.object].init}
      BY <1>1, <2>2 DEF Addressed
    <3>2. m.call \notin made + 1..made'
      BY <1>1
    <3>3. QED
      BY <1>1, <3>1, <3>2
  <2>3. m.call \in 0..made'
    BY <1>1
  <2>4. QED
    BY <2>1, <2>2, <2>3 DEF Addressed
<1>2. ASSUME NEW r \in Asking PROVE r \in Asking'
  <2>1. /\ r.type \in {"GetAll", "LogOpen", "LogClose"} /\ r.call \in 0..made
        /\ r.object \in Objects /\ r.life \in Nat /\ Addressed(r)
        /\ r = [type |-> r.type, call |-> r.call, object |-> r.object, life |-> r.life]
    BY DEF Asking
  <2>2. Addressed(r)' /\ r.call \in 0..made'
    BY <1>1, <2>1
  <2>3. QED
    BY <2>1, <2>2 DEF Asking
<1>3. ASSUME NEW e \in Telling PROVE e \in Telling'
  <2>1. /\ e.type \in {"Appeared", "Vanished", "Initialized", "Opened", "Failed"}
        /\ e.call \in 0..made /\ e.object \in Objects /\ e.stream \in 0..Len(streams)
        /\ e.life \in Nat /\ Addressed(e) /\ (e.type = "Opened" => e.stream # None)
        /\ e = [type |-> e.type, call |-> e.call, object |-> e.object,
                stream |-> e.stream, life |-> e.life]
    BY DEF Telling
  <2>2. Addressed(e)' /\ e.call \in 0..made' /\ e.stream \in 0..Len(streams')
    BY <1>1, <2>1
  <2>3. QED
    BY <2>1, <2>2 DEF Telling
<1>4. QED
  BY <1>2, <1>3

(* Requests an object may send while calls up to n are made and `init' is to *)
(* be its initialization.                                                    *)
Sent(o, n, init) ==
  {r \in [type : {"GetAll", "LogOpen"}, call : made + 1..n, object : {o}, life : Nat] :
     r.type = "LogOpen" => r.call # init}
Farewells(o) == [type : {"LogClose"}, call : {None}, object : {o}, life : Nat]

LEMMA ObjectChanges ==
  ASSUME CInv, NEW o \in Objects, NEW x \in Object, NEW old, Kept(old, o),
         made' \in Nat, made <= made', calls' = old \cup New(o, made'),
         objects[o].alive, objects' \in [Objects -> Object], objects'[o] = x,
         \A p \in Objects : p # o => objects'[p] = objects[p],
         Sane(x, o, calls'), x.alive \/ \A c \in calls' : c.object # o,
         x.init \in {None, objects[o].init} \/ x.init \in made + 1..made',
         NEW sent \in Seq(Sent(o, made', x.init) \cup Farewells(o)), requests' = requests \o sent,
         events' \in Seq(Telling), UNCHANGED <<streams, server>>
  PROVE  CInv'
<1>1. /\ made \in Nat /\ objects \in [Objects -> Object] /\ calls \in SUBSET CallsUpTo(made)
      /\ streams \in Seq(States) /\ server \in Server
      /\ requests \in Seq(Asking)
      /\ Unique(calls) /\ \A c \in calls : objects[c.object].alive
      /\ \A p \in Objects : Sane(objects[p], p, calls)
  BY DEF CInv
<1>2. /\ old \in SUBSET CallsUpTo(made) /\ Unique(old)
      /\ \A c \in old : \E d \in calls : d.call = c.call /\ d.object = c.object
      /\ \A c \in calls : c.object # o => c \in old
  BY DEF Kept
<1>3. \A c \in New(o, made') : /\ c.call \in made + 1..made' /\ c.object = o
                               /\ c = CallOf(c.call, o) /\ c \in CallsUpTo(made')
  <2>1. ASSUME NEW c \in New(o, made')
        PROVE  /\ c.call \in made + 1..made' /\ c.object = o
               /\ c = CallOf(c.call, o) /\ c \in CallsUpTo(made')
    <3>1. PICK j \in made + 1..made' : c = CallOf(j, o)
      BY DEF New
    <3>2. /\ c = [call |-> j, object |-> o, cancelled |-> FALSE]
          /\ c.call = j /\ c.object = o
      BY <3>1 DEF CallOf
    <3>3. j \in 1..made'
      BY <1>1
    <3>4. c \in CallsUpTo(made')
      BY <3>2, <3>3 DEF CallsUpTo
    <3>5. QED
      BY <3>1, <3>2, <3>4
  <2>2. QED
    BY <2>1
<1>4. calls' \in SUBSET CallsUpTo(made')
  <2>1. CallsUpTo(made) \subseteq CallsUpTo(made')
    BY <1>1 DEF CallsUpTo
  <2>2. QED
    BY <1>2, <1>3, <2>1
<1>5. Unique(calls')
  <2>1. ASSUME NEW c \in old, NEW d \in New(o, made') PROVE c.call # d.call
    BY <1>1, <1>2, <1>3 DEF CallsUpTo
  <2>2. \A c, d \in New(o, made') : c.call = d.call => c = d
    BY <1>3
  <2>3. QED
    BY <1>2, <2>1, <2>2 DEF Unique
<1>6. \A c \in calls' : objects'[c.object].alive
  <2>1. ASSUME NEW c \in calls' PROVE objects'[c.object].alive
    <3>1. CASE c.object = o
      BY <3>1
    <3>2. CASE c.object # o
      <4>1. c \in old /\ c.object \in Objects
        BY <1>2, <1>3, <3>2 DEF CallsUpTo
      <4>2. objects[c.object].alive
        BY <1>1, <1>2, <4>1
      <4>3. QED
        BY <3>2, <4>1, <4>2
    <3>3. QED
      BY <3>1, <3>2
  <2>2. QED
    BY <2>1
<1>7. \A p \in Objects : Sane(objects'[p], p, calls')
  <2>1. ASSUME NEW p \in Objects, p # o PROVE Sane(objects[p], p, calls')
    <3>1. \A k : CallOf(k, p) \in calls => CallOf(k, p) \in calls'
      BY <1>2, <2>1 DEF CallOf
    <3>2. QED
      BY <1>1, <3>1 DEF Sane, Noted
  <2>2. QED
    BY <2>1
<1>8. Asking \subseteq Asking' /\ Telling \subseteq Telling'
  <2>1. \A c \in calls' : \/ c.call \in made + 1..made'
                          \/ \E d \in calls : d.call = c.call /\ d.object = c.object
    BY <1>2, <1>3
  <2>2. Len(streams) \in Nat /\ Len(streams') = Len(streams)
    BY <1>1
  <2>3. \A p \in Objects : \/ objects'[p].init \in {None, objects[p].init}
                           \/ objects'[p].init \in made + 1..made'
    OBVIOUS
  <2>4. QED
    BY <1>1, <2>1, <2>2, <2>3, StillAddressed
<1>9. Sent(o, made', x.init) \cup Farewells(o) \subseteq Asking'
  <2>1. ASSUME NEW r \in Sent(o, made', x.init) PROVE r \in Asking'
    <3>1. /\ r.call \in made + 1..made' /\ r.object = o /\ r.life \in Nat
          /\ r.type \in {"GetAll", "LogOpen"} /\ r.call \in 0..made' /\ r.call # None
          /\ (r.type = "LogOpen" => r.call # x.init)
          /\ r = [type |-> r.type, call |-> r.call, object |-> r.object, life |-> r.life]
      BY <1>1 DEF Sent, None
    <3>2. ASSUME NEW c \in calls', r.call = c.call PROVE r.object = c.object
      <4>1. c \notin old
        BY <1>1, <1>2, <3>1, <3>2 DEF CallsUpTo
      <4>2. QED
        BY <1>3, <3>1, <4>1
    <3>3. Addressed(r)'
      BY <3>1, <3>2 DEF Addressed
    <3>4. QED
      BY <3>1, <3>3 DEF Asking
  <2>2. ASSUME NEW r \in Farewells(o) PROVE r \in Asking'
    <3>1. /\ r.call = None /\ r.object = o /\ r.life \in Nat /\ r.type = "LogClose"
          /\ r = [type |-> r.type, call |-> r.call, object |-> r.object, life |-> r.life]
      BY DEF Farewells
    <3>2. \A c \in calls' : c.call # None
      BY <1>4 DEF CallsUpTo, None
    <3>3. Addressed(r)' /\ r.call \in 0..made'
      BY <3>1, <3>2 DEF Addressed, None
    <3>4. QED
      BY <3>1, <3>3 DEF Asking
  <2>3. QED
    BY <2>1, <2>2
<1>10. requests' \in Seq(Asking') /\ events' \in Seq(Telling')
  <2>1. requests \in Seq(Asking') /\ sent \in Seq(Asking') /\ events' \in Seq(Telling')
    BY <1>1, <1>8, <1>9, WiderSeq
  <2>2. QED
    BY <2>1, JoinIs
<1>11. streams' \in Seq(States) /\ server' \in Server
  BY <1>1
<1>12. QED
  BY <1>4, <1>5, <1>6, <1>7, <1>10, <1>11 DEF CInv

(* Become, for an object which may be finalized at the end.                  *)
LEMMA BecomeKeeps ==
  ASSUME CInv, NEW o \in Objects, NEW x \in Object, NEW old, Kept(old, o), NEW left,
         left = old \cup New(o, made'),
         made' \in Nat, made <= made', objects[o].alive, x.alive,
         NEW sent \in Seq(Sent(o, made', x.init)), Become(o, x, left, sent),
         Sane(x, o, left),
         x.init \in {None, objects[o].init} \/ x.init \in made + 1..made',
         events' \in Seq(Telling), UNCHANGED <<streams, server>>
  PROVE  /\ CInv'
         /\ \A p \in Objects : p # o => objects'[p] = objects[p]
         /\ objects'[o].receiver \in {None, x.receiver}
<1>1. PICK y : y = IF Released(x, o, left) THEN Finalized(x) ELSE x
  OBVIOUS
<1>2. PICK more : more = sent \o (IF Released(x, o, left) THEN Farewell(x, o) ELSE <<>>)
  OBVIOUS
<1>3. /\ y \in Object /\ Sane(y, o, left) /\ y.receiver \in {None, x.receiver}
      /\ y.init = x.init /\ (y.alive \/ \A c \in left : c.object # o)
  <2>1. CASE ~Released(x, o, left)
    BY <1>1, <2>1
  <2>2. CASE Released(x, o, left)
    <3>1. ~x.held /\ \A c \in left : c.object # o
      BY <2>2 DEF Released
    <3>2. x.init = None /\ x.autostart = None
      BY <3>1 DEF Sane, Noted, CallOf
    <3>3. /\ y \in Object /\ y.init = None /\ y.autostart = None /\ y.receiver = None
          /\ ~y.started /\ ~y.held
      BY <1>1, <2>2, <3>1, <3>2 DEF Finalized, Disconnected, Stopped, Object, None
    <3>4. y.sound
      BY <1>1, <2>2, <3>2 DEF Finalized, Disconnected, Stopped, Object
    <3>5. QED
      BY <3>1, <3>2, <3>3, <3>4 DEF Sane, Noted
  <2>3. QED
    BY <2>1, <2>2
<1>4. objects \in [Objects -> Object] /\ requests \in Seq(Asking)
  BY DEF CInv
<1>5. /\ objects' \in [Objects -> Object] /\ objects'[o] = y /\ calls' = left
      /\ \A p \in Objects : p # o => objects'[p] = objects[p]
  BY <1>1, <1>3, <1>4 DEF Become
<1>6. more \in Seq(Sent(o, made', y.init) \cup Farewells(o)) /\ requests' = requests \o more
  <2>1. PICK S : S = Sent(o, made', y.init) \cup Farewells(o)
    OBVIOUS
  <2>2. PICK end : end = IF Released(x, o, left) THEN Farewell(x, o) ELSE <<>>
    OBVIOUS
  <2>3. end \in Seq(S)
    <3>1. x.proxy \in Nat
      BY DEF Object
    <3>2. [type |-> "LogClose", call |-> None, object |-> o, life |-> x.proxy] \in S
      BY <2>1, <3>1 DEF Farewells
    <3>3. QED
      BY <2>2, <3>2 DEF Farewell
  <2>4. sent \in Seq(S)
    BY <1>3, <2>1, WiderSeq
  <2>5. more = sent \o end /\ requests' = requests \o sent \o end
    BY <1>2, <2>2 DEF Become
  <2>6. requests \o sent \o end = requests \o (sent \o end)
    <3>1. PICK T : T = Asking \cup S
      OBVIOUS
    <3>2. requests \in Seq(T) /\ sent \in Seq(T) /\ end \in Seq(T)
      BY <1>4, <2>3, <2>4, <3>1, WiderSeq
    <3>3. QED
      BY <3>2, ConcatAssociative
  <2>7. QED
    BY <2>1, <2>3, <2>4, <2>5, <2>6, JoinIs
<1>7. y.init \in {None, objects[o].init} \/ y.init \in made + 1..made'
  BY <1>3
<1>9. CInv'
  BY <1>3, <1>5, <1>6, <1>7, ObjectChanges
<1>10. QED
  BY <1>3, <1>5, <1>9

(* The same, when no call is made.                                           *)
LEMMA BecomeQuietly ==
  ASSUME CInv, NEW o \in Objects, NEW x \in Object, NEW left, Kept(left, o),
         objects[o].alive, x.alive, Become(o, x, left, <<>>), Sane(x, o, left),
         x.init \in {None, objects[o].init},
         events' \in Seq(Telling), UNCHANGED <<streams, server, made>>
  PROVE  /\ CInv'
         /\ \A p \in Objects : p # o => objects'[p] = objects[p]
         /\ objects'[o].receiver \in {None, x.receiver}
<1>1. made' \in Nat /\ made <= made' /\ \A j \in made + 1..made' : FALSE
  BY DEF CInv
<1>2. left = left \cup New(o, made')
  BY <1>1 DEF New
<1>3. <<>> \in Seq(Sent(o, made', x.init))
  OBVIOUS
<1>4. QED
  BY <1>1, <1>2, <1>3, BecomeKeeps

-----------------------------------------------------------------------------
(* The application                                                           *)

LEMMA AliveObject ==
  ASSUME CInv, NEW o \in Objects
  PROVE  /\ objects[o] \in Object /\ Sane(objects[o], o, calls) /\ made \in Nat
         /\ objects[o].held \/ objects[o].receiver # None => objects[o].alive
         /\ calls \in SUBSET CallsUpTo(made) /\ events \in Seq(Telling)
         /\ \A c \in calls : c.object = o => objects[o].alive
BY DEF CInv, Sane

LEMMA AppUnrefStep ==
  ASSUME CInv, NEW o \in Objects, AppUnref(o)
  PROVE  /\ CInv'
         /\ \A p \in Objects : objects'[p].receiver \in {None, objects[p].receiver}
<1>1. PICK x : x = [objects[o] EXCEPT !.held = FALSE]
  OBVIOUS
<1>2. /\ Become(o, x, calls, <<>>) /\ objects[o].held
      /\ UNCHANGED <<events, streams, server, made, dropped>>
  BY <1>1 DEF AppUnref
<1>3. x \in Object /\ x.receiver = objects[o].receiver /\ x.alive /\ x.init = objects[o].init
  BY <1>1, <1>2, AliveObject DEF Object
<1>4. Sane(x, o, calls)
  BY <1>1, <1>2, <1>3, AliveObject DEF Object, Sane, Noted
<1>5. /\ CInv'
      /\ \A p \in Objects : p # o => objects'[p] = objects[p]
      /\ objects'[o].receiver \in {None, x.receiver}
  BY <1>2, <1>3, <1>4, AliveObject, KeptCalls, BecomeQuietly
<1>6. QED
  BY <1>3, <1>5

LEMMA AppStartStep ==
  ASSUME CInv, NEW o \in Objects, AppStart(o)
  PROVE  /\ CInv'
         /\ \A p \in Objects : objects'[p].receiver \in {None, objects[p].receiver}
<1>1. PICK sent : sent = <<Request("LogOpen", made + 1, o)>>
  OBVIOUS
<1>2. PICK left : left = calls \cup {CallOf(made + 1, o)}
  OBVIOUS
<1>3. /\ made' = made + 1 /\ objects[o].held /\ Become(o, objects[o], left, sent)
      /\ UNCHANGED <<events, streams, server>>
  BY <1>1, <1>2 DEF AppStart
<1>4. made \in Nat /\ made' \in Nat /\ made <= made' /\ made + 1..made' = {made + 1}
  BY <1>3, AliveObject
<1>5. left = calls \cup New(o, made')
  BY <1>2, <1>4 DEF New
<1>6. sent \in Seq(Sent(o, made', objects[o].init))
  <2>1. objects[o].init # made + 1
    BY <1>4, NotedAreOwned
  <2>2. Request("LogOpen", made + 1, o) \in Sent(o, made', objects[o].init)
    BY <1>4, <2>1, AliveObject DEF Request, Sent, Object
  <2>3. QED
    BY <1>1, <2>2
<1>7. Sane(objects[o], o, left)
  BY <1>2, AliveObject DEF Sane, Noted
<1>8. /\ CInv'
      /\ \A p \in Objects : p # o => objects'[p] = objects[p]
      /\ objects'[o].receiver \in {None, objects[o].receiver}
  BY <1>3, <1>4, <1>5, <1>6, <1>7, AliveObject, KeptCalls, BecomeKeeps
<1>9. QED
  BY <1>8

LEMMA AppCancelStep ==
  ASSUME CInv, NEW c \in calls, AppCancel(c)
  PROVE  CInv' /\ UNCHANGED objects
<1>1. PICK o, x, old : o = c.object /\ x = objects[o] /\ old = Cancelled(calls, c.call)
  OBVIOUS
<1>2. /\ o \in Objects /\ x \in Object /\ x.alive /\ Sane(x, o, calls) /\ made \in Nat
      /\ objects \in [Objects -> Object] /\ events \in Seq(Telling) /\ requests \in Seq(Asking)
      /\ Owned(c.call, o)
  BY <1>1 DEF CInv, CallsUpTo, Unique, Owned
<1>3. /\ c.call # x.autostart /\ c.call # x.init /\ calls' = old
      /\ UNCHANGED <<objects, requests, events, streams, server, made>>
  BY <1>1 DEF AppCancel
<1>4. Kept(old, o) /\ \A d \in calls : d.call # c.call => d \in old
  BY <1>1, <1>2, KeptCalls, KeptCancelled
<1>5. Sane(x, o, old)
  <2>1. \A k : CallOf(k, o).call = k
    BY DEF CallOf
  <2>2. QED
    BY <1>2, <1>3, <1>4, <2>1 DEF Sane, Noted
<1>6. /\ old = old \cup New(o, made')
      /\ <<>> \in Seq(Sent(o, made', x.init) \cup Farewells(o)) /\ requests' = requests \o <<>>
      /\ made' \in Nat /\ made <= made'
  <2>1. made' \in Nat /\ made <= made' /\ \A j \in made + 1..made' : FALSE
    BY <1>2, <1>3
  <2>2. QED
    BY <1>2, <1>3, <2>1 DEF New
<1>7. QED
  BY <1>1, <1>2, <1>3, <1>4, <1>5, <1>6, ObjectChanges

LEMMA ReceiverClosedStep ==
  ASSUME CInv, NEW o \in Objects, ReceiverClosed(o)
  PROVE  /\ CInv'
         /\ \A p \in Objects : objects'[p].receiver \in {None, objects[p].receiver}
<1>1. PICK x, left : x = Stopped(objects[o]) /\ left = Cancelled(calls, objects[o].autostart)
  OBVIOUS
<1>2. /\ Become(o, x, left, <<>>) /\ objects[o].alive
      /\ UNCHANGED <<events, streams, server, made>>
  BY <1>1, AliveObject DEF ReceiverClosed
<1>3. /\ Kept(left, o) /\ \A c \in calls : c.call # objects[o].autostart => c \in left
  BY <1>1, KeptCalls, NotedAreOwned, KeptCancelled
<1>4. /\ x \in Object /\ x.receiver = None /\ x.alive /\ x.init = objects[o].init /\ x.sound
      /\ x.autostart = None /\ ~x.started
  BY <1>1, <1>2, AliveObject DEF Object, Sane, Stopped, None
<1>5. Sane(x, o, left)
  <2>1. \A k : CallOf(k, o).call = k
    BY DEF CallOf
  <2>2. x.init # None => CallOf(x.init, o) \in left
    BY <1>3, <1>4, <2>1, AliveObject DEF Sane, Noted
  <2>3. QED
    BY <1>4, <2>2 DEF Sane, Noted
<1>6. /\ CInv'
      /\ \A p \in Objects : p # o => objects'[p] = objects[p]
      /\ objects'[o].receiver \in {None, x.receiver}
  BY <1>2, <1>3, <1>4, <1>5, AliveObject, BecomeQuietly
<1>7. QED
  BY <1>4, <1>6

-----------------------------------------------------------------------------
(* The main loop                                                             *)

LEMMA CancelledFinishedStep ==
  ASSUME CInv, NEW c \in calls, CancelledFinished(c)
  PROVE  /\ CInv'
         /\ \A p \in Objects : objects'[p].receiver \in {None, objects[p].receiver}
<1>1. PICK o, x, left : o = c.object /\ x = objects[o] /\ left = calls \ {c}
  OBVIOUS
<1>2. o \in Objects /\ x.alive /\ Sane(x, o, calls) /\ x \in Object
  BY <1>1 DEF CInv, CallsUpTo
<1>3. c.cancelled /\ Become(o, x, left, <<>>) /\ UNCHANGED <<events, streams, server, made>>
  BY <1>1 DEF CancelledFinished
<1>4. Kept(left, o)
  BY <1>1 DEF CInv, Kept, Unique
<1>5. Sane(x, o, left)
  <2>1. \A k : CallOf(k, o) # c
    BY <1>3 DEF CallOf
  <2>2. QED
    BY <1>1, <1>2, <2>1 DEF Sane, Noted
<1>6. /\ CInv'
      /\ \A p \in Objects : p # o => objects'[p] = objects[p]
      /\ objects'[o].receiver \in {None, x.receiver}
  BY <1>1, <1>2, <1>3, <1>4, <1>5, AliveObject, BecomeQuietly
<1>7. QED
  BY <1>1, <1>6

(* An object is told something.                                              *)
LEMMA Received ==
  ASSUME CInv, events # <<>>, events' = Tail(events)
  PROVE  LET e == Head(events)
         IN  /\ e \in Telling /\ Addressed(e) /\ e.object \in Objects /\ e.life \in Nat
             /\ e.call \in 0..made /\ e.stream \in 0..Len(streams) /\ e.stream \in Nat
             /\ Owned(e.call, e.object)
             /\ (e.type = "Opened" => e.stream # None)
             /\ (Pending(e.call) => objects[e.object].alive)
             /\ events' \in Seq(Telling)
<1>1. PICK e : e = Head(events)
  OBVIOUS
<1>2. e \in Telling /\ events' \in Seq(Telling)
  BY <1>1, TailIs DEF CInv
<1>3. /\ Addressed(e) /\ e.object \in Objects /\ e.life \in Nat
      /\ e.call \in 0..made /\ e.stream \in 0..Len(streams) /\ e.stream \in Nat
      /\ (e.type = "Opened" => e.stream # None)
  BY <1>2 DEF Telling
<1>4. Owned(e.call, e.object)
  BY <1>3 DEF Addressed, Owned
<1>5. Pending(e.call) => objects[e.object].alive
  BY <1>4 DEF Pending, Owned, CInv
<1>6. QED
  BY <1>1, <1>2, <1>3, <1>4, <1>5

LEMMA OnlyEvents ==
  ASSUME CInv, events' \in Seq(Telling),
         UNCHANGED <<objects, calls, requests, streams, server, made>>
  PROVE  CInv'
<1>1. Asking' = Asking /\ Telling' = Telling
  BY DEF Asking, Telling, Addressed
<1>2. QED
  BY <1>1 DEF CInv

LEMMA LateAnswerStep ==
  ASSUME CInv, LateAnswer
  PROVE  CInv' /\ UNCHANGED objects
BY Received, OnlyEvents DEF LateAnswer

LEMMA NameAppearedStep ==
  ASSUME CInv, NameAppeared
  PROVE  /\ CInv'
         /\ \A p \in Objects : objects'[p].receiver \in {None, objects[p].receiver}
<1>1. PICK e, o, k : e = Head(events) /\ o = e.object /\ k = made + 1
  OBVIOUS
<1>2. /\ events # <<>> /\ events' = Tail(events) /\ UNCHANGED <<streams, server>>
      /\ o \in Objects /\ e.life \in Nat /\ events' \in Seq(Telling)
  BY <1>1, Received DEF NameAppeared, Receive
<1>3. CASE ~objects[o].alive
  BY <1>1, <1>2, <1>3, OnlyEvents DEF NameAppeared
<1>4. CASE objects[o].alive
  <2>1. PICK x : x = [objects[o] EXCEPT !.init = k]
    OBVIOUS
  <2>2. PICK old : old = Cancelled(calls, objects[o].init)
    OBVIOUS
  <2>3. PICK sent : sent = <<[type |-> "GetAll", call |-> k, object |-> o, life |-> e.life]>>
    OBVIOUS
  <2>4. PICK left : left = old \cup {CallOf(k, o)}
    OBVIOUS
  <2>5. made' = k /\ Become(o, x, left, sent)
    BY <1>1, <1>4, <2>1, <2>2, <2>3, <2>4 DEF NameAppeared
  <2>6. made \in Nat /\ made' \in Nat /\ made <= made' /\ made + 1..made' = {k} /\ k \in Nat
    <3>1. made \in Nat
      BY DEF CInv
    <3>2. QED
      BY <1>1, <2>5, <3>1
  <2>7. left = old \cup New(o, made')
    BY <2>4, <2>6 DEF New
  <2>8. sent \in Seq(Sent(o, made', x.init))
    <3>1. [type |-> "GetAll", call |-> k, object |-> o, life |-> e.life]
            \in Sent(o, made', x.init)
      BY <1>2, <2>6 DEF Sent
    <3>2. QED
      BY <2>3, <3>1
  <2>9. Kept(old, o) /\ \A c \in calls : c.call # objects[o].init => c \in old
    BY <1>2, <2>2, KeptCalls, NotedAreOwned, KeptCancelled
  <2>10. /\ x \in Object /\ x.receiver = objects[o].receiver /\ x.alive /\ x.init = k
         /\ x.autostart = objects[o].autostart /\ x.sound = objects[o].sound
         /\ x.held = objects[o].held /\ x.started = objects[o].started
    BY <1>2, <1>4, <2>1, <2>6, AliveObject DEF Object
  <2>11. Sane(x, o, left)
    <3>1. \A j : CallOf(j, o).call = j
      BY DEF CallOf
    <3>2. x.autostart # None => CallOf(x.autostart, o) \in left
      BY <1>2, <2>4, <2>9, <2>10, <3>1, AliveObject DEF Sane, Noted
    <3>3. x.autostart # k
      BY <1>1, <1>2, <2>6, <2>10, NotedAreOwned
    <3>4. QED
      BY <1>2, <1>4, <2>4, <2>10, <3>2, <3>3, AliveObject DEF Sane, Noted
  <2>12. /\ CInv'
         /\ \A p \in Objects : p # o => objects'[p] = objects[p]
         /\ objects'[o].receiver \in {None, x.receiver}
    BY <1>2, <1>4, <2>5, <2>6, <2>7, <2>8, <2>9, <2>10, <2>11, BecomeKeeps
  <2>13. QED
    BY <2>10, <2>12
<1>5. QED
  BY <1>3, <1>4

LEMMA NameVanishedStep ==
  ASSUME CInv, NameVanished
  PROVE  /\ CInv'
         /\ \A p \in Objects : objects'[p].receiver \in {None, objects[p].receiver}
<1>1. PICK e, o : e = Head(events) /\ o = e.object
  OBVIOUS
<1>2. /\ events # <<>> /\ events' = Tail(events) /\ UNCHANGED <<streams, server, made>>
      /\ o \in Objects /\ events' \in Seq(Telling)
  BY <1>1, Received DEF NameVanished, Receive
<1>3. CASE ~objects[o].alive
  BY <1>1, <1>2, <1>3, OnlyEvents DEF NameVanished
<1>4. CASE objects[o].alive
  <2>1. PICK x : x = [Disconnected(objects[o]) EXCEPT !.init = None]
    OBVIOUS
  <2>2. PICK old : old = Cancelled(calls, objects[o].init)
    OBVIOUS
  <2>3. PICK left : left = Cancelled(old, objects[o].autostart)
    OBVIOUS
  <2>4. Become(o, x, left, <<>>)
    BY <1>1, <1>4, <2>1, <2>2, <2>3 DEF NameVanished
  <2>5. Kept(left, o)
    BY <1>2, <2>2, <2>3, KeptCalls, NotedAreOwned, KeptCancelled
  <2>6. /\ x \in Object /\ x.receiver = None /\ x.alive /\ x.init = None /\ x.sound
        /\ x.autostart = None /\ ~x.started
    BY <1>2, <1>4, <2>1, AliveObject DEF Object, Disconnected, Stopped, Sane, None
  <2>7. Sane(x, o, left)
    BY <2>6 DEF Sane, Noted
  <2>8. /\ CInv'
        /\ \A p \in Objects : p # o => objects'[p] = objects[p]
        /\ objects'[o].receiver \in {None, x.receiver}
    BY <1>2, <1>4, <2>4, <2>5, <2>6, <2>7, BecomeQuietly
  <2>9. QED
    BY <2>6, <2>8
<1>5. QED
  BY <1>3, <1>4

LEMMA CallFailedStep ==
  ASSUME CInv, CallFailed
  PROVE  /\ CInv'
         /\ \A p \in Objects : objects'[p].receiver \in {None, objects[p].receiver}
<1>1. PICK e, o, k : e = Head(events) /\ o = e.object /\ k = e.call
  OBVIOUS
<1>2. PICK x, left : x = Failed(objects[o], k) /\ left = Finished(k)
  OBVIOUS
<1>3. /\ events # <<>> /\ events' = Tail(events) /\ UNCHANGED <<streams, server, made>>
      /\ Pending(k) /\ Become(o, x, left, <<>>)
  BY <1>1, <1>2 DEF CallFailed, Receive
<1>4. o \in Objects /\ events' \in Seq(Telling) /\ Owned(k, o) /\ objects[o].alive
  BY <1>1, <1>3, Received
<1>5. Kept(left, o)
  BY <1>2, <1>4, KeptFinished
<1>6. /\ x \in Object /\ x.receiver = objects[o].receiver /\ x.alive
      /\ x.sound = objects[o].sound /\ x.held = objects[o].held /\ x.started = objects[o].started
      /\ x.init = (IF objects[o].init = k THEN None ELSE objects[o].init)
      /\ x.autostart = (IF objects[o].autostart = k THEN None ELSE objects[o].autostart)
  <2>1. PICK y : y = objects[o]
    OBVIOUS
  <2>2. y \in Object /\ None \in Nat
    BY <1>4, <2>1, AliveObject DEF None
  <2>3. QED
    BY <1>2, <1>4, <2>1, <2>2 DEF Object, Failed
<1>7. Sane(x, o, left)
  <2>1. \A j : CallOf(j, o).call = j
    BY DEF CallOf
  <2>2. QED
    BY <1>2, <1>4, <1>6, <2>1, AliveObject DEF Sane, Noted, Finished
<1>8. /\ CInv'
      /\ \A p \in Objects : p # o => objects'[p] = objects[p]
      /\ objects'[o].receiver \in {None, x.receiver}
  BY <1>3, <1>4, <1>5, <1>6, <1>7, BecomeQuietly
<1>9. QED
  BY <1>6, <1>8

LEMMA StartFinishedStep ==
  ASSUME CInv, StartFinished
  PROVE  /\ CInv' /\ Head(events).object \in Objects
         /\ \A p \in Objects : p # Head(events).object => objects'[p] = objects[p]
         /\ objects'[Head(events).object].receiver \in {None, Head(events).stream}
<1>1. PICK e, o, k : e = Head(events) /\ o = e.object /\ k = e.call
  OBVIOUS
<1>2. PICK x, left : /\ x = Started(objects[o], e.stream)
                     /\ left = Cancelled(Finished(k), objects[o].autostart)
  OBVIOUS
<1>3. /\ events # <<>> /\ events' = Tail(events) /\ UNCHANGED <<streams, server, made>>
      /\ Pending(k) /\ e.type = "Opened" /\ Become(o, x, left, <<>>)
  BY <1>1, <1>2 DEF StartFinished, Receive
<1>4. /\ o \in Objects /\ events' \in Seq(Telling) /\ Owned(k, o) /\ objects[o].alive
      /\ e.stream \in Nat /\ e.stream # None /\ Addressed(e)
  BY <1>1, <1>3, Received
<1>5. /\ Kept(left, o)
      /\ \A c \in calls : c.call # k /\ c.call # objects[o].autostart => c \in left
  <2>1. Kept(Finished(k), o) /\ Owned(objects[o].autostart, o)
    BY <1>4, KeptFinished, NotedAreOwned
  <2>2. QED
    BY <1>2, <1>4, <2>1, KeptCancelled DEF Finished
<1>6. /\ x \in Object /\ x.receiver = e.stream /\ x.alive /\ x.sound
      /\ x.init = objects[o].init /\ x.autostart = None /\ x.started
  BY <1>2, <1>4, AliveObject DEF Object, Started, Stopped, Sane, None
<1>7. Sane(x, o, left)
  <2>1. \A j : CallOf(j, o).call = j
    BY DEF CallOf
  <2>2. k # objects[o].init
    BY <1>1, <1>3, <1>4 DEF Addressed
  <2>3. x.init # None => CallOf(x.init, o) \in left
    BY <1>4, <1>5, <1>6, <2>1, <2>2, AliveObject DEF Sane, Noted
  <2>4. QED
    BY <1>4, <1>6, <2>3 DEF Sane, Noted
<1>8. /\ CInv'
      /\ \A p \in Objects : p # o => objects'[p] = objects[p]
      /\ objects'[o].receiver \in {None, x.receiver}
  BY <1>3, <1>4, <1>5, <1>6, <1>7, BecomeQuietly
<1>9. QED
  BY <1>1, <1>4, <1>6, <1>8

LEMMA Difference ==
  ASSUME NEW a \in Nat, NEW b \in Nat, a <= b
  PROVE  b - a \in Nat
OBVIOUS

(* Object o becomes y, and makes n calls before the automatic start.         *)
Connects(o, life, y, old, n) ==
  LET last == made + n + (IF StartsItself(y) THEN 1 ELSE 0)
  IN /\ made' = last
     /\ Become(o, [y EXCEPT !.autostart = IF StartsItself(y) THEN last ELSE None],
               old \cup {CallOf(j, o) : j \in made + 1..last},
               [i \in 1..last - made |->
                  [type |-> "LogOpen", call |-> made + i, object |-> o, life |-> life]])

LEMMA ConnectedStep ==
  ASSUME CInv, Connected
  PROVE  /\ CInv'
         /\ \A p \in Objects : objects'[p].receiver \in {None, objects[p].receiver}
<1>1. PICK e, o, k, life : e = Head(events) /\ o = e.object /\ k = e.call /\ life = e.life
  OBVIOUS
<1>2. PICK y, old : /\ y = [Stopped(objects[o]) EXCEPT !.proxy = life, !.init = None]
                    /\ old = Cancelled(Finished(k), objects[o].autostart)
  OBVIOUS
<1>3. PICK n \in {0, 1} : Connects(o, life, y, old, n)
  <2>1. LET p == Head(events).object
        IN  \E n \in {0, 1} :
              Connects(p, Head(events).life,
                       [Stopped(objects[p]) EXCEPT !.proxy = Head(events).life, !.init = None],
                       Cancelled(Finished(Head(events).call), objects[p].autostart), n)
    BY DEF Connected, Connects
  <2>2. QED
    BY <1>1, <1>2, <2>1
<1>4. PICK x, left, sent :
        /\ x = [y EXCEPT !.autostart = IF StartsItself(y) THEN made' ELSE None]
        /\ left = old \cup New(o, made')
        /\ sent = [i \in 1..made' - made |->
                     [type |-> "LogOpen", call |-> made + i, object |-> o, life |-> life]]
  OBVIOUS
<1>5. /\ events # <<>> /\ events' = Tail(events) /\ UNCHANGED <<streams, server>>
      /\ Pending(k) /\ Become(o, x, left, sent)
  BY <1>1, <1>2, <1>3, <1>4 DEF Connected, Receive, New, Connects
<1>6. /\ o \in Objects /\ events' \in Seq(Telling) /\ Owned(k, o) /\ objects[o].alive
      /\ life \in Nat
  BY <1>1, <1>5, Received
<1>7. /\ made \in Nat /\ made' \in Nat /\ made <= made'
      /\ (StartsItself(y) => made' \in made + 1..made')
  <2>1. made \in Nat
    BY DEF CInv
  <2>2. CASE StartsItself(y)
    BY <1>3, <2>1, <2>2 DEF Connects
  <2>3. CASE ~StartsItself(y)
    BY <1>3, <2>1, <2>3 DEF Connects
  <2>4. QED
    BY <2>2, <2>3
<1>8. Kept(old, o)
  <2>1. Kept(Finished(k), o) /\ Owned(objects[o].autostart, o)
    BY <1>6, KeptFinished, NotedAreOwned
  <2>2. QED
    BY <1>2, <1>6, <2>1, KeptCancelled
<1>9. /\ x \in Object /\ x.receiver = None /\ x.alive /\ x.sound /\ x.init = None
      /\ x.autostart = (IF StartsItself(y) THEN made' ELSE None) /\ ~x.started
  <2>1. /\ y \in Object /\ y.receiver = None /\ y.alive /\ y.sound /\ y.init = None
        /\ ~y.started
    BY <1>2, <1>6, AliveObject DEF Object, Stopped, Sane, None
  <2>2. QED
    BY <1>4, <1>7, <2>1 DEF Object, None
<1>10. Sane(x, o, left)
  <2>1. StartsItself(y) => CallOf(made', o) \in left
    BY <1>4, <1>7 DEF New
  <2>2. QED
    BY <1>9, <2>1 DEF Sane, Noted
<1>11. sent \in Seq(Sent(o, made', x.init))
  <2>1. PICK a \in Nat, b \in Nat : a = made /\ b = made' /\ a <= b
    BY <1>7
  <2>2. ASSUME NEW i \in 1..made' - made
        PROVE  [type |-> "LogOpen", call |-> made + i, object |-> o, life |-> life]
                 \in Sent(o, made', x.init)
    <3>1. i \in 1..b - a => a + i \in a + 1..b /\ a + i # 0
      OBVIOUS
    <3>2. made + i \in made + 1..made' /\ made + i # None
      BY <2>1, <3>1 DEF None
    <3>3. QED
      BY <1>6, <1>9, <3>2 DEF Sent
  <2>3. PICK m \in Nat : m = made' - made
    BY <2>1, Difference
  <2>4. PICK S : S = Sent(o, made', x.init)
    OBVIOUS
  <2>5. sent = [i \in 1..m |->
                  [type |-> "LogOpen", call |-> made + i, object |-> o, life |-> life]]
    BY <1>4, <2>3
  <2>6. \A i \in 1..m :
          [type |-> "LogOpen", call |-> made + i, object |-> o, life |-> life] \in S
    BY <2>2, <2>3, <2>4
  <2>7. sent \in Seq(S)
    BY <2>3, <2>5, <2>6
  <2>8. QED
    BY <2>4, <2>7
<1>12. /\ CInv'
       /\ \A p \in Objects : p # o => objects'[p] = objects[p]
       /\ objects'[o].receiver \in {None, x.receiver}
  BY <1>4, <1>5, <1>6, <1>7, <1>8, <1>9, <1>10, <1>11, BecomeKeeps
<1>13. QED
  BY <1>9, <1>12

-----------------------------------------------------------------------------
(* The server and the bus                                                    *)

(* A step of the server, which appends t to the events.                      *)
LEMMA WorldChanges ==
  ASSUME CInv, UNCHANGED <<objects, calls, made>>, requests' \in Seq(Asking),
         streams' \in Seq(States), Len(streams) <= Len(streams'), server' \in Server,
         NEW t \in Seq(Telling'), events' = events \o t
  PROVE  CInv'
<1>1. /\ made \in Nat /\ Len(streams) \in Nat /\ Len(streams') \in Nat
      /\ calls' = calls /\ objects' = objects /\ made' = made
  BY DEF CInv
<1>2. Asking \subseteq Asking' /\ Telling \subseteq Telling'
  BY <1>1, StillAddressed
<1>3. requests' \in Seq(Asking') /\ events \in Seq(Telling')
  BY <1>2, WiderSeq DEF CInv
<1>4. events' \in Seq(Telling')
  BY <1>3, JoinIs
<1>5. QED
  BY <1>1, <1>3, <1>4 DEF CInv

(* What an event says, as Telling has it after a step.                       *)
LEMMA TellingIs ==
  ASSUME CInv, UNCHANGED <<objects, calls, made>>, NEW e,
         NEW type \in {"Appeared", "Vanished", "Initialized", "Opened", "Failed"},
         NEW k \in 0..made, NEW o \in Objects, NEW s \in 0..Len(streams'), NEW life \in Nat,
         e = [type |-> type, call |-> k, object |-> o, stream |-> s, life |-> life],
         \A c \in calls : k = c.call => o = c.object,
         type = "Opened" => k \notin {None, objects[o].init} /\ s # None
  PROVE  e \in Telling'
<1>1. /\ e.type = type /\ e.call = k /\ e.object = o /\ e.stream = s
      /\ calls' = calls /\ objects' = objects /\ made' = made
  OBVIOUS
<1>2. Addressed(e)'
  BY <1>1 DEF Addressed
<1>3. QED
  BY <1>1, <1>2 DEF Telling

LEMMA EndOfIs ==
  ASSUME streams \in Seq(States), NEW s
  PROVE  EndOf(s) \in Seq(States) /\ Len(EndOf(s)) = Len(streams)
<1>1. PICK n \in Nat : n = Len(streams)
  OBVIOUS
<1>2. \A i \in 1..n : (IF i = s THEN "ended" ELSE streams[i]) \in States
  BY <1>1 DEF States
<1>3. EndOf(s) = [i \in 1..n |-> IF i = s THEN "ended" ELSE streams[i]]
  BY <1>1 DEF EndOf
<1>4. QED
  BY <1>1, <1>2, <1>3

LEMMA PeerChanges ==
  ASSUME server \in Server, NEW s \in Nat, NEW o \in Objects \cup {None}
  PROVE  [server EXCEPT !.peer = [stream |-> s, object |-> o]] \in Server
<1>1. PICK peer : peer = [stream |-> s, object |-> o]
  OBVIOUS
<1>2. peer \in [stream : Nat, object : Objects \cup {None}]
  BY <1>1
<1>3. [server EXCEPT !.peer = peer] \in Server
  BY <1>2 DEF Server
<1>4. QED
  BY <1>1, <1>3

LEMMA ServeStep ==
  ASSUME CInv, Serve
  PROVE  /\ CInv' /\ UNCHANGED objects /\ Len(streams) <= Len(streams')
         /\ \E t : /\ events' = events \o t
                   /\ \/ t = <<>>
                      \/ \E e : t = <<e>> /\ e.stream \in {None} \cup (Len(streams) + 1..Len(streams'))
<1>1. PICK r, k, o, n : /\ r = Head(requests) /\ k = r.call /\ o = r.object
                        /\ n = Len(streams)
  OBVIOUS
<1>2. /\ requests # <<>> /\ requests' = Tail(requests)
      /\ UNCHANGED <<objects, calls, made>>
  BY DEF Serve
<1>3. /\ requests \in Seq(Asking) /\ streams \in Seq(States) /\ n \in Nat /\ made \in Nat
      /\ server \in Server /\ events \in Seq(Telling)
  BY <1>1 DEF CInv
<1>4. r \in Asking /\ requests' \in Seq(Asking)
  BY <1>1, <1>2, <1>3, TailIs
<1>5. /\ k \in 0..made /\ o \in Objects /\ Addressed(r)
      /\ \A c \in calls : k = c.call => o = c.object
  BY <1>1, <1>4 DEF Asking, Addressed
<1>6. /\ server.lives \in Nat /\ server.up \in BOOLEAN /\ server.allows \in BOOLEAN
      /\ server = [up |-> server.up, allows |-> server.allows, lives |-> server.lives,
                   peer |-> server.peer]
  BY <1>3 DEF Server
<1>7. CASE /\ \E type \in {"Failed", "Initialized"} :
                events' = Append(events, Event(type, k, o, None))
           /\ UNCHANGED <<streams, server>>
  <2>1. PICK type \in {"Failed", "Initialized"} :
          events' = Append(events, Event(type, k, o, None))
    BY <1>7
  <2>2. PICK e : e = Event(type, k, o, None)
    OBVIOUS
  <2>3. e = [type |-> type, call |-> k, object |-> o, stream |-> None, life |-> server.lives]
    BY <2>2 DEF Event
  <2>4. None \in 0..Len(streams')
    BY <1>1, <1>3, <1>7 DEF None
  <2>5. e \in Telling' /\ e.stream = None
    BY <1>2, <1>5, <1>6, <2>3, <2>4, TellingIs
  <2>6. events' = events \o <<e>>
    BY <1>3, <2>1, <2>2
  <2>7. Len(streams) <= Len(streams') /\ streams' \in Seq(States) /\ server' \in Server
    BY <1>1, <1>3, <1>7
  <2>8. CInv'
    <3>1. <<e>> \in Seq(Telling')
      BY <2>5
    <3>2. QED
      BY <1>2, <1>4, <2>6, <2>7, <3>1, WorldChanges
  <2>9. QED
    BY <1>2, <2>5, <2>6, <2>7, <2>8
<1>8. CASE /\ events' = events
           /\ UNCHANGED <<streams, server>>
  <2>1. Len(streams) <= Len(streams') /\ streams' \in Seq(States) /\ server' \in Server
    BY <1>1, <1>3, <1>8
  <2>2. events' = events \o <<>> /\ <<>> \in Seq(Telling')
    BY <1>3, <1>8
  <2>3. CInv'
    BY <1>2, <1>4, <2>1, <2>2, WorldChanges
  <2>4. QED
    BY <1>2, <2>1, <2>2, <2>3
<1>9. CASE /\ r.type = "LogOpen"
           /\ events' = Append(events, Event("Opened", k, o, n + 1))
           /\ streams' = Append(EndOf(server.peer.stream), "open")
           /\ server' = [server EXCEPT !.peer = [stream |-> n + 1, object |-> o]]
  <2>1. PICK ended : ended = EndOf(server.peer.stream)
    OBVIOUS
  <2>2. ended \in Seq(States) /\ Len(ended) = n
    BY <1>1, <1>3, <2>1, EndOfIs
  <2>3. streams' \in Seq(States) /\ Len(streams') = n + 1
    BY <1>9, <2>1, <2>2 DEF States
  <2>4. n + 1 \in 0..Len(streams') /\ n + 1 \in n + 1..Len(streams') /\ n + 1 # None
        /\ Len(streams) <= Len(streams')
    BY <1>1, <1>3, <2>3 DEF None
  <2>5. PICK e : e = Event("Opened", k, o, n + 1)
    OBVIOUS
  <2>6. e = [type |-> "Opened", call |-> k, object |-> o, stream |-> n + 1,
             life |-> server.lives]
    BY <2>5 DEF Event
  <2>7. k \notin {None, objects[o].init}
    BY <1>1, <1>5, <1>9 DEF Addressed
  <2>8. e \in Telling' /\ e.stream = n + 1
    BY <1>2, <1>5, <1>6, <2>4, <2>6, <2>7, TellingIs
  <2>9. events' = events \o <<e>>
    BY <1>3, <1>9, <2>5
  <2>10. server' \in Server
    <3>1. n + 1 \in Nat
      BY <1>3
    <3>2. QED
      BY <1>3, <1>5, <1>9, <3>1, PeerChanges
  <2>11. CInv'
    <3>1. <<e>> \in Seq(Telling')
      BY <2>8
    <3>2. QED
      BY <1>2, <1>4, <2>3, <2>4, <2>9, <2>10, <3>1, WorldChanges
  <2>12. QED
    BY <1>1, <1>2, <2>4, <2>8, <2>9, <2>11
<1>10. CASE /\ events' = events /\ streams' = EndOf(server.peer.stream)
            /\ server' = [server EXCEPT !.peer = NoPeer]
  <2>1. streams' \in Seq(States) /\ Len(streams') = n
    BY <1>1, <1>3, <1>10, EndOfIs
  <2>2. Len(streams) <= Len(streams') /\ server' \in Server
    <3>1. server' \in Server
      BY <1>3, <1>10, PeerChanges DEF NoPeer, None
    <3>2. QED
      BY <1>1, <1>3, <2>1, <3>1
  <2>3. events' = events \o <<>> /\ <<>> \in Seq(Telling')
    BY <1>3, <1>10
  <2>4. CInv'
    BY <1>2, <1>4, <2>1, <2>2, <2>3, WorldChanges
  <2>5. QED
    BY <1>2, <2>2, <2>3, <2>4
<1>11. QED
  <2>1. CASE ~Handled(r) /\ k = None
    BY <1>1, <1>8, <2>1 DEF Serve
  <2>2. CASE ~Handled(r) /\ k # None
    BY <1>1, <1>7, <2>2 DEF Serve
  <2>3. CASE Handled(r) /\ r.type = "GetAll"
    BY <1>1, <1>7, <2>3 DEF Serve
  <2>4. CASE Handled(r) /\ r.type = "LogOpen" /\ ~server.allows
    BY <1>1, <1>7, <2>4 DEF Serve
  <2>5. CASE Handled(r) /\ r.type = "LogOpen" /\ server.allows
    BY <1>1, <1>9, <2>5 DEF Serve
  <2>6. CASE Handled(r) /\ r.type = "LogClose"
    BY <1>1, <1>10, <2>6 DEF Serve
  <2>7. r.type \in {"GetAll", "LogOpen", "LogClose"}
    BY <1>4 DEF Asking
  <2>8. QED
    BY <2>1, <2>2, <2>3, <2>4, <2>5, <2>6, <2>7

(* Everybody can be told in a row.                                           *)
LEMMA TellIs ==
  ASSUME CInv, UNCHANGED <<objects, calls, made>>, NEW type \in {"Appeared", "Vanished"},
         NEW life \in Nat, Len(streams') \in Nat
  PROVE  /\ Tell(type, life) \in Seq(Telling')
         /\ \A i \in 1..Len(Tell(type, life)) : Tell(type, life)[i].stream = None
<1>1. PICK n \in Nat : n = Cardinality(Objects)
  BY SessionConstants, FS_CardinalityType
<1>2. PICK f \in [1..n -> Objects] : \A o \in Objects : \E i \in 1..n : f[i] = o
  <2>1. ExistsBijection(1..n, Objects)
    BY <1>1, SessionConstants, FS_CardinalityType
  <2>2. QED
    BY <2>1 DEF ExistsBijection, Bijection, Surjection
<1>3. PICK all : all = CHOOSE g \in [1..n -> Objects] :
                         \A o \in Objects : \E i \in DOMAIN g : g[i] = o
  OBVIOUS
<1>4. all \in [1..n -> Objects]
  <2>1. DOMAIN f = 1..n
    OBVIOUS
  <2>2. QED
    BY <1>2, <1>3, <2>1
<1>5. PICK tell : tell = Tell(type, life)
  OBVIOUS
<1>6. tell = [i \in DOMAIN all |-> [Event(type, None, all[i], None) EXCEPT !.life = life]]
  BY <1>1, <1>3, <1>5 DEF Tell
<1>7. ASSUME NEW i \in 1..n PROVE tell[i] \in Telling' /\ tell[i].stream = None
  <2>1. PICK o \in Objects : o = all[i]
    BY <1>4
  <2>2. tell[i] = [type |-> type, call |-> None, object |-> o, stream |-> None, life |-> life]
    BY <1>4, <1>6, <2>1 DEF Event
  <2>3. \A c \in calls : None # c.call
    BY DEF CInv, CallsUpTo, None
  <2>4. None \in 0..made /\ None \in 0..Len(streams')
    BY DEF None, CInv
  <2>5. QED
    BY <2>2, <2>3, <2>4, TellingIs
<1>8. DOMAIN tell = 1..n /\ tell = [i \in 1..n |-> tell[i]]
  BY <1>4, <1>6
<1>9. tell \in Seq(Telling') /\ Len(tell) = n
  BY <1>7, <1>8
<1>10. QED
  BY <1>5, <1>7, <1>9

LEMMA ServerStartsStep ==
  ASSUME CInv, ServerStarts
  PROVE  /\ CInv' /\ UNCHANGED objects /\ Len(streams) <= Len(streams')
         /\ \E t : /\ events' = events \o t
                   /\ t \in Seq(Telling') /\ \A i \in 1..Len(t) : t[i].stream = None
<1>1. PICK t : t = Tell("Appeared", server.lives + 1)
  OBVIOUS
<1>2. /\ events' = events \o t
      /\ UNCHANGED <<objects, calls, requests, streams, made>>
  BY <1>1 DEF ServerStarts
<1>3. /\ server \in Server /\ streams \in Seq(States) /\ requests \in Seq(Asking)
      /\ server.lives + 1 \in Nat
  BY DEF CInv, Server
<1>4. server' \in Server
  BY <1>3 DEF ServerStarts, Server, NoPeer, None
<1>5. Len(streams') \in Nat /\ Len(streams) <= Len(streams') /\ streams' \in Seq(States)
  BY <1>2, <1>3
<1>6. t \in Seq(Telling') /\ \A i \in 1..Len(t) : t[i].stream = None
  BY <1>1, <1>2, <1>3, <1>5, TellIs
<1>7. requests' \in Seq(Asking)
  BY <1>2, <1>3
<1>8. CInv'
  BY <1>2, <1>4, <1>5, <1>6, <1>7, WorldChanges
<1>9. QED
  BY <1>2, <1>5, <1>6, <1>8

LEMMA ServerDiesStep ==
  ASSUME CInv, ServerDies
  PROVE  /\ CInv' /\ UNCHANGED objects /\ Len(streams) <= Len(streams')
         /\ \E t : /\ events' = events \o t
                   /\ t \in Seq(Telling') /\ \A i \in 1..Len(t) : t[i].stream = None
<1>1. PICK t : t = Tell("Vanished", server.lives)
  OBVIOUS
<1>2. /\ events' = events \o t
      /\ UNCHANGED <<objects, calls, requests, made>>
  BY <1>1 DEF ServerDies
<1>3. /\ server \in Server /\ streams \in Seq(States) /\ requests \in Seq(Asking)
      /\ server.lives \in Nat
  BY DEF CInv, Server
<1>4. server' \in Server
  BY <1>3 DEF ServerDies, Server, NoPeer, None
<1>5. Len(streams') \in Nat /\ Len(streams) <= Len(streams') /\ streams' \in Seq(States)
  <2>1. PICK n \in Nat : n = Len(streams)
    BY <1>3
  <2>2. streams' = [i \in 1..n |-> "ended"]
    BY <1>3, <2>1 DEF ServerDies
  <2>3. QED
    BY <2>1, <2>2 DEF States
<1>6. t \in Seq(Telling') /\ \A i \in 1..Len(t) : t[i].stream = None
  BY <1>1, <1>2, <1>3, <1>5, TellIs
<1>7. requests' \in Seq(Asking)
  BY <1>2, <1>3
<1>8. CInv'
  BY <1>2, <1>4, <1>5, <1>6, <1>7, WorldChanges
<1>9. QED
  BY <1>2, <1>5, <1>6, <1>8

-----------------------------------------------------------------------------
(* Who has a stream                                                          *)

(* Nobody but a new answer, which is alone, gets a stream.                   *)
LEMMA OwnersStay ==
  ASSUME CInv, Owners, NEW t, NEW S, t \in Seq(S), Len(streams) <= Len(streams'),
         Len(streams') \in Nat,
         events' = events \o t,
         \A p \in Objects : objects'[p].receiver \in {None, objects[p].receiver},
         \A i \in 1..Len(t) :
           t[i].stream # None =>
             Len(t) = 1 /\ t[i].stream \in Len(streams) + 1..Len(streams')
  PROVE  Owners'
<1>1. PICK n \in Nat : n = Len(events)
  BY DEF CInv
<1>2. PICK m \in Nat : m = Len(t)
  OBVIOUS
<1>3. PICK l \in Nat : l = Len(streams)
  BY DEF CInv
<1>4. /\ Len(events') = n + m /\ \A i \in 1..n : events'[i] = events[i]
      /\ \A i \in 1..m : events'[n + i] = t[i]
  <2>1. PICK T : T = Telling \cup S
    OBVIOUS
  <2>2. events \in Seq(T) /\ t \in Seq(T)
    BY <2>1, WiderSeq DEF CInv
  <2>3. QED
    BY <1>1, <1>2, <2>2, JoinIs
<1>5. /\ \A i \in 1..n : events[i].stream \in 0..l
      /\ \A o \in Objects : objects'[o].receiver \in 0..l
  <2>1. \A i \in 1..n : events[i].stream \in 0..l
    BY <1>1, <1>3 DEF CInv, Telling
  <2>2. \A o \in Objects : objects[o].receiver \in Nat /\ objects[o].receiver <= l
    BY <1>3 DEF CInv, Object, Owners
  <2>3. None \in 0..l /\ \A r \in Nat : r <= l => r \in 0..l
    BY DEF None
  <2>4. QED
    BY <2>1, <2>2, <2>3
<1>6. ASSUME NEW i \in 1..n + m, events'[i].stream # None
      PROVE  \/ i \in 1..n /\ events'[i] = events[i]
             \/ m = 1 /\ i = n + 1 /\ events'[i].stream \notin 0..l
  <2>1. CASE i \in 1..n
    BY <1>4, <2>1
  <2>2. CASE i \notin 1..n
    <3>1. PICK j \in 1..m : i = n + j
      <4>1. i - n \in 1..m /\ i = n + (i - n)
        BY <2>2
      <4>2. QED
        BY <4>1
    <3>2. events'[i] = t[j]
      BY <1>4, <3>1
    <3>3. m = 1 /\ t[j].stream \in l + 1..Len(streams')
      BY <1>2, <1>3, <1>6, <3>2
    <3>4. t[j].stream \notin 0..l
      BY <3>3
    <3>5. QED
      BY <3>1, <3>2, <3>3, <3>4
  <2>3. QED
    BY <2>1, <2>2
<1>7. ASSUME NEW i \in 1..n + m, NEW j \in 1..n + m,
             events'[i].stream = events'[j].stream, events'[i].stream # None
      PROVE  i = j
  <2>1. CASE i \in 1..n /\ j \in 1..n
    BY <1>1, <1>4, <1>7, <2>1 DEF Owners
  <2>2. CASE i \in 1..n /\ j \notin 1..n
    BY <1>4, <1>5, <1>6, <1>7, <2>2
  <2>3. CASE i \notin 1..n /\ j \in 1..n
    BY <1>4, <1>5, <1>6, <1>7, <2>3
  <2>4. CASE i \notin 1..n /\ j \notin 1..n
    BY <1>6, <1>7, <2>4
  <2>5. QED
    BY <2>1, <2>2, <2>3, <2>4
<1>8. ASSUME NEW i \in 1..n + m, NEW o \in Objects, events'[i].stream # None
      PROVE  objects'[o].receiver # events'[i].stream
  <2>1. CASE i \in 1..n
    BY <1>1, <1>4, <1>8, <2>1 DEF Owners
  <2>2. CASE i \notin 1..n
    <3>1. events'[i].stream \notin 0..l
      BY <1>6, <1>8, <2>2
    <3>2. objects'[o].receiver \in 0..l
      BY <1>5
    <3>3. QED
      BY <3>1, <3>2
  <2>3. QED
    BY <2>1, <2>2
<1>9. ASSUME NEW o \in Objects, NEW p \in Objects,
             objects'[o].receiver = objects'[p].receiver, objects'[o].receiver # None
      PROVE  o = p
  BY <1>9 DEF Owners
<1>10. \A o \in Objects : objects'[o].receiver <= Len(streams')
  <2>1. ASSUME NEW o \in Objects PROVE objects'[o].receiver <= Len(streams')
    <3>1. objects'[o].receiver \in 0..l
      BY <1>5
    <3>2. QED
      BY <1>3, <3>1
  <2>2. QED
    BY <2>1
<1>11. Len(events') = n + m
  BY <1>4
<1>12. QED
  BY <1>7, <1>8, <1>9, <1>10, <1>11 DEF Owners

(* An answer is read, or thrown away: at most the object it is for gets what *)
(* is in it.                                                                 *)
LEMMA OwnersReceive ==
  ASSUME CInv, Owners, events # <<>>, events' = Tail(events), UNCHANGED streams,
         NEW o \in Objects,
         \A p \in Objects : p # o => objects'[p].receiver \in {None, objects[p].receiver},
         objects'[o].receiver \in {None, objects[o].receiver, Head(events).stream}
  PROVE  Owners'
<1>1. PICK n \in Nat : n = Len(events)
  BY DEF CInv
<1>2. /\ Len(events') = n - 1 /\ \A i \in 1..n - 1 : events'[i] = events[i + 1]
      /\ Head(events) = events[1] /\ Head(events).stream \in 0..Len(streams) /\ 1 \in 1..n
  BY <1>1, TailIs DEF CInv, Telling
<1>3. ASSUME NEW i \in 1..n - 1 PROVE i + 1 \in 1..n /\ i + 1 # 1
  OBVIOUS
<1>4. ASSUME NEW i \in 1..n - 1, NEW j \in 1..n - 1,
             events'[i].stream = events'[j].stream, events'[i].stream # None
      PROVE  i = j
  <2>1. i + 1 = j + 1
    BY <1>1, <1>2, <1>3, <1>4 DEF Owners
  <2>2. QED
    BY <2>1
<1>5. ASSUME NEW i \in 1..n - 1, NEW p \in Objects, events'[i].stream # None
      PROVE  objects'[p].receiver # events'[i].stream
  <2>1. /\ events'[i] = events[i + 1] /\ i + 1 \in 1..n /\ i + 1 # 1
        /\ objects[p].receiver # events[i + 1].stream
    BY <1>1, <1>2, <1>3, <1>5 DEF Owners
  <2>2. events[1].stream # events[i + 1].stream
    BY <1>1, <1>2, <1>5, <2>1 DEF Owners
  <2>3. QED
    BY <1>2, <1>5, <2>1, <2>2
<1>6. ASSUME NEW p \in Objects, NEW q \in Objects,
             objects'[p].receiver = objects'[q].receiver, objects'[p].receiver # None
      PROVE  p = q
  <2>1. Head(events).stream # None => \A r \in Objects : objects[r].receiver # Head(events).stream
    BY <1>1, <1>2 DEF Owners
  <2>2. QED
    BY <1>6, <2>1 DEF Owners
<1>7. \A p \in Objects : objects'[p].receiver <= Len(streams')
  <2>1. \A p \in Objects : objects[p].receiver <= Len(streams)
    BY DEF Owners
  <2>2. None <= Len(streams) /\ Head(events).stream <= Len(streams)
    BY <1>2 DEF None, CInv
  <2>3. QED
    BY <2>1, <2>2
<1>8. Len(events') = n - 1
  BY <1>2
<1>9. QED
  BY <1>4, <1>5, <1>6, <1>7, <1>8 DEF Owners

LEMMA OwnersQuiet ==
  ASSUME CInv, Owners, UNCHANGED <<events, streams>>,
         \A p \in Objects : objects'[p].receiver \in {None, objects[p].receiver}
  PROVE  Owners'
<1>1. None <= Len(streams)
  BY DEF None, CInv
<1>2. QED
  BY <1>1 DEF Owners

-----------------------------------------------------------------------------
(* All steps                                                                 *)

LEMMA InitSInv == Init => SInv
<1> SUFFICES ASSUME Init PROVE SInv
  OBVIOUS
<1>1. PICK flags \in [Objects -> BOOLEAN] : objects = [o \in Objects |-> NewObject(flags[o])]
  BY DEF Init
<1>2. ASSUME NEW o \in Objects
      PROVE  objects[o] \in Object /\ Sane(objects[o], o, {}) /\ objects[o].receiver = 0
  <2>1. PICK f \in BOOLEAN : f = flags[o]
    OBVIOUS
  <2>2. objects[o] = NewObject(f)
    BY <1>1, <2>1
  <2>3. QED
    BY <2>2 DEF NewObject, Object, Sane, Noted, None
<1>3. objects \in [Objects -> Object]
  BY <1>1, <1>2
<1>4. server \in Server
  BY DEF Init, Server, NoPeer, None
<1>5. CInv
  BY <1>2, <1>3, <1>4 DEF Init, CInv, Unique
<1>6. Owners
  BY <1>2 DEF Init, Owners, None
<1>7. QED
  BY <1>5, <1>6 DEF SInv

LEMMA NextSInv == SInv /\ [Next]_vars => SInv'
<1> SUFFICES ASSUME CInv, Owners, [Next]_vars PROVE CInv' /\ Owners'
  BY DEF SInv
<1>1. ASSUME NEW o \in Objects, AppStart(o) PROVE CInv' /\ Owners'
  BY <1>1, AppStartStep, OwnersQuiet DEF AppStart
<1>2. ASSUME NEW o \in Objects, AppUnref(o) PROVE CInv' /\ Owners'
  BY <1>2, AppUnrefStep, OwnersQuiet DEF AppUnref
<1>3. ASSUME NEW o \in Objects, ReceiverClosed(o) PROVE CInv' /\ Owners'
  BY <1>3, ReceiverClosedStep, OwnersQuiet DEF ReceiverClosed
<1>4. ASSUME NEW c \in calls, AppCancel(c) PROVE CInv' /\ Owners'
  BY <1>4, AppCancelStep, OwnersQuiet DEF AppCancel
<1>5. ASSUME NEW c \in calls, CancelledFinished(c) PROVE CInv' /\ Owners'
  BY <1>5, CancelledFinishedStep, OwnersQuiet DEF CancelledFinished
<1>6. ASSUME events # <<>>, events' = Tail(events), UNCHANGED streams,
             \A p \in Objects : objects'[p].receiver \in {None, objects[p].receiver}
      PROVE  Owners'
  BY <1>6, Received, OwnersReceive
<1>7. CASE NameAppeared
  BY <1>6, <1>7, NameAppearedStep DEF NameAppeared, Receive
<1>8. CASE NameVanished
  BY <1>6, <1>8, NameVanishedStep DEF NameVanished, Receive
<1>9. CASE Connected
  BY <1>6, <1>9, ConnectedStep DEF Connected, Receive
<1>10. CASE StartFinished
  BY <1>10, StartFinishedStep, OwnersReceive DEF StartFinished, Receive
<1>11. CASE CallFailed
  BY <1>6, <1>11, CallFailedStep DEF CallFailed, Receive
<1>12. CASE LateAnswer
  BY <1>6, <1>12, LateAnswerStep DEF LateAnswer
<1>13. CASE Serve
  <2>1. /\ CInv' /\ UNCHANGED objects /\ Len(streams) <= Len(streams')
        /\ Len(streams') \in Nat
    BY <1>13, ServeStep DEF CInv
  <2>2. PICK t : /\ events' = events \o t
                 /\ \/ t = <<>>
                    \/ \E e : /\ t = <<e>>
                              /\ e.stream \in {None} \cup (Len(streams) + 1..Len(streams'))
    BY <1>13, ServeStep
  <2>3. CASE t = <<>>
    <3>1. t \in Seq(Telling) /\ \A i \in 1..Len(t) : FALSE
      BY <2>3
    <3>2. QED
      BY <2>1, <2>2, <3>1, OwnersStay
  <2>4. CASE t # <<>>
    <3>1. PICK e : t = <<e>> /\ e.stream \in {None} \cup (Len(streams) + 1..Len(streams'))
      BY <2>2, <2>4
    <3>2. t \in Seq({e}) /\ Len(t) = 1 /\ \A i \in 1..Len(t) : t[i] = e
      BY <3>1
    <3>3. QED
      BY <2>1, <2>2, <3>1, <3>2, OwnersStay
  <2>5. QED
    BY <2>1, <2>3, <2>4
<1>14. ASSUME ServerStarts \/ ServerDies PROVE CInv' /\ Owners'
  <2>1. /\ CInv' /\ UNCHANGED objects /\ Len(streams) <= Len(streams')
        /\ Len(streams') \in Nat
    BY <1>14, ServerStartsStep, ServerDiesStep DEF CInv
  <2>2. PICK t : /\ events' = events \o t
                 /\ t \in Seq(Telling') /\ \A i \in 1..Len(t) : t[i].stream = None
    BY <1>14, ServerStartsStep, ServerDiesStep
  <2>3. QED
    BY <2>1, <2>2, OwnersStay
<1>15. CASE UNCHANGED vars
  <2>1. CInv'
    BY <1>15, OnlyEvents DEF vars, CInv
  <2>2. QED
    BY <1>15, <2>1, OwnersQuiet DEF vars
<1>16. QED
  BY <1>1, <1>2, <1>3, <1>4, <1>5, <1>7, <1>8, <1>9, <1>10, <1>11, <1>12, <1>13, <1>14, <1>15
     DEF Next, Dispatch

-----------------------------------------------------------------------------
(* Theorems                                                                  *)

(* Whatever order calls, answers and name changes come in, the calls which   *)
(* an object notes as its own (priv->init, priv->autostart) are in flight    *)
(* and its own, messages on their way are about the calls of the objects     *)
(* they are for, and every descriptor is in one place.                       *)
THEOREM SessionInvariance == Spec => []SInv
BY InitSInv, NextSInv, PTL DEF Spec

(* dbus_log_client_finalize never finds an initialization or an automatic    *)
(* start which it believes to be in flight: its two assertions hold.         *)
THEOREM FinalizesInOrder == Spec => []FinalizedInOrder
<1>1. SInv => FinalizedInOrder
  BY DEF SInv, CInv, Sane, FinalizedInOrder
<1>2. QED
  BY <1>1, SessionInvariance, PTL

(* The descriptor of a stream is in one unread answer or at one receiver, an *)
(* object is started if and only if it has one, and an object which has been *)
(* finalized has neither a stream nor calls.                                 *)
THEOREM StreamsHaveOneOwner == Spec => []OneOwner
<1>1. SInv => OneOwner
  <2> SUFFICES ASSUME CInv, Owners PROVE OneOwner
    BY DEF SInv
  <2>1. ASSUME NEW s \in DOMAIN streams
        PROVE  Cardinality(Answers(s))
                 + Cardinality({o \in Objects : objects[o].receiver = s}) <= 1
    <3>1. PICK A, R : A = Answers(s) /\ R = {o \in Objects : objects[o].receiver = s}
      OBVIOUS
    <3>2. s # None
      BY DEF CInv, None
    <3>3. /\ \A i, j \in A : i = j
          /\ \A o, p \in R : o = p
          /\ A = {} \/ R = {}
      <4>1. \A i \in A : i \in 1..Len(events) /\ events[i].stream = s
        BY <3>1 DEF Answers, CInv
      <4>2. \A o \in R : o \in Objects /\ objects[o].receiver = s
        BY <3>1
      <4>3. \A i, j \in A : i = j
        BY <3>2, <4>1 DEF Owners
      <4>4. \A o, p \in R : o = p
        BY <3>2, <4>2 DEF Owners
      <4>5. \A i \in A, o \in R : FALSE
        BY <3>2, <4>1, <4>2 DEF Owners
      <4>6. QED
        BY <4>3, <4>4, <4>5
    <3>4. A = {} \/ \E i : A = {i}
      BY <3>3
    <3>5. R = {} \/ \E o : R = {o}
      BY <3>3
    <3>6. /\ Cardinality(A) \in {0, 1} /\ Cardinality(R) \in {0, 1}
          /\ Cardinality(A) = 0 \/ Cardinality(R) = 0
      BY <3>3, <3>4, <3>5, FS_EmptySet, FS_Singleton
    <3>7. Cardinality(A) + Cardinality(R) <= 1
      BY <3>6
    <3>8. QED
      BY <3>1, <3>7
  <2>2. \A o \in Objects : objects[o].started <=> objects[o].receiver # None
    BY DEF CInv, Sane
  <2>3. ASSUME NEW o \in Objects, ~objects[o].alive
        PROVE  objects[o].receiver = None /\ \A c \in calls : c.object # o
    BY <2>3 DEF CInv, Sane
  <2>4. QED
    BY <2>1, <2>2, <2>3 DEF OneOwner
<1>2. QED
  BY <1>1, SessionInvariance, PTL
-----------------------------------------------------------------------------
(* The life of the server which objects, calls and answers belong to         *)

Current(life) == server.up /\ life = server.lives

(* Nothing is on its way to the object about servers which come or go.       *)
Settled(o) ==
  \A i \in 1..Len(events) : events[i].object = o => events[i].type \notin {"Appeared", "Vanished"}
FollowedBy(i, types) ==
  \E j \in 1..Len(events) :
    j > i /\ events[j].object = events[i].object /\ events[j].type \in types

(* An object hears that a server has gone after all that was of that server, *)
(* and of the next one after that.                                           *)
Turn(i) ==
  /\ events[i].type \in {"Appeared", "Initialized", "Opened"} /\ ~Current(events[i].life) =>
       FollowedBy(i, {"Vanished"})
  /\ events[i].type = "Appeared" /\ Current(events[i].life) =>
       ~FollowedBy(i, {"Appeared", "Vanished"})
  /\ events[i].type \in {"Initialized", "Opened"} /\ Current(events[i].life) =>
       Settled(events[i].object)
InTurn ==
  /\ \A i \in 1..Len(events) : Turn(i)
  /\ \A i \in 1..Len(requests) : Current(requests[i].life) => Settled(requests[i].object)
  /\ \A o \in Objects : Current(objects[o].proxy) => Settled(o)

Past ==
  /\ server.up => server.lives # None
  /\ \A o \in Objects : objects[o].proxy <= server.lives
  /\ \A i \in 1..Len(requests) : requests[i].life <= server.lives
  /\ \A i \in 1..Len(events) : events[i].life <= server.lives

(* An object is connected to the server it has asked for a stream, and has   *)
(* no initialization going on then.                                          *)
Placed(m) ==
  /\ m.type \in {"LogOpen", "Opened"} /\ Current(m.life) /\ objects[m.object].alive =>
       objects[m.object].proxy = server.lives
  /\ m.type \in {"GetAll", "Initialized"} /\ Pending(m.call) => objects[m.object].init = m.call
Connection ==
  /\ \A i \in 1..Len(requests) : Placed(requests[i])
  /\ \A i \in 1..Len(events) : Placed(events[i])
  /\ \A o \in Objects : Current(objects[o].proxy) => objects[o].init = None

(* Streams are read in the order they were opened in.                        *)
InOrder ==
  /\ \A i, j \in 1..Len(events) :
       i < j /\ events[i].stream # None /\ events[j].stream # None =>
         events[i].stream < events[j].stream
  /\ \A i \in 1..Len(events), o \in Objects :
       events[i].stream # None => objects[o].receiver < events[i].stream
  /\ \A i \in 1..Len(events) : events[i].stream # None => events[i].type = "Opened"

(* The stream of the peer is the last one there is, and not older than the   *)
(* server.                                                                   *)
Peering(s) ==
  /\ server.up /\ s = Len(streams) /\ streams[s] = "open"
  /\ \A i \in 1..Len(events) : events[i].stream = s => events[i].life = server.lives
  /\ \A o \in Objects : objects[o].receiver = s =>
       objects[o].proxy = server.lives /\ objects[o].cookie # None
Session ==
  /\ Past /\ InTurn /\ Connection /\ InOrder
  /\ server.peer.stream # None => Peering(server.peer.stream)

-----------------------------------------------------------------------------
(* What a step of one object leaves as it was                                *)

(* The first d events have been dispatched.                                  *)
Shifted(d) ==
  /\ d <= Len(events) /\ Len(events') = Len(events) - d
  /\ \A i \in 1..Len(events) - d : events'[i] = events[i + d]

LEMMA MessagesAre ==
  ASSUME CInv
  PROVE  /\ Len(events) \in Nat /\ Len(requests) \in Nat /\ Len(streams) \in Nat
         /\ \A i \in 1..Len(events) :
              /\ events[i] \in Telling /\ events[i].object \in Objects
              /\ events[i].call \in 0..made /\ events[i].life \in Nat
              /\ events[i].stream \in Nat /\ events[i].stream <= Len(streams)
         /\ \A i \in 1..Len(requests) :
              /\ requests[i] \in Asking /\ requests[i].object \in Objects
              /\ requests[i].call \in 0..made /\ requests[i].life \in Nat
         /\ server.lives \in Nat /\ server.peer.stream \in Nat
         /\ \A o \in Objects : /\ objects[o] \in Object /\ objects[o].receiver \in Nat
                              /\ objects[o].proxy \in Nat /\ objects[o].alive \in BOOLEAN
<1>1. \A e \in Telling : /\ e.object \in Objects /\ e.call \in 0..made /\ e.life \in Nat
                        /\ e.stream \in 0..Len(streams)
  BY DEF Telling
<1>2. \A r \in Asking : r.object \in Objects /\ r.call \in 0..made /\ r.life \in Nat
  BY DEF Asking
<1>3. Len(streams) \in Nat /\ \A s \in 0..Len(streams) : s \in Nat /\ s <= Len(streams)
  BY DEF CInv
<1>4. server.lives \in Nat /\ server.peer.stream \in Nat
  BY DEF CInv, Server
<1>5. \A o \in Objects : /\ objects[o] \in Object /\ objects[o].receiver \in Nat
                        /\ objects[o].proxy \in Nat /\ objects[o].alive \in BOOLEAN
  BY DEF CInv, Object
<1>6. /\ Len(events) \in Nat /\ \A i \in 1..Len(events) : events[i] \in Telling
      /\ Len(requests) \in Nat /\ \A i \in 1..Len(requests) : requests[i] \in Asking
  BY DEF CInv
<1>7. QED
  BY <1>1, <1>2, <1>3, <1>4, <1>5, <1>6

LEMMA ShiftIs ==
  ASSUME CInv, CInv', NEW d \in {0, 1}, Shifted(d)
  PROVE  /\ Len(events) \in Nat /\ Len(events') \in Nat
         /\ \A i \in 1..Len(events') : i + d \in 1..Len(events) /\ events'[i] = events[i + d]
         /\ \A i \in 1..Len(events) : i > d => i - d \in 1..Len(events') /\ events'[i - d] = events[i]
<1>1. PICK n \in Nat, m \in Nat : n = Len(events) /\ m = Len(events')
  BY DEF CInv
<1>2. m = n - d /\ \A i \in 1..n - d : events'[i] = events[i + d]
  BY <1>1 DEF Shifted
<1>3. ASSUME NEW i \in 1..m PROVE i + d \in 1..n /\ events'[i] = events[i + d]
  BY <1>2
<1>4. ASSUME NEW i \in 1..n, i > d PROVE i - d \in 1..m /\ events'[i - d] = events[i]
  <2>1. i - d \in 1..m /\ i - d + d = i
    BY <1>2, <1>4
  <2>2. QED
    BY <1>2, <2>1
<1>5. QED
  BY <1>1, <1>3, <1>4

LEMMA SettledStays ==
  ASSUME CInv, CInv', NEW d \in {0, 1}, Shifted(d), NEW o, Settled(o)
  PROVE  Settled(o)'
BY ShiftIs DEF Settled

LEMMA TurnsStay ==
  ASSUME CInv, CInv', NEW d \in {0, 1}, Shifted(d), server' = server,
         \A i \in 1..Len(events) : Turn(i)
  PROVE  \A i \in 1..Len(events') : Turn(i)'
<1> SUFFICES ASSUME NEW i \in 1..Len(events') PROVE Turn(i)'
  OBVIOUS
<1>1. i + d \in 1..Len(events) /\ events'[i] = events[i + d] /\ i \in Nat
  BY ShiftIs
<1>2. \A life : Current(life)' <=> Current(life)
  BY DEF Current
<1>3. ASSUME NEW types PROVE FollowedBy(i, types)' <=> FollowedBy(i + d, types)
  <2>1. ASSUME FollowedBy(i + d, types) PROVE FollowedBy(i, types)'
    <3>1. PICK j \in 1..Len(events) : /\ j > i + d /\ events[j].object = events[i + d].object
                                      /\ events[j].type \in types
      BY <2>1 DEF FollowedBy
    <3>2. j > d /\ j - d > i
      BY <1>1, <3>1
    <3>3. j - d \in 1..Len(events') /\ events'[j - d] = events[j]
      BY <3>2, ShiftIs
    <3>4. QED
      BY <1>1, <3>1, <3>2, <3>3 DEF FollowedBy
  <2>2. ASSUME FollowedBy(i, types)' PROVE FollowedBy(i + d, types)
    <3>1. PICK j \in 1..Len(events') : /\ j > i /\ events'[j].object = events'[i].object
                                       /\ events'[j].type \in types
      BY <2>2 DEF FollowedBy
    <3>2. j + d \in 1..Len(events) /\ events'[j] = events[j + d] /\ j \in Nat
      BY <3>1, ShiftIs
    <3>4. j + d > i + d
      BY <1>1, <3>1, <3>2
    <3>3. QED
      BY <1>1, <3>1, <3>2, <3>4 DEF FollowedBy
  <2>3. QED
    BY <2>1, <2>2
<1>4. \A o : Settled(o) => Settled(o)'
  BY SettledStays
<1>5. Turn(i + d)
  BY <1>1
<1>6. QED
  BY <1>1, <1>2, <1>3, <1>4, <1>5 DEF Turn

LEMMA OrderStays ==
  ASSUME CInv, CInv', InOrder, NEW d \in {0, 1}, Shifted(d), NEW o \in Objects,
         \A p \in Objects : p # o => objects'[p] = objects[p],
         objects'[o].receiver # None =>
           \/ objects'[o].receiver = objects[o].receiver
           \/ d = 1 /\ 1 \in 1..Len(events) /\ objects'[o].receiver = events[1].stream
  PROVE  InOrder'
<1>1. \A i \in 1..Len(events') : i + d \in 1..Len(events) /\ events'[i] = events[i + d] /\ i \in Nat
  BY ShiftIs
<1>2. ASSUME NEW i \in 1..Len(events'), NEW j \in 1..Len(events'),
             i < j, events'[i].stream # None, events'[j].stream # None
      PROVE  events'[i].stream < events'[j].stream
  <2>1. i + d < j + d
    BY <1>1, <1>2
  <2>2. QED
    BY <1>1, <1>2, <2>1 DEF InOrder
<1>3. ASSUME NEW i \in 1..Len(events'), NEW p \in Objects, events'[i].stream # None
      PROVE  objects'[p].receiver < events'[i].stream
  <2>1. CASE objects'[p].receiver = objects[p].receiver
    BY <1>1, <1>3, <2>1 DEF InOrder
  <2>2. CASE p = o /\ d = 1 /\ 1 \in 1..Len(events) /\ objects'[o].receiver = events[1].stream
             /\ objects'[o].receiver # None
    <3>1. 1 < i + d
      BY <1>1, <2>2
    <3>2. QED
      BY <1>1, <1>3, <2>2, <3>1 DEF InOrder
  <2>3. CASE objects'[p].receiver = None
    <3>1. objects[p].receiver \in Nat /\ objects[p].receiver < events[i + d].stream
      BY <1>1, <1>3, MessagesAre DEF InOrder
    <3>2. events'[i].stream \in Nat /\ events'[i] = events[i + d]
      BY <1>1, MessagesAre
    <3>3. QED
      BY <2>3, <3>1, <3>2 DEF None
  <2>4. QED
    BY <2>1, <2>2, <2>3
<1>4. \A i \in 1..Len(events') : events'[i].stream # None => events'[i].type = "Opened"
  BY <1>1 DEF InOrder
<1>5. QED
  BY <1>2, <1>3, <1>4 DEF InOrder

(* A step of object o, which makes m requests.                               *)
Requests(more, m) ==
  /\ Len(requests') = Len(requests) + m
  /\ \A i \in 1..Len(requests) : requests'[i] = requests[i]
  /\ \A i \in 1..m : requests'[Len(requests) + i] = more[i]
Asks(o, more, m) ==
  \A i \in 1..m :
    /\ more[i].object = o /\ more[i].life <= server.lives
    /\ Current(more[i].life) => Settled(o)'
    /\ more[i].type = "GetAll" => objects'[o].init = more[i].call
    /\ more[i].type = "LogOpen" => more[i].life = objects'[o].proxy
PendingLess(o) ==
  \A k \in 0..made :
    Pending(k)' => Pending(k) /\ (k = objects[o].init => objects'[o].init = k)
ConnectsTo(o) ==
  /\ objects'[o].alive => objects[o].alive
  /\ objects'[o].proxy <= server.lives
  /\ objects'[o].alive /\ Current(objects[o].proxy) => objects'[o].proxy = server.lives
  /\ Current(objects'[o].proxy) => objects'[o].init = None /\ Settled(o)'
Reads(o, d) ==
  /\ objects'[o].receiver # None =>
       \/ objects'[o].receiver = objects[o].receiver
       \/ d = 1 /\ 1 \in 1..Len(events) /\ objects'[o].receiver = events[1].stream
  /\ objects'[o].receiver = server.peer.stream /\ server.peer.stream # None =>
       objects'[o].proxy = server.lives /\ objects'[o].cookie # None
Follows(o, d, more, m) ==
  /\ server.peer.stream # None
  /\ \/ objects[o].receiver = server.peer.stream
     \/ d = 1 /\ 1 \in 1..Len(events) /\ events[1].stream = server.peer.stream
  => \/ server.peer.stream \in dropped'
     \/ objects'[o].receiver = server.peer.stream
     \/ \E i \in 1..m : more[i].type = "LogClose" /\ more[i].life = server.lives

LEMMA SessionOfObject ==
  ASSUME CInv, CInv', Session, NEW o \in Objects, NEW d \in {0, 1}, Shifted(d),
         UNCHANGED <<streams, server>>, \A p \in Objects : p # o => objects'[p] = objects[p],
         NEW m \in Nat, NEW more, Requests(more, m), Asks(o, more, m),
         PendingLess(o), ConnectsTo(o), Reads(o, d)
  PROVE  Session'
<1>0. PICK l \in Nat : l = Len(requests)
  BY MessagesAre
<1>a. /\ Len(requests') = l + m
      /\ \A i \in 1..l : requests'[i] = requests[i]
      /\ \A i \in 1..m : requests'[l + i] = more[i]
      /\ \A i \in 1..m :
           /\ more[i].object = o /\ more[i].life <= server.lives
           /\ Current(more[i].life) => Settled(o)'
           /\ more[i].type = "GetAll" => objects'[o].init = more[i].call
           /\ more[i].type = "LogOpen" => more[i].life = objects'[o].proxy
  BY <1>0 DEF Requests, Asks
<1>b. \A k \in 0..made :
        Pending(k)' => Pending(k) /\ (k = objects[o].init => objects'[o].init = k)
  BY DEF PendingLess
<1>c. /\ objects'[o].alive => objects[o].alive
      /\ objects'[o].proxy <= server.lives
      /\ objects'[o].alive /\ Current(objects[o].proxy) => objects'[o].proxy = server.lives
      /\ Current(objects'[o].proxy) => objects'[o].init = None /\ Settled(o)'
  BY DEF ConnectsTo
<1>1. /\ server' = server /\ streams' = streams
      /\ \A life : Current(life)' <=> Current(life)
  BY DEF Current
<1>2. ASSUME NEW i \in 1..Len(requests')
      PROVE  (requests'[i] = requests[i] /\ i \in 1..l) \/ (\E j \in 1..m : requests'[i] = more[j])
  <2>1. i \in 1..l \/ \E j \in 1..m : i = l + j
    <3>1. i \in 1..l \/ (i - l \in 1..m /\ i = l + (i - l))
      BY <1>a
    <3>2. QED
      BY <3>1
  <2>2. CASE i \in 1..l
    BY <1>a, <2>2
  <2>3. CASE \E j \in 1..m : i = l + j
    <3>1. PICK j \in 1..m : i = l + j
      BY <2>3
    <3>2. requests'[i] = more[j]
      BY <1>a, <3>1
    <3>3. QED
      BY <3>2
  <2>4. QED
    BY <2>1, <2>2, <2>3
<1>3. \A i \in 1..Len(events') : i + d \in 1..Len(events) /\ events'[i] = events[i + d]
  BY ShiftIs
<1>4. \A p : Settled(p) => Settled(p)'
  BY SettledStays
<1>5. Past'
  <2>1. \A p \in Objects : objects'[p].proxy <= server'.lives
    BY <1>1, <1>c DEF Session, Past
  <2>0. /\ \A i \in 1..l : requests[i].life <= server.lives
        /\ \A i \in 1..Len(events) : events[i].life <= server.lives
    BY <1>0 DEF Session, Past
  <2>2. ASSUME NEW i \in 1..Len(requests') PROVE requests'[i].life <= server'.lives
    <3>1. CASE requests'[i] = requests[i] /\ i \in 1..l
      BY <1>1, <2>0, <3>1
    <3>2. CASE \E j \in 1..m : requests'[i] = more[j]
      BY <1>1, <1>a, <3>2
    <3>3. QED
      BY <1>2, <3>1, <3>2
  <2>3. \A i \in 1..Len(events') : events'[i].life <= server'.lives
    BY <1>1, <1>3, <2>0
  <2>4. QED
    BY <1>1, <2>1, <2>2, <2>3 DEF Session, Past
<1>6. InTurn'
  <2>1. \A i \in 1..Len(events') : Turn(i)'
    BY <1>1, TurnsStay DEF Session, InTurn
  <2>2. ASSUME NEW i \in 1..Len(requests'), Current(requests[i].life)'
        PROVE  Settled(requests[i].object)'
    <3>1. PICK q : q = requests'[i]
      OBVIOUS
    <3>2. Current(q.life)
      BY <1>1, <2>2, <3>1 DEF Current
    <3>3. CASE q = requests[i] /\ i \in 1..l
      BY <1>0, <1>4, <3>1, <3>2, <3>3 DEF Session, InTurn
    <3>4. CASE \E j \in 1..m : q = more[j]
      BY <1>a, <3>1, <3>2, <3>4
    <3>5. QED
      BY <1>2, <3>1, <3>3, <3>4
  <2>3. ASSUME NEW p \in Objects, Current(objects[p].proxy)' PROVE Settled(p)'
    <3>1. Current(objects'[p].proxy)
      BY <1>1, <2>3 DEF Current
    <3>2. CASE p = o
      BY <1>c, <3>1, <3>2
    <3>3. CASE p # o
      BY <1>4, <3>1, <3>3 DEF Session, InTurn
    <3>4. QED
      BY <3>2, <3>3
  <2>4. QED
    BY <2>1, <2>2, <2>3 DEF InTurn
<1>7. ASSUME NEW r, r.object \in Objects, r.call \in 0..made, Placed(r)
      PROVE  Placed(r)'
  <2>1. CASE r.object # o
    <3>1. objects'[r.object] = objects[r.object] /\ (Pending(r.call)' => Pending(r.call))
      BY <1>7, <1>b, <2>1
    <3>2. QED
      BY <1>1, <1>7, <3>1 DEF Placed
  <2>2. CASE r.object = o
    <3>1. ASSUME r.type \in {"LogOpen", "Opened"}, Current(r.life), objects'[o].alive
          PROVE  objects'[o].proxy = server.lives
      <4>1. objects[o].proxy = server.lives /\ Current(objects[o].proxy)
        BY <1>7, <1>c, <2>2, <3>1 DEF Placed, Current
      <4>2. QED
        BY <1>c, <3>1, <4>1
    <3>2. ASSUME r.type \in {"GetAll", "Initialized"}, Pending(r.call)'
          PROVE  objects'[o].init = r.call
      BY <1>7, <1>b, <2>2, <3>2 DEF Placed
    <3>3. QED
      BY <1>1, <2>2, <3>1, <3>2 DEF Placed
  <2>3. QED
    BY <2>1, <2>2
<1>8. Connection'
  <2>1. ASSUME NEW i \in 1..Len(requests') PROVE Placed(requests[i])'
    <3>1. CASE requests'[i] = requests[i] /\ i \in 1..l
      BY <1>0, <1>7, <3>1, MessagesAre DEF Session, Connection
    <3>2. CASE \E j \in 1..m : requests'[i] = more[j]
      <4>1. PICK j \in 1..m : requests'[i] = more[j]
        BY <3>2
      <4>2. requests'[i].type \notin {"Opened", "Initialized"}
        <5>1. requests'[i] \in Asking'
          BY MessagesAre DEF CInv
        <5>2. QED
          BY <5>1 DEF Asking
      <4>3. PICK q : q = more[j]
        OBVIOUS
      <4>4. /\ q.object = o /\ q.type \notin {"Opened", "Initialized"}
            /\ q.type = "GetAll" => objects'[o].init = q.call
            /\ q.type = "LogOpen" => q.life = objects'[o].proxy
        BY <1>a, <4>1, <4>2, <4>3
      <4>5. Placed(q)'
        BY <1>1, <4>4 DEF Placed, Current
      <4>6. QED
        BY <4>1, <4>3, <4>5
    <3>3. QED
      BY <1>2, <3>1, <3>2
  <2>2. ASSUME NEW i \in 1..Len(events') PROVE Placed(events[i])'
    <3>1. PICK q : q = events[i + d]
      OBVIOUS
    <3>2. events'[i] = q /\ q.object \in Objects /\ q.call \in 0..made /\ Placed(q)
      BY <1>3, <3>1, MessagesAre DEF Session, Connection
    <3>3. Placed(q)'
      BY <1>7, <3>2
    <3>4. QED
      BY <3>2, <3>3
  <2>3. ASSUME NEW p \in Objects, Current(objects[p].proxy)' PROVE objects'[p].init = None
    <3>1. Current(objects'[p].proxy)
      BY <1>1, <2>3 DEF Current
    <3>2. CASE p = o
      BY <1>c, <3>1, <3>2
    <3>3. CASE p # o
      BY <3>1, <3>3 DEF Session, Connection
    <3>4. QED
      BY <3>2, <3>3
  <2>4. QED
    BY <2>1, <2>2, <2>3 DEF Connection
<1>9. InOrder'
  BY OrderStays DEF Session, Reads
<1>10. ASSUME server.peer.stream # None PROVE Peering(server.peer.stream)'
  <2>1. Peering(server.peer.stream)
    BY <1>10 DEF Session
  <2>2. PICK s : s = server.peer.stream
    OBVIOUS
  <2>3. server'.up /\ s = Len(streams') /\ streams'[s] = "open"
    BY <1>1, <2>1, <2>2 DEF Peering
  <2>4. \A i \in 1..Len(events') : events'[i].stream = s => events'[i].life = server'.lives
    <3>1. \A i \in 1..Len(events) : events[i].stream = s => events[i].life = server.lives
      BY <2>1, <2>2 DEF Peering
    <3>2. QED
      BY <1>1, <1>3, <3>1
  <2>5. ASSUME NEW p \in Objects, objects'[p].receiver = s
        PROVE  objects'[p].proxy = server'.lives /\ objects'[p].cookie # None
    <3>1. CASE p = o
      BY <1>1, <1>10, <2>2, <2>5, <3>1 DEF Reads
    <3>2. CASE p # o
      BY <1>1, <1>10, <2>1, <2>2, <2>5, <3>2 DEF Peering
    <3>3. QED
      BY <3>1, <3>2
  <2>6. QED
    BY <1>1, <2>2, <2>3, <2>4, <2>5 DEF Peering
<1>11. QED
  BY <1>1, <1>5, <1>6, <1>8, <1>9, <1>10 DEF Session

LEMMA ReadingOfObject ==
  ASSUME CInv, CInv', Session, CurrentIsRead, NEW o \in Objects, NEW d \in {0, 1}, Shifted(d),
         UNCHANGED server, dropped \subseteq dropped',
         \A p \in Objects : p # o => objects'[p] = objects[p],
         NEW m \in Nat, NEW more, Requests(more, m), Follows(o, d, more, m)
  PROVE  CurrentIsRead'
<1> DEFINE s == server.peer.stream
<1> USE DEF Follows
<1>0. PICK l \in Nat : l = Len(requests)
  BY MessagesAre
<1> /\ Len(requests') = l + m
    /\ \A i \in 1..l : requests'[i] = requests[i]
    /\ \A i \in 1..m : requests'[l + i] = more[i]
  BY <1>0 DEF Requests
<1> SUFFICES ASSUME s # None, s \notin dropped'
             PROVE  \/ \E i \in 1..Len(events') : events'[i].stream = s
                    \/ \E p \in Objects : objects'[p].receiver = s
                    \/ \E i \in 1..Len(requests') :
                         requests'[i].type = "LogClose" /\ requests'[i].life = server.lives
  <2>1. DOMAIN events' = 1..Len(events') /\ DOMAIN requests' = 1..Len(requests')
    BY DEF CInv
  <2>2. server' = server
    OBVIOUS
  <2>3. QED
    BY <2>1, <2>2 DEF CurrentIsRead, Answers
<1>1. \/ \E i \in 1..Len(events) : events[i].stream = s
      \/ \E p \in Objects : objects[p].receiver = s
      \/ \E i \in 1..l : requests[i].type = "LogClose" /\ requests[i].life = server.lives
  <2>1. DOMAIN events = 1..Len(events) /\ DOMAIN requests = 1..l
    BY <1>0 DEF CInv
  <2>2. QED
    BY <2>1 DEF CurrentIsRead, Answers
<1>2. ASSUME NEW i \in 1..m, more[i].type = "LogClose", more[i].life = server.lives
      PROVE  \E j \in 1..Len(requests') :
               requests'[j].type = "LogClose" /\ requests'[j].life = server.lives
  <2>1. l + i \in 1..Len(requests')
    OBVIOUS
  <2>2. QED
    BY <1>2, <2>1
<1>3. CASE \E i \in 1..Len(events) : events[i].stream = s
  <2>1. PICK i \in 1..Len(events) : events[i].stream = s
    BY <1>3
  <2>2. CASE i > d
    <3>1. i - d \in 1..Len(events') /\ events'[i - d] = events[i]
      BY <2>2, ShiftIs
    <3>2. QED
      BY <2>1, <3>1
  <2>3. CASE ~(i > d)
    <3>1. d = 1 /\ i = 1
      BY <2>3, MessagesAre
    <3>2. QED
      BY <1>2, <2>1, <3>1
  <2>4. QED
    BY <2>2, <2>3
<1>4. CASE \E p \in Objects : objects[p].receiver = s
  <2>1. PICK p \in Objects : objects[p].receiver = s
    BY <1>4
  <2>2. CASE p = o
    BY <1>2, <2>1, <2>2
  <2>3. CASE p # o
    BY <2>1, <2>3
  <2>4. QED
    BY <2>2, <2>3
<1>5. ASSUME \E i \in 1..l : requests[i].type = "LogClose" /\ requests[i].life = server.lives
      PROVE  \E i \in 1..Len(requests') :
               requests'[i].type = "LogClose" /\ requests'[i].life = server.lives
  <2>1. PICK i \in 1..l : requests[i].type = "LogClose" /\ requests[i].life = server.lives
    BY <1>5
  <2>2. i \in 1..Len(requests')
    OBVIOUS
  <2>3. QED
    BY <2>1, <2>2
<1>6. QED
  BY <1>1, <1>3, <1>4, <1>5

(* No call is on its way, of those there were, which was not before, and the *)
(* initialization of an object ends before the object forgets it.            *)
Fewer(left, o, init) ==
  \A c \in left : ~c.cancelled /\ c.call \in 0..made =>
    /\ \E e \in calls : e.call = c.call /\ ~e.cancelled
    /\ c.call = objects[o].init => init = objects[o].init

LEMMA PendingStays ==
  ASSUME NEW o, NEW init, NEW left, calls' = left, Fewer(left, o, init)
  PROVE  \A k \in 0..made : Pending(k)' => Pending(k) /\ (k = objects[o].init => init = k)
BY DEF Fewer, Pending

LEMMA FinalizedIs ==
  ASSUME NEW x \in Object
  PROVE  /\ Finalized(x).proxy = None /\ Finalized(x).receiver = None /\ ~Finalized(x).alive
         /\ Finalized(x).init = x.init
BY DEF Finalized, Disconnected, Stopped, Object

(* What object o, when it becomes x, may send, be connected to and read.     *)
Asked(o, x, left, sent) ==
  \A i \in 1..Len(sent) :
    /\ sent[i].object = o /\ sent[i].life <= server.lives
    /\ sent[i].type \in {"GetAll", "LogOpen"}
    /\ sent[i].type = "GetAll" =>
         x.init = sent[i].call /\ (Current(sent[i].life) => Settled(o)')
    /\ sent[i].type = "LogOpen" => sent[i].life = x.proxy /\ \E c \in left : c.object = o
Connecting(o, x) ==
  /\ x.proxy <= server.lives /\ (Current(objects[o].proxy) => x.proxy = server.lives)
  /\ Current(x.proxy) => x.init = None /\ Settled(o)'
Reading(o, d, x) ==
  /\ x.receiver # None =>
       \/ x.receiver = objects[o].receiver
       \/ d = 1 /\ 1 \in 1..Len(events) /\ x.receiver = events[1].stream
  /\ x.receiver = server.peer.stream /\ server.peer.stream # None =>
       x.proxy = server.lives /\ x.cookie # None
  /\ /\ server.peer.stream # None
     /\ \/ objects[o].receiver = server.peer.stream
        \/ d = 1 /\ 1 \in 1..Len(events) /\ events[1].stream = server.peer.stream
     => x.receiver = server.peer.stream

LEMMA BecomeSession ==
  ASSUME CInv, CInv', Session, CurrentIsRead, NEW o \in Objects, NEW x \in Object, NEW left,
         NEW S, NEW sent \in Seq(S), Become(o, x, left, sent), objects[o].alive,
         NEW d \in {0, 1}, Shifted(d), UNCHANGED <<streams, server, dropped>>,
         Connecting(o, x), Reading(o, d, x), Fewer(left, o, x.init), Asked(o, x, left, sent)
  PROVE  Session' /\ CurrentIsRead'
<1>1. PICK final \in BOOLEAN : final = Released(x, o, left)
  BY DEF Released, Object
<1>2. PICK end : end = IF final THEN Farewell(x, o) ELSE <<>>
  OBVIOUS
<1>3. /\ objects' = [objects EXCEPT ![o] = IF final THEN Finalized(x) ELSE x]
      /\ calls' = left /\ requests' = requests \o sent \o end
  BY <1>1, <1>2 DEF Become
<1>4. PICK close : close = [type |-> "LogClose", call |-> None, object |-> o, life |-> x.proxy]
  OBVIOUS
<1>5. /\ end = <<>> \/ end = <<close>>
      /\ end = <<close>> => final /\ x.proxy # None
      /\ final /\ x.proxy # None /\ x.cookie # None => end = <<close>>
  BY <1>2, <1>4 DEF Farewell
<1>6. /\ objects'[o] = (IF final THEN Finalized(x) ELSE x)
      /\ \A p \in Objects : p # o => objects'[p] = objects[p]
  <2>1. objects \in [Objects -> Object]
    BY DEF CInv
  <2>2. QED
    BY <1>3, <2>1
<1>7. PICK l \in Nat, a \in Nat, b \in {0, 1} : l = Len(requests) /\ a = Len(sent) /\ b = Len(end)
  BY <1>5, MessagesAre
<1>8. PICK more : more = sent \o end
  OBVIOUS
<1>9. /\ Len(requests') = l + (a + b)
      /\ \A i \in 1..l : requests'[i] = requests[i]
      /\ \A i \in 1..a + b : requests'[l + i] = more[i]
      /\ \A i \in 1..a : more[i] = sent[i]
      /\ \A i \in 1..a + b : i \notin 1..a => b = 1 /\ i = a + 1 /\ more[i] = end[1]
  <2>1. PICK T : T = Asking \cup S \cup {close}
    OBVIOUS
  <2>2. requests \in Seq(T) /\ sent \in Seq(T) /\ end \in Seq(T)
    <3>1. requests \in Seq(T) /\ sent \in Seq(T)
      BY <2>1, WiderSeq DEF CInv
    <3>2. end \in Seq(T)
      <4>1. <<>> \in Seq(T) /\ <<close>> \in Seq(T)
        BY <2>1
      <4>2. QED
        BY <1>5, <4>1
    <3>3. QED
      BY <3>1, <3>2
  <2>3. requests' = requests \o more
    BY <1>3, <1>8, <2>2, ConcatAssociative
  <2>4. /\ more \in Seq(T) /\ Len(more) = a + b
        /\ \A i \in 1..a : more[i] = sent[i]
        /\ \A i \in 1..b : more[a + i] = end[i]
    BY <1>7, <1>8, <2>2, JoinIs
  <2>5. /\ Len(requests') = l + (a + b)
        /\ \A i \in 1..l : requests'[i] = requests[i]
        /\ \A i \in 1..a + b : requests'[l + i] = more[i]
    BY <1>7, <2>2, <2>3, <2>4, JoinIs
  <2>6. ASSUME NEW i \in 1..a + b, i \notin 1..a PROVE b = 1 /\ i = a + 1 /\ more[i] = end[1]
    <3>1. b = 1 /\ i = a + 1 /\ 1 \in 1..b
      BY <2>6
    <3>2. QED
      BY <2>4, <3>1
  <2>7. QED
    BY <2>4, <2>5, <2>6
<1>10. b = 1 => end = <<close>> /\ end[1] = close
  <2>1. end = <<>> => b = 0
    BY <1>7
  <2>2. end = <<close>> => end[1] = close
    OBVIOUS
  <2>3. QED
    BY <1>5, <2>1, <2>2
<1>11. PICK y : y = objects'[o]
  OBVIOUS
<1>12. /\ final => y.proxy = None /\ y.receiver = None /\ ~y.alive
       /\ ~final => y = x
       /\ y.init = x.init
  BY <1>6, <1>11, FinalizedIs
<1>13. ~Current(None) /\ None <= server.lives
  BY MessagesAre DEF Session, Past, Current, None
<1>14. ASSUME NEW i \in 1..a + b
       PROVE  /\ more[i].object = o /\ more[i].life <= server.lives
              /\ Current(more[i].life) => Settled(o)'
              /\ more[i].type = "GetAll" => y.init = more[i].call
              /\ more[i].type = "LogOpen" => more[i].life = y.proxy
  <2>1. CASE i \in 1..a
    <3>0. /\ sent[i].object = o /\ sent[i].life <= server.lives
          /\ Current(sent[i].life) /\ ~final => Settled(o)'
          /\ sent[i].type = "GetAll" => x.init = sent[i].call /\ (Current(sent[i].life) => Settled(o)')
          /\ sent[i].type = "LogOpen" =>
               sent[i].life = x.proxy /\ \E c \in left : c.object = o
          /\ sent[i].type \in {"GetAll", "LogOpen"}
      BY <1>7, <2>1 DEF Asked, Connecting
    <3>1. more[i] = sent[i] /\ i \in 1..Len(sent)
      BY <1>7, <1>9, <2>1
    <3>2. sent[i].type = "LogOpen" => ~final
      BY <1>1, <3>0, <3>1 DEF Released
    <3>3. QED
      BY <1>12, <3>0, <3>1, <3>2
  <2>2. CASE i \notin 1..a
    <3>1. more[i] = close
      BY <1>9, <1>10, <2>2
    <3>2. QED
      BY <1>4, <3>1 DEF Connecting
  <2>3. QED
    BY <2>1, <2>2
<1>15. \A k \in 0..made : Pending(k)' => Pending(k) /\ (k = objects[o].init => y.init = k)
  BY <1>3, <1>12, PendingStays
<1>16. Session'
  <2>1. y.proxy <= server.lives
    BY <1>12, <1>13 DEF Connecting
  <2>2. y.alive => objects[o].alive /\ (Current(objects[o].proxy) => y.proxy = server.lives)
    BY <1>12 DEF Connecting
  <2>3. Current(y.proxy) => y.init = None /\ Settled(o)'
    BY <1>12, <1>13 DEF Connecting
  <2>4. /\ y.receiver # None =>
             \/ y.receiver = objects[o].receiver
             \/ d = 1 /\ 1 \in 1..Len(events) /\ y.receiver = events[1].stream
        /\ y.receiver = server.peer.stream /\ server.peer.stream # None =>
             y.proxy = server.lives /\ y.cookie # None
    BY <1>12 DEF Reading
  <2>5. a + b \in Nat /\ UNCHANGED <<streams, server>>
    OBVIOUS
  <2>6. Requests(more, a + b)
    BY <1>7, <1>9 DEF Requests
  <2>7. Asks(o, more, a + b)
    BY <1>11, <1>14 DEF Asks
  <2>8. PendingLess(o)
    BY <1>11, <1>15 DEF PendingLess
  <2>9. ConnectsTo(o) /\ Reads(o, d)
    BY <1>11, <2>1, <2>2, <2>3, <2>4 DEF ConnectsTo, Reads
  <2>10. QED
    BY <1>6, <2>5, <2>6, <2>7, <2>8, <2>9, SessionOfObject
<1>17. CurrentIsRead'
  <2>1. ASSUME /\ server.peer.stream # None
               /\ \/ objects[o].receiver = server.peer.stream
                  \/ d = 1 /\ 1 \in 1..Len(events) /\ events[1].stream = server.peer.stream
        PROVE  \/ objects'[o].receiver = server.peer.stream
               \/ \E i \in 1..a + b : more[i].type = "LogClose" /\ more[i].life = server.lives
    <3>1. x.receiver = server.peer.stream /\ x.proxy = server.lives /\ x.cookie # None
      BY <2>1 DEF Reading
    <3>2. CASE ~final
      BY <1>11, <1>12, <3>1, <3>2
    <3>3. CASE final
      <4>1. x.proxy # None
        BY <2>1, <3>1 DEF Session, Past, Peering
      <4>2. end = <<close>> /\ b = 1
        BY <1>5, <1>7, <3>1, <3>3, <4>1
      <4>3. a + 1 \in 1..a + b /\ a + 1 \notin 1..a
        BY <4>2
      <4>4. more[a + 1] = close
        BY <1>9, <1>10, <4>3
      <4>5. close.type = "LogClose" /\ close.life = server.lives
        BY <1>4, <3>1
      <4>6. QED
        BY <4>3, <4>4, <4>5
    <3>4. QED
      BY <3>2, <3>3
  <2>2. a + b \in Nat /\ dropped \subseteq dropped' /\ UNCHANGED server
    OBVIOUS
  <2>3. Requests(more, a + b)
    BY <1>7, <1>9 DEF Requests
  <2>4. Follows(o, d, more, a + b)
    BY <2>1 DEF Follows
  <2>5. QED
    BY <1>6, <2>2, <2>3, <2>4, ReadingOfObject
<1>18. QED
  BY <1>16, <1>17

LEMMA FewerCancelled ==
  ASSUME CInv, NEW o, NEW init, NEW left \in SUBSET CallsUpTo(made), Fewer(left, o, init), NEW j
  PROVE  Fewer(Cancelled(left, j), o, init) /\ Cancelled(left, j) \in SUBSET CallsUpTo(made)
<1>1. made \in Nat /\ left \in SUBSET CallsUpTo(made)
  BY DEF CInv
<1>2. PICK new : new = Cancelled(left, j)
  OBVIOUS
<1>3. /\ new \in SUBSET CallsUpTo(made)
      /\ \A c \in new : \E e \in left :
           e.call = c.call /\ e.object = c.object
           /\ c = [e EXCEPT !.cancelled = e.cancelled \/ e.call = j]
  BY <1>1, <1>2, CancelledIs
<1>4. ASSUME NEW c \in new, ~c.cancelled, c.call \in 0..made
      PROVE  /\ \E e \in calls : e.call = c.call /\ ~e.cancelled
             /\ c.call = objects[o].init => init = objects[o].init
  <2>1. PICK e \in left : /\ e.call = c.call
                          /\ c = [e EXCEPT !.cancelled = e.cancelled \/ e.call = j]
    BY <1>3
  <2>2. ~e.cancelled
    BY <1>4, <2>1 DEF CallsUpTo
  <2>3. QED
    BY <1>4, <2>1, <2>2 DEF Fewer
<1>5. QED
  BY <1>2, <1>3, <1>4 DEF Fewer

LEMMA CancelledAre ==
  ASSUME NEW all \in SUBSET CallsUpTo(made), made \in Nat, NEW j, NEW c \in Cancelled(all, j), c.call = j
  PROVE  c.cancelled
<1>1. PICK e \in all : /\ e.call = c.call
                       /\ c = [e EXCEPT !.cancelled = e.cancelled \/ e.call = j]
  BY CancelledIs
<1>2. QED
  BY <1>1 DEF CallsUpTo

LEMMA FewerNew ==
  ASSUME NEW o, NEW init, NEW left, Fewer(left, o, init), made \in Nat, made' \in Nat, NEW p
  PROVE  Fewer(left \cup New(p, made'), o, init)
<1>1. ASSUME NEW c \in New(p, made') PROVE c.call \notin 0..made
  <2>1. PICK j \in made + 1..made' : c = CallOf(j, p)
    BY DEF New
  <2>2. QED
    BY <2>1 DEF CallOf
<1>2. QED
  BY <1>1 DEF Fewer

LEMMA FewerCalls ==
  ASSUME CInv, NEW o, NEW init, NEW left \in SUBSET calls,
         init = objects[o].init \/ \A c \in left : c.call # objects[o].init \/ c.cancelled
  PROVE  Fewer(left, o, init) /\ left \in SUBSET CallsUpTo(made)
BY DEF Fewer, CInv

LEMMA AtFirst ==
  ASSUME CInv, Session, events # <<>>, events' = Tail(events)
  PROVE  /\ Shifted(1) /\ 1 \in 1..Len(events) /\ Head(events) = events[1]
         /\ Head(events).stream # None => Head(events).type = "Opened"
         /\ Placed(Head(events)) /\ Turn(1)
         /\ Head(events).life \in Nat /\ Head(events).life <= server.lives
<1>1. /\ Head(events) = events[1] /\ 1 \in 1..Len(events) /\ Len(events) \in Nat
      /\ Len(Tail(events)) = Len(events) - 1
      /\ \A i \in 1..Len(events) - 1 : Tail(events)[i] = events[i + 1]
  BY TailIs DEF CInv
<1>2. Shifted(1)
  BY <1>1 DEF Shifted
<1>3. QED
  BY <1>1, <1>2, MessagesAre DEF Session, InOrder, Connection, InTurn, Past

LEMMA NotShifted ==
  ASSUME CInv, UNCHANGED events
  PROVE  Shifted(0)
BY MessagesAre DEF Shifted

(* The connection and the stream of an object stay.                          *)
Staying(o, d, x) ==
  /\ x.proxy = objects[o].proxy /\ x.init \in {None, objects[o].init}
  /\ x.receiver = objects[o].receiver /\ x.cookie = objects[o].cookie
  /\ d = 1 => events[1].stream = None

LEMMA QuietSession ==
  ASSUME CInv, CInv', Session, CurrentIsRead, NEW o \in Objects, NEW x \in Object, NEW left,
         Become(o, x, left, <<>>), objects[o].alive,
         NEW d \in {0, 1}, Shifted(d), UNCHANGED <<streams, server, dropped>>,
         Staying(o, d, x), Fewer(left, o, x.init)
  PROVE  Session' /\ CurrentIsRead'
<1>1. x.proxy <= server.lives /\ (Current(objects[o].proxy) => x.proxy = server.lives)
  BY DEF Session, Past, Current, Staying
<1>2. Current(x.proxy) => x.init = None /\ Settled(o)'
  BY SettledStays DEF Session, Connection, InTurn, Staying
<1>3. <<>> \in Seq({}) /\ Asked(o, x, left, <<>>)
  BY DEF Asked
<1>4. Reading(o, d, x)
  BY DEF Session, Peering, Staying, Reading
<1>5. Connecting(o, x)
  BY <1>1, <1>2 DEF Connecting
<1>6. QED
  BY <1>3, <1>4, <1>5, BecomeSession

LEMMA StillSession ==
  ASSUME CInv, CInv', Session, CurrentIsRead, NEW o \in Objects, NEW d \in {0, 1}, Shifted(d),
         UNCHANGED <<objects, requests, streams, server>>, dropped \subseteq dropped',
         \A k \in 0..made : Pending(k)' => Pending(k),
         d = 1 /\ 1 \in 1..Len(events) /\ events[1].stream # None => events[1].stream \in dropped'
  PROVE  Session' /\ CurrentIsRead'
<1>1. Requests(<<>>, 0) /\ Asks(o, <<>>, 0) /\ PendingLess(o)
  BY MessagesAre DEF Requests, Asks, PendingLess
<1>2. Reads(o, d) /\ Follows(o, d, <<>>, 0)
  BY DEF Reads, Follows, Session, Peering
<1>3. ConnectsTo(o)
  BY SettledStays DEF ConnectsTo, Session, Past, Connection, InTurn, Current
<1>4. QED
  BY <1>1, <1>2, <1>3, SessionOfObject, ReadingOfObject

LEMMA AppUnrefSession ==
  ASSUME CInv, Session, CurrentIsRead, NEW o \in Objects, AppUnref(o)
  PROVE  Session' /\ CurrentIsRead'
<1>1. PICK x : x = [objects[o] EXCEPT !.held = FALSE]
  OBVIOUS
<1>2. /\ Become(o, x, calls, <<>>) /\ objects[o].held
      /\ UNCHANGED <<events, streams, server, dropped>>
  BY <1>1 DEF AppUnref
<1>3. /\ x \in Object /\ x.receiver = objects[o].receiver /\ x.init = objects[o].init
      /\ x.proxy = objects[o].proxy /\ x.cookie = objects[o].cookie /\ objects[o].alive
  BY <1>1, <1>2, AliveObject DEF Object
<1>4. Fewer(calls, o, x.init) /\ Staying(o, 0, x)
  BY <1>3, FewerCalls DEF Staying
<1>5. CInv' /\ Shifted(0)
  BY <1>2, AppUnrefStep, NotShifted
<1>6. QED
  BY <1>2, <1>3, <1>4, <1>5, QuietSession

LEMMA AppStartSession ==
  ASSUME CInv, Session, CurrentIsRead, NEW o \in Objects, AppStart(o)
  PROVE  Session' /\ CurrentIsRead'
<1>1. PICK x, r, left : /\ x = objects[o] /\ r = Request("LogOpen", made + 1, o)
                        /\ left = calls \cup {CallOf(made + 1, o)}
  OBVIOUS
<1>2. /\ made' = made + 1 /\ x.held /\ Become(o, x, left, <<r>>)
      /\ UNCHANGED <<events, streams, server, dropped>>
  BY <1>1 DEF AppStart
<1>3. made \in Nat /\ made' \in Nat /\ made + 1..made' = {made + 1}
  BY <1>2, AliveObject
<1>4. Fewer(left, o, x.init)
  <2>1. left = calls \cup New(o, made')
    BY <1>1, <1>3 DEF New
  <2>2. Fewer(calls, o, x.init)
    BY <1>1, FewerCalls
  <2>3. QED
    BY <1>3, <2>1, <2>2, FewerNew
<1>5. x \in Object /\ x.alive /\ CInv' /\ Shifted(0)
  BY <1>1, <1>2, AliveObject, AppStartStep, NotShifted
<1>6. Asked(o, x, left, <<r>>) /\ <<r>> \in Seq({r})
  <2>1. r.object = o /\ r.type = "LogOpen" /\ r.life = x.proxy
    BY <1>1 DEF Request
  <2>2. CallOf(made + 1, o) \in left /\ CallOf(made + 1, o).object = o
    BY <1>1 DEF CallOf
  <2>3. x.proxy <= server.lives
    BY <1>1 DEF Session, Past
  <2>4. \A i \in 1..Len(<<r>>) : <<r>>[i] = r
    OBVIOUS
  <2>5. QED
    BY <2>1, <2>2, <2>3, <2>4 DEF Asked
<1>7. Connecting(o, x)
  BY <1>1, <1>5, SettledStays DEF Connecting, Session, Past, Connection, InTurn, Current
<1>8. Reading(o, 0, x)
  BY <1>1 DEF Reading, Session, Peering
<1>9. QED
  BY <1>1, <1>2, <1>4, <1>5, <1>6, <1>7, <1>8, BecomeSession

LEMMA CancelledFinishedSession ==
  ASSUME CInv, Session, CurrentIsRead, NEW c \in calls, CancelledFinished(c)
  PROVE  Session' /\ CurrentIsRead'
<1>1. PICK o, x, left : o = c.object /\ x = objects[o] /\ left = calls \ {c}
  OBVIOUS
<1>2. /\ o \in Objects /\ x \in Object /\ x.alive /\ Become(o, x, left, <<>>)
      /\ UNCHANGED <<events, streams, server, dropped>>
  BY <1>1 DEF CInv, CallsUpTo, CancelledFinished
<1>3. Fewer(left, o, x.init) /\ Staying(o, 0, x)
  BY <1>1, FewerCalls DEF Staying
<1>4. CInv' /\ Shifted(0)
  BY <1>2, CancelledFinishedStep, NotShifted
<1>5. QED
  BY <1>1, <1>2, <1>3, <1>4, QuietSession

LEMMA CallFailedSession ==
  ASSUME CInv, Session, CurrentIsRead, CallFailed
  PROVE  Session' /\ CurrentIsRead'
<1>1. PICK e, o, k : e = Head(events) /\ o = e.object /\ k = e.call
  OBVIOUS
<1>2. PICK x, left : x = Failed(objects[o], k) /\ left = Finished(k)
  OBVIOUS
<1>3. /\ events # <<>> /\ events' = Tail(events) /\ UNCHANGED <<streams, server, dropped>>
      /\ Pending(k) /\ Become(o, x, left, <<>>) /\ e.type = "Failed"
  BY <1>1, <1>2 DEF CallFailed, Receive
<1>4. o \in Objects /\ objects[o].alive /\ objects[o] \in Object
  BY <1>1, <1>3, Received, AliveObject
<1>5. /\ x \in Object /\ x.receiver = objects[o].receiver
      /\ x.proxy = objects[o].proxy /\ x.cookie = objects[o].cookie
      /\ x.init = (IF objects[o].init = k THEN None ELSE objects[o].init)
  <2>1. PICK y : y = objects[o]
    OBVIOUS
  <2>2. y \in Object /\ None \in Nat
    BY <1>4, <2>1 DEF None
  <2>3. QED
    BY <1>2, <2>1, <2>2 DEF Object, Failed
<1>6. Fewer(left, o, x.init)
  <2>1. left \in SUBSET calls /\ \A c \in left : c.call # k
    BY <1>2 DEF Finished
  <2>2. QED
    BY <1>5, <2>1, FewerCalls
<1>7. CInv' /\ Shifted(1) /\ events[1].stream = None
  BY <1>1, <1>3, CallFailedStep, AtFirst
<1>8. Staying(o, 1, x)
  BY <1>5, <1>7 DEF Staying
<1>9. QED
  BY <1>3, <1>4, <1>5, <1>6, <1>7, <1>8, QuietSession

LEMMA AppCancelSession ==
  ASSUME CInv, Session, CurrentIsRead, NEW c \in calls, AppCancel(c)
  PROVE  Session' /\ CurrentIsRead'
<1>1. PICK o : o = c.object /\ o \in Objects
  BY DEF CInv, CallsUpTo
<1>2. /\ calls' = Cancelled(calls, c.call)
      /\ UNCHANGED <<objects, requests, events, streams, server, dropped>>
  BY DEF AppCancel
<1>3. Fewer(Cancelled(calls, c.call), o, objects[o].init)
  BY FewerCalls, FewerCancelled
<1>4. \A k \in 0..made : Pending(k)' => Pending(k)
  BY <1>2, <1>3, PendingStays
<1>5. QED
  BY <1>1, <1>2, <1>4, AppCancelStep, NotShifted, StillSession

LEMMA LateAnswerSession ==
  ASSUME CInv, Session, CurrentIsRead, LateAnswer
  PROVE  Session' /\ CurrentIsRead'
<1>1. /\ events # <<>> /\ events' = Tail(events)
      /\ dropped' = dropped \cup ({Head(events).stream} \ {None})
      /\ UNCHANGED <<objects, calls, requests, streams, server, made>>
  BY DEF LateAnswer
<1>2. \A k : Pending(k)' <=> Pending(k)
  BY <1>1 DEF Pending
<1>3. QED
  BY <1>1, <1>2, LateAnswerStep, Received, AtFirst, StillSession

LEMMA ReceiverClosedSession ==
  ASSUME CInv, Session, CurrentIsRead, NEW o \in Objects, ReceiverClosed(o)
  PROVE  Session' /\ CurrentIsRead'
<1>1. PICK x, left : x = Stopped(objects[o]) /\ left = Cancelled(calls, objects[o].autostart)
  OBVIOUS
<1>2. /\ Become(o, x, left, <<>>) /\ objects[o].alive
      /\ objects[o].receiver # None /\ streams[objects[o].receiver] = "ended"
      /\ UNCHANGED <<events, streams, server, made, dropped>>
  BY <1>1, AliveObject DEF ReceiverClosed
<1>3. /\ x \in Object /\ x.receiver = None /\ x.alive /\ x.init = objects[o].init
      /\ x.proxy = objects[o].proxy
  BY <1>1, <1>2, AliveObject DEF Object, Sane, Stopped, None
<1>4. Fewer(left, o, x.init)
  <2>1. Fewer(calls, o, x.init) /\ calls \in SUBSET CallsUpTo(made)
    BY <1>3, FewerCalls
  <2>2. QED
    BY <1>1, <2>1, FewerCancelled
<1>5. server.peer.stream # None => objects[o].receiver # server.peer.stream
  BY <1>2 DEF Session, Peering
<1>6. CInv' /\ Shifted(0)
  BY <1>2, ReceiverClosedStep, NotShifted
<1>7. Connecting(o, x)
  BY <1>3, <1>6, SettledStays DEF Connecting, Session, Past, Connection, InTurn, Current
<1>8. Reading(o, 0, x)
  BY <1>3, <1>5 DEF Reading
<1>9. <<>> \in Seq({}) /\ Asked(o, x, left, <<>>)
  BY DEF Asked
<1>10. QED
  BY <1>2, <1>3, <1>4, <1>6, <1>7, <1>8, <1>9, BecomeSession

(* Nothing of the object is heard of by one which is not alive any more.     *)
LEMMA UnheardSession ==
  ASSUME CInv, CInv', Session, CurrentIsRead, events # <<>>, events' = Tail(events),
         Head(events).type # "Opened",
         UNCHANGED <<objects, calls, requests, streams, server, dropped>>
  PROVE  Session' /\ CurrentIsRead'
<1>1. \A k : Pending(k)' <=> Pending(k)
  BY DEF Pending
<1>2. Shifted(1) /\ events[1].stream = None /\ Head(events).object \in Objects
  BY AtFirst, Received
<1>3. QED
  BY <1>1, <1>2, StillSession

LEMMA NameAppearedSession ==
  ASSUME CInv, Session, CurrentIsRead, NameAppeared
  PROVE  Session' /\ CurrentIsRead'
<1>1. PICK e, o, k : e = Head(events) /\ o = e.object /\ k = made + 1
  OBVIOUS
<1>2. /\ events # <<>> /\ events' = Tail(events) /\ UNCHANGED <<streams, server, dropped>>
      /\ e.type = "Appeared" /\ o \in Objects /\ CInv' /\ made \in Nat
  BY <1>1, Received, NameAppearedStep, AliveObject DEF NameAppeared, Receive
<1>3. CASE ~objects[o].alive
  BY <1>1, <1>2, <1>3, UnheardSession DEF NameAppeared
<1>4. CASE objects[o].alive
  <2>1. PICK x : x = [objects[o] EXCEPT !.init = k]
    OBVIOUS
  <2>2. PICK old, left : old = Cancelled(calls, objects[o].init) /\ left = old \cup {CallOf(k, o)}
    OBVIOUS
  <2>3. PICK r : r = [type |-> "GetAll", call |-> k, object |-> o, life |-> e.life]
    OBVIOUS
  <2>4. made' = k /\ Become(o, x, left, <<r>>)
    BY <1>1, <1>4, <2>1, <2>2, <2>3 DEF NameAppeared
  <2>5. made' \in Nat /\ made + 1..made' = {k} /\ k \in Nat
    BY <1>1, <1>2, <2>4
  <2>6. /\ x \in Object /\ x.receiver = objects[o].receiver /\ x.alive /\ x.init = k
        /\ x.proxy = objects[o].proxy /\ x.cookie = objects[o].cookie
    BY <1>2, <1>4, <2>1, <2>5, AliveObject DEF Object
  <2>7. Fewer(left, o, x.init)
    <3>1. PICK i : i = objects[o].init
      OBVIOUS
    <3>2. calls \in SUBSET CallsUpTo(made)
      BY AliveObject, <1>2
    <3>3. Fewer(old, o, i) /\ \A c \in old : c.call = i => c.cancelled
      <4>1. Fewer(calls, o, i)
        BY <3>1, FewerCalls
      <4>2. Fewer(old, o, i)
        BY <2>2, <3>1, <3>2, <4>1, FewerCancelled
      <4>3. \A c \in old : c.call = i => c.cancelled
        BY <1>2, <2>2, <3>1, <3>2, CancelledAre
      <4>4. QED
        BY <4>2, <4>3
    <3>4. Fewer(old, o, x.init)
      BY <3>1, <3>3 DEF Fewer
    <3>5. left = old \cup New(o, made')
      BY <2>2, <2>5 DEF New
    <3>6. QED
      BY <1>2, <2>5, <3>4, <3>5, FewerNew
  <2>8. /\ Shifted(1) /\ events[1] = e /\ e.stream = None /\ 1 \in 1..Len(events) /\ Turn(1)
        /\ e.life <= server.lives
    BY <1>1, <1>2, AtFirst
  <2>9. ~Current(objects[o].proxy)
    BY <1>1, <1>2, <2>8 DEF Session, InTurn, Settled
  <2>10. Current(e.life) => Settled(o)'
    <3>1. SUFFICES ASSUME Current(e.life) PROVE Settled(o)'
      OBVIOUS
    <3>2. \A j \in 1..Len(events) :
            j > 1 /\ events[j].object = o => events[j].type \notin {"Appeared", "Vanished"}
      BY <1>1, <1>2, <2>8, <3>1 DEF Turn, FollowedBy
    <3>3. \A i \in 1..Len(events') : /\ i + 1 \in 1..Len(events) /\ i + 1 > 1
                                     /\ events'[i] = events[i + 1]
      BY <1>2, <2>8, ShiftIs
    <3>4. QED
      BY <3>2, <3>3 DEF Settled
  <2>11. Connecting(o, x)
    BY <1>2, <2>6, <2>9 DEF Connecting, Session, Past
  <2>12. Asked(o, x, left, <<r>>) /\ <<r>> \in Seq({r})
    <3>1. r.object = o /\ r.type = "GetAll" /\ r.life = e.life /\ r.call = k
      BY <2>3
    <3>2. \A i \in 1..Len(<<r>>) : <<r>>[i] = r
      OBVIOUS
    <3>3. QED
      BY <2>6, <2>8, <2>10, <3>1, <3>2 DEF Asked
  <2>13. Reading(o, 1, x)
    BY <1>2, <2>6, <2>8 DEF Reading, Session, Peering
  <2>14. QED
    BY <1>2, <1>4, <2>4, <2>6, <2>7, <2>8, <2>11, <2>12, <2>13, BecomeSession
<1>5. QED
  BY <1>3, <1>4

LEMMA NameVanishedSession ==
  ASSUME CInv, Session, CurrentIsRead, NameVanished
  PROVE  Session' /\ CurrentIsRead'
<1>1. PICK e, o : e = Head(events) /\ o = e.object
  OBVIOUS
<1>2. /\ events # <<>> /\ events' = Tail(events) /\ UNCHANGED <<streams, server, dropped>>
      /\ e.type = "Vanished" /\ o \in Objects /\ CInv' /\ made \in Nat
  BY <1>1, Received, NameVanishedStep, AliveObject DEF NameVanished, Receive
<1>3. CASE ~objects[o].alive
  BY <1>1, <1>2, <1>3, UnheardSession DEF NameVanished
<1>4. CASE objects[o].alive
  <2>1. PICK x : x = [Disconnected(objects[o]) EXCEPT !.init = None]
    OBVIOUS
  <2>2. PICK old, left : /\ old = Cancelled(calls, objects[o].init)
                         /\ left = Cancelled(old, objects[o].autostart)
    OBVIOUS
  <2>3. Become(o, x, left, <<>>)
    BY <1>1, <1>4, <2>1, <2>2 DEF NameVanished
  <2>4. x \in Object /\ x.receiver = None /\ x.alive /\ x.init = None /\ x.proxy = None
    BY <1>2, <1>4, <2>1, AliveObject DEF Object, Disconnected, Stopped, None
  <2>5. Fewer(left, o, x.init)
    <3>1. PICK i : i = objects[o].init
      OBVIOUS
    <3>2. calls \in SUBSET CallsUpTo(made)
      BY AliveObject, <1>2
    <3>3. Fewer(old, o, i) /\ old \in SUBSET CallsUpTo(made) /\ \A c \in old : c.call = i => c.cancelled
      <4>1. Fewer(calls, o, i)
        BY <3>1, FewerCalls
      <4>2. Fewer(old, o, i) /\ old \in SUBSET CallsUpTo(made)
        BY <2>2, <3>1, <3>2, <4>1, FewerCancelled
      <4>3. \A c \in old : c.call = i => c.cancelled
        BY <1>2, <2>2, <3>1, <3>2, CancelledAre
      <4>4. QED
        BY <4>2, <4>3
    <3>4. Fewer(old, o, x.init)
      BY <3>1, <3>3 DEF Fewer
    <3>5. QED
      BY <2>2, <3>3, <3>4, FewerCancelled
  <2>6. /\ Shifted(1) /\ events[1] = e /\ e.stream = None /\ 1 \in 1..Len(events)
    BY <1>1, <1>2, AtFirst
  <2>7. ~Current(objects[o].proxy)
    BY <1>1, <1>2, <2>6 DEF Session, InTurn, Settled
  <2>8. Connecting(o, x)
    BY <2>4, <2>7, MessagesAre DEF Connecting, Session, Past, Current, None
  <2>9. Asked(o, x, left, <<>>) /\ <<>> \in Seq({})
    BY DEF Asked
  <2>10. Reading(o, 1, x)
    <3>1. server.peer.stream # None => objects[o].receiver # server.peer.stream
      BY <1>2, <2>7 DEF Session, Peering, Current
    <3>2. QED
      BY <2>4, <2>6, <3>1 DEF Reading
  <2>11. QED
    BY <1>2, <1>4, <2>3, <2>4, <2>5, <2>6, <2>8, <2>9, <2>10, BecomeSession
<1>5. QED
  BY <1>3, <1>4

LEMMA StartFinishedSession ==
  ASSUME CInv, Session, CurrentIsRead, StartFinished
  PROVE  Session' /\ CurrentIsRead'
<1>1. PICK e, o, k : e = Head(events) /\ o = e.object /\ k = e.call
  OBVIOUS
<1>2. PICK x, left : /\ x = Started(objects[o], e.stream)
                     /\ left = Cancelled(Finished(k), objects[o].autostart)
  OBVIOUS
<1>3. /\ events # <<>> /\ events' = Tail(events) /\ UNCHANGED <<streams, server, dropped>>
      /\ Pending(k) /\ e.type = "Opened" /\ Become(o, x, left, <<>>)
  BY <1>1, <1>2 DEF StartFinished, Receive
<1>4. /\ o \in Objects /\ objects[o].alive /\ e.stream \in Nat /\ e.stream # None /\ CInv'
      /\ objects[o] \in Object
  BY <1>1, <1>3, Received, StartFinishedStep, AliveObject
<1>5. /\ x \in Object /\ x.receiver = e.stream /\ x.alive /\ x.init = objects[o].init
      /\ x.proxy = objects[o].proxy /\ x.cookie = 1
  BY <1>2, <1>4 DEF Object, Started, Stopped, None
<1>6. Fewer(left, o, x.init)
  <2>1. Finished(k) \in SUBSET calls
    BY DEF Finished
  <2>2. Fewer(Finished(k), o, x.init) /\ Finished(k) \in SUBSET CallsUpTo(made)
    BY <1>5, <2>1, FewerCalls
  <2>3. QED
    BY <1>2, <2>2, FewerCancelled
<1>7. Shifted(1) /\ events[1] = e /\ 1 \in 1..Len(events) /\ Placed(e)
  BY <1>1, <1>3, AtFirst
<1>8. Connecting(o, x)
  BY <1>4, <1>5, <1>7, SettledStays DEF Connecting, Session, Past, Connection, InTurn, Current
<1>9. Asked(o, x, left, <<>>) /\ <<>> \in Seq({})
  BY DEF Asked
<1>10. Reading(o, 1, x)
  <2>1. ASSUME e.stream = server.peer.stream PROVE x.proxy = server.lives /\ x.cookie # None
    <3>1. Peering(server.peer.stream)
      BY <1>4, <2>1 DEF Session
    <3>2. Current(e.life)
      BY <1>7, <2>1, <3>1 DEF Peering, Current
    <3>3. QED
      BY <1>1, <1>3, <1>4, <1>5, <1>7, <3>2 DEF Placed, None
  <2>2. ASSUME server.peer.stream # None PROVE objects[o].receiver # server.peer.stream
    <3>1. Peering(server.peer.stream)
      BY <2>2 DEF Session
    <3>2. objects[o].receiver < e.stream /\ e.stream <= Len(streams)
      BY <1>4, <1>7, MessagesAre DEF Session, InOrder
    <3>3. objects[o].receiver \in Nat /\ Len(streams) \in Nat /\ server.peer.stream = Len(streams)
      BY <1>4, <3>1, MessagesAre DEF Peering
    <3>4. QED
      BY <1>4, <3>2, <3>3
  <2>3. QED
    BY <1>4, <1>5, <1>7, <2>1, <2>2 DEF Reading
<1>11. QED
  BY <1>3, <1>4, <1>5, <1>6, <1>7, <1>8, <1>9, <1>10, BecomeSession

LEMMA Between ==
  ASSUME NEW a \in Nat, NEW b \in Nat, a <= b, NEW i \in 1..b - a
  PROVE  a + i \in Nat /\ a + i \in a + 1..b
OBVIOUS

LEMMA FunctionIsSeq ==
  ASSUME NEW m \in Nat, NEW R, NEW f \in [1..m -> R]
  PROVE  f \in Seq(R) /\ Len(f) = m
OBVIOUS

LEMMA ConnectedSession ==
  ASSUME CInv, Session, CurrentIsRead, Connected
  PROVE  Session' /\ CurrentIsRead'
<1>1. PICK e, o, k, life : e = Head(events) /\ o = e.object /\ k = e.call /\ life = e.life
  OBVIOUS
<1>2. PICK y, old : /\ y = [Stopped(objects[o]) EXCEPT !.proxy = life, !.init = None]
                    /\ old = Cancelled(Finished(k), objects[o].autostart)
  OBVIOUS
<1>3. PICK n \in {0, 1} : Connects(o, life, y, old, n)
  <2>1. LET p == Head(events).object
        IN  \E n \in {0, 1} :
              Connects(p, Head(events).life,
                       [Stopped(objects[p]) EXCEPT !.proxy = Head(events).life, !.init = None],
                       Cancelled(Finished(Head(events).call), objects[p].autostart), n)
    BY DEF Connected, Connects
  <2>2. QED
    BY <1>1, <1>2, <2>1
<1>4. PICK x, left, sent :
        /\ x = [y EXCEPT !.autostart = IF StartsItself(y) THEN made' ELSE None]
        /\ left = old \cup New(o, made')
        /\ sent = [i \in 1..made' - made |->
                     [type |-> "LogOpen", call |-> made + i, object |-> o, life |-> life]]
  OBVIOUS
<1>5. /\ events # <<>> /\ events' = Tail(events) /\ UNCHANGED <<streams, server, dropped>>
      /\ Pending(k) /\ e.type = "Initialized" /\ Become(o, x, left, sent)
  BY <1>1, <1>2, <1>3, <1>4 DEF Connected, Receive, New, Connects
<1>6. /\ o \in Objects /\ objects[o].alive /\ life \in Nat /\ CInv' /\ objects[o] \in Object
      /\ k \in 0..made
  BY <1>1, <1>5, Received, ConnectedStep, AliveObject
<1>7. made \in Nat /\ made' \in Nat /\ made <= made'
  <2>1. made \in Nat
    BY DEF CInv
  <2>2. CASE StartsItself(y)
    BY <1>3, <2>1, <2>2 DEF Connects
  <2>3. CASE ~StartsItself(y)
    BY <1>3, <2>1, <2>3 DEF Connects
  <2>4. QED
    BY <2>2, <2>3
<1>8. x \in Object /\ x.receiver = None /\ x.alive /\ x.init = None /\ x.proxy = life
  <2>1. y \in Object /\ y.receiver = None /\ y.alive /\ y.init = None /\ y.proxy = life
    BY <1>2, <1>6 DEF Object, Stopped, None
  <2>2. QED
    BY <1>4, <1>7, <2>1 DEF Object, None
<1>9. /\ Shifted(1) /\ events[1] = e /\ 1 \in 1..Len(events) /\ Placed(e) /\ Turn(1)
      /\ e.stream = None /\ life <= server.lives
  BY <1>1, <1>5, AtFirst
<1>10. objects[o].init = k /\ k # None
  <2>1. \A c \in calls : c.call # None
    BY DEF CInv, CallsUpTo, None
  <2>2. QED
    BY <1>1, <1>5, <1>9, <2>1 DEF Placed, Pending
<1>11. Fewer(left, o, x.init)
  <2>1. Finished(k) \in SUBSET calls /\ \A c \in Finished(k) : c.call # objects[o].init
    BY <1>10 DEF Finished
  <2>2. Fewer(Finished(k), o, x.init) /\ Finished(k) \in SUBSET CallsUpTo(made)
    BY <2>1, FewerCalls
  <2>3. Fewer(old, o, x.init)
    BY <1>2, <2>2, FewerCancelled
  <2>4. QED
    BY <1>4, <1>7, <2>3, FewerNew
<1>12. ~Current(objects[o].proxy)
  BY <1>6, <1>10 DEF Session, Connection
<1>13. Current(life) => Settled(o)'
  BY <1>1, <1>5, <1>6, <1>9, SettledStays DEF Turn
<1>14. Connecting(o, x)
  BY <1>8, <1>9, <1>12, <1>13 DEF Connecting
<1>15. Reading(o, 1, x)
  <2>1. server.peer.stream # None => objects[o].receiver # server.peer.stream
    BY <1>6, <1>12 DEF Session, Peering, Current
  <2>2. QED
    BY <1>8, <1>9, <2>1 DEF Reading
<1>16. \E S : sent \in Seq(S) /\ Asked(o, x, left, sent)
  <2>1. PICK a \in Nat, b \in Nat : a = made /\ b = made' /\ a <= b
    BY <1>7
  <2>2. PICK m \in Nat : m = b - a
    BY <2>1, Difference
  <2>3. PICK R : R = {[type |-> "LogOpen", call |-> j, object |-> o, life |-> life] : j \in Nat}
    OBVIOUS
  <2>4. ASSUME NEW i \in 1..m
        PROVE  /\ a + i \in Nat /\ a + i \in a + 1..b
    BY <2>1, <2>2, Between
  <2>5. sent = [i \in 1..m |-> [type |-> "LogOpen", call |-> a + i, object |-> o, life |-> life]]
    BY <1>4, <2>1, <2>2
  <2>6. \A i \in 1..m : [type |-> "LogOpen", call |-> a + i, object |-> o, life |-> life] \in R
    BY <2>3, <2>4
  <2>7. sent \in Seq(R) /\ Len(sent) = m
    <3>1. sent \in [1..m -> R]
      BY <2>5, <2>6
    <3>2. QED
      BY <3>1, FunctionIsSeq
  <2>8. ASSUME NEW i \in 1..m
        PROVE  /\ sent[i].object = o /\ sent[i].life = x.proxy /\ sent[i].type = "LogOpen"
               /\ \E c \in left : c.object = o
    <3>1. CallOf(a + i, o) \in left /\ CallOf(a + i, o).object = o
      BY <1>4, <2>1, <2>4 DEF New, CallOf
    <3>2. QED
      BY <1>8, <2>5, <3>1
  <2>9. Asked(o, x, left, sent)
    BY <1>8, <1>9, <2>7, <2>8 DEF Asked
  <2>10. QED
    BY <2>7, <2>9
<1>17. PICK S : sent \in Seq(S) /\ Asked(o, x, left, sent)
  BY <1>16
<1>18. QED
  BY <1>5, <1>6, <1>8, <1>9, <1>11, <1>14, <1>15, <1>17, BecomeSession

-----------------------------------------------------------------------------
(* What a step of the server leaves as it was                                *)

(* More events for the objects, t of them.                                   *)
Told(t) ==
  /\ Len(events') = Len(events) + Len(t)
  /\ \A i \in 1..Len(events) : events'[i] = events[i]
  /\ \A i \in 1..Len(t) : events'[Len(events) + i] = t[i]

LEMMA ToldIs ==
  ASSUME CInv, CInv', NEW S, NEW t \in Seq(S), events' = events \o t
  PROVE  /\ Told(t) /\ Len(t) \in Nat
         /\ \A i \in 1..Len(events') :
              \/ i \in 1..Len(events) /\ events'[i] = events[i]
              \/ \E j \in 1..Len(t) : i = Len(events) + j /\ events'[i] = t[j]
         /\ \A i \in 1..Len(events) : i \in 1..Len(events')
<1>1. PICK T : T = Telling \cup S
  OBVIOUS
<1>2. events \in Seq(T) /\ t \in Seq(T)
  BY <1>1, WiderSeq DEF CInv
<1>3. PICK n \in Nat, m \in Nat : n = Len(events) /\ m = Len(t)
  BY <1>2
<1>4. /\ Len(events') = n + m /\ \A i \in 1..n : events'[i] = events[i]
      /\ \A i \in 1..m : events'[n + i] = t[i]
  BY <1>2, <1>3, JoinIs
<1>5. ASSUME NEW i \in 1..n + m
      PROVE  \/ i \in 1..n /\ events'[i] = events[i]
             \/ \E j \in 1..m : i = n + j /\ events'[i] = t[j]
  <2>1. CASE i \in 1..n
    BY <1>4, <2>1
  <2>2. CASE i \notin 1..n
    <3>1. i - n \in 1..m /\ i = n + (i - n)
      BY <2>2
    <3>2. QED
      BY <1>4, <3>1
  <2>3. QED
    BY <2>1, <2>2
<1>6. \A i \in 1..n : i \in 1..n + m
  OBVIOUS
<1>7. QED
  BY <1>3, <1>4, <1>5, <1>6 DEF Told

LEMMA SettledTold ==
  ASSUME CInv, CInv', NEW S, NEW t \in Seq(S), events' = events \o t, NEW o, Settled(o),
         \A i \in 1..Len(t) : t[i].type \notin {"Appeared", "Vanished"}
  PROVE  Settled(o)'
BY ToldIs DEF Settled

LEMMA FollowedTold ==
  ASSUME CInv, CInv', NEW S, NEW t \in Seq(S), events' = events \o t,
         NEW i \in 1..Len(events), NEW types, FollowedBy(i, types)
  PROVE  FollowedBy(i, types)'
<1>1. PICK j \in 1..Len(events) : /\ j > i /\ events[j].object = events[i].object
                                  /\ events[j].type \in types
  BY DEF FollowedBy
<1>2. events'[i] = events[i] /\ events'[j] = events[j] /\ j \in 1..Len(events')
  BY ToldIs DEF Told
<1>3. QED
  BY <1>1, <1>2 DEF FollowedBy

(* What the server may answer: it opens a stream for an object of its own    *)
(* life only.                                                                *)
Answering(e) ==
  /\ e.type \in {"Failed", "Initialized", "Opened"} /\ e.life = server.lives
  /\ e.type \in {"Initialized", "Opened"} => server.up /\ Settled(e.object)
  /\ e.stream \in Nat /\ (e.stream # None => e.type = "Opened" /\ e.stream > Len(streams))
  /\ Placed(e)

LEMMA Beyond ==
  ASSUME NEW a \in Nat, NEW b \in Nat, NEW n \in Nat, a <= n, b > n
  PROVE  a < b
OBVIOUS

LEMMA AtMostOne ==
  ASSUME NEW n \in Nat, n <= 1
  PROVE  n \in {0, 1}
OBVIOUS

LEMMA AnswerSession ==
  ASSUME CInv, Owners, CInv', Session, NEW S, NEW t \in Seq(S), events' = events \o t, Len(t) <= 1,
         \A i \in 1..Len(t) : Answering(t[i]),
         UNCHANGED <<objects, calls>>, server'.up = server.up, server'.lives = server.lives,
         requests # <<>>, requests' = Tail(requests)
  PROVE  Past' /\ InTurn' /\ Connection' /\ InOrder'
<1>1. /\ Told(t) /\ Len(t) \in Nat
      /\ \A i \in 1..Len(events') :
           \/ i \in 1..Len(events) /\ events'[i] = events[i]
           \/ \E j \in 1..Len(t) : i = Len(events) + j /\ events'[i] = t[j]
  BY ToldIs
<1>2. PICK n \in Nat, m \in {0, 1} : n = Len(events) /\ m = Len(t)
  <2>1. Len(t) \in {0, 1}
    BY <1>1, AtMostOne
  <2>2. Len(events) \in Nat
    BY MessagesAre
  <2>3. QED
    BY <2>1, <2>2
<1>3. ASSUME NEW i \in 1..Len(events')
      PROVE  \/ i \in 1..n /\ events'[i] = events[i]
             \/ i = n + 1 /\ i \notin 1..n /\ Answering(events'[i])
                /\ (events'[i].stream # None => events'[i].stream \in Nat)
  <2>1. CASE i \in 1..n
    BY <1>1, <1>2, <2>1 DEF Told
  <2>2. CASE i \notin 1..n
    <3>1. PICK j \in 1..Len(t) : i = n + j /\ events'[i] = t[j]
      BY <1>1, <1>2, <2>2
    <3>2. j = 1 /\ Answering(events'[i])
      BY <1>2, <3>1
    <3>3. events'[i].stream \in Nat
      BY <3>2 DEF Answering
    <3>4. QED
      BY <2>2, <3>1, <3>2, <3>3
  <2>3. QED
    BY <2>1, <2>2
<1>4. /\ \A i \in 1..Len(requests') : i + 1 \in 1..Len(requests) /\ requests'[i] = requests[i + 1]
      /\ \A life : Current(life)' <=> Current(life)
      /\ \A k : Pending(k)' <=> Pending(k)
      /\ \A o : Settled(o) => Settled(o)'
  <2>1. requests \in Seq(Asking)
    BY DEF CInv
  <2>2. PICK l \in Nat : l = Len(requests)
    BY <2>1
  <2>3. Len(requests') = l - 1 /\ \A i \in 1..l - 1 : requests'[i] = requests[i + 1]
    BY <2>1, <2>2, TailIs
  <2>4. \A i \in 1..l - 1 : i + 1 \in 1..l
    OBVIOUS
  <2>5. \A i \in 1..Len(t) : t[i].type \notin {"Appeared", "Vanished"}
    BY DEF Answering
  <2>6. \A o : Settled(o) => Settled(o)'
    BY <2>5, SettledTold
  <2>7. QED
    BY <2>2, <2>3, <2>4, <2>6 DEF Current, Pending
<1>5. Past'
  <2>1. ASSUME NEW i \in 1..Len(events') PROVE events'[i].life <= server'.lives
    <3>1. CASE i \in 1..n /\ events'[i] = events[i]
      BY <1>2, <3>1 DEF Session, Past
    <3>2. CASE Answering(events'[i])
      BY <3>2, MessagesAre DEF Answering
    <3>3. QED
      BY <1>3, <3>1, <3>2
  <2>2. ASSUME NEW i \in 1..Len(requests') PROVE requests'[i].life <= server'.lives
    BY <1>4 DEF Session, Past
  <2>3. \A o \in Objects : objects'[o].proxy <= server'.lives
    BY DEF Session, Past
  <2>4. server'.up => server'.lives # None
    BY DEF Session, Past
  <2>5. QED
    BY <2>1, <2>2, <2>3, <2>4 DEF Past
<1>6. InTurn'
  <2>1. ASSUME NEW i \in 1..Len(events') PROVE Turn(i)'
    <3>1. CASE i \in 1..n /\ events'[i] = events[i]
      <4>1. Turn(i) /\ i \in 1..Len(events)
        BY <1>2, <3>1 DEF Session, InTurn
      <4>2. FollowedBy(i, {"Vanished"}) => FollowedBy(i, {"Vanished"})'
        BY <4>1, FollowedTold
      <4>3. ASSUME FollowedBy(i, {"Appeared", "Vanished"})'
            PROVE  FollowedBy(i, {"Appeared", "Vanished"})
        <5>1. PICK j \in 1..Len(events') : /\ j > i /\ events'[j].object = events'[i].object
                                           /\ events'[j].type \in {"Appeared", "Vanished"}
          BY <4>3 DEF FollowedBy
        <5>2. j \in 1..n /\ events'[j] = events[j]
          BY <1>3, <5>1 DEF Answering
        <5>3. QED
          BY <1>2, <3>1, <5>1, <5>2 DEF FollowedBy
      <4>4. QED
        BY <1>4, <3>1, <4>1, <4>2, <4>3 DEF Turn
    <3>2. CASE Answering(events'[i])
      <4>1. PICK e : e = events'[i]
        OBVIOUS
      <4>2. /\ e.type # "Appeared"
            /\ e.type \in {"Initialized", "Opened"} => Current(e.life) /\ Settled(e.object)
        BY <3>2, <4>1 DEF Answering, Current
      <4>3. e.type \in {"Initialized", "Opened"} => Current(e.life)' /\ Settled(e.object)'
        BY <1>4, <4>2
      <4>4. QED
        BY <4>1, <4>2, <4>3 DEF Turn
    <3>3. QED
      BY <1>3, <3>1, <3>2
  <2>2. ASSUME NEW i \in 1..Len(requests'), Current(requests[i].life)'
        PROVE  Settled(requests[i].object)'
    <3>1. PICK q : q = requests'[i]
      OBVIOUS
    <3>2. Current(q.life) /\ q = requests[i + 1] /\ i + 1 \in 1..Len(requests)
      BY <1>4, <2>2, <3>1 DEF Current
    <3>3. Settled(q.object)'
      BY <1>4, <3>2 DEF Session, InTurn
    <3>4. QED
      BY <3>1, <3>3
  <2>3. ASSUME NEW o \in Objects, Current(objects[o].proxy)' PROVE Settled(o)'
    <3>1. Current(objects[o].proxy)
      BY <2>3 DEF Current
    <3>2. QED
      BY <1>4, <3>1 DEF Session, InTurn
  <2>4. QED
    BY <2>1, <2>2, <2>3 DEF InTurn
<1>7. Connection'
  <2>1. ASSUME NEW r, Placed(r) PROVE Placed(r)'
    BY <1>4, <2>1 DEF Placed
  <2>2. ASSUME NEW i \in 1..Len(requests') PROVE Placed(requests[i])'
    <3>1. PICK q : q = requests'[i]
      OBVIOUS
    <3>2. Placed(q)'
      BY <1>4, <2>1, <3>1 DEF Session, Connection
    <3>3. QED
      BY <3>1, <3>2
  <2>3. ASSUME NEW i \in 1..Len(events') PROVE Placed(events[i])'
    <3>1. PICK q : q = events'[i]
      OBVIOUS
    <3>2. Placed(q)
      BY <1>2, <1>3, <3>1 DEF Session, Connection, Answering
    <3>3. Placed(q)'
      BY <2>1, <3>2
    <3>4. QED
      BY <3>1, <3>3
  <2>4. ASSUME NEW o \in Objects, Current(objects[o].proxy)' PROVE objects'[o].init = None
    <3>1. Current(objects[o].proxy)
      BY <2>4 DEF Current
    <3>2. QED
      BY <3>1 DEF Session, Connection
  <2>5. QED
    BY <2>2, <2>3, <2>4 DEF Connection
<1>8. \A i \in 1..n : events[i].stream \in Nat /\ events[i].stream <= Len(streams)
  BY <1>2, MessagesAre
<1>9. Len(streams) \in Nat
  BY MessagesAre
<1>10. ASSUME NEW i \in 1..Len(events'), NEW j \in 1..Len(events'), i < j,
              events'[i].stream # None, events'[j].stream # None
       PROVE  events'[i].stream < events'[j].stream
  <2>1. i \in 1..n /\ events'[i] = events[i]
    <3>1. i \in Nat /\ j \in Nat /\ (j \in 1..n \/ j = n + 1)
      BY <1>3
    <3>2. i # n + 1
      BY <1>10, <3>1
    <3>3. QED
      BY <1>3, <3>2
  <2>2. CASE j \in 1..n /\ events'[j] = events[j]
    BY <1>2, <1>10, <2>1, <2>2 DEF Session, InOrder
  <2>3. CASE j = n + 1 /\ Answering(events'[j]) /\ events'[j].stream \in Nat
    <3>1. events'[j].stream > Len(streams)
      BY <1>10, <2>3 DEF Answering
    <3>2. events[i].stream \in Nat /\ events[i].stream <= Len(streams)
      BY <1>8, <2>1
    <3>3. PICK a \in Nat, b \in Nat, l \in Nat :
            a = events'[i].stream /\ b = events'[j].stream /\ l = Len(streams)
      BY <1>9, <2>1, <2>3, <3>2
    <3>4. a <= l /\ b > l
      BY <2>1, <3>1, <3>2, <3>3
    <3>5. a < b
      BY <3>4, Beyond
    <3>6. QED
      BY <3>3, <3>5
  <2>4. QED
    BY <1>3, <1>10, <2>2, <2>3
<1>11. ASSUME NEW i \in 1..Len(events'), NEW o \in Objects, events'[i].stream # None
       PROVE  objects'[o].receiver < events'[i].stream
  <2>1. CASE i \in 1..n /\ events'[i] = events[i]
    BY <1>2, <1>11, <2>1 DEF Session, InOrder
  <2>2. CASE Answering(events'[i]) /\ events'[i].stream \in Nat
    <3>1. events'[i].stream > Len(streams)
      BY <1>11, <2>2 DEF Answering
    <3>2. objects[o].receiver \in Nat /\ objects[o].receiver <= Len(streams)
      BY MessagesAre DEF Owners
    <3>3. QED
      BY <1>9, <2>2, <3>1, <3>2
  <2>3. QED
    BY <1>3, <1>11, <2>1, <2>2
<1>12. \A i \in 1..Len(events') : events'[i].stream # None => events'[i].type = "Opened"
  BY <1>2, <1>3 DEF Answering, Session, InOrder
<1>13. QED
  BY <1>5, <1>6, <1>7, <1>10, <1>11, <1>12 DEF InOrder

LEMMA ReadingServed ==
  ASSUME CInv, CInv', Session, CurrentIsRead, UNCHANGED <<objects, server, streams, dropped>>,
         NEW S, NEW t \in Seq(S), events' = events \o t, \A i \in 1..Len(t) : t[i].stream = None,
         requests # <<>>, requests' = Tail(requests),
         Head(requests).type = "LogClose" => ~Handled(Head(requests))
  PROVE  /\ server'.peer.stream # None => Peering(server.peer.stream)'
         /\ CurrentIsRead'
<1> SUFFICES ASSUME server.peer.stream # None
             PROVE  Peering(server.peer.stream)' /\ CurrentIsRead'
  BY DEF CurrentIsRead
<1>1. PICK s : s = server.peer.stream
  OBVIOUS
<1>2. Peering(s) /\ s \in Nat /\ s # None
  BY <1>1, MessagesAre DEF Session
<1>3. /\ \A i \in 1..Len(events) : i \in 1..Len(events') /\ events'[i] = events[i]
      /\ \A i \in 1..Len(events') :
           (i \in 1..Len(events) /\ events'[i] = events[i]) \/ events'[i].stream = None
  <2>1. /\ \A i \in 1..Len(events') :
             \/ i \in 1..Len(events) /\ events'[i] = events[i]
             \/ \E j \in 1..Len(t) : i = Len(events) + j /\ events'[i] = t[j]
        /\ \A i \in 1..Len(events) : i \in 1..Len(events')
        /\ \A i \in 1..Len(events) : events'[i] = events[i]
    BY ToldIs DEF Told
  <2>2. QED
    BY <2>1
<1>4. Peering(s)'
  BY <1>2, <1>3 DEF Peering
<1>5. PICK l \in Nat : l = Len(requests)
  BY MessagesAre
<1>6. ASSUME NEW i \in 1..l, i # 1
      PROVE  i - 1 \in 1..Len(requests') /\ requests'[i - 1] = requests[i]
  <2>1. Len(requests') = l - 1 /\ \A j \in 1..l - 1 : requests'[j] = requests[j + 1]
    BY <1>5, TailIs DEF CInv
  <2>2. i - 1 \in 1..l - 1 /\ i - 1 + 1 = i
    BY <1>6
  <2>3. QED
    BY <2>1, <2>2
<1>7. /\ DOMAIN events = 1..Len(events) /\ DOMAIN events' = 1..Len(events')
      /\ DOMAIN requests = 1..l /\ DOMAIN requests' = 1..Len(requests')
  BY <1>5 DEF CInv
<1>8. \/ s \in dropped \/ \E i \in 1..Len(events) : events[i].stream = s
      \/ \E o \in Objects : objects[o].receiver = s
      \/ \E i \in 1..l : requests[i].type = "LogClose" /\ requests[i].life = server.lives
  BY <1>1, <1>2, <1>7 DEF CurrentIsRead, Answers
<1>9. ASSUME NEW i \in 1..l, requests[i].type = "LogClose", requests[i].life = server.lives
      PROVE  \E j \in 1..Len(requests') :
               requests'[j].type = "LogClose" /\ requests'[j].life = server.lives
  <2>1. Head(requests) = requests[1]
    BY TailIs DEF CInv
  <2>2. i # 1
    BY <1>2, <1>9, <2>1 DEF Peering, Handled
  <2>3. QED
    BY <1>6, <1>9, <2>2
<1>10. \/ s \in dropped' \/ \E i \in 1..Len(events') : events'[i].stream = s
       \/ \E o \in Objects : objects'[o].receiver = s
       \/ \E i \in 1..Len(requests') :
            requests'[i].type = "LogClose" /\ requests'[i].life = server'.lives
  BY <1>3, <1>8, <1>9
<1>11. CurrentIsRead'
  BY <1>1, <1>7, <1>10 DEF CurrentIsRead, Answers
<1>12. QED
  BY <1>1, <1>4, <1>11

LEMMA ServeSession ==
  ASSUME CInv, Owners, CInv', Session, CurrentIsRead, Serve
  PROVE  Session' /\ CurrentIsRead'
<1>1. PICK r, k, o, n : /\ r = Head(requests) /\ k = r.call /\ o = r.object
                        /\ n = Len(streams)
  OBVIOUS
<1>2. /\ requests # <<>> /\ requests' = Tail(requests)
      /\ UNCHANGED <<objects, calls, made, dropped>>
  BY DEF Serve
<1>3. /\ requests \in Seq(Asking) /\ streams \in Seq(States) /\ n \in Nat /\ made \in Nat
      /\ server \in Server /\ events \in Seq(Telling)
  BY <1>1 DEF CInv
<1>4. /\ r \in Asking /\ r = requests[1] /\ 1 \in 1..Len(requests)
      /\ Placed(r) /\ (Current(r.life) => Settled(o)) /\ o \in Objects
  <2>1. r \in Asking /\ r = requests[1] /\ 1 \in 1..Len(requests)
    BY <1>1, <1>2, <1>3, TailIs
  <2>2. Placed(requests[1]) /\ (Current(requests[1].life) => Settled(requests[1].object))
    BY <2>1 DEF Session, Connection, InTurn
  <2>3. QED
    BY <1>1, <2>1, <2>2 DEF Asking
<1>5. server = [up |-> server.up, allows |-> server.allows, lives |-> server.lives,
                peer |-> server.peer]
  BY <1>3 DEF Server
<1>6. CASE /\ \E type \in {"Failed", "Initialized"} :
                /\ events' = Append(events, Event(type, k, o, None))
                /\ type = "Initialized" => Handled(r) /\ r.type = "GetAll"
           /\ UNCHANGED <<streams, server>> /\ (Handled(r) => r.type # "LogClose")
  <2>1. PICK type \in {"Failed", "Initialized"} :
          /\ events' = Append(events, Event(type, k, o, None))
          /\ type = "Initialized" => Handled(r) /\ r.type = "GetAll"
    BY <1>6
  <2>2. PICK e : e = Event(type, k, o, None)
    OBVIOUS
  <2>3. /\ e.type = type /\ e.call = k /\ e.object = o /\ e.stream = None
        /\ e.life = server.lives
    BY <2>2 DEF Event
  <2>4. Answering(e)
    <3>1. type = "Initialized" => server.up /\ Settled(o)
      BY <1>1, <1>4, <2>1 DEF Handled, Current
    <3>2. Placed(e)
      BY <1>1, <1>4, <2>1, <2>3 DEF Placed
    <3>3. QED
      BY <2>1, <2>3, <3>1, <3>2 DEF Answering, None
  <2>5. PICK t : t = <<e>>
    OBVIOUS
  <2>6. events' = events \o t /\ t \in Seq({e}) /\ Len(t) <= 1 /\ Len(t) = 1 /\ t[1] = e
    BY <1>3, <2>1, <2>2, <2>5
  <2>7. /\ \A i \in 1..Len(t) : Answering(t[i])
        /\ \A i \in 1..Len(t) : t[i].stream = None
    BY <2>3, <2>4, <2>6
  <2>8. Past' /\ InTurn' /\ Connection' /\ InOrder'
    <3>1. server'.up = server.up /\ server'.lives = server.lives
      BY <1>6
    <3>2. QED
      BY <1>2, <2>6, <2>7, <3>1, AnswerSession
  <2>9. CurrentIsRead' /\ (server'.peer.stream # None => Peering(server.peer.stream)')
    <3>1. Head(requests).type = "LogClose" => ~Handled(Head(requests))
      BY <1>1, <1>6
    <3>2. QED
      BY <1>2, <1>6, <2>6, <2>7, <3>1, ReadingServed
  <2>10. QED
    BY <2>8, <2>9 DEF Session
<1>7. CASE events' = events /\ UNCHANGED <<streams, server>> /\ ~Handled(r)
  <2>1. events' = events \o <<>> /\ <<>> \in Seq({}) /\ Len(<<>>) <= 1
        /\ \A i \in 1..Len(<<>>) : FALSE
    BY <1>3, <1>7
  <2>2. Past' /\ InTurn' /\ Connection' /\ InOrder'
    <3>1. server'.up = server.up /\ server'.lives = server.lives
      BY <1>7
    <3>2. \A i \in 1..Len(<<>>) : Answering(<<>>[i])
      BY <2>1
    <3>3. QED
      BY <1>2, <2>1, <3>1, <3>2, AnswerSession
  <2>3. CurrentIsRead' /\ (server'.peer.stream # None => Peering(server.peer.stream)')
    <3>1. Head(requests).type = "LogClose" => ~Handled(Head(requests))
      BY <1>1, <1>7
    <3>2. \A i \in 1..Len(<<>>) : <<>>[i].stream = None
      BY <2>1
    <3>3. QED
      BY <1>2, <1>7, <2>1, <3>1, <3>2, ReadingServed
  <2>4. QED
    BY <2>2, <2>3 DEF Session
<1>8. CASE /\ r.type = "LogOpen" /\ Handled(r)
           /\ events' = Append(events, Event("Opened", k, o, n + 1))
           /\ streams' = Append(EndOf(server.peer.stream), "open")
           /\ server' = [server EXCEPT !.peer = [stream |-> n + 1, object |-> o]]
  <2>1. PICK e : e = Event("Opened", k, o, n + 1)
    OBVIOUS
  <2>2. /\ e.type = "Opened" /\ e.call = k /\ e.object = o /\ e.stream = n + 1
        /\ e.life = server.lives
    BY <2>1 DEF Event
  <2>3. server.up /\ Current(r.life) /\ Current(e.life) /\ n + 1 \in Nat /\ n + 1 > n
    BY <1>3, <1>8, <2>2 DEF Handled, Current
  <2>4. Answering(e)
    <3>1. Placed(e)
      BY <1>1, <1>4, <1>8, <2>2, <2>3 DEF Placed
    <3>2. QED
      BY <1>1, <1>4, <2>2, <2>3, <3>1 DEF Answering
  <2>5. PICK t : t = <<e>>
    OBVIOUS
  <2>6. events' = events \o t /\ t \in Seq({e}) /\ Len(t) <= 1 /\ Len(t) = 1 /\ t[1] = e
    BY <1>3, <1>8, <2>1, <2>5
  <2>7. \A i \in 1..Len(t) : Answering(t[i])
    BY <2>4, <2>6
  <2>8. server'.up = server.up /\ server'.lives = server.lives /\ server'.peer.stream = n + 1
    BY <1>5, <1>8
  <2>9. Past' /\ InTurn' /\ Connection' /\ InOrder'
    BY <1>2, <2>6, <2>7, <2>8, AnswerSession
  <2>10. Len(streams') = n + 1 /\ streams'[n + 1] = "open"
    <3>1. PICK ended : ended = EndOf(server.peer.stream)
      OBVIOUS
    <3>2. ended \in Seq(States) /\ Len(ended) = n
      BY <1>1, <1>3, <3>1, EndOfIs
    <3>3. streams' = Append(ended, "open")
      BY <1>8, <3>1
    <3>4. QED
      BY <1>3, <3>2, <3>3
  <2>11. ASSUME NEW i \in 1..Len(events'), events'[i].stream = n + 1
         PROVE  events'[i].life = server'.lives
    <3>1. \/ i \in 1..Len(events) /\ events'[i] = events[i]
          \/ \E j \in 1..Len(t) : i = Len(events) + j /\ events'[i] = t[j]
      BY <2>6, ToldIs
    <3>2. CASE i \in 1..Len(events) /\ events'[i] = events[i]
      <4>1. events[i].stream \in Nat /\ events[i].stream <= n
        BY <1>1, <3>2, MessagesAre
      <4>2. QED
        BY <1>3, <2>11, <3>2, <4>1
    <3>3. CASE \E j \in 1..Len(t) : events'[i] = t[j]
      BY <2>2, <2>6, <2>8, <3>3
    <3>4. QED
      BY <3>1, <3>2, <3>3
  <2>12. ASSUME NEW p \in Objects PROVE objects'[p].receiver # n + 1
    <3>1. objects[p].receiver \in Nat /\ objects[p].receiver <= n
      BY <1>1, MessagesAre DEF Owners
    <3>2. QED
      BY <1>2, <1>3, <3>1
  <2>13. Peering(n + 1)'
    BY <2>3, <2>8, <2>10, <2>11, <2>12 DEF Peering
  <2>14. CurrentIsRead'
    <3>1. PICK m \in Nat : m = Len(events)
      BY MessagesAre
    <3>2. m + 1 \in DOMAIN events' /\ events'[m + 1] = e
      BY <1>3, <2>1, <1>8, <3>1
    <3>3. m + 1 \in Answers(n + 1)'
      BY <2>2, <3>2 DEF Answers
    <3>4. QED
      BY <2>8, <3>3 DEF CurrentIsRead
  <2>15. QED
    BY <2>8, <2>9, <2>13 , <2>14 DEF Session
<1>9. CASE /\ r.type = "LogClose" /\ Handled(r)
           /\ events' = events /\ streams' = EndOf(server.peer.stream)
           /\ server' = [server EXCEPT !.peer = NoPeer]
  <2>1. events' = events \o <<>> /\ <<>> \in Seq({}) /\ Len(<<>>) <= 1
        /\ \A i \in 1..Len(<<>>) : Answering(<<>>[i])
    BY <1>3, <1>9
  <2>2. server'.up = server.up /\ server'.lives = server.lives /\ server'.peer.stream = None
    BY <1>5, <1>9 DEF NoPeer
  <2>3. Past' /\ InTurn' /\ Connection' /\ InOrder'
    BY <1>2, <2>1, <2>2, AnswerSession
  <2>4. QED
    BY <2>2, <2>3 DEF Session, CurrentIsRead
<1>10. QED
  <2>1. CASE ~Handled(r) /\ k = None
    BY <1>1, <1>7, <2>1 DEF Serve
  <2>2. CASE ~Handled(r) /\ k # None
    BY <1>1, <1>6, <2>2 DEF Serve
  <2>3. CASE Handled(r) /\ r.type = "GetAll"
    BY <1>1, <1>6, <2>3 DEF Serve
  <2>4. CASE Handled(r) /\ r.type = "LogOpen" /\ ~server.allows
    BY <1>1, <1>6, <2>4 DEF Serve
  <2>5. CASE Handled(r) /\ r.type = "LogOpen" /\ server.allows
    BY <1>1, <1>8, <2>5 DEF Serve
  <2>6. CASE Handled(r) /\ r.type = "LogClose"
    BY <1>1, <1>9, <2>6 DEF Serve
  <2>7. r.type \in {"GetAll", "LogOpen", "LogClose"}
    BY <1>4 DEF Asking
  <2>8. QED
    BY <2>1, <2>2, <2>3, <2>4, <2>5, <2>6, <2>7

(* Every object is told, and no object twice.                                *)
LEMMA EveryoneTold ==
  ASSUME NEW type, NEW life
  PROVE  /\ \A i \in 1..Len(Tell(type, life)) :
              /\ Tell(type, life)[i].type = type /\ Tell(type, life)[i].life = life
              /\ Tell(type, life)[i].stream = None
         /\ \A o \in Objects : \E i \in 1..Len(Tell(type, life)) : Tell(type, life)[i].object = o
         /\ \A i, j \in 1..Len(Tell(type, life)) :
              Tell(type, life)[i].object = Tell(type, life)[j].object => i = j
<1>1. PICK n \in Nat : n = Cardinality(Objects)
  BY SessionConstants, FS_CardinalityType
<1>2. PICK f \in [1..n -> Objects] : \A o \in Objects : \E i \in 1..n : f[i] = o
  <2>1. ExistsBijection(1..n, Objects)
    BY <1>1, SessionConstants, FS_CardinalityType
  <2>2. QED
    BY <2>1 DEF ExistsBijection, Bijection, Surjection
<1>3. PICK all : all = CHOOSE g \in [1..n -> Objects] :
                         \A o \in Objects : \E i \in DOMAIN g : g[i] = o
  OBVIOUS
<1>4. all \in [1..n -> Objects] /\ \A o \in Objects : \E i \in 1..n : all[i] = o
  <2>1. DOMAIN f = 1..n
    OBVIOUS
  <2>2. all \in [1..n -> Objects] /\ \A o \in Objects : \E i \in DOMAIN all : all[i] = o
    BY <1>2, <1>3, <2>1
  <2>3. QED
    BY <2>2
<1>5. \A i, j \in 1..n : all[i] = all[j] => i = j
  <2>1. IsFiniteSet(1..n) /\ Cardinality(1..n) = n
    BY FS_Interval
  <2>2. all \in Surjection(1..n, Objects)
    BY <1>4 DEF Surjection
  <2>3. all \in Injection(1..n, Objects)
    BY <1>1, <2>1, <2>2, FS_SurjSameCardinalityImpliesInj
  <2>4. QED
    BY <1>4, <2>3 DEF Injection, IsInjective
<1>6. PICK tell : tell = Tell(type, life)
  OBVIOUS
<1>7. tell = [i \in 1..n |-> [Event(type, None, all[i], None) EXCEPT !.life = life]]
  <2>1. tell = [i \in DOMAIN all |-> [Event(type, None, all[i], None) EXCEPT !.life = life]]
    BY <1>1, <1>3, <1>6 DEF Tell
  <2>2. DOMAIN all = 1..n
    BY <1>4
  <2>3. QED
    BY <2>1, <2>2
<1>8. \A i \in 1..n : /\ tell[i].type = type /\ tell[i].life = life
                      /\ tell[i].stream = None /\ tell[i].object = all[i]
  BY <1>7 DEF Event
<1>9. Len(tell) = n
  BY <1>7
<1>10. /\ \A i \in 1..Len(tell) :
            tell[i].type = type /\ tell[i].life = life /\ tell[i].stream = None
       /\ \A o \in Objects : \E i \in 1..Len(tell) : tell[i].object = o
       /\ \A i, j \in 1..Len(tell) : tell[i].object = tell[j].object => i = j
  <2>1. ASSUME NEW o \in Objects PROVE \E i \in 1..n : tell[i].object = o
    <3>1. PICK i \in 1..n : all[i] = o
      BY <1>4
    <3>2. tell[i].object = o
      BY <1>8, <3>1
    <3>3. QED
      BY <3>2
  <2>2. \A i, j \in 1..n : tell[i].object = tell[j].object => i = j
    BY <1>5, <1>8
  <2>3. QED
    BY <1>8, <1>9, <2>1, <2>2
<1>11. QED
  BY <1>6, <1>10

(* The server comes or goes, and nothing is of its life any more.            *)
LEMMA TidingsSession ==
  ASSUME CInv, CInv', Session, NEW S, NEW t \in Seq(S), events' = events \o t,
         UNCHANGED <<objects, calls, requests>>, server'.peer.stream = None,
         server'.up => server'.lives # None, server.lives <= server'.lives,
         \A life \in Nat : life <= server.lives => ~Current(life)',
         \A i \in 1..Len(t) : /\ t[i].type \in {"Appeared", "Vanished"}
                              /\ t[i].life = server'.lives /\ t[i].stream = None,
         \A i \in 1..Len(events') : Turn(i)'
  PROVE  Session' /\ CurrentIsRead'
<1>1. ASSUME NEW i \in 1..Len(events')
      PROVE  \/ i \in 1..Len(events) /\ events'[i] = events[i]
             \/ /\ events'[i].type \in {"Appeared", "Vanished"}
                /\ events'[i].life = server'.lives /\ events'[i].stream = None
  <2>1. \/ i \in 1..Len(events) /\ events'[i] = events[i]
        \/ \E j \in 1..Len(t) : i = Len(events) + j /\ events'[i] = t[j]
    BY ToldIs
  <2>2. QED
    BY <2>1
<1>2. /\ \A i \in 1..Len(requests) : requests[i].life \in Nat /\ requests[i].life <= server.lives
      /\ \A i \in 1..Len(events) : events[i].life \in Nat /\ events[i].life <= server.lives
      /\ \A o \in Objects : objects[o].proxy \in Nat /\ objects[o].proxy <= server.lives
  BY MessagesAre DEF Session, Past
<1>3. server.lives \in Nat /\ server'.lives \in Nat
  BY MessagesAre DEF CInv, Server
<1>4. Past'
  <2>1. \A life \in Nat : life <= server.lives => life <= server'.lives
    BY <1>3
  <2>2. \A i \in 1..Len(events') : events'[i].life <= server'.lives
    BY <1>1, <1>2, <1>3, <2>1
  <2>3. /\ \A o \in Objects : objects'[o].proxy <= server'.lives
        /\ \A i \in 1..Len(requests') : requests'[i].life <= server'.lives
    BY <1>2, <2>1
  <2>4. QED
    BY <2>2, <2>3 DEF Past
<1>5. /\ \A i \in 1..Len(requests') : ~Current(requests[i].life)'
      /\ \A o \in Objects : ~Current(objects[o].proxy)'
  <2>1. \A life \in Nat : life <= server.lives => ~(server'.up /\ life = server'.lives)
    BY DEF Current
  <2>2. QED
    BY <1>2, <2>1 DEF Current
<1>6. InTurn'
  BY <1>5 DEF InTurn
<1>7. ASSUME NEW m, Placed(m), m.life \in Nat, m.life <= server.lives
      PROVE  Placed(m)'
  <2>1. ~Current(m.life)' /\ (Pending(m.call)' <=> Pending(m.call))
    BY <1>7 DEF Pending
  <2>2. QED
    BY <1>7, <2>1 DEF Placed
<1>8. Connection'
  <2>1. ASSUME NEW i \in 1..Len(requests') PROVE Placed(requests[i])'
    <3>1. PICK q : q = requests'[i]
      OBVIOUS
    <3>2. Placed(q) /\ q.life \in Nat /\ q.life <= server.lives
      BY <1>2, <3>1 DEF Session, Connection
    <3>3. Placed(q)'
      BY <1>7, <3>2
    <3>4. QED
      BY <3>1, <3>3
  <2>2. ASSUME NEW i \in 1..Len(events') PROVE Placed(events[i])'
    <3>1. PICK q : q = events'[i]
      OBVIOUS
    <3>2. Placed(q)'
      <4>1. CASE i \in 1..Len(events) /\ events'[i] = events[i]
        <5>1. Placed(q) /\ q.life \in Nat /\ q.life <= server.lives
          BY <1>2, <3>1, <4>1 DEF Session, Connection
        <5>2. QED
          BY <1>7, <5>1
      <4>2. CASE q.type \in {"Appeared", "Vanished"}
        BY <4>2 DEF Placed
      <4>3. QED
        BY <1>1, <3>1, <4>1, <4>2
    <3>3. QED
      BY <3>1, <3>2
  <2>3. QED
    BY <1>5, <2>1, <2>2 DEF Connection
<1>9. InOrder'
  <2>1. \A i \in 1..Len(events') :
          events'[i].stream # None => i \in 1..Len(events) /\ events'[i] = events[i]
    BY <1>1
  <2>2. QED
    BY <2>1 DEF Session, InOrder
<1>10. QED
  BY <1>4, <1>6, <1>8, <1>9 DEF Session, CurrentIsRead

LEMMA ServerStartsSession ==
  ASSUME CInv, Session, ServerStarts
  PROVE  Session' /\ CurrentIsRead'
<1>1. PICK t : t = Tell("Appeared", server.lives + 1)
  OBVIOUS
<1>2. /\ events' = events \o t /\ t \in Seq(Telling') /\ CInv' /\ server.lives \in Nat
      /\ UNCHANGED <<objects, calls, requests, streams, made>> /\ ~server.up
  <2>1. /\ events' = events \o t
        /\ UNCHANGED <<objects, calls, requests, streams, made>> /\ ~server.up
    BY <1>1 DEF ServerStarts
  <2>2. server.lives \in Nat /\ server.lives + 1 \in Nat /\ Len(streams') \in Nat
    BY <2>1, MessagesAre
  <2>3. t \in Seq(Telling')
    BY <1>1, <2>1, <2>2, TellIs
  <2>4. QED
    BY <2>1, <2>2, <2>3, ServerStartsStep
<1>3. /\ server'.up /\ server'.lives = server.lives + 1 /\ server'.peer.stream = None
      /\ server'.lives # None /\ server.lives <= server'.lives
  BY <1>2 DEF ServerStarts, NoPeer, None
<1>4. \A life \in Nat : life <= server.lives => ~Current(life)'
  BY <1>2, <1>3 DEF Current
<1>5. /\ \A i \in 1..Len(t) : /\ t[i].type = "Appeared" /\ t[i].life = server'.lives
                              /\ t[i].stream = None
      /\ \A i, j \in 1..Len(t) : t[i].object = t[j].object => i = j
  BY <1>1, <1>3, EveryoneTold
<1>6. PICK n \in Nat : n = Len(events)
  BY MessagesAre
<1>7. /\ Len(t) \in Nat /\ Told(t)
      /\ \A i \in 1..Len(events') :
           \/ i \in 1..n /\ events'[i] = events[i]
           \/ \E j \in 1..Len(t) : i = n + j /\ events'[i] = t[j]
  BY <1>2, <1>6, ToldIs
<1>8. ASSUME NEW i \in 1..Len(events') PROVE Turn(i)'
  <2>1. CASE i \in 1..n /\ events'[i] = events[i]
    <3>1. /\ events[i].life \in Nat /\ events[i].life <= server.lives /\ Turn(i)
          /\ i \in 1..Len(events)
      BY <1>6, <2>1, MessagesAre DEF Session, Past, InTurn
    <3>2. ~(server'.up /\ events'[i].life = server'.lives)
      BY <1>4, <2>1, <3>1 DEF Current
    <3>3. FollowedBy(i, {"Vanished"}) => FollowedBy(i, {"Vanished"})'
      BY <1>2, <3>1, FollowedTold
    <3>4. events[i].type \in {"Appeared", "Initialized", "Opened"} => FollowedBy(i, {"Vanished"})
      BY <1>2, <3>1 DEF Turn, Current
    <3>5. QED
      BY <2>1, <3>2, <3>3, <3>4 DEF Turn, Current
  <2>2. CASE \E j \in 1..Len(t) : i = n + j /\ events'[i] = t[j]
    <3>1. PICK j \in 1..Len(t) : i = n + j /\ events'[i] = t[j]
      BY <2>2
    <3>2. events'[i].type = "Appeared" /\ server'.up /\ events'[i].life = server'.lives
      BY <1>3, <1>5, <3>1
    <3>3. ASSUME FollowedBy(i, {"Appeared", "Vanished"})' PROVE FALSE
      <4>1. PICK q \in 1..Len(events') : q > i /\ events'[q].object = events'[i].object
        BY <3>3 DEF FollowedBy
      <4>2. q \notin 1..n
        BY <1>7, <3>1, <4>1
      <4>3. PICK p \in 1..Len(t) : q = n + p /\ events'[q] = t[p]
        BY <1>7, <4>2
      <4>4. p = j
        BY <1>5, <3>1, <4>1, <4>3
      <4>5. QED
        BY <1>7, <3>1, <4>1, <4>3, <4>4
    <3>4. QED
      BY <3>2, <3>3 DEF Turn, Current
  <2>3. QED
    BY <1>7, <2>1, <2>2
<1>9. \A i \in 1..Len(t) : /\ t[i].type \in {"Appeared", "Vanished"}
                          /\ t[i].life = server'.lives /\ t[i].stream = None
  BY <1>5
<1>10. QED
  BY <1>2, <1>3, <1>4, <1>8, <1>9, TidingsSession

LEMMA ServerDiesSession ==
  ASSUME CInv, Session, ServerDies
  PROVE  Session' /\ CurrentIsRead'
<1>1. PICK t : t = Tell("Vanished", server.lives)
  OBVIOUS
<1>2. /\ events' = events \o t /\ t \in Seq(Telling') /\ CInv' /\ server.lives \in Nat
      /\ UNCHANGED <<objects, calls, requests, made>>
  <2>1. /\ events' = events \o t
        /\ UNCHANGED <<objects, calls, requests, made>>
    BY <1>1 DEF ServerDies
  <2>2. CInv'
    BY ServerDiesStep
  <2>3. server.lives \in Nat /\ Len(streams') \in Nat
    BY <2>2, MessagesAre DEF CInv
  <2>4. t \in Seq(Telling')
    BY <1>1, <2>1, <2>3, TellIs
  <2>5. QED
    BY <2>1, <2>2, <2>3, <2>4
<1>3. /\ ~server'.up /\ server'.lives = server.lives /\ server'.peer.stream = None
      /\ server.lives <= server'.lives
  <2>1. server \in Server
    BY DEF CInv
  <2>2. QED
    BY <1>2, <2>1 DEF ServerDies, NoPeer, Server
<1>4. \A life \in Nat : life <= server.lives => ~Current(life)'
  BY <1>3 DEF Current
<1>5. /\ \A i \in 1..Len(t) : /\ t[i].type = "Vanished" /\ t[i].life = server'.lives
                              /\ t[i].stream = None
      /\ \A o \in Objects : \E i \in 1..Len(t) : t[i].object = o
  BY <1>1, <1>3, EveryoneTold
<1>6. PICK n \in Nat : n = Len(events)
  BY MessagesAre
<1>7. /\ Len(t) \in Nat /\ Len(events') = n + Len(t)
      /\ \A i \in 1..Len(t) : events'[n + i] = t[i]
      /\ \A i \in 1..Len(events') :
           \/ i \in 1..n /\ events'[i] = events[i]
           \/ \E j \in 1..Len(t) : i = n + j /\ events'[i] = t[j]
  <2>1. /\ Len(t) \in Nat /\ Told(t)
        /\ \A i \in 1..Len(events') :
             \/ i \in 1..Len(events) /\ events'[i] = events[i]
             \/ \E j \in 1..Len(t) : i = Len(events) + j /\ events'[i] = t[j]
    BY <1>2, ToldIs
  <2>2. QED
    BY <1>6, <2>1 DEF Told
<1>8. ASSUME NEW i \in 1..Len(events') PROVE Turn(i)'
  <2>1. CASE i \in 1..n /\ events'[i] = events[i]
    <3>1. events[i].object \in Objects
      BY <1>6, <2>1, MessagesAre
    <3>2. PICK j \in 1..Len(t) : t[j].object = events[i].object
      BY <1>5, <3>1
    <3>3. n + j \in 1..Len(events') /\ n + j > i /\ events'[n + j] = t[j]
      BY <1>7, <2>1
    <3>4. FollowedBy(i, {"Vanished"})'
      BY <1>5, <2>1, <3>2, <3>3 DEF FollowedBy
    <3>5. QED
      BY <1>3, <3>4 DEF Turn, Current
  <2>2. CASE \E j \in 1..Len(t) : events'[i] = t[j]
    <3>1. events'[i].type = "Vanished"
      BY <1>5, <2>2
    <3>2. QED
      BY <3>1 DEF Turn
  <2>3. QED
    BY <1>7, <2>1, <2>2
<1>9. \A i \in 1..Len(t) : /\ t[i].type \in {"Appeared", "Vanished"}
                          /\ t[i].life = server'.lives /\ t[i].stream = None
  BY <1>5
<1>10. QED
  BY <1>2, <1>3, <1>4, <1>8, <1>9, TidingsSession

-----------------------------------------------------------------------------
(* Every step of a session                                                   *)

LEMMA InitSession == Init => Session /\ CurrentIsRead
<1> SUFFICES ASSUME Init PROVE Session /\ CurrentIsRead
  OBVIOUS
<1>1. /\ ~server.up /\ server.lives = 0 /\ server.peer.stream = None
      /\ Len(requests) = 0 /\ Len(events) = 0
  BY DEF Init, NoPeer
<1>2. \A o \in Objects : objects[o].proxy = 0
  BY DEF Init, NewObject, None
<1>3. Past /\ InTurn /\ Connection /\ InOrder
  BY <1>1, <1>2 DEF Past, InTurn, Connection, InOrder, Current
<1>4. QED
  BY <1>1, <1>3 DEF Session, CurrentIsRead

LEMMA NextSession == SInv /\ Session /\ CurrentIsRead /\ [Next]_vars => Session' /\ CurrentIsRead'
<1> SUFFICES ASSUME CInv, Owners, CInv', Session, CurrentIsRead, [Next]_vars
             PROVE  Session' /\ CurrentIsRead'
  BY NextSInv DEF SInv
<1>1. CASE Dispatch
  BY <1>1, NameAppearedSession, NameVanishedSession, ConnectedSession, StartFinishedSession,
     CallFailedSession, LateAnswerSession, CancelledFinishedSession DEF Dispatch
<1>2. CASE Serve
  BY <1>2, ServeSession
<1>3. CASE ServerStarts
  BY <1>3, ServerStartsSession
<1>4. CASE ServerDies
  BY <1>4, ServerDiesSession
<1>5. ASSUME NEW c \in calls, AppCancel(c) PROVE Session' /\ CurrentIsRead'
  BY <1>5, AppCancelSession
<1>6. ASSUME NEW o \in Objects, AppStart(o) \/ AppUnref(o) \/ ReceiverClosed(o)
      PROVE  Session' /\ CurrentIsRead'
  BY <1>6, AppStartSession, AppUnrefSession, ReceiverClosedSession
<1>7. CASE UNCHANGED vars
  BY <1>7 DEF vars, Session, Past, InTurn, Connection, InOrder, Peering, Turn, Settled, Current,
     FollowedBy, Placed, Pending, CurrentIsRead, Answers
<1>8. QED
  BY <1>1, <1>2, <1>3, <1>4, <1>5, <1>6, <1>7 DEF Next

(* The stream which the server takes for the one its client reads is read,   *)
(* or it is going to be read or closed, however starts of the server, name   *)
(* changes, calls, answers and cancellations fall together, unless its       *)
(* answer came for a call which had been cancelled (dbus_log_client_started, *)
(* dbus_log_client_disconnect, dbus_log_client_finalize).                    *)
THEOREM CurrentStreamIsRead == Spec => []CurrentIsRead
<1>1. Init => SInv /\ Session /\ CurrentIsRead
  BY InitSInv, InitSession
<1>2. SInv /\ Session /\ CurrentIsRead /\ [Next]_vars => (SInv /\ Session /\ CurrentIsRead)'
  BY NextSInv, NextSession
<1>3. QED
  BY <1>1, <1>2, PTL DEF Spec
=============================================================================
