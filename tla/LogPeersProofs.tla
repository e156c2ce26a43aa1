--------------------------- MODULE LogPeersProofs ---------------------------
(***************************************************************************)
(* Theorems about LogPeers: for any number of clients, and watch ids which *)
(* wrap around, the tables of a server agree with each other, and with the *)
(* match rules at the daemon and the messages between the two.             *)
(***************************************************************************)
EXTENDS LogPeers, FiniteSetTheorems, WellFoundedInduction, TLAPS

-----------------------------------------------------------------------------
(* Lemmas about sets                                                         *)

(* The intervals 0..n, of n in the set, have a smallest one.                 *)
LEMMA MinIs ==
  ASSUME NEW S \in SUBSET Nat, S # {}
  PROVE  Min(S) \in S
<1> DEFINE T == {0..n : n \in S}
           Smaller == StrictSubsetOrdering(Nat)
<1>1. IsWellFoundedOn(Smaller, FiniteSubsetsOf(Nat))
  BY FS_StrictSubsetOrderingWellFounded
<1>2. T \subseteq FiniteSubsetsOf(Nat) /\ T # {}
  <2>1. \A n \in S : IsFiniteSet(0..n) /\ 0..n \subseteq Nat
    BY FS_Interval
  <2>2. QED
    BY <2>1 DEF FiniteSubsetsOf
<1>3. \E x \in T : \A y \in T : <<y, x>> \notin Smaller
  <2> HIDE DEF T, Smaller
  <2>1. QED
    BY <1>1, <1>2, WFMin
<1>4. PICK n \in S : \A m \in S : <<0..m, 0..n>> \notin Smaller
  BY <1>3
<1>5. ASSUME NEW m \in S PROVE n <= m
  <2>1. SUFFICES ASSUME m < n PROVE FALSE
    OBVIOUS
  <2>2. 0..m \subseteq 0..n /\ n \in 0..n /\ n \notin 0..m /\ 0..n \subseteq Nat
    BY <2>1
  <2>3. <<0..m, 0..n>> \in Smaller
    BY <2>2 DEF StrictSubsetOrdering
  <2>4. QED
    BY <1>4, <2>3
<1>6. QED
  BY <1>5 DEF Min

-----------------------------------------------------------------------------
(* The inductive invariant                                                   *)

(* An owner is only asked for as long as the name is watched.                *)
Asking == \A c \in Clients : watching.names[c].pending # 0 => watching.names[c].refs > 0

Tables ==
  /\ peers \in [Clients -> Peers] /\ streams \in Seq(Streams) /\ watching \in Watching
  /\ WatchesMatch /\ OneStreamPerPeer /\ VanishedIsForgotten /\ Asking

PInv == PeersTypeOK /\ Tables

-----------------------------------------------------------------------------
(* Watches                                                                   *)

(* There are more ids than clients, and no two for the same client.          *)
LEMMA IdIsFree ==
  ASSUME Tables
  PROVE  \E id \in Ids : watching.ids[id] = Nobody
<1> SUFFICES ASSUME \A id \in Ids : watching.ids[id] # Nobody PROVE FALSE
  OBVIOUS
<1>1. watching.ids \in [Ids -> Clients]
  BY DEF Tables, Watching
<1>2. /\ IsFiniteSet(Clients) /\ Cardinality(Clients) \in Nat
      /\ Modulus \in Nat /\ Modulus > Cardinality(Clients) + 1
  BY PeerConstants, FS_CardinalityType
<1>3. IsFiniteSet(Ids) /\ Cardinality(Ids) = Modulus - 1
  <2>1. 1 \in Int /\ Modulus - 1 \in Int /\ ~(1 > Modulus - 1) /\ Modulus - 1 - 1 + 1 = Modulus - 1
    BY <1>2
  <2>2. /\ IsFiniteSet(1..Modulus - 1)
        /\ Cardinality(1..Modulus - 1) = Modulus - 1 - 1 + 1
    BY <2>1, FS_Interval
  <2>3. QED
    BY <2>1, <2>2 DEF Ids
<1>4. PICK x \in Ids, y \in Ids : x # y /\ watching.ids[x] = watching.ids[y]
  <2>1. Cardinality(Clients) < Cardinality(Ids)
    BY <1>2, <1>3
  <2> HIDE DEF Ids
  <2>2. QED
    BY <1>1, <1>2, <1>3, <2>1, FS_PigeonHole
<1>5. QED
  BY <1>1, <1>4 DEF Tables, WatchesMatch

LEMMA NextIdIs ==
  ASSUME Tables
  PROVE  NextId(watching) \in Ids /\ watching.ids[NextId(watching)] = Nobody
<1> DEFINE free == {id \in Ids : watching.ids[id] = Nobody}
           later == {id \in free : id > watching.last}
           next == IF later # {} THEN later ELSE free
<1>1. next # {} /\ next \subseteq free
  BY IdIsFree
<1>2. free \subseteq Nat
  BY PeerConstants DEF Ids
<1>3. Min(next) \in next
  <2> HIDE DEF next
  <2>1. QED
    BY <1>1, <1>2, MinIs
<1>4. NextId(watching) \in free
  BY <1>1, <1>3 DEF NextId
<1>5. QED
  BY <1>4

(* A change of the watch for a name and of the requests.                     *)
Changed(f, c, watch, requests) == [f EXCEPT !.names[c] = watch, !.requests = requests]

LEMMA NamesChanged ==
  ASSUME NEW f \in Watching, NEW c \in Clients, NEW watch \in Watch,
         NEW requests \in Seq(Requests),
         NEW u, u = Changed(f, c, watch, requests)
  PROVE  /\ u \in Watching /\ u.last = f.last /\ u.ids = f.ids /\ u.requests = requests
         /\ \A d \in Clients : u.names[d] = IF d = c THEN watch ELSE f.names[d]
<1> DEFINE names == [f.names EXCEPT ![c] = watch]
<1>1. u = [f EXCEPT !.names = names, !.requests = requests]
  BY DEF Watching, Changed
<1>2. names \in [Clients -> Watch]
  BY DEF Watching
<1> HIDE DEF names
<1>3. /\ u \in Watching /\ u.last = f.last /\ u.ids = f.ids /\ u.names = names
      /\ u.requests = requests
  BY <1>1, <1>2 DEF Watching
<1>4. QED
  BY <1>3 DEF names, Watching

(* One reference less for the name, and no watch if that was the last one.   *)
Unwatched(u, w, id, c) ==
  /\ u \in Watching /\ u.last = w.last
  /\ \A i \in Ids : u.ids[i] = IF i = id THEN Nobody ELSE w.ids[i]
  /\ \A d \in Clients : api = "gio" \/ c # d => u.names[d] = w.names[d]
  /\ api # "gio" /\ w.names[c].refs > 1 =>
       /\ u.names[c].refs = w.names[c].refs - 1
       /\ u.names[c].vanished = w.names[c].vanished
       /\ u.names[c].pending = w.names[c].pending
  /\ api # "gio" /\ ~(w.names[c].refs > 1) => u.names[c] = NoWatch
  /\ u.requests = IF api = "gio" \/ w.names[c].refs > 1 THEN w.requests
                  ELSE Append(w.requests, Message("RemoveMatch", c, 0, FALSE))

LEMMA UnwatchedIs ==
  ASSUME NEW w \in Watching, NEW id \in Ids, NEW c \in Clients, w.ids[id] = c,
         NEW u, u = UnwatchName(w, id)
  PROVE  Unwatched(u, w, id, c)
<1> DEFINE f == [w EXCEPT !.ids[id] = Nobody]
           bye == Message("RemoveMatch", c, 0, FALSE)
<1>1. /\ f \in Watching /\ f.last = w.last /\ f.names = w.names /\ f.requests = w.requests
      /\ \A i \in Ids : f.ids[i] = IF i = id THEN Nobody ELSE w.ids[i]
  BY DEF Watching
<1>2. CASE api = "gio"
  BY <1>1, <1>2 DEF UnwatchName, Unwatched
<1>3. CASE api # "gio"
  <2>1. u = WatchUnref(f, c)
    BY <1>3 DEF UnwatchName
  <2>2. bye \in Requests
    BY DEF Requests, Message
  <2> HIDE DEF f, bye
  <2>3. Append(f.requests, bye) \in Seq(Requests)
    <3>1. f.requests \in Seq(Requests)
      BY <1>1 DEF Watching
    <3>2. QED
      BY <2>2, <3>1
  <2>4. NoWatch \in Watch
    BY DEF NoWatch, Watch
  <2>5. CASE f.names[c].refs > 1
    <3> DEFINE watch == [f.names[c] EXCEPT !.refs = @ - 1]
    <3>1. u = Changed(f, c, watch, f.requests)
      <4>1. u = [f EXCEPT !.names[c].refs = @ - 1]
        BY <2>1, <2>5 DEF WatchUnref
      <4>2. QED
        BY <1>1, <4>1 DEF Watching, Changed
    <3>2. watch \in Watch /\ f.requests \in Seq(Requests)
      <4>1. f.names[c] \in Watch /\ f.requests \in Seq(Requests)
        BY <1>1 DEF Watching
      <4>2. QED
        BY <2>5, <4>1 DEF Watch
    <3>3. /\ u \in Watching /\ u.last = f.last /\ u.ids = f.ids /\ u.requests = f.requests
          /\ \A d \in Clients : u.names[d] = IF d = c THEN watch ELSE f.names[d]
      <4> HIDE DEF watch
      <4>1. QED
        BY <1>1, <3>1, <3>2, NamesChanged
    <3>4. /\ watch.refs = f.names[c].refs - 1 /\ watch.vanished = f.names[c].vanished
          /\ watch.pending = f.names[c].pending
      <4>1. f.names[c] \in Watch
        BY <1>1 DEF Watching
      <4>2. QED
        BY <4>1 DEF Watch
    <3> HIDE DEF watch
    <3>5. QED
      BY <1>1, <1>3, <2>5, <3>3, <3>4 DEF Unwatched
  <2>6. CASE ~(f.names[c].refs > 1)
    <3> DEFINE asked == Append(f.requests, bye)
    <3>1. u = Changed(f, c, NoWatch, asked)
      BY <2>1, <2>6 DEF WatchUnref, Changed, bye
    <3>2. /\ u \in Watching /\ u.last = f.last /\ u.ids = f.ids /\ u.requests = asked
          /\ \A d \in Clients : u.names[d] = IF d = c THEN NoWatch ELSE f.names[d]
      <4>1. asked \in Seq(Requests) /\ f \in Watching
        BY <1>1, <2>3
      <4> HIDE DEF asked
      <4>2. QED
        BY <2>4, <3>1, <4>1, NamesChanged
    <3>3. QED
      BY <1>1, <1>3, <2>6, <3>2 DEF bye, Unwatched
  <2>7. QED
    BY <2>5, <2>6
<1>4. QED
  BY <1>2, <1>3

(* One reference more for the name, under an id which was free.              *)
LEMMA WatchedIs ==
  ASSUME Tables, NEW c \in Clients, NEW serial \in Nat \ {0},
         NEW u, u = WatchName(watching, c, serial)
  PROVE  /\ u \in Watching /\ u.last \in Ids /\ watching.ids[u.last] = Nobody
         /\ \A i \in Ids : u.ids[i] = IF i = u.last THEN c ELSE watching.ids[i]
         /\ \A d \in Clients : api = "gio" \/ c # d => u.names[d] = watching.names[d]
         /\ api # "gio" => /\ u.names[c].refs = watching.names[c].refs + 1
                           /\ ~u.names[c].vanished
                           /\ u.names[c].pending = IF watching.names[c].refs > 0
                                THEN watching.names[c].pending ELSE serial
         /\ u.requests = IF api # "gio" /\ watching.names[c].refs = 0
                         THEN watching.requests \o Questions(c, serial) ELSE watching.requests
<1> DEFINE id == NextId(watching)
           f == [watching EXCEPT !.last = id, !.ids[id] = c]
           one == [refs |-> 1, pending |-> serial, vanished |-> FALSE]
           more == [watching.names[c] EXCEPT !.refs = @ + 1]
           watch == IF watching.names[c].refs > 0 THEN more ELSE one
           asked == IF watching.names[c].refs = 0
                    THEN watching.requests \o Questions(c, serial)
                    ELSE watching.requests
<1>1. id \in Ids /\ watching.ids[id] = Nobody /\ watching \in Watching
  BY NextIdIs DEF Tables
<1> HIDE DEF id
<1>2. id \in 0..Modulus - 1
  BY <1>1, PeerConstants DEF Ids
<1>3. /\ f \in Watching /\ f.last = id /\ f.names = watching.names
      /\ f.requests = watching.requests
      /\ \A i \in Ids : f.ids[i] = IF i = id THEN c ELSE watching.ids[i]
  BY <1>1, <1>2 DEF Watching
<1>4. watching.names[c] \in Watch /\ watching.requests \in Seq(Requests)
  BY <1>1 DEF Watching
<1>5. CASE api = "gio"
  BY <1>1, <1>3, <1>5 DEF WatchName, id
<1>6. CASE api # "gio"
  <2>1. u = Changed(f, c, watch, asked)
    <3>1. u = [f EXCEPT !.names = NamesWatched(@, c, serial), !.requests = asked]
      BY <1>3, <1>6 DEF WatchName, id
    <3>2. NamesWatched(f.names, c, serial) = [f.names EXCEPT ![c] = watch]
      <4>1. f.names[c] = watching.names[c]
        BY <1>3
      <4>2. CASE f.names[c].refs > 0
        BY <1>4, <4>1, <4>2 DEF NamesWatched, Watch
      <4>3. CASE ~(f.names[c].refs > 0)
        BY <4>1, <4>3 DEF NamesWatched
      <4>4. QED
        BY <4>2, <4>3
    <3> HIDE DEF asked, watch, f
    <3>3. QED
      BY <1>3, <3>1, <3>2 DEF Changed, Watching
  <2>2. watch \in Watch
    <3>1. one \in Watch
      BY DEF Watch
    <3>2. more \in Watch
      BY <1>4 DEF Watch
    <3>3. QED
      BY <3>1, <3>2
  <2>3. asked \in Seq(Requests)
    <3>1. Questions(c, serial) \in Seq(Requests)
      BY DEF Questions, Message, Requests
    <3> HIDE DEF Requests
    <3>2. QED
      BY <1>4, <3>1
  <2>4. /\ watch.refs = watching.names[c].refs + 1 /\ ~watch.vanished
        /\ watch.pending = IF watching.names[c].refs > 0
                           THEN watching.names[c].pending ELSE serial
    <3>1. watching.names[c] \in Watch /\ ~watching.names[c].vanished
      BY <1>4 DEF Tables, VanishedIsForgotten
    <3>2. /\ more.refs = watching.names[c].refs + 1 /\ ~more.vanished
          /\ more.pending = watching.names[c].pending
      BY <3>1 DEF Watch
    <3>3. watching.names[c].refs \in Nat
      BY <3>1 DEF Watch
    <3> HIDE DEF more
    <3>4. CASE watching.names[c].refs > 0
      BY <3>2, <3>4
    <3>5. CASE ~(watching.names[c].refs > 0)
      BY <3>3, <3>5
    <3>6. QED
      BY <3>4, <3>5
  <2> HIDE DEF asked, watch, f
  <2>5. /\ u \in Watching /\ u.last = f.last /\ u.ids = f.ids /\ u.requests = asked
        /\ \A d \in Clients : u.names[d] = IF d = c THEN watch ELSE f.names[d]
    BY <1>3, <2>1, <2>2, <2>3, NamesChanged
  <2>6. u.requests = IF api # "gio" /\ watching.names[c].refs = 0
                     THEN watching.requests \o Questions(c, serial) ELSE watching.requests
    BY <1>6, <2>5 DEF asked
  <2>7. QED
    BY <1>1, <1>3, <1>6, <2>5, <2>4, <2>6
<1>7. QED
  BY <1>5, <1>6

-----------------------------------------------------------------------------
(* Streams                                                                   *)

(* The only stream which is not left alone is the one for this client.       *)
LEMMA StreamsWithoutIs ==
  ASSUME Tables, NEW c \in Clients, NEW t, t = StreamsWithout(c)
  PROVE  /\ t \in Seq(Streams) /\ Len(t) = Len(streams)
         /\ \A i \in 1..Len(streams) :
              /\ t[i].name = streams[i].name
              /\ t[i].state = "open" => streams[i].state = "open" /\ streams[i].name # c
              /\ streams[i].name # c => t[i] = streams[i]
<1>1. /\ peers[c] \in Peers /\ streams \in Seq(Streams)
      /\ \A i \in 1..Len(streams) : streams[i] \in Streams
  BY DEF Tables
<1>2. \A i \in 1..Len(streams) :
        streams[i].state = "open" /\ streams[i].name = c => peers[c].stream = i
  BY <1>1 DEF Tables, OneStreamPerPeer
<1>3. CASE peers[c] = NoPeer
  <2>1. t = streams /\ peers[c].stream = 0
    BY <1>3 DEF StreamsWithout, NoPeer
  <2>2. QED
    BY <1>1, <1>2, <2>1
<1>4. CASE peers[c] # NoPeer
  <2> DEFINE s == peers[c].stream
  <2>1. s \in 1..Len(streams) /\ streams[s].name = c
    BY <1>1, <1>4 DEF Tables, OneStreamPerPeer
  <2>2. t = StreamClosed(streams, s)
    BY <1>4 DEF StreamsWithout
  <2> HIDE DEF s
  <2> DEFINE new == [streams[s] EXCEPT !.state = IF @ = "open" THEN "closing" ELSE @]
  <2>3. new \in Streams /\ new.name = c /\ new.state # "open"
    BY <1>1, <2>1 DEF Streams
  <2>4. t = [streams EXCEPT ![s] = new]
    BY <2>2 DEF StreamClosed
  <2> HIDE DEF new
  <2>5. /\ t \in Seq(Streams) /\ Len(t) = Len(streams)
        /\ \A i \in 1..Len(streams) : t[i] = IF i = s THEN new ELSE streams[i]
    BY <1>1, <2>1, <2>3, <2>4
  <2>6. QED
    BY <1>1, <1>2, <2>1, <2>3, <2>5 DEF s
<1>5. QED
  BY <1>3, <1>4

-----------------------------------------------------------------------------
(* Peers which come and go                                                   *)

(* What may be noted of a watch before the peer is removed.                  *)
Noted(w, c) ==
  /\ w \in Watching /\ w.ids = watching.ids
  /\ \A d \in Clients : /\ w.names[d].refs = watching.names[d].refs
                        /\ w.names[d].vanished => d = c
                        /\ w.names[d].pending # 0 \/ w.names[d].vanished => w.names[d].refs > 0

LEMMA DestroyedIs ==
  ASSUME Tables, NEW c \in Clients, NEW w, Noted(w, c), NEW u, u = PeerDestroyed(w, c)
  PROVE  /\ u \in Watching
         /\ \A i \in Ids : u.ids[i] = IF watching.ids[i] = c THEN Nobody ELSE watching.ids[i]
         /\ \A d \in Clients :
              /\ u.names[d].refs = IF d = c THEN 0 ELSE watching.names[d].refs
              /\ ~u.names[d].vanished
              /\ u.names[d].pending # 0 => u.names[d].refs > 0
<1>1. /\ w \in Watching /\ peers[c] \in Peers
      /\ \A i \in Ids : watching.ids[i] = c <=> peers[c] # NoPeer /\ peers[c].watch_id = i
      /\ watching.names[c].refs = IF api = "libdbus" /\ peers[c] # NoPeer THEN 1 ELSE 0
  BY DEF Tables, WatchesMatch, Noted
<1>2. CASE peers[c] = NoPeer
  <2>1. u = w
    BY <1>2 DEF PeerDestroyed
  <2>2. QED
    BY <1>1, <1>2, <2>1 DEF Noted
<1>3. CASE peers[c] # NoPeer
  <2> DEFINE id == peers[c].watch_id
  <2>1. id \in Ids /\ w.ids[id] = c
    <3>1. id \in Ids
      BY <1>1, <1>3 DEF Peers
    <3>2. QED
      BY <1>1, <1>3, <3>1 DEF Noted
  <2>2. u = UnwatchName(w, id)
    BY <1>3 DEF PeerDestroyed
  <2>3. Unwatched(u, w, id, c)
    <3> HIDE DEF id
    <3>1. QED
      BY <1>1, <2>1, <2>2, UnwatchedIs
  <2>4. \A i \in Ids : u.ids[i] = IF watching.ids[i] = c THEN Nobody ELSE watching.ids[i]
    BY <1>1, <1>3, <2>3 DEF Noted, Unwatched
  <2>5. ASSUME NEW d \in Clients
        PROVE  /\ u.names[d].refs = IF d = c THEN 0 ELSE watching.names[d].refs
               /\ ~u.names[d].vanished
               /\ u.names[d].pending # 0 => u.names[d].refs > 0
    <3>1. CASE d # c
      BY <2>3, <3>1 DEF Noted, Unwatched
    <3>2. CASE d = c /\ api = "gio"
      BY <1>1, <2>3, <3>2 DEF Noted, Unwatched
    <3>3. CASE d = c /\ api # "gio"
      <4>1. ~(w.names[c].refs > 1)
        BY <1>1 DEF Noted
      <4>2. u.names[d] = NoWatch
        BY <2>3, <3>3, <4>1 DEF Unwatched
      <4>3. QED
        BY <3>3, <4>2 DEF NoWatch
    <3>4. QED
      BY <3>1, <3>2, <3>3
  <2>6. QED
    BY <2>3, <2>4, <2>5 DEF Unwatched
<1>4. QED
  BY <1>2, <1>3

LEMMA PeerRemoved ==
  ASSUME Tables, NEW c \in Clients, NEW w, Noted(w, c), RemovePeer(w, c), api' = api
  PROVE  Tables'
<1>1. /\ watching' \in Watching
      /\ \A i \in Ids :
           watching'.ids[i] = IF watching.ids[i] = c THEN Nobody ELSE watching.ids[i]
      /\ \A d \in Clients :
           /\ watching'.names[d].refs = IF d = c THEN 0 ELSE watching.names[d].refs
           /\ ~watching'.names[d].vanished
           /\ watching'.names[d].pending # 0 => watching'.names[d].refs > 0
  BY DestroyedIs DEF RemovePeer
<1>2. /\ streams' \in Seq(Streams) /\ Len(streams') = Len(streams)
      /\ \A i \in 1..Len(streams) :
           /\ streams'[i].name = streams[i].name
           /\ streams'[i].state = "open" => streams[i].state = "open" /\ streams[i].name # c
           /\ streams[i].name # c => streams'[i] = streams[i]
  BY StreamsWithoutIs DEF RemovePeer
<1>3. peers' \in [Clients -> Peers] /\ \A d \in Clients : peers'[d] = IF d = c THEN NoPeer ELSE peers[d]
  BY DEF RemovePeer, Tables, Peers
<1>4. WatchesMatch'
  <2>1. Nobody \notin Clients /\ \A i \in Ids : watching.ids[i] \in Clients \cup {Nobody}
    BY PeerConstants DEF Nobody, Tables, Watching
  <2>2. QED
    BY <1>1, <1>3, <2>1 DEF Tables, WatchesMatch
<1>5. OneStreamPerPeer'
  <2>1. streams \in Seq(Streams)
    BY DEF Tables
  <2>2. ASSUME NEW d \in Clients, peers'[d] # NoPeer
        PROVE  /\ peers'[d].stream \in DOMAIN streams'
               /\ streams'[peers'[d].stream].name = d
               /\ streams'[peers'[d].stream].state # "closing"
    <3>1. d # c /\ peers'[d] = peers[d] /\ peers[d] # NoPeer
      BY <1>3, <2>2
    <3>2. /\ peers[d].stream \in 1..Len(streams) /\ streams[peers[d].stream].name = d
          /\ streams[peers[d].stream].state # "closing"
      BY <2>1, <3>1 DEF Tables, OneStreamPerPeer
    <3>3. streams'[peers[d].stream] = streams[peers[d].stream]
      BY <1>2, <3>1, <3>2
    <3>4. QED
      BY <1>2, <3>1, <3>2, <3>3
  <2>3. ASSUME NEW i \in DOMAIN streams', streams'[i].state = "open"
        PROVE  peers'[streams'[i].name].stream = i
    <3>1. i \in 1..Len(streams) /\ streams[i] \in Streams
      BY <1>2, <2>1
    <3>2. streams[i].state = "open" /\ streams[i].name # c /\ streams'[i].name = streams[i].name
      BY <1>2, <2>3, <3>1
    <3>3. streams[i].name \in Clients
      BY <3>1 DEF Streams
    <3>4. peers[streams[i].name].stream = i
      BY <2>1, <3>1, <3>2 DEF Tables, OneStreamPerPeer
    <3>5. QED
      BY <1>3, <3>2, <3>3, <3>4
  <2>4. QED
    BY <2>2, <2>3 DEF OneStreamPerPeer
<1>6. QED
  BY <1>1, <1>2, <1>3, <1>4, <1>5 DEF Tables, VanishedIsForgotten, Asking

LEMMA OpenedIs ==
  ASSUME Tables, api \in {"gio", "libdbus"}, NEW c \in Clients, NEW serial \in Nat \ {0},
         NEW w, w = WatchName(watching, c, serial), NEW u, u = PeerDestroyed(w, c)
  PROVE  /\ u \in Watching /\ w.last \in Ids /\ watching.ids[w.last] = Nobody
         /\ \A i \in Ids :
              u.ids[i] = IF i = w.last THEN c
                         ELSE IF watching.ids[i] = c THEN Nobody ELSE watching.ids[i]
         /\ \A d \in Clients :
              /\ u.names[d].refs = IF d # c THEN watching.names[d].refs
                                   ELSE IF api = "libdbus" THEN 1 ELSE 0
              /\ ~u.names[d].vanished
              /\ u.names[d].pending # 0 => u.names[d].refs > 0
<1>1. /\ w \in Watching /\ w.last \in Ids /\ watching.ids[w.last] = Nobody
      /\ \A i \in Ids : w.ids[i] = IF i = w.last THEN c ELSE watching.ids[i]
      /\ \A d \in Clients : api = "gio" \/ c # d => w.names[d] = watching.names[d]
      /\ api # "gio" => /\ w.names[c].refs = watching.names[c].refs + 1
                        /\ ~w.names[c].vanished
  BY WatchedIs
<1>2. /\ peers[c] \in Peers
      /\ \A d \in Clients : /\ watching.names[d] \in Watch /\ ~watching.names[d].vanished
                            /\ watching.names[d].pending # 0 => watching.names[d].refs > 0
      /\ \A i \in Ids : watching.ids[i] = c <=> peers[c] # NoPeer /\ peers[c].watch_id = i
      /\ watching.names[c].refs = IF api = "libdbus" /\ peers[c] # NoPeer THEN 1 ELSE 0
  BY DEF Tables, WatchesMatch, VanishedIsForgotten, Asking, Watching
<1>3. Nobody \notin Clients
  BY PeerConstants DEF Nobody
<1>4. CASE peers[c] = NoPeer
  <2>1. u = w
    BY <1>4 DEF PeerDestroyed
  <2>2. \A i \in Ids : u.ids[i] = IF i = w.last THEN c
                        ELSE IF watching.ids[i] = c THEN Nobody ELSE watching.ids[i]
    BY <1>1, <1>2, <1>4, <2>1
  <2>3. ASSUME NEW d \in Clients
        PROVE  /\ u.names[d].refs = IF d # c THEN watching.names[d].refs
                                    ELSE IF api = "libdbus" THEN 1 ELSE 0
               /\ ~u.names[d].vanished
               /\ u.names[d].pending # 0 => u.names[d].refs > 0
    <3>1. CASE d # c
      <4>1. u.names[d] = watching.names[d]
        BY <1>1, <2>1, <3>1
      <4>2. QED
        BY <1>2, <3>1, <4>1
    <3>2. CASE d = c /\ api = "gio"
      <4>1. u.names[d] = watching.names[d]
        BY <1>1, <2>1, <3>2
      <4>2. QED
        BY <1>2, <1>4, <3>2, <4>1
    <3>3. CASE d = c /\ api = "libdbus"
      <4>1. watching.names[c].refs = 0
        BY <1>2, <1>4
      <4>2. w.names[c].refs = 1 /\ ~w.names[c].vanished
        BY <1>1, <3>3, <4>1
      <4>3. QED
        BY <2>1, <3>3, <4>2
    <3>4. QED
      BY <3>1, <3>2, <3>3
  <2>4. QED
    BY <1>1, <2>1, <2>2, <2>3
<1>5. CASE peers[c] # NoPeer
  <2> DEFINE id == peers[c].watch_id
  <2>1. id \in Ids /\ watching.ids[id] = c
    <3>1. id \in Ids
      BY <1>2, <1>5 DEF Peers
    <3>2. QED
      BY <1>2, <1>5, <3>1
  <2>2. id # w.last /\ w.ids[id] = c
    BY <1>1, <1>3, <2>1
  <2>3. u = UnwatchName(w, id)
    BY <1>5 DEF PeerDestroyed
  <2>4. Unwatched(u, w, id, c)
    <3> HIDE DEF id
    <3>1. QED
      BY <1>1, <2>1, <2>2, <2>3, UnwatchedIs
  <2>5. \A i \in Ids : u.ids[i] = IF i = w.last THEN c
                        ELSE IF watching.ids[i] = c THEN Nobody ELSE watching.ids[i]
    BY <1>1, <1>2, <1>5, <2>2, <2>4 DEF Unwatched
  <2>6. ASSUME NEW d \in Clients
        PROVE  /\ u.names[d].refs = IF d # c THEN watching.names[d].refs
                                    ELSE IF api = "libdbus" THEN 1 ELSE 0
               /\ ~u.names[d].vanished
               /\ u.names[d].pending # 0 => u.names[d].refs > 0
    <3>1. CASE d # c \/ api = "gio"
      <4>1. u.names[d] = watching.names[d]
        BY <1>1, <2>4, <3>1 DEF Unwatched
      <4>2. QED
        BY <1>2, <3>1, <4>1
    <3>2. CASE d = c /\ api = "libdbus"
      <4>1. watching.names[c].refs = 1
        BY <1>2, <1>5, <3>2
      <4>2. w.names[c].refs = 2 /\ ~w.names[c].vanished
        BY <1>1, <3>2, <4>1
      <4>3. u.names[c].refs = 1 /\ ~u.names[c].vanished
        BY <2>4, <3>2, <4>2 DEF Unwatched
      <4>4. QED
        BY <3>2, <4>3
    <3>3. QED
      BY <3>1, <3>2
  <2>7. QED
    BY <1>1, <2>4, <2>5, <2>6 DEF Unwatched
<1>6. QED
  BY <1>4, <1>5

LEMMA PeerOpened ==
  ASSUME PInv, NEW c \in Clients, Opened(c), api' = api
  PROVE  Tables'
<1> DEFINE n == Len(streams)
           w == WatchName(watching, c, n + 1)
           t == StreamsWithout(c)
<1>1. Tables /\ api \in {"gio", "libdbus"} /\ alive \subseteq Clients /\ n \in Nat
  BY DEF PInv, PeersTypeOK
<1>2. /\ watching' \in Watching /\ w.last \in Ids /\ watching.ids[w.last] = Nobody
      /\ \A i \in Ids :
           watching'.ids[i] = IF i = w.last THEN c
                              ELSE IF watching.ids[i] = c THEN Nobody ELSE watching.ids[i]
      /\ \A d \in Clients :
           /\ watching'.names[d].refs = IF d # c THEN watching.names[d].refs
                                        ELSE IF api = "libdbus" THEN 1 ELSE 0
           /\ ~watching'.names[d].vanished
           /\ watching'.names[d].pending # 0 => watching'.names[d].refs > 0
  <2>1. watching' = PeerDestroyed(w, c)
    BY DEF Opened
  <2>2. n + 1 \in Nat \ {0}
    BY <1>1
  <2>3. QED
    BY <1>1, <2>1, <2>2, OpenedIs
<1>3. /\ t \in Seq(Streams) /\ Len(t) = n
      /\ \A i \in 1..n :
           /\ t[i].name = streams[i].name
           /\ t[i].state = "open" => streams[i].state = "open" /\ streams[i].name # c
           /\ streams[i].name # c => t[i] = streams[i]
  BY <1>1, StreamsWithoutIs
<1>4. NewStream(c) \in Streams /\ NewStream(c).name = c /\ NewStream(c).state = "open"
  BY DEF NewStream, Streams, ReadfdKept
<1>5. streams' = Append(t, NewStream(c))
  BY DEF Opened
<1> DEFINE id == w.last
<1>6. peers' = [peers EXCEPT ![c] = [stream |-> n + 1, watch_id |-> id]]
  BY DEF Opened
<1> HIDE DEF t, id
<1>7. /\ streams' \in Seq(Streams) /\ Len(streams') = n + 1
      /\ \A i \in 1..n : streams'[i] = t[i]
      /\ streams'[n + 1] = NewStream(c)
  BY <1>1, <1>3, <1>4, <1>5
<1>8. /\ peers' \in [Clients -> Peers] /\ peers'[c] # NoPeer
      /\ peers'[c].stream = n + 1 /\ peers'[c].watch_id = id
      /\ \A d \in Clients : d # c => peers'[d] = peers[d]
  <2>1. [stream |-> n + 1, watch_id |-> id] \in Peers
    BY <1>1, <1>2 DEF Peers, id
  <2>2. [stream |-> n + 1, watch_id |-> id] # NoPeer
    BY <1>1 DEF NoPeer
  <2>3. QED
    BY <1>1, <1>6, <2>1, <2>2 DEF Tables
<1> HIDE DEF n, w
<1>9. WatchesMatch'
  <2>1. Nobody \notin Clients /\ \A i \in Ids : watching.ids[i] \in Clients \cup {Nobody}
    BY <1>1, PeerConstants DEF Nobody, Tables, Watching
  <2>2. ASSUME NEW i \in Ids, NEW d \in Clients
        PROVE  watching'.ids[i] = d <=> peers'[d] # NoPeer /\ peers'[d].watch_id = i
    <3>1. watching.ids[i] = d <=> peers[d] # NoPeer /\ peers[d].watch_id = i
      BY <1>1 DEF Tables, WatchesMatch
    <3>2. id \in Ids /\ watching.ids[id] = Nobody
      BY <1>2 DEF id
    <3>3. watching'.ids[i] = IF i = id THEN c
                             ELSE IF watching.ids[i] = c THEN Nobody ELSE watching.ids[i]
      BY <1>2 DEF id
    <3>4. CASE d = c
      BY <1>8, <2>1, <3>3, <3>4
    <3>5. CASE d # c
      BY <1>8, <2>1, <3>1, <3>2, <3>3, <3>5
    <3>6. QED
      BY <3>4, <3>5
  <2>3. QED
    BY <1>1, <1>2, <1>8, <2>2 DEF Tables, WatchesMatch
<1>10. OneStreamPerPeer'
  <2>1. DOMAIN streams' = 1..n + 1 /\ DOMAIN streams = 1..n /\ streams \in Seq(Streams)
    BY <1>1, <1>7 DEF Tables, n
  <2>2. ASSUME NEW d \in Clients, peers'[d] # NoPeer
        PROVE  /\ peers'[d].stream \in DOMAIN streams'
               /\ streams'[peers'[d].stream].name = d
               /\ streams'[peers'[d].stream].state # "closing"
    <3>1. CASE d = c
      BY <1>1, <1>4, <1>7, <1>8, <2>1, <3>1
    <3>2. CASE d # c
      <4>1. /\ peers'[d] = peers[d] /\ peers[d].stream \in 1..n
            /\ streams[peers[d].stream].name = d /\ streams[peers[d].stream].state # "closing"
        BY <1>1, <1>8, <2>1, <2>2, <3>2 DEF Tables, OneStreamPerPeer
      <4>2. streams'[peers[d].stream] = streams[peers[d].stream]
        BY <1>3, <1>7, <3>2, <4>1
      <4>3. QED
        BY <1>1, <2>1, <4>1, <4>2
    <3>3. QED
      BY <3>1, <3>2
  <2>3. ASSUME NEW i \in DOMAIN streams', streams'[i].state = "open"
        PROVE  peers'[streams'[i].name].stream = i
    <3>1. CASE i = n + 1
      BY <1>4, <1>7, <1>8, <3>1
    <3>2. CASE i # n + 1
      <4>1. i \in 1..n
        BY <1>1, <2>1, <3>2
      <4>2. /\ streams[i] \in Streams /\ streams[i].state = "open" /\ streams[i].name # c
            /\ streams'[i].name = streams[i].name
        BY <1>3, <1>7, <2>1, <2>3, <4>1
      <4>3. peers[streams[i].name].stream = i /\ streams[i].name \in Clients
        BY <1>1, <2>1, <4>1, <4>2 DEF Tables, OneStreamPerPeer, Streams
      <4>4. QED
        BY <1>8, <4>2, <4>3
    <3>3. QED
      BY <3>1, <3>2
  <2>4. QED
    BY <2>2, <2>3 DEF OneStreamPerPeer
<1>11. QED
  BY <1>2, <1>7, <1>8, <1>9, <1>10 DEF Tables, VanishedIsForgotten, Asking

(* Nothing else opens a stream, and what else closes one ends it.            *)
LEMMA StreamsGoOn ==
  ASSUME Tables, UNCHANGED <<api, peers>>,
         watching' \in Watching, watching'.ids = watching.ids, watching'.names = watching.names,
         streams' \in Seq(Streams), Len(streams') = Len(streams),
         \A i \in 1..Len(streams) :
           streams'[i].name = streams[i].name /\ streams'[i].state \in {streams[i].state, "ended"}
  PROVE  Tables'
<1>1. WatchesMatch' /\ VanishedIsForgotten' /\ Asking'
  BY DEF Tables, WatchesMatch, VanishedIsForgotten, Asking
<1>2. DOMAIN streams' = DOMAIN streams /\ DOMAIN streams = 1..Len(streams)
  BY DEF Tables
<1>3. OneStreamPerPeer'
  <2>1. ASSUME NEW c \in Clients, peers[c] # NoPeer
        PROVE  /\ peers[c].stream \in DOMAIN streams'
               /\ streams'[peers[c].stream].name = c
               /\ streams'[peers[c].stream].state # "closing"
    BY <1>2, <2>1 DEF Tables, OneStreamPerPeer
  <2>2. ASSUME NEW i \in DOMAIN streams', streams'[i].state = "open"
        PROVE  peers[streams'[i].name].stream = i
    BY <1>2, <2>2 DEF Tables, OneStreamPerPeer
  <2>3. QED
    BY <2>1, <2>2 DEF OneStreamPerPeer
<1>4. QED
  BY <1>1, <1>3 DEF Tables

-----------------------------------------------------------------------------
(* The invariant is inductive                                                *)

(* The part of the type invariant which is not in Tables.                    *)
Rest ==
  /\ api \in {"gio", "libdbus"}
  /\ server \in [started : BOOLEAN, exported : BOOLEAN, listening : BOOLEAN,
                 bus : {"own", "pending", "up", "lost", "gone"}]
  /\ inbox \in Seq(Messages) /\ rules \in [Clients -> Int]
  /\ alive \in SUBSET Clients /\ missed \in SUBSET Clients /\ stops \in Nat

LEMMA PInvIs == PInv <=> Tables /\ Rest
  BY DEF PInv, Tables, PeersTypeOK, Rest

LEMMA InitPInv == Init => PInv
<1> SUFFICES ASSUME Init PROVE PInv
  OBVIOUS
<1>1. Rest
  <2>1. server \in [started : BOOLEAN, exported : BOOLEAN, listening : BOOLEAN,
                   bus : {"own", "pending", "up", "lost", "gone"}]
    BY DEF Init
  <2>2. inbox \in Seq(Messages) /\ rules \in [Clients -> Int]
    BY DEF Init
  <2>3. QED
    BY <2>1, <2>2 DEF Init, Rest
<1>2. peers \in [Clients -> Peers] /\ \A c \in Clients : peers[c] = NoPeer
  BY DEF Init, Peers
<1>3. streams \in Seq(Streams) /\ DOMAIN streams = {}
  BY DEF Init
<1>4. /\ watching \in Watching
      /\ \A c \in Clients : watching.names[c] = NoWatch
      /\ \A id \in Ids : watching.ids[id] \notin Clients
  BY PeerConstants DEF Init, Watching, Watch, NoWatch, Nobody
<1>5. Tables
  BY <1>2, <1>3, <1>4
  DEF Tables, WatchesMatch, OneStreamPerPeer, VanishedIsForgotten, Asking, NoWatch
<1>6. QED
  BY <1>1, <1>5, PInvIs

LEMMA Received ==
  ASSUME inbox \in Seq(Messages), inbox # <<>>
  PROVE  /\ Head(inbox) \in Messages /\ Tail(inbox) \in Seq(Messages)
         /\ Head(inbox).name \in Clients
<1>1. Head(inbox) \in Messages /\ Tail(inbox) \in Seq(Messages)
  OBVIOUS
<1>2. QED
  BY <1>1 DEF Messages

LEMMA Sent ==
  ASSUME NEW m \in Messages, inbox \in Seq(Messages)
  PROVE  Append(inbox, m) \in Seq(Messages)
  OBVIOUS

LEMMA Requested ==
  ASSUME Tables, watching.requests # <<>>
  PROVE  /\ Head(watching.requests) \in Requests
         /\ [watching EXCEPT !.requests = Tail(@)] \in Watching
<1>1. watching \in Watching /\ watching.requests \in Seq(Requests)
  BY DEF Tables, Watching
<1>2. Head(watching.requests) \in Requests /\ Tail(watching.requests) \in Seq(Requests)
  BY <1>1
<1>3. QED
  BY <1>1, <1>2 DEF Watching

LEMMA RestStep ==
  ASSUME PInv, Next
  PROVE  Rest'
<1>1. Tables /\ Rest
  BY PInvIs
<1>2. CASE Handle
  <2>1. inbox # <<>> /\ inbox' = Tail(inbox) /\ UNCHANGED <<api, server, rules, alive, stops>>
    BY <1>2 DEF Handle, HandleOpen, HandleClose, HandleNameOwnerChanged, HandleNameOwner, Receive
  <2>2. Head(inbox).name \in Clients /\ inbox' \in Seq(Messages)
    BY <1>1, <2>1, Received DEF Rest
  <2>3. missed' \in SUBSET Clients
    BY <1>1, <1>2, <2>2
    DEF Handle, HandleOpen, HandleClose, HandleNameOwnerChanged, HandleNameOwner, Rest
  <2>4. QED
    BY <1>1, <2>1, <2>2, <2>3 DEF Rest
<1>3. CASE Daemon
  <2> DEFINE request == Head(watching.requests)
             answer == Message("NameOwner", request.name, request.serial, request.name \notin alive)
  <2>1. request \in Requests
    BY <1>1, <1>3, Requested DEF Daemon
  <2>2. rules' \in [Clients -> Int] /\ UNCHANGED <<api, server, alive, missed, stops>>
    <3> DEFINE c == request.name
               number == CASE request.type = "AddMatch" -> rules[c] + 1
                           [] request.type = "RemoveMatch" -> rules[c] - 1
                           [] OTHER -> rules[c]
    <3>1. rules' = [rules EXCEPT ![c] = number] /\ UNCHANGED <<api, server, alive, missed, stops>>
      BY <1>3 DEF Daemon
    <3>2. rules \in [Clients -> Int] /\ c \in Clients
      BY <1>1, <2>1 DEF Rest, Requests
    <3>3. number \in Int
      BY <3>2
    <3> HIDE DEF number
    <3>4. QED
      BY <3>1, <3>2, <3>3
  <2>3. CASE request.type = "GetNameOwner"
    <3>1. answer \in Messages
      BY <2>1, <2>3 DEF Message, Messages, Requests
    <3>2. inbox' = Append(inbox, answer)
      BY <1>3, <2>3 DEF Daemon
    <3> HIDE DEF answer
    <3>3. inbox' \in Seq(Messages)
      BY <1>1, <3>1, <3>2, Sent DEF Rest
    <3>4. QED
      BY <1>1, <2>2, <3>3 DEF Rest
  <2>4. CASE request.type # "GetNameOwner"
    <3>1. inbox' = inbox
      BY <1>3, <2>4 DEF Daemon
    <3>2. QED
      BY <1>1, <2>2, <3>1 DEF Rest
  <2>5. QED
    BY <2>3, <2>4
<1>4. CASE Start \/ Stop \/ BusAcquired \/ NameLost \/ Dispose
  <2> DEFINE Server == [started : BOOLEAN, exported : BOOLEAN, listening : BOOLEAN,
                        bus : {"own", "pending", "up", "lost", "gone"}]
  <2>1. server \in Server /\ Stopped \in Server
    BY <1>1 DEF Rest, Stopped
  <2>2. UNCHANGED <<api, inbox, rules, alive, missed>> /\ stops' \in {stops, stops + 1}
    BY <1>4 DEF Start, Stop, BusAcquired, NameLost, Dispose
  <2>3. server' \in Server
    <3>1. CASE Start
      <4>1. server' = [server EXCEPT !.started = TRUE, !.exported = Usable, !.listening = Usable]
        BY <3>1 DEF Start
      <4>2. Usable \in BOOLEAN
        BY DEF Usable
      <4>3. QED
        BY <2>1, <4>1, <4>2
    <3>2. CASE Stop
      BY <2>1, <3>2 DEF Stop
    <3>3. CASE BusAcquired
      BY <2>1, <3>3 DEF BusAcquired, AcquiredAndExported
    <3>4. CASE NameLost
      BY <2>1, <3>4 DEF NameLost
    <3>5. CASE Dispose
      <4>1. server' = [Stopped EXCEPT !.bus = "gone"]
        BY <3>5 DEF Dispose
      <4>2. QED
        BY <2>1, <4>1
    <3>6. QED
      BY <1>4, <3>1, <3>2, <3>3, <3>4, <3>5
  <2>4. QED
    BY <1>1, <2>2, <2>3 DEF Rest
<1>5. ASSUME NEW id \in Ids, GioPeerVanished(id) PROVE Rest'
  BY <1>1, <1>5 DEF Rest, GioPeerVanished
<1>6. ASSUME NEW s \in DOMAIN streams, Fill(s) \/ Drain(s) \/ Shutdown(s) \/ LetGo(s)
      PROVE  Rest'
  BY <1>1, <1>6 DEF Rest, Fill, Drain, Shutdown, LetGo, ChangeStream
<1>7. ASSUME NEW c \in Clients, Leave(c) PROVE Rest'
  <2>1. Message("NameOwnerChanged", c, 0, TRUE) \in Messages
    BY DEF Message, Messages
  <2>2. inbox' \in Seq(Messages)
    BY <1>1, <1>7, <2>1, Sent DEF Leave, Rest
  <2>3. QED
    BY <1>1, <1>7, <2>2 DEF Leave, Rest
<1>8. ASSUME NEW c \in Clients, Call(c, "LogOpen") \/ Call(c, "LogClose") PROVE Rest'
  <2>1. /\ Message("LogOpen", c, 0, FALSE) \in Messages
        /\ Message("LogClose", c, 0, FALSE) \in Messages
    BY DEF Message, Messages
  <2>2. inbox' \in Seq(Messages)
    BY <1>1, <1>8, <2>1, Sent DEF Call, Rest
  <2>3. QED
    BY <1>1, <1>8, <2>2 DEF Call, Rest
<1>9. QED
  BY <1>2, <1>3, <1>4, <1>5, <1>6, <1>7, <1>8 DEF Next

LEMMA FunctionIsSeq ==
  ASSUME NEW S, NEW n \in Nat, NEW f \in [1..n -> S]
  PROVE  f \in Seq(S) /\ Len(f) = n
  OBVIOUS

(* The names which are watched, and the requests with which they are let go. *)
NamesHeld == {c \in Clients : watching.names[c].refs > 0}

(* Each name is let go once.                                                 *)
EachOnce(asked, m, S) ==
  /\ \A i \in 1..m : asked[i].type = "RemoveMatch" /\ asked[i].name \in S
  /\ \A c \in S : \E i \in 1..m : asked[i].name = c
  /\ \A i \in 1..m, j \in 1..m : asked[i].name = asked[j].name => i = j

LEMMA FarewellIs ==
  ASSUME Dispose
  PROVE  \E m \in Nat : \E asked \in [1..m -> Requests] :
           /\ EachOnce(asked, m, NamesHeld)
           /\ watching' = [watching EXCEPT !.ids = [id \in Ids |-> Nobody],
                                            !.names = [c \in Clients |-> NoWatch],
                                            !.requests = watching.requests \o asked]
<1> DEFINE m == Cardinality(NamesHeld)
           order == SetToSeq(NamesHeld)
           asked == [i \in 1..m |-> Message("RemoveMatch", order[i], 0, FALSE)]
<1>1. IsFiniteSet(NamesHeld)
  BY PeerConstants, FS_Subset DEF NamesHeld
<1>2. ExistsBijection(1..m, NamesHeld) /\ m \in Nat
  BY <1>1, FS_CardinalityType
<1>3. order \in [1..m -> NamesHeld] /\ IsInjective(order)
  <2>1. \E f \in [1..m -> NamesHeld] : IsInjective(f)
    BY <1>2 DEF ExistsBijection, Bijection, Injection
  <2>2. QED
    BY <2>1 DEF SetToSeq
<1>4. Len(order) = m
  <2> HIDE DEF order, m
  <2>1. QED
    BY <1>2, <1>3
<1>5. \A i \in 1..m : order[i] \in NamesHeld /\ order[i] \in Clients
  <2> HIDE DEF order, m
  <2>1. QED
    BY <1>3 DEF NamesHeld
<1>6. asked \in [1..m -> Requests]
  <2> HIDE DEF order, m
  <2>1. QED
    BY <1>5 DEF Message, Requests
<1>7. \A i \in 1..m : asked[i].type = "RemoveMatch" /\ asked[i].name = order[i]
  <2> HIDE DEF order, m
  <2>1. QED
    BY DEF Message
<1>8. watching' = [watching EXCEPT !.ids = [id \in Ids |-> Nobody],
                                   !.names = [c \in Clients |-> NoWatch],
                                   !.requests = watching.requests \o asked]
  <2> DEFINE farewell == [c \in NamesHeld |-> Message("RemoveMatch", c, 0, FALSE)]
             said == [i \in 1..Len(order) |-> farewell[order[i]]]
  <2>1. watching' = [watching EXCEPT !.ids = [id \in Ids |-> Nobody],
                                     !.names = [c \in Clients |-> NoWatch],
                                     !.requests = watching.requests \o said]
    BY DEF Dispose, NamesHeld
  <2>2. said = asked
    <3> HIDE DEF order, m
    <3>1. \A i \in 1..m : farewell[order[i]] = Message("RemoveMatch", order[i], 0, FALSE)
      BY <1>5
    <3>2. QED
      BY <1>4, <3>1
  <2> HIDE DEF said, asked
  <2>3. QED
    BY <2>1, <2>2
<1>9. \A c \in NamesHeld : \E i \in 1..m : order[i] = c
  <2>1. IsFiniteSet(1..m) /\ Cardinality(1..m) = m
    <3> HIDE DEF order, m
    <3>1. IsFiniteSet(1..m) /\ Cardinality(1..m) = IF 1 > m THEN 0 ELSE m - 1 + 1
      BY <1>2, FS_Interval
    <3>2. QED
      BY <1>2, <3>1
  <2> HIDE DEF order
  <2>2. order \in Injection(1..m, NamesHeld)
    BY <1>3 DEF Injection
  <2>3. order \in Surjection(1..m, NamesHeld)
    BY <1>1, <2>1, <2>2, FS_Injection
  <2>4. QED
    BY <2>3 DEF Surjection
<1> HIDE DEF m, order, asked
<1>10. EachOnce(asked, m, NamesHeld)
  BY <1>3, <1>5, <1>7, <1>9 DEF EachOnce, IsInjective
<1>11. QED
  BY <1>2, <1>6, <1>8, <1>10

(* All are forgotten, and nothing of them is left.                           *)
LEMMA DisposeTables ==
  ASSUME PInv, Dispose
  PROVE  Tables'
<1>1. Tables /\ Rest
  BY PInvIs
<1>2. PICK m \in Nat : \E asked \in [1..m -> Requests] :
        watching' = [watching EXCEPT !.ids = [id \in Ids |-> Nobody],
                                     !.names = [c \in Clients |-> NoWatch],
                                     !.requests = watching.requests \o asked]
  BY FarewellIs
<1>3. PICK asked \in [1..m -> Requests] :
        watching' = [watching EXCEPT !.ids = [id \in Ids |-> Nobody],
                                     !.names = [c \in Clients |-> NoWatch],
                                     !.requests = watching.requests \o asked]
  BY <1>2
<1>4. asked \in Seq(Requests)
  BY FunctionIsSeq
<1>5. /\ watching' \in Watching
      /\ \A c \in Clients : watching'.names[c] = NoWatch
      /\ \A id \in Ids : watching'.ids[id] \notin Clients
  <2>1. watching \in Watching /\ watching.requests \in Seq(Requests)
    BY <1>1 DEF Tables, Watching
  <2>2. watching.requests \o asked \in Seq(Requests)
    BY <1>4, <2>1
  <2> DEFINE more == watching.requests \o asked
  <2>3. [c \in Clients |-> NoWatch] \in [Clients -> Watch]
    BY DEF Watch, NoWatch
  <2> HIDE DEF more
  <2>4. /\ watching' \in Watching /\ watching'.ids = [id \in Ids |-> Nobody]
        /\ watching'.names = [c \in Clients |-> NoWatch]
    BY <1>3, <2>1, <2>2, <2>3 DEF Watching, more
  <2>5. QED
    BY <2>4, PeerConstants DEF Nobody
<1>6. streams' \in Seq(Streams) /\ \A s \in DOMAIN streams' : streams'[s].state = "ended"
  <2>1. /\ Len(streams) \in Nat /\ DOMAIN streams = 1..Len(streams)
        /\ \A s \in 1..Len(streams) : streams[s] \in Streams
    BY <1>1 DEF Tables
  <2>2. streams' = [s \in 1..Len(streams) |->
                      [streams[s] EXCEPT !.state = "ended", !.kept = FALSE]]
    BY <2>1 DEF Dispose
  <2>3. ASSUME NEW s \in 1..Len(streams)
        PROVE  streams'[s] \in Streams /\ streams'[s].state = "ended"
    BY <2>1, <2>2 DEF Streams
  <2>4. streams' \in [1..Len(streams) -> Streams]
    BY <2>2, <2>3
  <2>5. QED
    BY <2>1, <2>3, <2>4, FunctionIsSeq
<1>7. peers' \in [Clients -> Peers] /\ \A c \in Clients : peers'[c] = NoPeer
  BY DEF Dispose, Peers
<1>8. QED
  BY <1>5, <1>6, <1>7
  DEF Tables, WatchesMatch, OneStreamPerPeer, VanishedIsForgotten, Asking, NoWatch

LEMMA Unnoted == ASSUME Tables, NEW c \in Clients PROVE Noted(watching, c)
  BY DEF Tables, Noted, VanishedIsForgotten, Asking

(* Noting something of a watch which is there.                               *)
LEMMA NotedIs ==
  ASSUME Tables, NEW c \in Clients, watching.names[c].refs > 0,
         NEW watch \in Watch, watch.refs = watching.names[c].refs,
         NEW w, w = Changed(watching, c, watch, watching.requests)
  PROVE  /\ Noted(w, c) /\ w.requests = watching.requests
         /\ \A d \in Clients : d # c => w.names[d] = watching.names[d]
<1>1. watching \in Watching /\ watching.requests \in Seq(Requests)
  BY DEF Tables, Watching
<1>2. /\ w \in Watching /\ w.ids = watching.ids /\ w.requests = watching.requests
      /\ \A d \in Clients : w.names[d] = IF d = c THEN watch ELSE watching.names[d]
  BY <1>1, NamesChanged
<1>3. \A d \in Clients : /\ ~watching.names[d].vanished
                         /\ watching.names[d].pending # 0 => watching.names[d].refs > 0
  BY DEF Tables, VanishedIsForgotten, Asking
<1>4. ASSUME NEW d \in Clients
      PROVE  /\ w.names[d].refs = watching.names[d].refs
             /\ w.names[d].vanished => d = c
             /\ w.names[d].pending # 0 \/ w.names[d].vanished => w.names[d].refs > 0
  <2>1. CASE d = c
    BY <1>2, <2>1
  <2>2. CASE d # c
    <3>1. w.names[d] = watching.names[d]
      BY <1>2, <2>2
    <3>2. QED
      BY <1>3, <3>1
  <2>3. QED
    BY <2>1, <2>2
<1>5. QED
  BY <1>2, <1>4 DEF Noted

(* The owner has answered, and the name is noted as vanished.                *)
LEMMA GoneNoted ==
  ASSUME watching \in Watching, NEW c \in Clients
  PROVE  [[watching EXCEPT !.names[c].pending = 0] EXCEPT !.names[c].vanished = TRUE] =
           Changed(watching, c,
                   [refs |-> watching.names[c].refs, pending |-> 0, vanished |-> TRUE],
                   watching.requests)
<1> DEFINE watch == watching.names[c]
           answered == [watching EXCEPT !.names[c].pending = 0]
           w == [answered EXCEPT !.names[c].vanished = TRUE]
           noted == [refs |-> watch.refs, pending |-> 0, vanished |-> TRUE]
<1>1. watch \in Watch
  BY DEF Watching
<1> DEFINE a == [watch EXCEPT !.pending = 0]
<1>2. answered = [watching EXCEPT !.names = [watching.names EXCEPT ![c] = a]]
  BY DEF Watching
<1>3. [a EXCEPT !.vanished = TRUE] = noted
  <2> SUFFICES ASSUME NEW x \in Watch
               PROVE  [[x EXCEPT !.pending = 0] EXCEPT !.vanished = TRUE] =
                        [refs |-> x.refs, pending |-> 0, vanished |-> TRUE]
    BY <1>1
  <2> DEFINE y == [x EXCEPT !.pending = 0]
             z == [y EXCEPT !.vanished = TRUE]
  <2>1. y \in Watch /\ y.refs = x.refs /\ y.pending = 0
    BY DEF Watch
  <2> HIDE DEF y
  <2>2. z \in Watch /\ z.refs = x.refs /\ z.pending = 0 /\ z.vanished = TRUE
    BY <2>1 DEF Watch
  <2> HIDE DEF z
  <2>3. z = [refs |-> x.refs, pending |-> 0, vanished |-> TRUE]
    BY <2>2 DEF Watch
  <2>4. QED
    BY <2>3 DEF y, z
<1> HIDE DEF a
<1>4. answered.names = [watching.names EXCEPT ![c] = a] /\ answered.names[c] = a
  BY <1>2 DEF Watching
<1> HIDE DEF answered
<1>5. w = [answered EXCEPT !.names = [answered.names EXCEPT ![c] = noted]]
  BY <1>2, <1>3, <1>4 DEF Watching
<1> HIDE DEF w, noted
<1>6. w = [watching EXCEPT !.names = [watching.names EXCEPT ![c] = noted]]
  BY <1>2, <1>4, <1>5 DEF Watching
<1>7. w = Changed(watching, c, noted, watching.requests)
  BY <1>6 DEF Changed, Watching
<1>8. QED
  BY <1>7 DEF w, noted, answered

(* The steps of the main loop: messages are handled.                         *)
LEMMA HandleTables ==
  ASSUME PInv, Handle
  PROVE  Tables'
<1> DEFINE c == Head(inbox).name
           watch == watching.names[c]
<1>1. Tables /\ Rest /\ api' = api
  BY PInvIs DEF Handle, HandleOpen, HandleClose, HandleNameOwnerChanged, HandleNameOwner
<1>2. /\ Head(inbox) \in Messages /\ c \in Clients
      /\ watching \in Watching /\ watch \in Watch /\ watching.requests \in Seq(Requests)
      /\ ~watch.vanished /\ (watch.pending # 0 => watch.refs > 0)
  <2>1. inbox # <<>>
    BY DEF Handle, HandleOpen, HandleClose, HandleNameOwnerChanged, HandleNameOwner, Receive
  <2>2. Head(inbox) \in Messages /\ c \in Clients
    BY <1>1, <2>1, Received DEF Rest
  <2>3. QED
    BY <1>1, <2>2 DEF Tables, Watching, VanishedIsForgotten, Asking
<1>3. ASSUME UNCHANGED <<peers, streams, watching>> PROVE Tables'
  BY <1>1, <1>3 DEF Tables, WatchesMatch, OneStreamPerPeer, VanishedIsForgotten, Asking
<1>4. ASSUME RemovePeer(watching, c) PROVE Tables'
  BY <1>1, <1>2, <1>4, Unnoted, PeerRemoved
<1>5. CASE HandleOpen
  <2>1. CASE Opened(c)
    BY <1>1, <1>2, <2>1, PeerOpened
  <2>2. CASE UNCHANGED <<peers, streams, watching>>
    BY <1>3, <2>2
  <2>3. QED
    BY <1>5, <2>1, <2>2 DEF HandleOpen
<1>6. CASE HandleClose
  BY <1>3, <1>4, <1>6 DEF HandleClose
<1>7. CASE HandleNameOwnerChanged
  <2>1. CASE Vanished(c) /\ watch.refs > 0
    <3> DEFINE w == [watching EXCEPT !.names[c].vanished = TRUE]
               noted == [watch EXCEPT !.vanished = TRUE]
    <3>1. w = Changed(watching, c, noted, watching.requests)
      BY <1>2 DEF Changed, Watching
    <3>2. noted \in Watch /\ noted.refs = watch.refs
      BY <1>2 DEF Watch
    <3>3. RemovePeer(w, c)
      BY <2>1 DEF Vanished
    <3> HIDE DEF w, noted
    <3>4. Noted(w, c)
      <4> HIDE DEF c
      <4>1. QED
        BY <1>1, <1>2, <2>1, <3>1, <3>2, NotedIs
    <3>5. QED
      BY <1>1, <1>2, <3>3, <3>4, PeerRemoved
  <2>2. CASE UNCHANGED <<peers, streams, watching>>
    BY <1>3, <2>2
  <2>3. QED
    BY <1>7, <2>1, <2>2 DEF HandleNameOwnerChanged
<1>8. CASE HandleNameOwner
  <2> DEFINE answered == [watching EXCEPT !.names[c].pending = 0]
             w == [answered EXCEPT !.names[c].vanished = TRUE]
  <2>1. CASE UNCHANGED <<peers, streams, watching>>
    BY <1>3, <2>1
  <2>2. ASSUME watch.pending = Head(inbox).serial PROVE watch.refs > 0
    BY <1>2, <1>8, <2>2 DEF HandleNameOwner, Receive, Messages
  <2>3. CASE watch.refs > 0 /\ RemovePeer(w, c)
    <3> DEFINE noted == [refs |-> watch.refs, pending |-> 0, vanished |-> TRUE]
    <3>1. w = Changed(watching, c, noted, watching.requests)
      BY <1>2, GoneNoted
    <3>2. noted \in Watch /\ noted.refs = watch.refs
      BY <1>2 DEF Watch
    <3> HIDE DEF w, noted
    <3>3. Noted(w, c)
      <4> HIDE DEF c
      <4>1. QED
        BY <1>1, <1>2, <2>3, <3>1, <3>2, NotedIs
    <3>4. QED
      BY <1>1, <1>2, <2>3, <3>3, PeerRemoved
  <2>4. CASE watching' = answered /\ UNCHANGED <<peers, streams>> /\ watch.refs > 0
    <3> DEFINE noted == [watch EXCEPT !.pending = 0]
    <3>1. answered = Changed(watching, c, noted, watching.requests)
      BY <1>2 DEF Changed, Watching
    <3>2. noted \in Watch /\ noted.refs = watch.refs /\ ~noted.vanished /\ noted.pending = 0
      BY <1>2 DEF Watch
    <3> HIDE DEF answered, noted
    <3>3. /\ watching' \in Watching /\ watching'.ids = watching.ids
          /\ \A d \in Clients :
               watching'.names[d] = IF d = c THEN noted ELSE watching.names[d]
      <4> HIDE DEF c
      <4>1. QED
        BY <1>2, <2>4, <3>1, <3>2, NamesChanged
    <3>4. WatchesMatch'
      BY <1>1, <2>4, <3>2, <3>3 DEF Tables, WatchesMatch
    <3>5. QED
      BY <1>1, <2>4, <3>2, <3>3, <3>4
      DEF Tables, OneStreamPerPeer, VanishedIsForgotten, Asking
  <2>5. QED
    BY <1>8, <2>1, <2>2, <2>3, <2>4 DEF HandleNameOwner
<1>9. QED
  BY <1>5, <1>6, <1>7, <1>8 DEF Handle

LEMMA TablesStep ==
  ASSUME PInv, Next
  PROVE  Tables'
<1>1. /\ Tables /\ Rest /\ streams \in Seq(Streams) /\ watching \in Watching
      /\ DOMAIN streams = 1..Len(streams) /\ \A s \in 1..Len(streams) : streams[s] \in Streams
  BY PInvIs DEF Tables
<1>2. CASE Handle
  BY <1>2, HandleTables
<1>3. CASE Daemon
  <2>1. /\ watching' = [watching EXCEPT !.requests = Tail(@)] /\ watching.requests # <<>>
        /\ UNCHANGED <<api, peers, streams>>
    BY <1>3 DEF Daemon
  <2>2. watching' \in Watching
    BY <1>1, <2>1, Requested
  <2>3. watching'.ids = watching.ids /\ watching'.names = watching.names
    BY <1>1, <2>1 DEF Watching
  <2>4. QED
    BY <1>1, <2>1, <2>2, <2>3, StreamsGoOn
<1>4. CASE Start \/ Stop \/ BusAcquired \/ NameLost
  <2>1. UNCHANGED <<api, peers, streams, watching>>
    BY <1>4 DEF Start, Stop, BusAcquired, NameLost
  <2>2. QED
    BY <1>1, <2>1, StreamsGoOn
<1>5. CASE Dispose
  BY <1>5, DisposeTables
<1>6. ASSUME NEW id \in Ids, GioPeerVanished(id) PROVE Tables'
  <2>1. watching.ids[id] \in Clients /\ RemovePeer(watching, watching.ids[id]) /\ api' = api
    BY <1>6 DEF GioPeerVanished
  <2>2. QED
    BY <1>1, <2>1, Unnoted, PeerRemoved
<1>7. ASSUME NEW s \in DOMAIN streams, NEW to \in Streams, ChangeStream(s, to),
             to.name = streams[s].name, to.state \in {streams[s].state, "ended"}
      PROVE  Tables'
  <2>1. streams' = [streams EXCEPT ![s] = to] /\ UNCHANGED <<api, peers, watching>>
    BY <1>7 DEF ChangeStream
  <2>2. /\ streams' \in Seq(Streams) /\ Len(streams') = Len(streams)
        /\ \A i \in 1..Len(streams) : streams'[i] = IF i = s THEN to ELSE streams[i]
    BY <1>1, <2>1
  <2>3. QED
    BY <1>1, <1>7, <2>1, <2>2, StreamsGoOn
<1>8. ASSUME NEW s \in DOMAIN streams, Fill(s) \/ Drain(s) \/ Shutdown(s) \/ LetGo(s)
      PROVE  Tables'
  <2> DEFINE old == streams[s]
  <2>1. old \in Streams
    BY <1>1
  <2>2. CASE Fill(s)
    <3>1. ChangeStream(s, [old EXCEPT !.full = TRUE])
      BY <2>2 DEF Fill
    <3>2. QED
      BY <1>7, <2>1, <3>1 DEF Streams
  <2>3. CASE Drain(s)
    <3>1. ChangeStream(s, [old EXCEPT !.full = FALSE])
      BY <2>3 DEF Drain
    <3>2. QED
      BY <1>7, <2>1, <3>1 DEF Streams
  <2>4. CASE Shutdown(s)
    <3>1. ChangeStream(s, [old EXCEPT !.state = "ended", !.kept = FALSE])
      BY <2>4 DEF Shutdown
    <3>2. QED
      BY <1>7, <2>1, <3>1 DEF Streams
  <2>5. CASE LetGo(s)
    <3>1. ChangeStream(s, [old EXCEPT !.away = FALSE])
      BY <2>5 DEF LetGo
    <3>2. QED
      BY <1>7, <2>1, <3>1 DEF Streams
  <2>6. QED
    BY <1>8, <2>2, <2>3, <2>4, <2>5
<1>9. ASSUME NEW c \in Clients, Leave(c) PROVE Tables'
  <2>1. /\ streams' = [s \in 1..Len(streams) |->
                         [streams[s] EXCEPT !.away = @ /\ streams[s].name # c]]
        /\ UNCHANGED <<api, peers, watching>>
    BY <1>1, <1>9 DEF Leave
  <2>2. ASSUME NEW s \in 1..Len(streams)
        PROVE  /\ streams'[s] \in Streams /\ streams'[s].name = streams[s].name
               /\ streams'[s].state = streams[s].state
    BY <1>1, <2>1 DEF Streams
  <2>3. streams' \in [1..Len(streams) -> Streams] /\ Len(streams) \in Nat
    <3>1. Len(streams) \in Nat
      BY <1>1
    <3>2. streams' = [s \in 1..Len(streams) |-> streams'[s]]
      BY <2>1
    <3>3. QED
      BY <2>2, <3>1, <3>2
  <2>4. streams' \in Seq(Streams) /\ Len(streams') = Len(streams)
    BY <2>3, FunctionIsSeq
  <2>5. QED
    BY <1>1, <2>1, <2>2, <2>4, StreamsGoOn
<1>10. ASSUME NEW c \in Clients, Call(c, "LogOpen") \/ Call(c, "LogClose") PROVE Tables'
  <2>1. UNCHANGED <<api, peers, streams, watching>>
    BY <1>10 DEF Call
  <2>2. QED
    BY <1>1, <2>1, StreamsGoOn
<1>11. QED
  BY <1>2, <1>3, <1>4, <1>5, <1>6, <1>8, <1>9, <1>10 DEF Next

LEMMA NextPInv == PInv /\ [Next]_vars => PInv'
<1> SUFFICES ASSUME PInv, [Next]_vars PROVE PInv'
  OBVIOUS
<1>1. CASE Next
  BY <1>1, RestStep, TablesStep DEF PInv, Rest, Tables, PeersTypeOK
<1>2. CASE UNCHANGED vars
  BY <1>2
  DEF vars, PInv, PeersTypeOK, Tables, WatchesMatch, OneStreamPerPeer, VanishedIsForgotten, Asking
<1>3. QED
  BY <1>1, <1>2

-----------------------------------------------------------------------------
(* Theorems                                                                  *)

(* The tables of the server agree with each other in every reachable state,  *)
(* with either back-end: dbuslog_server.c, dbuslog_server_dbus.c.            *)
THEOREM PeersInvariance == Spec => []PInv
<1>1. QED
  BY InitPInv, NextPInv, PTL DEF Spec

(* However calls, departures, restarts and the end of the server follow each *)
(* other, the server has one open stream for a peer, and no other: LogOpen   *)
(* ends the stream it replaces (dbus_log_server_call_log_open).              *)
THEOREM StreamsOfPeers == Spec => []OneStreamPerPeer
<1>1. PInv => OneStreamPerPeer
  BY DEF PInv, Tables
<1>2. QED
  BY <1>1, PeersInvariance, PTL

(* Watch ids identify peers also when the counter has wrapped around, and a  *)
(* DBusLogNameWatch has a reference for each of its ids: it is not freed     *)
(* while it is used, and not leaked (dbus_log_server_dbus_watch_name).       *)
THEOREM WatchesOfPeers == Spec => []WatchesMatch
<1>1. PInv => WatchesMatch
  BY DEF PInv, Tables
<1>2. QED
  BY <1>1, PeersInvariance, PTL

(* The assertion of dbus_log_server_dbus_watch_name never fails: whichever   *)
(* of NameOwnerChanged and the answer to GetNameOwner says first that a      *)
(* client has gone, its watch goes at once.                                  *)
THEOREM VanishedGo == Spec => []VanishedIsForgotten
<1>1. PInv => VanishedIsForgotten
  BY DEF PInv, Tables
<1>2. QED
  BY <1>1, PeersInvariance, PTL

-----------------------------------------------------------------------------
(* Requests which wait                                                       *)

Places(q, type, c) == {i \in DOMAIN q : q[i].type = type /\ q[i].name = c}
Count(q, type, c) == Cardinality(Places(q, type, c))

LEMMA PlacesFinite ==
  ASSUME NEW q \in Seq(Requests), NEW type, NEW c
  PROVE  IsFiniteSet(Places(q, type, c)) /\ Count(q, type, c) \in Nat
<1>1. Len(q) \in Int /\ DOMAIN q = 1..Len(q)
  OBVIOUS
<1>2. IsFiniteSet(1..Len(q))
  BY <1>1, FS_Interval
<1>3. Places(q, type, c) \in SUBSET (1..Len(q))
  BY <1>1 DEF Places
<1>4. IsFiniteSet(Places(q, type, c))
  BY <1>2, <1>3, FS_Subset
<1>5. QED
  BY <1>4, FS_CardinalityType DEF Count

(* An index is added when a sequence gets such an element at its end.        *)
LEMMA CountAppended ==
  ASSUME NEW q \in Seq(Requests), NEW r \in Requests, NEW type, NEW c
  PROVE  Count(Append(q, r), type, c) =
           Count(q, type, c) + (IF r.type = type /\ r.name = c THEN 1 ELSE 0)
<1> DEFINE n == Len(q)
           a == Append(q, r)
           places == Places(q, type, c)
<1>1. /\ n \in Nat /\ DOMAIN q = 1..n /\ DOMAIN a = 1..n + 1
      /\ a[n + 1] = r /\ \A i \in 1..n : a[i] = q[i]
  OBVIOUS
<1>2. \A i \in 1..n + 1 : i # n + 1 => i \in 1..n
  BY <1>1
<1>3. n + 1 \notin 1..n /\ n + 1 \in 1..n + 1 /\ 1..n \subseteq 1..n + 1
  BY <1>1
<1> HIDE DEF n, a
<1>4. IsFiniteSet(places) /\ Cardinality(places) \in Nat
  BY PlacesFinite DEF Count
<1>5. n + 1 \notin places
  BY <1>1, <1>3 DEF Places
<1>6. CASE r.type = type /\ r.name = c
  <2>1. Places(a, type, c) = places \cup {n + 1}
    BY <1>1, <1>2, <1>3, <1>6 DEF Places
  <2> HIDE DEF places
  <2>2. Cardinality(places \cup {n + 1}) = Cardinality(places) + 1
    BY <1>4, <1>5, FS_AddElement
  <2>3. QED
    BY <1>6, <2>1, <2>2 DEF Count, a, places
<1>7. CASE ~(r.type = type /\ r.name = c)
  <2>1. Places(a, type, c) = places
    BY <1>1, <1>2, <1>3, <1>7 DEF Places
  <2>2. QED
    BY <1>4, <1>7, <2>1 DEF Count, a
<1>8. QED
  BY <1>6, <1>7

(* The other way round at its beginning: the indices move by one.            *)
LEMMA CountTaken ==
  ASSUME NEW q \in Seq(Requests), q # <<>>, NEW type, NEW c
  PROVE  Count(Tail(q), type, c) =
           Count(q, type, c) - (IF Head(q).type = type /\ Head(q).name = c THEN 1 ELSE 0)
<1> DEFINE n == Len(q)
           t == Tail(q)
           from == Places(t, type, c)
           to == Places(q, type, c) \ {1}
           up == [i \in from |-> i + 1]
<1>1. /\ n \in Nat \ {0} /\ DOMAIN q = 1..n /\ DOMAIN t = 1..n - 1 /\ t \in Seq(Requests)
      /\ q[1] = Head(q) /\ \A i \in 1..n - 1 : t[i] = q[i + 1]
  OBVIOUS
<1>2. /\ IsFiniteSet(from)
      /\ IsFiniteSet(Places(q, type, c)) /\ Cardinality(Places(q, type, c)) \in Nat
  BY <1>1, PlacesFinite DEF Count
<1>3. Cardinality(to) = Cardinality(from)
  <2>1. \A i \in 1..n - 1 : i + 1 \in 1..n /\ i + 1 # 1
    BY <1>1
  <2>2. \A j \in 1..n : j # 1 => j - 1 \in 1..n - 1 /\ (j - 1) + 1 = j
    BY <1>1
  <2> HIDE DEF n, t
  <2>3. up \in [from -> to]
    BY <1>1, <2>1 DEF Places
  <2>4. ASSUME NEW i \in from, NEW j \in from, up[i] = up[j] PROVE i = j
    <3>1. i \in 1..n - 1 /\ j \in 1..n - 1 /\ i + 1 = j + 1
      BY <1>1, <2>4 DEF Places
    <3>2. QED
      BY <3>1
  <2>5. ASSUME NEW j \in to PROVE \E i \in from : up[i] = j
    <3>1. j \in 1..n /\ j # 1 /\ q[j].type = type /\ q[j].name = c
      BY <1>1 DEF Places
    <3>2. j - 1 \in from
      BY <1>1, <2>2, <3>1 DEF Places
    <3>3. up[j - 1] = j
      BY <2>2, <3>1, <3>2
    <3>4. QED
      BY <3>2, <3>3
  <2> HIDE DEF up, from, to
  <2>6. DOMAIN up = from
    BY <2>3
  <2>7. up \in Bijection(from, to)
    BY <2>3, <2>4, <2>5, <2>6 DEF Bijection, Injection, Surjection, IsInjective
  <2>8. ExistsBijection(from, to)
    BY <2>7 DEF ExistsBijection
  <2>9. QED
    BY <1>2, <2>8, FS_Bijection DEF from
<1>4. Cardinality(to) = IF 1 \in Places(q, type, c) THEN Cardinality(Places(q, type, c)) - 1
                        ELSE Cardinality(Places(q, type, c))
  BY <1>2, FS_RemoveElement
<1>5. 1 \in Places(q, type, c) <=> Head(q).type = type /\ Head(q).name = c
  <2>1. 1 \in DOMAIN q
    BY <1>1
  <2>2. QED
    BY <1>1, <2>1 DEF Places
<1> HIDE DEF to, from, n
<1>6. QED
  <2> DEFINE k == Cardinality(Places(q, type, c))
  <2>1. Cardinality(from) = Count(Tail(q), type, c) /\ k = Count(q, type, c)
    BY DEF Count, from
  <2>2. k \in Nat
    BY <1>2
  <2> HIDE DEF k
  <2>3. Cardinality(from) = IF Head(q).type = type /\ Head(q).name = c THEN k - 1 ELSE k
    BY <1>3, <1>4, <1>5 DEF k
  <2>4. CASE Head(q).type = type /\ Head(q).name = c
    BY <2>1, <2>2, <2>3, <2>4
  <2>5. CASE ~(Head(q).type = type /\ Head(q).name = c)
    BY <2>1, <2>2, <2>3, <2>5
  <2>6. QED
    BY <2>4, <2>5

LEMMA LengthIs ==
  ASSUME NEW S, NEW q \in Seq(S)
  PROVE  Len(q) \in Nat /\ DOMAIN q = 1..Len(q)
  OBVIOUS

LEMMA JoinedIs ==
  ASSUME NEW q \in Seq(Requests), NEW m \in Nat, NEW more \in [1..m -> Requests]
  PROVE  /\ more \in Seq(Requests) /\ Len(more) = m
         /\ q \o more \in Seq(Requests) /\ Len(q \o more) = Len(q) + m
         /\ \A i \in 1..Len(q) : (q \o more)[i] = q[i]
         /\ \A i \in 1..Len(q) + m : i \notin 1..Len(q) => (q \o more)[i] = more[i - Len(q)]
<1>1. more \in Seq(Requests) /\ Len(more) = m
  BY FunctionIsSeq
<1>2. q \o more \in Seq(Requests) /\ Len(q \o more) = Len(q) + m
  BY <1>1
<1>3. QED
  BY <1>1, <1>2

(* At the end every watched name gets one more of them, in some order.       *)
LEMMA CountFarewell ==
  ASSUME NEW q \in Seq(Requests), NEW S, NEW m \in Nat,
         NEW more \in [1..m -> Requests], EachOnce(more, m, S), NEW type, NEW c
  PROVE  Count(q \o more, type, c) =
           Count(q, type, c) + (IF type = "RemoveMatch" /\ c \in S THEN 1 ELSE 0)
<1> DEFINE n == Len(q)
           a == q \o more
           places == Places(q, type, c)
<1>1. n \in Nat
  BY LengthIs
<1>3. /\ DOMAIN q = 1..n /\ DOMAIN a = 1..n + m /\ a \in Seq(Requests)
      /\ \A i \in 1..n : a[i] = q[i]
      /\ \A i \in 1..n + m : i \notin 1..n => a[i] = more[i - n]
  <2>1. /\ q \o more \in Seq(Requests) /\ Len(q \o more) = Len(q) + m
        /\ \A i \in 1..Len(q) : (q \o more)[i] = q[i]
        /\ \A i \in 1..Len(q) + m : i \notin 1..Len(q) => (q \o more)[i] = more[i - Len(q)]
    BY JoinedIs
  <2>2. DOMAIN q = 1..n /\ DOMAIN a = 1..Len(a)
    BY <2>1, LengthIs
  <2>3. QED
    BY <2>1, <2>2
<1>4. IsFiniteSet(places) /\ Cardinality(places) \in Nat
  BY PlacesFinite DEF Count
<1>5. \A i \in 1..n + m : i \notin 1..n => i - n \in 1..m
  BY <1>1
<1>6. \A i \in 1..m : i + n \in 1..n + m /\ i + n \notin 1..n /\ (i + n) - n = i
  BY <1>1
<1>7. \A i \in 1..m : more[i].type = "RemoveMatch" /\ more[i].name \in S
  BY DEF EachOnce
<1>8. 1..n \subseteq 1..n + m
  BY <1>1
<1> HIDE DEF n, a
<1>9. CASE type = "RemoveMatch" /\ c \in S
  <2>1. PICK k \in 1..m : more[k].name = c
    BY <1>9 DEF EachOnce
  <2>2. \A j \in 1..m : more[j].name = c => j = k
    BY <2>1 DEF EachOnce
  <2>3. Places(a, type, c) = places \cup {k + n}
    <3>1. k + n \in Places(a, type, c)
      <4>1. k + n \in 1..n + m /\ k + n \notin 1..n /\ (k + n) - n = k
        BY <1>6
      <4>2. a[k + n] = more[k]
        BY <1>3, <4>1
      <4>3. QED
        BY <1>3, <1>7, <1>9, <2>1, <4>1, <4>2 DEF Places
    <3>2. places \subseteq Places(a, type, c)
      BY <1>3, <1>8 DEF Places
    <3>3. ASSUME NEW i \in Places(a, type, c), i \notin places PROVE i = k + n
      <4>1. i \in 1..n + m /\ i \notin 1..n
        BY <1>3, <3>3 DEF Places
      <4>2. i - n \in 1..m /\ a[i] = more[i - n] /\ a[i].name = c
        BY <1>3, <1>5, <4>1 DEF Places
      <4>3. i - n = k
        BY <1>7, <2>2, <4>2
      <4>4. QED
        BY <1>1, <4>1, <4>3
    <3>4. QED
      BY <3>1, <3>2, <3>3
  <2>4. k + n \notin places
    BY <1>3, <1>6, <2>1 DEF Places
  <2> HIDE DEF places
  <2>5. Cardinality(places \cup {k + n}) = Cardinality(places) + 1
    BY <1>4, <2>4, FS_AddElement
  <2>6. QED
    BY <1>9, <2>3, <2>5 DEF Count, a, places
<1>10. CASE ~(type = "RemoveMatch" /\ c \in S)
  <2>1. Places(a, type, c) = places
    <3>1. places \subseteq Places(a, type, c)
      BY <1>3, <1>8 DEF Places
    <3>2. ASSUME NEW i \in Places(a, type, c), i \notin places PROVE FALSE
      <4>1. i \in 1..n + m /\ i \notin 1..n
        BY <1>3, <3>2 DEF Places
      <4>2. i - n \in 1..m /\ a[i] = more[i - n] /\ a[i].name = c /\ a[i].type = type
        BY <1>3, <1>5, <4>1 DEF Places
      <4>3. QED
        BY <1>7, <1>10, <4>2
    <3>3. QED
      BY <3>1, <3>2
  <2>2. QED
    BY <1>4, <1>10, <2>1 DEF Count, a
<1>11. QED
  BY <1>9, <1>10

(* RulesInStep of these tables and these rules.                              *)
InStep(w, known) ==
  \A c \in Clients :
    known[c] + Count(w.requests, "AddMatch", c) - Count(w.requests, "RemoveMatch", c) =
      w.names[c].refs

LEMMA InStepIs == RulesInStep <=> InStep(watching, rules)
  BY DEF RulesInStep, Asked, InStep, Count, Places

-----------------------------------------------------------------------------
(* What is asked of the daemon                                               *)

(* The tables when the peer of a client, if any, has been removed.           *)
Removed(u, c) ==
  /\ u.requests = IF api = "libdbus" /\ peers[c] # NoPeer
                  THEN Append(watching.requests, Message("RemoveMatch", c, 0, FALSE))
                  ELSE watching.requests
  /\ u.names[c].refs = 0
  /\ \A d \in Clients : d # c => u.names[d] = watching.names[d]

LEMMA RemovedIs ==
  ASSUME Tables, api \in {"gio", "libdbus"}, NEW c \in Clients,
         NEW w, Noted(w, c), w.requests = watching.requests,
         \A d \in Clients : d # c => w.names[d] = watching.names[d],
         NEW u, u = PeerDestroyed(w, c)
  PROVE  Removed(u, c)
<1>1. /\ w \in Watching /\ peers[c] \in Peers /\ w.ids = watching.ids
      /\ w.names[c].refs = watching.names[c].refs
      /\ \A i \in Ids : watching.ids[i] = c <=> peers[c] # NoPeer /\ peers[c].watch_id = i
      /\ watching.names[c].refs = IF api = "libdbus" /\ peers[c] # NoPeer THEN 1 ELSE 0
  BY DEF Tables, WatchesMatch, Noted
<1>2. CASE peers[c] = NoPeer
  <2>1. u = w
    BY <1>2 DEF PeerDestroyed
  <2>2. QED
    BY <1>1, <1>2, <2>1 DEF Removed
<1>3. CASE peers[c] # NoPeer
  <2> DEFINE id == peers[c].watch_id
  <2>1. id \in Ids /\ w.ids[id] = c
    <3>1. id \in Ids
      BY <1>1, <1>3 DEF Peers
    <3>2. QED
      BY <1>1, <1>3, <3>1
  <2>2. u = UnwatchName(w, id)
    BY <1>3 DEF PeerDestroyed
  <2>3. Unwatched(u, w, id, c)
    <3> HIDE DEF id
    <3>1. QED
      BY <1>1, <2>1, <2>2, UnwatchedIs
  <2>4. \A d \in Clients : d # c => u.names[d] = watching.names[d]
    BY <2>3 DEF Unwatched
  <2>5. CASE api = "gio"
    <3>1. u.requests = w.requests /\ u.names[c] = w.names[c]
      BY <2>3, <2>5 DEF Unwatched
    <3>2. QED
      BY <1>1, <2>4, <2>5, <3>1 DEF Removed
  <2>6. CASE api = "libdbus"
    <3>1. ~(w.names[c].refs > 1)
      BY <1>1, <1>3, <2>6
    <3>2. /\ u.requests = Append(w.requests, Message("RemoveMatch", c, 0, FALSE))
          /\ u.names[c] = NoWatch
      BY <2>3, <2>6, <3>1 DEF Unwatched
    <3>3. u.requests = IF api = "libdbus" /\ peers[c] # NoPeer
                       THEN Append(watching.requests, Message("RemoveMatch", c, 0, FALSE))
                       ELSE watching.requests
      BY <1>3, <2>6, <3>2
    <3>4. u.names[c].refs = 0
      BY <3>2 DEF NoWatch
    <3>5. QED
      BY <2>4, <3>3, <3>4 DEF Removed
  <2>7. QED
    BY <2>5, <2>6
<1>4. QED
  BY <1>2, <1>3

(* The tables when a peer has been opened for a client.                      *)
Added(u, c, serial) ==
  /\ u.requests = IF api = "libdbus" /\ peers[c] = NoPeer
                  THEN watching.requests \o Questions(c, serial) ELSE watching.requests
  /\ u.names[c].refs = IF api = "libdbus" THEN 1 ELSE 0
  /\ api = "libdbus" => u.names[c].pending = IF peers[c] = NoPeer THEN serial
                                             ELSE watching.names[c].pending
  /\ \A d \in Clients : d # c => u.names[d] = watching.names[d]

LEMMA AddedIs ==
  ASSUME Tables, api \in {"gio", "libdbus"}, NEW c \in Clients, NEW serial \in Nat \ {0},
         NEW w, w = WatchName(watching, c, serial), NEW u, u = PeerDestroyed(w, c)
  PROVE  Added(u, c, serial)
<1>1. /\ w \in Watching /\ w.last \in Ids /\ watching.ids[w.last] = Nobody
      /\ \A i \in Ids : w.ids[i] = IF i = w.last THEN c ELSE watching.ids[i]
      /\ \A d \in Clients : api = "gio" \/ c # d => w.names[d] = watching.names[d]
      /\ api # "gio" => /\ w.names[c].refs = watching.names[c].refs + 1
                        /\ ~w.names[c].vanished
                        /\ w.names[c].pending = IF watching.names[c].refs > 0
                             THEN watching.names[c].pending ELSE serial
      /\ w.requests = IF api # "gio" /\ watching.names[c].refs = 0
                      THEN watching.requests \o Questions(c, serial) ELSE watching.requests
  BY WatchedIs
<1>2. /\ peers[c] \in Peers
      /\ \A i \in Ids : watching.ids[i] = c <=> peers[c] # NoPeer /\ peers[c].watch_id = i
      /\ watching.names[c].refs = IF api = "libdbus" /\ peers[c] # NoPeer THEN 1 ELSE 0
  BY DEF Tables, WatchesMatch
<1>3. Nobody \notin Clients
  BY PeerConstants DEF Nobody
<1>4. CASE peers[c] = NoPeer
  <2>1. u = w
    BY <1>4 DEF PeerDestroyed
  <2>2. CASE api = "gio"
    <3>1. u.requests = watching.requests /\ \A d \in Clients : u.names[d] = watching.names[d]
      BY <1>1, <2>1, <2>2
    <3>2. QED
      BY <1>2, <2>2, <3>1 DEF Added
  <2>3. CASE api = "libdbus"
    <3>1. watching.names[c].refs = 0
      BY <1>2, <1>4
    <3>2. /\ u.requests = watching.requests \o Questions(c, serial)
          /\ u.names[c].refs = 1 /\ u.names[c].pending = serial
      BY <1>1, <2>1, <2>3, <3>1
    <3>3. \A d \in Clients : d # c => u.names[d] = watching.names[d]
      BY <1>1, <2>1
    <3>4. QED
      BY <1>4, <2>3, <3>2, <3>3 DEF Added
  <2>4. QED
    BY <2>2, <2>3
<1>5. CASE peers[c] # NoPeer
  <2> DEFINE id == peers[c].watch_id
  <2>1. id \in Ids /\ watching.ids[id] = c
    <3>1. id \in Ids
      BY <1>2, <1>5 DEF Peers
    <3>2. QED
      BY <1>2, <1>5, <3>1
  <2>2. w.ids[id] = c
    BY <1>1, <1>3, <2>1
  <2>3. u = UnwatchName(w, id)
    BY <1>5 DEF PeerDestroyed
  <2>4. Unwatched(u, w, id, c)
    <3> HIDE DEF id
    <3>1. QED
      BY <1>1, <2>1, <2>2, <2>3, UnwatchedIs
  <2>5. \A d \in Clients : d # c => u.names[d] = watching.names[d]
    BY <1>1, <2>4 DEF Unwatched
  <2>6. CASE api = "gio"
    <3>1. u.requests = w.requests /\ u.names[c] = watching.names[c]
      BY <1>1, <2>4, <2>6 DEF Unwatched
    <3>2. w.requests = watching.requests
      BY <1>1, <2>6
    <3>3. QED
      BY <1>2, <2>5, <2>6, <3>1, <3>2 DEF Added
  <2>7. CASE api = "libdbus"
    <3>1. watching.names[c].refs = 1
      BY <1>2, <1>5, <2>7
    <3>2. /\ w.names[c].refs = 2 /\ w.names[c].pending = watching.names[c].pending
          /\ w.requests = watching.requests
      BY <1>1, <2>7, <3>1
    <3>3. /\ u.names[c].refs = 1 /\ u.names[c].pending = watching.names[c].pending
          /\ u.requests = watching.requests
      BY <2>4, <2>7, <3>2 DEF Unwatched
    <3>4. QED
      BY <1>5, <2>5, <2>7, <3>3 DEF Added
  <2>8. QED
    BY <2>6, <2>7
<1>6. QED
  BY <1>4, <1>5

-----------------------------------------------------------------------------
(* What is on its way, seen from both ends of a queue                        *)

Question(r, c, serial) == r.type = "GetNameOwner" /\ r.name = c /\ r.serial = serial
Telltale(m, c, serial) ==
  m.name = c /\ m.gone /\ (m.type = "NameOwner" => m.serial = serial)
Asks(q, c, serial) == \E i \in DOMAIN q : Question(q[i], c, serial)
Tells(box, c, serial) == \E i \in DOMAIN box : Telltale(box[i], c, serial)

LEMMA TellingIs ==
  ASSUME NEW c
  PROVE  Telling(c) <=> \/ Tells(inbox, c, watching.names[c].pending)
                        \/ Asks(watching.requests, c, watching.names[c].pending)
  BY DEF Telling, Tells, Telltale, Asks, Question

(* The changes of a rule which wait are followed by the question whose       *)
(* answer the watch waits for.                                               *)
Followed(q, c, serial) ==
  \A i \in DOMAIN q : q[i].name = c /\ q[i].type # "GetNameOwner" =>
    \E j \in DOMAIN q : j > i /\ Question(q[j], c, serial)

(* No two questions, asked or answered, have the same serial.                *)
Numbered(q, box, n) ==
  /\ \A j \in DOMAIN q : q[j].type = "GetNameOwner" => q[j].serial <= n
  /\ \A i \in DOMAIN box : box[i].type = "NameOwner" => box[i].serial <= n
  /\ \A j \in DOMAIN q, k \in DOMAIN q :
       q[j].type = "GetNameOwner" /\ q[k].type = "GetNameOwner" /\ q[j].serial = q[k].serial =>
         j = k
  /\ \A i \in DOMAIN box, k \in DOMAIN box :
       box[i].type = "NameOwner" /\ box[k].type = "NameOwner" /\ box[i].serial = box[k].serial =>
         i = k
  /\ \A j \in DOMAIN q, i \in DOMAIN box :
       q[j].type = "GetNameOwner" /\ box[i].type = "NameOwner" => q[j].serial # box[i].serial

(* Only the daemon says that somebody has gone.                              *)
Tidings(box) == \A i \in DOMAIN box : box[i].gone => box[i].type \notin {"LogOpen", "LogClose"}

LEMMA AppendIs ==
  ASSUME NEW S, NEW q \in Seq(S), NEW r \in S
  PROVE  /\ Len(q) \in Nat /\ DOMAIN q = 1..Len(q) /\ Append(q, r) \in Seq(S)
         /\ DOMAIN Append(q, r) = 1..Len(q) + 1
         /\ Append(q, r)[Len(q) + 1] = r
         /\ \A i \in 1..Len(q) : Append(q, r)[i] = q[i] /\ i \in 1..Len(q) + 1 /\ i < Len(q) + 1
         /\ \A i \in 1..Len(q) + 1 : i = Len(q) + 1 \/ i \in 1..Len(q)
  OBVIOUS

LEMMA TailIs ==
  ASSUME NEW S, NEW q \in Seq(S), q # <<>>
  PROVE  /\ Len(q) \in Nat \ {0} /\ DOMAIN q = 1..Len(q) /\ Tail(q) \in Seq(S)
         /\ DOMAIN Tail(q) = 1..Len(q) - 1
         /\ 1 \in 1..Len(q) /\ q[1] = Head(q)
         /\ \A i \in 1..Len(q) - 1 : Tail(q)[i] = q[i + 1] /\ i + 1 \in 1..Len(q) /\ i + 1 # 1
         /\ \A i \in 1..Len(q) : i # 1 => i - 1 \in 1..Len(q) - 1 /\ Tail(q)[i - 1] = q[i]
  OBVIOUS

LEMMA AsksMore ==
  ASSUME NEW q \in Seq(Requests), NEW r \in Requests, NEW c, NEW serial,
         Asks(q, c, serial) \/ Question(r, c, serial)
  PROVE  Asks(Append(q, r), c, serial)
<1> DEFINE a == Append(q, r)
           n == Len(q)
<1>1. /\ n \in Nat /\ DOMAIN q = 1..n /\ DOMAIN a = 1..n + 1 /\ a[n + 1] = r
      /\ \A i \in 1..n : a[i] = q[i] /\ i \in 1..n + 1
  BY AppendIs
<1>2. n + 1 \in 1..n + 1
  BY <1>1
<1> HIDE DEF a, n
<1>3. Asks(a, c, serial)
  BY <1>1, <1>2 DEF Asks
<1>4. QED
  BY <1>3 DEF a

LEMMA TellsMore ==
  ASSUME NEW q \in Seq(Messages), NEW m \in Messages, NEW c, NEW serial,
         Tells(q, c, serial) \/ Telltale(m, c, serial)
  PROVE  Tells(Append(q, m), c, serial)
<1> DEFINE a == Append(q, m)
           n == Len(q)
<1>1. /\ n \in Nat /\ DOMAIN q = 1..n /\ DOMAIN a = 1..n + 1 /\ a[n + 1] = m
      /\ \A i \in 1..n : a[i] = q[i] /\ i \in 1..n + 1
  BY AppendIs
<1>2. n + 1 \in 1..n + 1
  BY <1>1
<1> HIDE DEF a, n
<1>3. Tells(a, c, serial)
  BY <1>1, <1>2 DEF Tells
<1>4. QED
  BY <1>3 DEF a

LEMMA AsksLess ==
  ASSUME NEW q \in Seq(Requests), q # <<>>, NEW c, NEW serial,
         Asks(q, c, serial), ~Question(Head(q), c, serial)
  PROVE  Asks(Tail(q), c, serial)
<1>1. PICK i \in DOMAIN q : Question(q[i], c, serial)
  BY DEF Asks
<1>2. i # 1 /\ i \in 1..Len(q)
  BY <1>1, TailIs
<1>3. i - 1 \in DOMAIN Tail(q) /\ Tail(q)[i - 1] = q[i]
  BY <1>2, TailIs
<1>4. QED
  BY <1>1, <1>3 DEF Asks

LEMMA TellsLess ==
  ASSUME NEW q \in Seq(Messages), q # <<>>, NEW c, NEW serial,
         Tells(q, c, serial), ~Telltale(Head(q), c, serial)
  PROVE  Tells(Tail(q), c, serial)
<1>1. PICK i \in DOMAIN q : Telltale(q[i], c, serial)
  BY DEF Tells
<1>2. i # 1 /\ i \in 1..Len(q)
  BY <1>1, TailIs
<1>3. i - 1 \in DOMAIN Tail(q) /\ Tail(q)[i - 1] = q[i]
  BY <1>2, TailIs
<1>4. QED
  BY <1>1, <1>3 DEF Tells

LEMMA FollowedMore ==
  ASSUME NEW q \in Seq(Requests), NEW r \in Requests, NEW c, NEW serial,
         Question(r, c, serial) \/ (Followed(q, c, serial) /\ r.name # c)
  PROVE  Followed(Append(q, r), c, serial)
<1> DEFINE a == Append(q, r)
           n == Len(q)
<1>1. /\ n \in Nat /\ DOMAIN q = 1..n /\ DOMAIN a = 1..n + 1 /\ a[n + 1] = r
      /\ \A i \in 1..n : a[i] = q[i] /\ i \in 1..n + 1 /\ i < n + 1
      /\ \A i \in 1..n + 1 : i = n + 1 \/ i \in 1..n
  BY AppendIs
<1>2. n + 1 \in 1..n + 1 /\ \A i \in 1..n : n + 1 > i
  BY <1>1
<1> HIDE DEF a, n
<1>3. ASSUME NEW i \in DOMAIN a, a[i].name = c, a[i].type # "GetNameOwner"
      PROVE  \E j \in DOMAIN a : j > i /\ Question(a[j], c, serial)
  <2>1. CASE Question(r, c, serial)
    <3>1. i \in 1..n
      BY <1>1, <1>3, <2>1 DEF Question
    <3>2. QED
      BY <1>1, <1>2, <2>1, <3>1
  <2>2. CASE Followed(q, c, serial) /\ r.name # c
    <3>1. i \in 1..n
      BY <1>1, <1>3, <2>2
    <3>2. PICK j \in DOMAIN q : j > i /\ Question(q[j], c, serial)
      BY <1>1, <1>3, <2>2, <3>1 DEF Followed
    <3>3. QED
      BY <1>1, <3>2
  <2>3. QED
    BY <2>1, <2>2
<1>4. QED
  BY <1>3 DEF Followed, a

LEMMA FollowedLess ==
  ASSUME NEW q \in Seq(Requests), q # <<>>, NEW c, NEW serial, Followed(q, c, serial)
  PROVE  Followed(Tail(q), c, serial)
<1> DEFINE t == Tail(q)
           n == Len(q)
<1>1. /\ n \in Nat \ {0} /\ DOMAIN q = 1..n /\ DOMAIN t = 1..n - 1
      /\ \A i \in 1..n - 1 : t[i] = q[i + 1] /\ i + 1 \in 1..n /\ i + 1 # 1
      /\ \A i \in 1..n : i # 1 => i - 1 \in 1..n - 1 /\ t[i - 1] = q[i]
  BY TailIs
<1> HIDE DEF t, n
<1>2. ASSUME NEW i \in DOMAIN t, t[i].name = c, t[i].type # "GetNameOwner"
      PROVE  \E j \in DOMAIN t : j > i /\ Question(t[j], c, serial)
  <2>1. t[i] = q[i + 1] /\ i + 1 \in 1..n /\ i \in 1..n - 1
    BY <1>1
  <2>2. PICK j \in DOMAIN q : j > i + 1 /\ Question(q[j], c, serial)
    BY <1>1, <1>2, <2>1 DEF Followed
  <2>3. j \in 1..n /\ j # 1 /\ j - 1 > i
    BY <1>1, <2>1, <2>2
  <2>4. j - 1 \in DOMAIN t /\ t[j - 1] = q[j]
    BY <1>1, <2>3
  <2>5. QED
    BY <2>2, <2>3, <2>4
<1>3. QED
  BY <1>2 DEF Followed, t

LEMMA NumberedMore ==
  ASSUME NEW q \in Seq(Requests), NEW r \in Requests, NEW box \in Seq(Messages), NEW n \in Nat,
         Numbered(q, box, n),
         NEW m \in Nat, r.type = "GetNameOwner" => r.serial = n + 1, m = n \/ m = n + 1,
         r.type = "GetNameOwner" => m = n + 1
  PROVE  Numbered(Append(q, r), box, m)
<1> DEFINE a == Append(q, r)
           l == Len(q)
<1>1. /\ l \in Nat /\ DOMAIN q = 1..l /\ DOMAIN a = 1..l + 1 /\ a[l + 1] = r
      /\ \A i \in 1..l : a[i] = q[i]
      /\ \A i \in 1..l + 1 : i = l + 1 \/ i \in 1..l
  BY AppendIs
<1>2. /\ \A i \in DOMAIN q : q[i].serial \in Nat
      /\ \A i \in DOMAIN box : box[i].serial \in Nat
  <2>1. \A i \in DOMAIN q : q[i] \in Requests
    OBVIOUS
  <2>2. \A i \in DOMAIN box : box[i] \in Messages
    OBVIOUS
  <2>3. QED
    BY <2>1, <2>2 DEF Requests, Messages
<1> HIDE DEF a, l
<1>3. \A j \in DOMAIN q : q[j].type = "GetNameOwner" => q[j].serial <= n /\ q[j].serial # n + 1
  BY <1>2 DEF Numbered
<1>4. \A i \in DOMAIN box : box[i].type = "NameOwner" => box[i].serial <= n /\ box[i].serial # n + 1
  BY <1>2 DEF Numbered
<1>5. \A j \in DOMAIN a : a[j].type = "GetNameOwner" => a[j].serial <= m
  <2>1. \A j \in DOMAIN q : q[j].type = "GetNameOwner" => q[j].serial <= m
    BY <1>2, <1>3
  <2>2. QED
    BY <1>1, <2>1
<1>6. \A i \in DOMAIN box : box[i].type = "NameOwner" => box[i].serial <= m
  BY <1>2, <1>4
<1>7. ASSUME NEW j \in DOMAIN a, NEW k \in DOMAIN a, a[j].type = "GetNameOwner",
             a[k].type = "GetNameOwner", a[j].serial = a[k].serial
      PROVE  j = k
  <2>1. CASE j \in 1..l /\ k \in 1..l
    BY <1>1, <1>7, <2>1 DEF Numbered
  <2>2. CASE j = l + 1
    BY <1>1, <1>3, <1>7, <2>2
  <2>3. CASE k = l + 1
    BY <1>1, <1>3, <1>7, <2>3
  <2>4. QED
    BY <1>1, <2>1, <2>2, <2>3
<1>8. ASSUME NEW j \in DOMAIN a, NEW i \in DOMAIN box, a[j].type = "GetNameOwner",
             box[i].type = "NameOwner"
      PROVE  a[j].serial # box[i].serial
  <2>1. CASE j \in 1..l
    BY <1>1, <1>8, <2>1 DEF Numbered
  <2>2. CASE j = l + 1
    BY <1>1, <1>4, <1>8, <2>2
  <2>3. QED
    BY <1>1, <2>1, <2>2
<1>9. \A i \in DOMAIN box, k \in DOMAIN box :
        box[i].type = "NameOwner" /\ box[k].type = "NameOwner" /\ box[i].serial = box[k].serial =>
          i = k
  BY DEF Numbered
<1>10. Numbered(a, box, m)
  BY <1>5, <1>6, <1>7, <1>8, <1>9 DEF Numbered
<1>11. QED
  BY <1>10 DEF a

LEMMA NumberedTold ==
  ASSUME NEW q \in Seq(Requests), NEW box \in Seq(Messages), NEW m \in Messages, NEW n \in Nat,
         Numbered(q, box, n), m.type # "NameOwner"
  PROVE  Numbered(q, Append(box, m), n)
<1> DEFINE a == Append(box, m)
           l == Len(box)
<1>1. /\ l \in Nat /\ DOMAIN box = 1..l /\ DOMAIN a = 1..l + 1 /\ a[l + 1] = m
      /\ \A i \in 1..l : a[i] = box[i]
      /\ \A i \in 1..l + 1 : i = l + 1 \/ i \in 1..l
  BY AppendIs
<1> HIDE DEF a, l
<1>2. \A i \in DOMAIN a : a[i].type = "NameOwner" => i \in DOMAIN box /\ a[i] = box[i]
  BY <1>1
<1>3. Numbered(q, a, n)
  BY <1>2 DEF Numbered
<1>4. QED
  BY <1>3 DEF a

LEMMA NumberedHeard ==
  ASSUME NEW q \in Seq(Requests), NEW box \in Seq(Messages), box # <<>>, NEW n \in Nat,
         Numbered(q, box, n)
  PROVE  Numbered(q, Tail(box), n)
<1> DEFINE t == Tail(box)
           l == Len(box)
<1>1. /\ l \in Nat \ {0} /\ DOMAIN box = 1..l /\ DOMAIN t = 1..l - 1
      /\ \A i \in 1..l - 1 : t[i] = box[i + 1] /\ i + 1 \in 1..l
  BY TailIs
<1> HIDE DEF t, l
<1>2. \A i \in DOMAIN t : i + 1 \in DOMAIN box /\ t[i] = box[i + 1]
  BY <1>1
<1>3. \A i \in DOMAIN t, k \in DOMAIN t : i + 1 = k + 1 => i = k
  BY <1>1
<1>4. /\ \A i \in DOMAIN t : t[i].type = "NameOwner" => t[i].serial <= n
      /\ \A j \in DOMAIN q, i \in DOMAIN t :
           q[j].type = "GetNameOwner" /\ t[i].type = "NameOwner" => q[j].serial # t[i].serial
  BY <1>2 DEF Numbered
<1>5. \A i \in DOMAIN t, k \in DOMAIN t :
        t[i].type = "NameOwner" /\ t[k].type = "NameOwner" /\ t[i].serial = t[k].serial => i = k
  BY <1>2, <1>3 DEF Numbered
<1>6. Numbered(q, t, n)
  BY <1>4, <1>5 DEF Numbered
<1>7. QED
  BY <1>6 DEF t

LEMMA NumberedTaken ==
  ASSUME NEW q \in Seq(Requests), q # <<>>, NEW box \in Seq(Messages), NEW n \in Nat,
         Numbered(q, box, n)
  PROVE  /\ Numbered(Tail(q), box, n)
         /\ Head(q).type = "GetNameOwner" =>
              /\ Head(q).serial <= n
              /\ \A i \in DOMAIN Tail(q) : Tail(q)[i].type = "GetNameOwner" =>
                   Tail(q)[i].serial # Head(q).serial
              /\ \A i \in DOMAIN box : box[i].type = "NameOwner" =>
                   box[i].serial # Head(q).serial
<1> DEFINE t == Tail(q)
           l == Len(q)
<1>1. /\ l \in Nat \ {0} /\ DOMAIN q = 1..l /\ DOMAIN t = 1..l - 1
      /\ 1 \in 1..l /\ q[1] = Head(q)
      /\ \A i \in 1..l - 1 : t[i] = q[i + 1] /\ i + 1 \in 1..l /\ i + 1 # 1
  BY TailIs
<1> HIDE DEF t, l
<1>2. \A i \in DOMAIN t : i + 1 \in DOMAIN q /\ t[i] = q[i + 1]
  BY <1>1
<1>3. \A i \in DOMAIN t, k \in DOMAIN t : i + 1 = k + 1 => i = k
  BY <1>1
<1>4. /\ \A j \in DOMAIN t : t[j].type = "GetNameOwner" => t[j].serial <= n
      /\ \A j \in DOMAIN t, i \in DOMAIN box :
           t[j].type = "GetNameOwner" /\ box[i].type = "NameOwner" => t[j].serial # box[i].serial
      /\ \A i \in DOMAIN box : box[i].type = "NameOwner" => box[i].serial <= n
      /\ \A i \in DOMAIN box, k \in DOMAIN box :
           box[i].type = "NameOwner" /\ box[k].type = "NameOwner" /\ box[i].serial = box[k].serial =>
             i = k
  BY <1>2 DEF Numbered
<1>5. \A i \in DOMAIN t, k \in DOMAIN t :
        t[i].type = "GetNameOwner" /\ t[k].type = "GetNameOwner" /\ t[i].serial = t[k].serial =>
          i = k
  BY <1>2, <1>3 DEF Numbered
<1>6. Numbered(t, box, n)
  BY <1>4, <1>5 DEF Numbered
<1>7. ASSUME Head(q).type = "GetNameOwner"
      PROVE  /\ Head(q).serial <= n
             /\ \A i \in DOMAIN t : t[i].type = "GetNameOwner" => t[i].serial # Head(q).serial
             /\ \A i \in DOMAIN box : box[i].type = "NameOwner" => box[i].serial # Head(q).serial
  <2>1. 1 \in DOMAIN q /\ q[1].type = "GetNameOwner" /\ q[1].serial = Head(q).serial
    BY <1>1, <1>7
  <2>2. Head(q).serial <= n
    BY <2>1 DEF Numbered
  <2>3. \A i \in DOMAIN box : box[i].type = "NameOwner" => box[i].serial # Head(q).serial
    BY <2>1 DEF Numbered
  <2>4. \A i \in DOMAIN t : t[i].type = "GetNameOwner" => t[i].serial # Head(q).serial
    BY <1>1, <1>2, <2>1 DEF Numbered
  <2>5. QED
    BY <2>2, <2>3, <2>4
<1>8. QED
  BY <1>6, <1>7 DEF t

(* A question leaves one queue, and its answer enters the other.             *)
LEMMA NumberedAnswered ==
  ASSUME NEW q \in Seq(Requests), q # <<>>, NEW box \in Seq(Messages), NEW n \in Nat,
         Numbered(q, box, n), Head(q).type = "GetNameOwner",
         NEW m \in Messages, m.type = "NameOwner", m.serial = Head(q).serial
  PROVE  Numbered(Tail(q), Append(box, m), n)
<1> DEFINE t == Tail(q)
           a == Append(box, m)
           l == Len(box)
<1>1. /\ l \in Nat /\ DOMAIN box = 1..l /\ DOMAIN a = 1..l + 1 /\ a[l + 1] = m
      /\ \A i \in 1..l : a[i] = box[i]
      /\ \A i \in 1..l + 1 : i = l + 1 \/ i \in 1..l
  BY AppendIs
<1>2. /\ Numbered(t, box, n) /\ m.serial <= n
      /\ \A i \in DOMAIN t : t[i].type = "GetNameOwner" => t[i].serial # m.serial
      /\ \A i \in DOMAIN box : box[i].type = "NameOwner" => box[i].serial # m.serial
  BY NumberedTaken
<1> HIDE DEF a, l, t
<1>3. /\ \A j \in DOMAIN t : t[j].type = "GetNameOwner" => t[j].serial <= n
      /\ \A j \in DOMAIN t, k \in DOMAIN t :
           t[j].type = "GetNameOwner" /\ t[k].type = "GetNameOwner" /\ t[j].serial = t[k].serial =>
             j = k
  BY <1>2 DEF Numbered
<1>4. \A i \in DOMAIN a : a[i].type = "NameOwner" => a[i].serial <= n
  BY <1>1, <1>2 DEF Numbered
<1>5. ASSUME NEW i \in DOMAIN a, NEW k \in DOMAIN a, a[i].type = "NameOwner",
             a[k].type = "NameOwner", a[i].serial = a[k].serial
      PROVE  i = k
  <2>1. CASE i \in 1..l /\ k \in 1..l
    BY <1>1, <1>2, <1>5, <2>1 DEF Numbered
  <2>2. CASE i = l + 1 \/ k = l + 1
    BY <1>1, <1>2, <1>5, <2>2
  <2>3. QED
    BY <1>1, <2>1, <2>2
<1>6. ASSUME NEW j \in DOMAIN t, NEW i \in DOMAIN a, t[j].type = "GetNameOwner",
             a[i].type = "NameOwner"
      PROVE  t[j].serial # a[i].serial
  <2>1. CASE i \in 1..l
    BY <1>1, <1>2, <1>6, <2>1 DEF Numbered
  <2>2. CASE i = l + 1
    BY <1>1, <1>2, <1>6, <2>2
  <2>3. QED
    BY <1>1, <2>1, <2>2
<1>7. Numbered(t, a, n)
  BY <1>3, <1>4, <1>5, <1>6 DEF Numbered
<1>8. QED
  BY <1>7 DEF a, t

(* Nothing of this is said of other requests.                                *)
LEMMA NumberedFarewell ==
  ASSUME NEW q \in Seq(Requests), NEW m \in Nat, NEW more \in [1..m -> Requests],
         \A i \in 1..m : more[i].type # "GetNameOwner",
         NEW box \in Seq(Messages), NEW n \in Nat, Numbered(q, box, n)
  PROVE  Numbered(q \o more, box, n)
<1> DEFINE a == q \o more
           l == Len(q)
<1>1. /\ a \in Seq(Requests) /\ Len(a) = l + m
      /\ \A i \in 1..l : a[i] = q[i]
      /\ \A i \in 1..l + m : i \notin 1..l => a[i] = more[i - l]
  BY JoinedIs
<1>2. DOMAIN q = 1..l /\ l \in Nat /\ DOMAIN a = 1..l + m
  BY <1>1, LengthIs
<1> HIDE DEF a, l
<1>3. \A i \in 1..l + m : i \notin 1..l => i - l \in 1..m
  BY <1>2
<1>4. \A i \in DOMAIN a : a[i].type = "GetNameOwner" => i \in DOMAIN q /\ a[i] = q[i]
  BY <1>1, <1>2, <1>3
<1>5. Numbered(a, box, n)
  BY <1>4 DEF Numbered
<1>6. QED
  BY <1>5 DEF a

-----------------------------------------------------------------------------
(* The invariant of the two queues                                           *)

AllFollowed ==
  \A c \in Clients : watching.names[c].refs > 0 =>
    Followed(watching.requests, c, watching.names[c].pending)

Notices ==
  \A c \in Clients \ (alive \cup missed) : api = "libdbus" /\ peers[c] # NoPeer =>
    \/ Tells(inbox, c, watching.names[c].pending)
    \/ Asks(watching.requests, c, watching.names[c].pending)

LEMMA NoticesIs == AbsenceIsNoticed <=> Notices
  BY TellingIs DEF AbsenceIsNoticed, Notices

Queues ==
  /\ InStep(watching, rules) /\ AllFollowed
  /\ Numbered(watching.requests, inbox, Len(streams)) /\ Tidings(inbox) /\ Notices

LEMMA QueueTypes ==
  ASSUME PInv
  PROVE  /\ Tables /\ api \in {"gio", "libdbus"}
         /\ watching.requests \in Seq(Requests) /\ inbox \in Seq(Messages)
         /\ Len(streams) \in Nat /\ rules \in [Clients -> Int]
         /\ \A c \in Clients :
              /\ watching.names[c].refs = IF api = "libdbus" /\ peers[c] # NoPeer THEN 1 ELSE 0
              /\ Count(watching.requests, "AddMatch", c) \in Nat
              /\ Count(watching.requests, "RemoveMatch", c) \in Nat
<1>1. /\ Tables /\ api \in {"gio", "libdbus"} /\ watching \in Watching /\ inbox \in Seq(Messages)
      /\ streams \in Seq(Streams) /\ rules \in [Clients -> Int]
  BY DEF PInv, PeersTypeOK
<1>2. watching.requests \in Seq(Requests)
  BY <1>1 DEF Watching
<1>3. Len(streams) \in Nat
  BY <1>1, LengthIs
<1>4. \A c \in Clients :
        watching.names[c].refs = IF api = "libdbus" /\ peers[c] # NoPeer THEN 1 ELSE 0
  BY <1>1 DEF Tables, WatchesMatch
<1>5. QED
  BY <1>1, <1>2, <1>3, <1>4, PlacesFinite

LEMMA TidingsLess ==
  ASSUME NEW box \in Seq(Messages), box # <<>>, Tidings(box)
  PROVE  Tidings(Tail(box)) /\ (Head(box).gone => Head(box).type \notin {"LogOpen", "LogClose"})
<1> DEFINE t == Tail(box)
           l == Len(box)
<1>1. /\ DOMAIN box = 1..l /\ DOMAIN t = 1..l - 1 /\ 1 \in 1..l /\ box[1] = Head(box)
      /\ \A i \in 1..l - 1 : t[i] = box[i + 1] /\ i + 1 \in 1..l
  BY TailIs
<1> HIDE DEF t, l
<1>2. Tidings(t)
  BY <1>1 DEF Tidings
<1>3. Head(box).gone => Head(box).type \notin {"LogOpen", "LogClose"}
  BY <1>1 DEF Tidings
<1>4. QED
  BY <1>2, <1>3 DEF t

LEMMA TidingsMore ==
  ASSUME NEW box \in Seq(Messages), NEW m \in Messages, Tidings(box),
         m.gone => m.type \notin {"LogOpen", "LogClose"}
  PROVE  Tidings(Append(box, m))
<1> DEFINE a == Append(box, m)
           l == Len(box)
<1>1. /\ DOMAIN box = 1..l /\ DOMAIN a = 1..l + 1 /\ a[l + 1] = m
      /\ \A i \in 1..l : a[i] = box[i]
      /\ \A i \in 1..l + 1 : i = l + 1 \/ i \in 1..l
  BY AppendIs
<1> HIDE DEF a, l
<1>2. Tidings(a)
  BY <1>1 DEF Tidings
<1>3. QED
  BY <1>2 DEF a

(* A message is taken which did not say that a peer has gone.                *)
LEMMA NothingHeard ==
  ASSUME PInv, Queues, UNCHANGED <<watching, peers, api, rules, alive>>,
         Len(streams') = Len(streams), missed \subseteq missed',
         inbox # <<>>, inbox' = Tail(inbox),
         \A c \in Clients \ (alive \cup missed') : api = "libdbus" /\ peers[c] # NoPeer =>
           ~Telltale(Head(inbox), c, watching.names[c].pending)
  PROVE  Queues'
<1>1. /\ watching.requests \in Seq(Requests) /\ inbox \in Seq(Messages) /\ Len(streams) \in Nat
  BY QueueTypes
<1>2. InStep(watching, rules)' /\ AllFollowed'
  BY DEF Queues, InStep, AllFollowed
<1>3. Numbered(watching.requests, inbox, Len(streams))'
  BY <1>1, NumberedHeard DEF Queues
<1>4. Tidings(inbox)'
  BY <1>1, TidingsLess DEF Queues
<1>5. ASSUME NEW c \in Clients \ (alive \cup missed'), api = "libdbus" /\ peers[c] # NoPeer
      PROVE  \/ Tells(inbox', c, watching.names[c].pending)
             \/ Asks(watching.requests, c, watching.names[c].pending)
  <2>1. \/ Tells(inbox, c, watching.names[c].pending)
        \/ Asks(watching.requests, c, watching.names[c].pending)
    BY <1>5 DEF Queues, Notices
  <2>2. ASSUME Tells(inbox, c, watching.names[c].pending)
        PROVE  Tells(inbox', c, watching.names[c].pending)
    BY <1>1, <1>5, <2>2, TellsLess
  <2>3. QED
    BY <2>1, <2>2
<1>6. Notices'
  BY <1>5 DEF Notices
<1>7. QED
  BY <1>2, <1>3, <1>4, <1>6 DEF Queues

(* A message to the server, or none at all.                                  *)
LEMMA NothingSaid ==
  ASSUME PInv, Queues, UNCHANGED <<watching, peers, api, rules, alive, missed>>,
         Len(streams') = Len(streams),
         NEW m \in Messages, ~m.gone, m.type # "NameOwner",
         inbox' = inbox \/ inbox' = Append(inbox, m)
  PROVE  Queues'
<1>1. /\ watching.requests \in Seq(Requests) /\ inbox \in Seq(Messages) /\ Len(streams) \in Nat
  BY QueueTypes
<1>2. InStep(watching, rules)' /\ AllFollowed'
  BY DEF Queues, InStep, AllFollowed
<1>3. Numbered(watching.requests, inbox, Len(streams))'
  <2>1. CASE inbox' = inbox
    BY <2>1 DEF Queues
  <2>2. CASE inbox' = Append(inbox, m)
    BY <1>1, <2>2, NumberedTold DEF Queues
  <2>3. QED
    BY <2>1, <2>2
<1>4. Tidings(inbox)'
  <2>1. CASE inbox' = inbox
    BY <2>1 DEF Queues
  <2>2. CASE inbox' = Append(inbox, m)
    BY <1>1, <2>2, TidingsMore DEF Queues
  <2>3. QED
    BY <2>1, <2>2
<1>5. \A c, serial : Tells(inbox, c, serial) => Tells(inbox', c, serial)
  BY <1>1, TellsMore
<1>6. Notices'
  BY <1>5 DEF Queues, Notices
<1>7. QED
  BY <1>2, <1>3, <1>4, <1>6 DEF Queues

(* A peer has been removed, on a message of its own or on none.              *)
LEMMA RemovedQueues ==
  ASSUME PInv, Queues, NEW c \in Clients, Removed(watching', c), c \in Clients,
         peers' = [peers EXCEPT ![c] = NoPeer], Len(streams') = Len(streams),
         UNCHANGED <<api, rules, alive>>, missed \subseteq missed',
         inbox' = inbox \/ (inbox # <<>> /\ inbox' = Tail(inbox) /\ Head(inbox).name = c)
  PROVE  Queues'
<1> DEFINE q == watching.requests
           r == Message("RemoveMatch", c, 0, FALSE)
           more == api = "libdbus" /\ peers[c] # NoPeer
<1>1. /\ Tables /\ q \in Seq(Requests) /\ inbox \in Seq(Messages) /\ Len(streams) \in Nat
      /\ rules \in [Clients -> Int] /\ peers \in [Clients -> Peers]
      /\ \A d \in Clients :
           /\ watching.names[d].refs = IF api = "libdbus" /\ peers[d] # NoPeer THEN 1 ELSE 0
           /\ Count(q, "AddMatch", d) \in Nat /\ Count(q, "RemoveMatch", d) \in Nat
  BY QueueTypes DEF Tables
<1>2. r \in Requests /\ r.type = "RemoveMatch" /\ r.name = c
  BY DEF Message, Requests
<1>3. /\ watching'.requests = IF more THEN Append(q, r) ELSE q
      /\ watching'.names[c].refs = 0
      /\ \A d \in Clients : d # c => watching'.names[d] = watching.names[d]
  BY DEF Removed
<1> HIDE DEF r
<1>4. ASSUME NEW d \in Clients
      PROVE  rules[d] + Count(watching'.requests, "AddMatch", d)
               - Count(watching'.requests, "RemoveMatch", d) = watching'.names[d].refs
  <2>1. rules[d] \in Int /\ Count(q, "AddMatch", d) \in Nat /\ Count(q, "RemoveMatch", d) \in Nat
    BY <1>1
  <2>2. rules[d] + Count(q, "AddMatch", d) - Count(q, "RemoveMatch", d) = watching.names[d].refs
    BY DEF Queues, InStep
  <2>3. CASE more
    <3>1. Count(watching'.requests, "AddMatch", d) = Count(q, "AddMatch", d)
      <4>1. Count(Append(q, r), "AddMatch", d) = Count(q, "AddMatch", d) + 0
        BY <1>1, <1>2, CountAppended
      <4>2. QED
        BY <1>3, <2>1, <2>3, <4>1
    <3>2. Count(watching'.requests, "RemoveMatch", d) =
            Count(q, "RemoveMatch", d) + (IF d = c THEN 1 ELSE 0)
      BY <1>1, <1>2, <1>3, <2>3, CountAppended
    <3>3. watching.names[c].refs = 1
      BY <1>1, <2>3
    <3> HIDE DEF q
    <3>4. CASE d = c
      BY <1>3, <2>1, <2>2, <3>1, <3>2, <3>3, <3>4
    <3>5. CASE d # c
      BY <1>3, <2>1, <2>2, <3>1, <3>2, <3>5
    <3>6. QED
      BY <3>4, <3>5
  <2>4. CASE ~more
    <3>1. watching'.requests = q /\ watching.names[c].refs = 0
      BY <1>1, <1>3, <2>4
    <3>2. watching'.names[d].refs = watching.names[d].refs
      BY <1>3, <3>1
    <3>3. QED
      BY <2>2, <3>1, <3>2
  <2>5. QED
    BY <2>3, <2>4
<1>5. InStep(watching, rules)'
  BY <1>4 DEF InStep
<1>6. AllFollowed'
  <2>1. ASSUME NEW d \in Clients, watching'.names[d].refs > 0
        PROVE  Followed(watching'.requests, d, watching'.names[d].pending)
    <3>1. d # c /\ watching'.names[d] = watching.names[d]
      BY <1>3, <2>1
    <3>2. Followed(q, d, watching.names[d].pending)
      BY <2>1, <3>1 DEF Queues, AllFollowed
    <3>3. Followed(Append(q, r), d, watching.names[d].pending)
      BY <1>1, <1>2, <3>1, <3>2, FollowedMore
    <3>4. QED
      BY <1>3, <3>1, <3>2, <3>3
  <2>2. QED
    BY <2>1 DEF AllFollowed
<1>7. Numbered(watching.requests, inbox, Len(streams))'
  <2>1. Numbered(q, inbox, Len(streams))
    BY DEF Queues
  <2>2. Numbered(Append(q, r), inbox, Len(streams))
    BY <1>1, <1>2, <2>1, NumberedMore
  <2>3. Numbered(watching'.requests, inbox, Len(streams))
    BY <1>3, <2>1, <2>2
  <2>4. watching'.requests \in Seq(Requests)
    BY <1>1, <1>2, <1>3
  <2>5. QED
    BY <1>1, <2>3, <2>4, NumberedHeard
<1>8. Tidings(inbox)'
  BY <1>1, TidingsLess DEF Queues
<1>9. Notices'
  <2>1. ASSUME NEW d \in Clients \ (alive \cup missed'), api = "libdbus", peers'[d] # NoPeer
        PROVE  \/ Tells(inbox', d, watching'.names[d].pending)
               \/ Asks(watching'.requests, d, watching'.names[d].pending)
    <3> DEFINE serial == watching.names[d].pending
    <3>1. d # c /\ peers[d] # NoPeer /\ watching'.names[d].pending = serial
      BY <1>1, <1>3, <2>1
    <3>2. Tells(inbox, d, serial) \/ Asks(q, d, serial)
      BY <2>1, <3>1 DEF Queues, Notices
    <3>3. ASSUME Tells(inbox, d, serial) PROVE Tells(inbox', d, serial)
      <4>1. CASE inbox' = inbox
        BY <3>3, <4>1
      <4>2. CASE inbox # <<>> /\ inbox' = Tail(inbox) /\ Head(inbox).name = c
        <5>1. ~Telltale(Head(inbox), d, serial)
          BY <3>1, <4>2 DEF Telltale
        <5> HIDE DEF serial
        <5>2. QED
          BY <1>1, <3>3, <4>2, <5>1, TellsLess
      <4>3. QED
        BY <4>1, <4>2
    <3>4. ASSUME Asks(q, d, serial) PROVE Asks(watching'.requests, d, serial)
      <4> HIDE DEF serial
      <4>1. Asks(Append(q, r), d, serial)
        BY <1>1, <1>2, <3>4, AsksMore
      <4>2. QED
        BY <1>3, <3>4, <4>1
    <3>5. QED
      BY <3>1, <3>2, <3>3, <3>4
  <2>2. QED
    BY <2>1 DEF Notices
<1>10. QED
  BY <1>5, <1>6, <1>7, <1>8, <1>9 DEF Queues

LEMMA TwoMore ==
  ASSUME NEW q \in Seq(Requests), NEW x \in Requests, NEW y \in Requests
  PROVE  q \o <<x, y>> = Append(Append(q, x), y)
<1> DEFINE a == q \o <<x, y>>
           b == Append(Append(q, x), y)
           n == Len(q)
<1>1. <<x, y>> \in Seq(Requests) /\ Len(<<x, y>>) = 2 /\ n \in Nat
  OBVIOUS
<1>2. Append(q, x) \in Seq(Requests) /\ Len(Append(q, x)) = n + 1
  OBVIOUS
<1>3. a \in Seq(Requests) /\ b \in Seq(Requests) /\ Len(a) = n + 2 /\ Len(b) = n + 2
  BY <1>1, <1>2
<1>4. ASSUME NEW i \in 1..n + 2 PROVE a[i] = b[i]
  <2>1. CASE i \in 1..n
    BY <1>1, <1>2, <2>1
  <2>2. CASE i = n + 1
    BY <1>1, <1>2, <2>2
  <2>3. CASE i = n + 2
    BY <1>1, <1>2, <2>3
  <2>4. QED
    BY <1>1, <2>1, <2>2, <2>3
<1> HIDE DEF a, b
<1>5. a = b
  BY <1>3, <1>4
<1>6. QED
  BY <1>5 DEF a, b

(* A peer has been opened: a name which was not watched is asked about.      *)
LEMMA OpenedQueues ==
  ASSUME PInv, Queues, HandleOpen, Opened(Head(inbox).name)
  PROVE  Queues'
<1> DEFINE q == watching.requests
           n == Len(streams)
           c == Head(inbox).name
           add == Message("AddMatch", c, 0, FALSE)
           ask == Message("GetNameOwner", c, n + 1, FALSE)
           new == api = "libdbus" /\ peers[c] = NoPeer
<1>1. /\ Tables /\ q \in Seq(Requests) /\ inbox \in Seq(Messages) /\ n \in Nat
      /\ api \in {"gio", "libdbus"}
      /\ rules \in [Clients -> Int] /\ peers \in [Clients -> Peers]
      /\ \A d \in Clients :
           /\ watching.names[d].refs = IF api = "libdbus" /\ peers[d] # NoPeer THEN 1 ELSE 0
           /\ Count(q, "AddMatch", d) \in Nat /\ Count(q, "RemoveMatch", d) \in Nat
  BY QueueTypes DEF Tables
<1>2. /\ inbox # <<>> /\ inbox' = Tail(inbox) /\ Head(inbox).type = "LogOpen"
      /\ UNCHANGED <<api, rules, alive, missed>>
  BY DEF HandleOpen, Receive
<1>3. c \in Clients
  BY <1>1, <1>2, Received
<1>4. n + 1 \in Nat \ {0}
  BY <1>1
<1>5. /\ add \in Requests /\ add.type = "AddMatch" /\ add.name = c
      /\ ask \in Requests /\ Question(ask, c, n + 1)
      /\ ask.type # "AddMatch" /\ ask.type # "RemoveMatch"
  BY <1>3, <1>4 DEF Message, Requests, Question
<1>6. Added(watching', c, n + 1)
  <2>1. watching' = PeerDestroyed(WatchName(watching, c, n + 1), c)
    BY DEF Opened
  <2> HIDE DEF c, n
  <2>2. QED
    BY <1>1, <1>3, <1>4, <2>1, AddedIs
<1>7. q \o Questions(c, n + 1) = Append(Append(q, add), ask)
  <2>1. Questions(c, n + 1) = <<add, ask>>
    BY DEF Questions
  <2> HIDE DEF add, ask, q, n, c
  <2>2. QED
    BY <1>1, <1>5, <2>1, TwoMore
<1>8. /\ watching'.requests = IF new THEN Append(Append(q, add), ask) ELSE q
      /\ watching'.names[c].refs = IF api = "libdbus" THEN 1 ELSE 0
      /\ api = "libdbus" => watching'.names[c].pending = IF peers[c] = NoPeer THEN n + 1
                                                         ELSE watching.names[c].pending
      /\ \A d \in Clients : d # c => watching'.names[d] = watching.names[d]
  BY <1>6, <1>7 DEF Added
<1>9. Append(q, add) \in Seq(Requests) /\ Append(Append(q, add), ask) \in Seq(Requests)
  <2> HIDE DEF q, add, ask
  <2>1. QED
    BY <1>1, <1>5
<1>10. Len(streams') = n + 1
  <2>1. streams' = Append(StreamsWithout(c), NewStream(c))
    BY DEF Opened
  <2>2. StreamsWithout(c) \in Seq(Streams) /\ Len(StreamsWithout(c)) = Len(streams)
    <3> HIDE DEF c
    <3>1. QED
      BY <1>1, <1>3, StreamsWithoutIs
  <2>3. QED
    BY <2>1, <2>2
<1>11. peers' = [peers EXCEPT ![c] = [stream |-> n + 1,
                                      watch_id |-> WatchName(watching, c, n + 1).last]]
  BY DEF Opened
<1> HIDE DEF add, ask
<1>12. ASSUME NEW d \in Clients
       PROVE  rules[d] + Count(watching'.requests, "AddMatch", d)
                - Count(watching'.requests, "RemoveMatch", d) = watching'.names[d].refs
  <2>1. rules[d] \in Int /\ Count(q, "AddMatch", d) \in Nat /\ Count(q, "RemoveMatch", d) \in Nat
    BY <1>1
  <2>2. rules[d] + Count(q, "AddMatch", d) - Count(q, "RemoveMatch", d) = watching.names[d].refs
    BY DEF Queues, InStep
  <2>3. CASE new
    <3> DEFINE a == Append(q, add)
    <3>1. Count(watching'.requests, "AddMatch", d) =
            Count(q, "AddMatch", d) + (IF d = c THEN 1 ELSE 0)
      <4>1. Count(a, "AddMatch", d) = Count(q, "AddMatch", d) + (IF d = c THEN 1 ELSE 0)
        BY <1>1, <1>5, CountAppended
      <4>2. Count(Append(a, ask), "AddMatch", d) = Count(a, "AddMatch", d) + 0
        <5>1. a \in Seq(Requests)
          BY <1>9
        <5> HIDE DEF a
        <5>2. QED
          BY <1>5, <5>1, CountAppended
      <4> HIDE DEF a
      <4>3. Count(Append(a, ask), "AddMatch", d) =
              Count(q, "AddMatch", d) + (IF d = c THEN 1 ELSE 0)
        BY <2>1, <4>1, <4>2
      <4>4. QED
        BY <1>8, <2>3, <4>3 DEF a
    <3>2. Count(watching'.requests, "RemoveMatch", d) = Count(q, "RemoveMatch", d)
      <4>1. Count(a, "RemoveMatch", d) = Count(q, "RemoveMatch", d) + 0
        BY <1>1, <1>5, CountAppended
      <4>2. Count(Append(a, ask), "RemoveMatch", d) = Count(a, "RemoveMatch", d) + 0
        <5>1. a \in Seq(Requests)
          BY <1>9
        <5> HIDE DEF a
        <5>2. QED
          BY <1>5, <5>1, CountAppended
      <4> HIDE DEF a
      <4>3. Count(Append(a, ask), "RemoveMatch", d) = Count(q, "RemoveMatch", d)
        BY <2>1, <4>1, <4>2
      <4>4. QED
        BY <1>8, <2>3, <4>3 DEF a
    <3>3. watching.names[c].refs = 0 /\ watching'.names[c].refs = 1
      BY <1>1, <1>3, <1>8, <2>3
    <3> HIDE DEF q, c
    <3>4. CASE d = c
      BY <2>1, <2>2, <3>1, <3>2, <3>3, <3>4
    <3>5. CASE d # c
      BY <1>8, <2>1, <2>2, <3>1, <3>2, <3>5
    <3>6. QED
      BY <3>4, <3>5
  <2>4. CASE ~new
    <3>1. watching'.requests = q
      BY <1>8, <2>4
    <3>2. watching'.names[c].refs = watching.names[c].refs
      BY <1>1, <1>3, <1>8, <2>4
    <3>3. watching'.names[d].refs = watching.names[d].refs
      BY <1>8, <3>2
    <3>4. QED
      BY <2>2, <3>1, <3>3
  <2>5. QED
    BY <2>3, <2>4
<1>13. InStep(watching, rules)'
  BY <1>2, <1>12 DEF InStep
<1>14. AllFollowed'
  <2>1. ASSUME NEW d \in Clients, watching'.names[d].refs > 0
        PROVE  Followed(watching'.requests, d, watching'.names[d].pending)
    <3>1. CASE new /\ d = c
      <4>1. watching'.names[d].pending = n + 1 /\ watching'.requests = Append(Append(q, add), ask)
        BY <1>8, <3>1
      <4>2. QED
        BY <1>5, <1>9, <3>1, <4>1, FollowedMore
    <3>2. CASE new /\ d # c
      <4> DEFINE serial == watching.names[d].pending
      <4>1. watching'.names[d].pending = serial /\ watching.names[d].refs > 0
        BY <1>8, <2>1, <3>2
      <4>2. Followed(q, d, serial)
        BY <4>1 DEF Queues, AllFollowed
      <4> HIDE DEF serial
      <4>3. Followed(Append(q, add), d, serial)
        BY <1>1, <1>5, <3>2, <4>2, FollowedMore
      <4>4. Followed(Append(Append(q, add), ask), d, serial)
        BY <1>5, <1>9, <3>2, <4>3, FollowedMore DEF Question
      <4>5. QED
        BY <1>8, <3>2, <4>1, <4>4
    <3>3. CASE ~new
      <4>1. watching'.requests = q
        BY <1>8, <3>3
      <4>2. /\ watching.names[d].refs > 0
            /\ watching'.names[d].pending = watching.names[d].pending
        <5>1. CASE d = c
          <6>1. api = "libdbus" /\ peers[c] # NoPeer
            BY <1>1, <1>8, <2>1, <3>3, <5>1
          <6>2. watching.names[c].refs = 1
            BY <1>1, <1>3, <6>1
          <6>3. QED
            BY <1>8, <5>1, <6>1, <6>2
        <5>2. CASE d # c
          BY <1>8, <2>1, <5>2
        <5>3. QED
          BY <5>1, <5>2
      <4>3. Followed(q, d, watching.names[d].pending)
        BY <4>2 DEF Queues, AllFollowed
      <4>4. QED
        BY <4>1, <4>2, <4>3
    <3>4. QED
      BY <3>1, <3>2, <3>3
  <2>2. QED
    BY <2>1 DEF AllFollowed
<1>15. Numbered(watching.requests, inbox, Len(streams))'
  <2>1. Numbered(q, inbox, n)
    BY DEF Queues
  <2>2. Numbered(q, inbox', n)
    BY <1>1, <1>2, <2>1, NumberedHeard
  <2>3. inbox' \in Seq(Messages)
    BY <1>1, <1>2
  <2>4. Numbered(Append(q, add), inbox', n)
    BY <1>1, <1>5, <2>2, <2>3, NumberedMore
  <2>5. Numbered(Append(Append(q, add), ask), inbox', n + 1)
    <3>1. ask.type = "GetNameOwner" /\ ask.serial = n + 1 /\ n + 1 \in Nat
      BY <1>4, <1>5 DEF Question
    <3> HIDE DEF n
    <3>2. QED
      BY <1>1, <1>5, <1>9, <2>3, <2>4, <3>1, NumberedMore
  <2>6. Numbered(q, inbox', n + 1)
    <3>1. \A j \in DOMAIN q : q[j] \in Requests
      BY <1>1
    <3>2. \A j \in DOMAIN inbox' : inbox'[j] \in Messages
      BY <2>3
    <3>3. \A x \in Nat : x <= n => x <= n + 1
      BY <1>1
    <3>4. QED
      BY <2>2, <3>1, <3>2, <3>3 DEF Numbered, Requests, Messages
  <2>7. QED
    BY <1>8, <1>10, <2>5, <2>6
<1>16. Tidings(inbox)'
  BY <1>1, <1>2, TidingsLess DEF Queues
<1>17. Notices'
  <2>1. ASSUME NEW d \in Clients \ (alive \cup missed), api = "libdbus", peers'[d] # NoPeer
        PROVE  \/ Tells(inbox', d, watching'.names[d].pending)
               \/ Asks(watching'.requests, d, watching'.names[d].pending)
    <3>1. CASE d = c /\ peers[c] = NoPeer
      <4>1. watching'.names[d].pending = n + 1 /\ watching'.requests = Append(Append(q, add), ask)
        BY <1>8, <2>1, <3>1
      <4>2. Asks(Append(Append(q, add), ask), d, n + 1)
        BY <1>5, <1>9, <3>1, AsksMore
      <4>3. QED
        BY <4>1, <4>2
    <3>2. CASE d # c \/ peers[c] # NoPeer
      <4> DEFINE serial == watching.names[d].pending
      <4>1. watching'.names[d].pending = serial
        <5>1. CASE d = c
          BY <1>8, <2>1, <3>2, <5>1
        <5>2. CASE d # c
          BY <1>8, <5>2
        <5>3. QED
          BY <5>1, <5>2
      <4>2. peers[d] # NoPeer
        <5>1. CASE d = c
          BY <3>2, <5>1
        <5>2. CASE d # c
          BY <1>1, <1>11, <2>1, <5>2
        <5>3. QED
          BY <5>1, <5>2
      <4>3. Tells(inbox, d, serial) \/ Asks(q, d, serial)
        BY <2>1, <4>2 DEF Queues, Notices
      <4>4. ~Telltale(Head(inbox), d, serial)
        BY <1>1, <1>2, TidingsLess DEF Queues, Telltale
      <4> HIDE DEF serial
      <4>5. ASSUME Tells(inbox, d, serial) PROVE Tells(inbox', d, serial)
        BY <1>1, <1>2, <4>4, <4>5, TellsLess
      <4>6. ASSUME Asks(q, d, serial) PROVE Asks(watching'.requests, d, serial)
        <5>1. Asks(Append(q, add), d, serial)
          BY <1>1, <1>5, <4>6, AsksMore
        <5>2. Asks(Append(Append(q, add), ask), d, serial)
          BY <1>5, <1>9, <5>1, AsksMore
        <5>3. QED
          BY <1>8, <4>6, <5>2
      <4>7. QED
        BY <4>1, <4>3, <4>5, <4>6
    <3>3. QED
      BY <3>1, <3>2
  <2>2. QED
    BY <1>2, <2>1 DEF Notices
<1>18. QED
  BY <1>13, <1>14, <1>15, <1>16, <1>17 DEF Queues

(* The owner is known: a watch waits for no answer any more.                 *)
LEMMA AnsweredQueues ==
  ASSUME PInv, Queues, NEW c \in Clients, inbox # <<>>, inbox' = Tail(inbox),
         Head(inbox).type = "NameOwner", Head(inbox).name = c, ~Head(inbox).gone,
         Head(inbox).serial = watching.names[c].pending,
         watching'.requests = watching.requests,
         \A d \in Clients : /\ watching'.names[d].refs = watching.names[d].refs
                            /\ d # c => watching'.names[d] = watching.names[d],
         UNCHANGED <<api, peers, streams, rules, alive, missed>>
  PROVE  Queues'
<1> DEFINE q == watching.requests
           serial == watching.names[c].pending
<1>1. /\ q \in Seq(Requests) /\ inbox \in Seq(Messages) /\ Len(streams) \in Nat
      /\ inbox[1] = Head(inbox) /\ 1 \in DOMAIN inbox
  BY QueueTypes, TailIs
<1>2. Numbered(q, inbox, Len(streams))
  BY DEF Queues
<1>3. ~Asks(q, c, serial)
  BY <1>1, <1>2 DEF Numbered, Asks, Question
<1>4. InStep(watching, rules)'
  BY DEF Queues, InStep
<1>5. AllFollowed'
  <2>1. ASSUME NEW d \in Clients, watching'.names[d].refs > 0
        PROVE  Followed(q, d, watching'.names[d].pending)
    <3>1. Followed(q, d, watching.names[d].pending)
      BY <2>1 DEF Queues, AllFollowed
    <3>2. CASE d # c
      BY <3>1, <3>2
    <3>3. CASE d = c
      <4>1. \A i \in DOMAIN q : ~(q[i].name = c /\ q[i].type # "GetNameOwner")
        BY <1>3, <3>1, <3>3 DEF Followed, Asks
      <4>2. QED
        BY <3>3, <4>1 DEF Followed
    <3>4. QED
      BY <3>2, <3>3
  <2>2. QED
    BY <2>1 DEF AllFollowed
<1>6. Numbered(watching.requests, inbox, Len(streams))'
  BY <1>1, <1>2, NumberedHeard
<1>7. Tidings(inbox)'
  BY <1>1, TidingsLess DEF Queues
<1>8. Notices'
  <2>1. ASSUME NEW d \in Clients \ (alive \cup missed), api = "libdbus", peers[d] # NoPeer
        PROVE  \/ Tells(inbox', d, watching'.names[d].pending)
               \/ Asks(q, d, watching'.names[d].pending)
    <3>1. Tells(inbox, d, watching.names[d].pending) \/ Asks(q, d, watching.names[d].pending)
      BY <2>1 DEF Queues, Notices
    <3>2. CASE d # c
      <4>1. ~Telltale(Head(inbox), d, watching.names[d].pending)
        BY <3>2 DEF Telltale
      <4>2. ASSUME Tells(inbox, d, watching.names[d].pending)
            PROVE  Tells(inbox', d, watching.names[d].pending)
        BY <1>1, <4>1, <4>2, TellsLess
      <4>3. QED
        BY <3>1, <3>2, <4>2
    <3>3. CASE d = c
      <4>1. PICK i \in DOMAIN inbox : Telltale(inbox[i], c, serial)
        BY <1>3, <3>1, <3>3 DEF Tells
      <4>2. inbox[i].type # "NameOwner"
        BY <1>1, <1>2, <4>1 DEF Numbered, Telltale
      <4>3. \A s : Telltale(inbox[i], c, s)
        BY <4>1, <4>2 DEF Telltale
      <4>4. i # 1
        BY <1>1, <4>1 DEF Telltale
      <4>5. i \in 1..Len(inbox)
        BY <1>1, LengthIs
      <4>6. i - 1 \in DOMAIN Tail(inbox) /\ Tail(inbox)[i - 1] = inbox[i]
        BY <1>1, <4>4, <4>5, TailIs
      <4>7. QED
        BY <3>3, <4>3, <4>6 DEF Tells
    <3>4. QED
      BY <3>2, <3>3
  <2>2. QED
    BY <2>1 DEF Notices
<1>9. QED
  BY <1>4, <1>5, <1>6, <1>7, <1>8 DEF Queues

(* The daemon takes a request.                                               *)
LEMMA DaemonQueues ==
  ASSUME PInv, Queues, Daemon
  PROVE  Queues'
<1> DEFINE q == watching.requests
           r == Head(q)
           m == Message("NameOwner", r.name, r.serial, r.name \notin alive)
<1>1. /\ q \in Seq(Requests) /\ q # <<>> /\ inbox \in Seq(Messages) /\ Len(streams) \in Nat
      /\ rules \in [Clients -> Int] /\ watching \in Watching
      /\ UNCHANGED <<api, peers, streams, alive, missed>>
  BY QueueTypes DEF Daemon, Tables
<1>2. /\ r \in Requests /\ r.name \in Clients
      /\ r.type \in {"AddMatch", "GetNameOwner", "RemoveMatch"}
  <2>1. r \in Requests
    BY <1>1
  <2>2. QED
    BY <2>1 DEF Requests
<1>3. watching'.requests = Tail(q) /\ watching'.names = watching.names
  <2>1. watching' = [watching EXCEPT !.requests = Tail(q)]
    BY DEF Daemon
  <2>2. QED
    BY <1>1, <2>1 DEF Watching
<1>4. inbox' = IF r.type = "GetNameOwner" THEN Append(inbox, m) ELSE inbox
  BY DEF Daemon
<1>5. r.type = "GetNameOwner" => /\ m \in Messages /\ m.type = "NameOwner" /\ m.name = r.name
                                 /\ m.serial = r.serial /\ m.gone = (r.name \notin alive)
  BY <1>2 DEF Message, Messages, Requests
<1>6. \A d \in Clients : rules'[d] = CASE d = r.name /\ r.type = "AddMatch" -> rules[d] + 1
                                       [] d = r.name /\ r.type = "RemoveMatch" -> rules[d] - 1
                                       [] OTHER -> rules[d]
  <2>1. rules' = [rules EXCEPT ![r.name] = CASE r.type = "AddMatch" -> @ + 1
                                             [] r.type = "RemoveMatch" -> @ - 1
                                             [] OTHER -> @]
    BY DEF Daemon
  <2> HIDE DEF r
  <2>2. QED
    BY <1>1, <1>2, <2>1
<1> HIDE DEF r, m
<1>7. ASSUME NEW d \in Clients
      PROVE  rules'[d] + Count(watching'.requests, "AddMatch", d)
               - Count(watching'.requests, "RemoveMatch", d) = watching'.names[d].refs
  <2> DEFINE adds == Count(q, "AddMatch", d)
             removes == Count(q, "RemoveMatch", d)
  <2>1. rules[d] \in Int /\ adds \in Nat /\ removes \in Nat
    BY <1>1, PlacesFinite
  <2>2. rules[d] + adds - removes = watching.names[d].refs
    BY DEF Queues, InStep
  <2>3. /\ Count(Tail(q), "AddMatch", d) =
             adds - (IF r.type = "AddMatch" /\ r.name = d THEN 1 ELSE 0)
        /\ Count(Tail(q), "RemoveMatch", d) =
             removes - (IF r.type = "RemoveMatch" /\ r.name = d THEN 1 ELSE 0)
    BY <1>1, CountTaken DEF r
  <2> HIDE DEF adds, removes
  <2>4. CASE d = r.name /\ r.type = "AddMatch"
    <3>1. /\ Count(Tail(q), "AddMatch", d) = adds - 1 /\ Count(Tail(q), "RemoveMatch", d) = removes - 0
          /\ rules'[d] = rules[d] + 1
      BY <1>6, <2>3, <2>4
    <3>2. QED
      BY <1>3, <2>1, <2>2, <3>1
  <2>5. CASE d = r.name /\ r.type = "RemoveMatch"
    <3>1. /\ Count(Tail(q), "AddMatch", d) = adds - 0 /\ Count(Tail(q), "RemoveMatch", d) = removes - 1
          /\ rules'[d] = rules[d] - 1
      BY <1>6, <2>3, <2>5
    <3>2. QED
      BY <1>3, <2>1, <2>2, <3>1
  <2>6. CASE ~(d = r.name /\ r.type \in {"AddMatch", "RemoveMatch"})
    <3>1. /\ Count(Tail(q), "AddMatch", d) = adds - 0 /\ Count(Tail(q), "RemoveMatch", d) = removes - 0
          /\ rules'[d] = rules[d]
      BY <1>6, <2>3, <2>6
    <3>2. QED
      BY <1>3, <2>1, <2>2, <3>1
  <2>7. QED
    BY <2>4, <2>5, <2>6
<1>8. InStep(watching, rules)'
  BY <1>7 DEF InStep
<1>9. AllFollowed'
  <2>1. ASSUME NEW d \in Clients, watching.names[d].refs > 0
        PROVE  Followed(Tail(q), d, watching.names[d].pending)
    <3>1. Followed(q, d, watching.names[d].pending)
      BY <2>1 DEF Queues, AllFollowed
    <3>2. QED
      BY <1>1, <3>1, FollowedLess
  <2>2. QED
    BY <1>3, <2>1 DEF AllFollowed
<1>10. Numbered(watching.requests, inbox, Len(streams))'
  <2>1. Numbered(q, inbox, Len(streams))
    BY DEF Queues
  <2>2. CASE r.type = "GetNameOwner"
    <3>1. Numbered(Tail(q), Append(inbox, m), Len(streams))
      BY <1>1, <1>5, <2>1, <2>2, NumberedAnswered DEF r
    <3>2. QED
      BY <1>1, <1>3, <1>4, <2>2, <3>1
  <2>3. CASE r.type # "GetNameOwner"
    <3>1. Numbered(Tail(q), inbox, Len(streams))
      BY <1>1, <2>1, NumberedTaken
    <3>2. QED
      BY <1>1, <1>3, <1>4, <2>3, <3>1
  <2>4. QED
    BY <2>2, <2>3
<1>11. Tidings(inbox)'
  <2>1. Tidings(inbox)
    BY DEF Queues
  <2>2. CASE r.type = "GetNameOwner"
    BY <1>1, <1>4, <1>5, <2>1, <2>2, TidingsMore
  <2>3. CASE r.type # "GetNameOwner"
    BY <1>4, <2>1, <2>3
  <2>4. QED
    BY <2>2, <2>3
<1>12. Notices'
  <2>1. ASSUME NEW d \in Clients \ (alive \cup missed), api = "libdbus", peers[d] # NoPeer
        PROVE  \/ Tells(inbox', d, watching.names[d].pending)
               \/ Asks(Tail(q), d, watching.names[d].pending)
    <3> DEFINE serial == watching.names[d].pending
    <3>1. Tells(inbox, d, serial) \/ Asks(q, d, serial)
      BY <2>1 DEF Queues, Notices
    <3>2. ASSUME Tells(inbox, d, serial) PROVE Tells(inbox', d, serial)
      <4> HIDE DEF serial
      <4>1. CASE r.type = "GetNameOwner"
        BY <1>1, <1>4, <1>5, <3>2, <4>1, TellsMore
      <4>2. CASE r.type # "GetNameOwner"
        BY <1>4, <3>2, <4>2
      <4>3. QED
        BY <4>1, <4>2
    <3>3. ASSUME Asks(q, d, serial), ~Question(r, d, serial) PROVE Asks(Tail(q), d, serial)
      <4> HIDE DEF serial
      <4>1. QED
        BY <1>1, <3>3, AsksLess DEF r
    <3>4. ASSUME Question(r, d, serial) PROVE Tells(inbox', d, serial)
      <4> HIDE DEF serial
      <4>1. r.type = "GetNameOwner" /\ r.name = d /\ r.serial = serial
        BY <3>4 DEF Question
      <4>2. Telltale(m, d, serial)
        BY <1>5, <2>1, <4>1 DEF Telltale
      <4>3. QED
        BY <1>1, <1>4, <1>5, <4>1, <4>2, TellsMore
    <3>5. QED
      BY <3>1, <3>2, <3>3, <3>4
  <2>2. QED
    BY <1>1, <1>3, <2>1 DEF Notices
<1>13. QED
  BY <1>8, <1>9, <1>10, <1>11, <1>12 DEF Queues

(* A client leaves. If the daemon has no rule for it that rule is on its way *)
(* to the daemon, and the question comes after it.                           *)
LEMMA LeaveQueues ==
  ASSUME PInv, Queues, NEW c \in Clients, Leave(c)
  PROVE  Queues'
<1> DEFINE q == watching.requests
           m == Message("NameOwnerChanged", c, 0, TRUE)
<1>1. /\ q \in Seq(Requests) /\ inbox \in Seq(Messages) /\ Len(streams) \in Nat
      /\ rules \in [Clients -> Int]
      /\ \A d \in Clients :
           /\ watching.names[d].refs = IF api = "libdbus" /\ peers[d] # NoPeer THEN 1 ELSE 0
           /\ Count(q, "AddMatch", d) \in Nat /\ Count(q, "RemoveMatch", d) \in Nat
  BY QueueTypes
<1>2. m \in Messages /\ m.type = "NameOwnerChanged" /\ m.name = c /\ m.gone
  BY DEF Message, Messages
<1>3. /\ UNCHANGED <<api, peers, watching, rules, missed>> /\ alive' = alive \ {c}
      /\ inbox' = IF rules[c] > 0 THEN Append(inbox, m) ELSE inbox
  BY DEF Leave
<1>4. Len(streams') = Len(streams)
  <2>1. streams' = [s \in 1..Len(streams) |->
                      [streams[s] EXCEPT !.away = @ /\ streams[s].name # c]]
    <3>1. DOMAIN streams = 1..Len(streams)
      BY LengthIs DEF PInv, PeersTypeOK
    <3>2. QED
      BY <3>1 DEF Leave
  <2>2. QED
    BY <1>1, <2>1
<1> HIDE DEF m
<1>5. InStep(watching, rules)' /\ AllFollowed'
  BY <1>3 DEF Queues, InStep, AllFollowed
<1>6. Numbered(watching.requests, inbox, Len(streams))'
  <2>1. Numbered(q, Append(inbox, m), Len(streams)) /\ Numbered(q, inbox, Len(streams))
    BY <1>1, <1>2, NumberedTold DEF Queues
  <2>2. QED
    BY <1>3, <1>4, <2>1
<1>7. Tidings(inbox)'
  <2>1. Tidings(Append(inbox, m)) /\ Tidings(inbox)
    BY <1>1, <1>2, TidingsMore DEF Queues
  <2>2. QED
    BY <1>3, <2>1
<1>8. ASSUME NEW d \in Clients \ (alive' \cup missed), api = "libdbus", peers[d] # NoPeer
      PROVE  \/ Tells(inbox', d, watching.names[d].pending)
             \/ Asks(q, d, watching.names[d].pending)
  <2> DEFINE serial == watching.names[d].pending
  <2>1. CASE d # c
    <3>1. Tells(inbox, d, serial) \/ Asks(q, d, serial)
      BY <1>3, <1>8, <2>1 DEF Queues, Notices
    <3>2. ASSUME Tells(inbox, d, serial) PROVE Tells(inbox', d, serial)
      <4> HIDE DEF serial
      <4>1. Tells(Append(inbox, m), d, serial)
        BY <1>1, <1>2, <3>2, TellsMore
      <4>2. QED
        BY <1>3, <3>2, <4>1
    <3>3. QED
      BY <3>1, <3>2
  <2>2. CASE d = c /\ rules[c] > 0
    <3>1. Telltale(m, d, serial)
      BY <1>2, <2>2 DEF Telltale
    <3> HIDE DEF serial
    <3>2. Tells(Append(inbox, m), d, serial)
      BY <1>1, <1>2, <3>1, TellsMore
    <3>3. QED
      BY <1>3, <2>2, <3>2 DEF serial
  <2>3. CASE d = c /\ ~(rules[c] > 0)
    <3>1. watching.names[c].refs = 1
      BY <1>1, <1>8, <2>3
    <3>2. Count(q, "AddMatch", c) # 0
      <4>1. rules[c] + Count(q, "AddMatch", c) - Count(q, "RemoveMatch", c) = 1
        BY <3>1 DEF Queues, InStep
      <4>2. rules[c] \in Int /\ Count(q, "AddMatch", c) \in Nat /\ Count(q, "RemoveMatch", c) \in Nat
        BY <1>1
      <4> HIDE DEF q
      <4>3. QED
        BY <2>3, <4>1, <4>2
    <3>3. Places(q, "AddMatch", c) # {}
      BY <3>2, FS_EmptySet DEF Count
    <3>4. PICK i \in DOMAIN q : q[i].type = "AddMatch" /\ q[i].name = c
      BY <3>3 DEF Places
    <3>5. Followed(q, c, watching.names[c].pending)
      BY <3>1 DEF Queues, AllFollowed
    <3>6. \E j \in DOMAIN q : Question(q[j], c, watching.names[c].pending)
      BY <3>4, <3>5 DEF Followed
    <3>7. QED
      BY <2>3, <3>6 DEF Asks
  <2>4. QED
    BY <2>1, <2>2, <2>3
<1>9. Notices'
  BY <1>3, <1>8 DEF Notices
<1>10. QED
  BY <1>5, <1>6, <1>7, <1>9 DEF Queues

LEMMA LengthOf ==
  ASSUME NEW n \in Nat, NEW f, f = [i \in 1..n |-> f[i]]
  PROVE  Len(f) = n
  OBVIOUS

(* The server goes, and lets every name go that it watches.                  *)
LEMMA DisposeQueues ==
  ASSUME PInv, Queues, Dispose
  PROVE  Queues'
<1> DEFINE q == watching.requests
<1>1. /\ q \in Seq(Requests) /\ inbox \in Seq(Messages) /\ Len(streams) \in Nat
      /\ rules \in [Clients -> Int] /\ watching \in Watching
      /\ \A c \in Clients :
           watching.names[c].refs = IF api = "libdbus" /\ peers[c] # NoPeer THEN 1 ELSE 0
      /\ UNCHANGED <<api, inbox, rules, alive, missed>>
  BY QueueTypes DEF Dispose, Tables
<1>2. PICK m \in Nat : \E asked \in [1..m -> Requests] :
        /\ EachOnce(asked, m, NamesHeld)
        /\ watching' = [watching EXCEPT !.ids = [id \in Ids |-> Nobody],
                                         !.names = [c \in Clients |-> NoWatch],
                                         !.requests = watching.requests \o asked]
  BY FarewellIs
<1>3. PICK asked \in [1..m -> Requests] :
        /\ EachOnce(asked, m, NamesHeld)
        /\ watching' = [watching EXCEPT !.ids = [id \in Ids |-> Nobody],
                                         !.names = [c \in Clients |-> NoWatch],
                                         !.requests = watching.requests \o asked]
  BY <1>2
<1>4. /\ watching'.requests = q \o asked
      /\ \A c \in Clients : watching'.names[c].refs = 0
  <2>1. watching'.requests = watching.requests \o asked
    BY <1>1, <1>3 DEF Watching
  <2>2. \A c \in Clients : watching'.names[c] = NoWatch
    BY <1>1, <1>3 DEF Watching
  <2>3. QED
    BY <2>1, <2>2 DEF NoWatch
<1>5. \A c \in Clients : peers'[c] = NoPeer
  BY DEF Dispose
<1>6. Len(streams') = Len(streams)
  <2>1. DOMAIN streams = 1..Len(streams)
    BY LengthIs DEF PInv, PeersTypeOK
  <2>2. streams' = [s \in 1..Len(streams) |->
                      [streams[s] EXCEPT !.state = "ended", !.kept = FALSE]]
    BY <2>1 DEF Dispose
  <2>3. Len(streams) \in Nat
    BY <1>1
  <2>4. streams' = [s \in 1..Len(streams) |-> streams'[s]]
    BY <2>2
  <2>5. QED
    BY <2>3, <2>4, LengthOf
<1>7. ASSUME NEW c \in Clients
      PROVE  rules[c] + Count(watching'.requests, "AddMatch", c)
               - Count(watching'.requests, "RemoveMatch", c) = watching'.names[c].refs
  <2> DEFINE adds == Count(q, "AddMatch", c)
             removes == Count(q, "RemoveMatch", c)
  <2>1. rules[c] \in Int /\ adds \in Nat /\ removes \in Nat
    BY <1>1, PlacesFinite
  <2>2. rules[c] + adds - removes = watching.names[c].refs
    BY DEF Queues, InStep
  <2>3. \A type : Count(q \o asked, type, c) =
          Count(q, type, c) + (IF type = "RemoveMatch" /\ c \in NamesHeld THEN 1 ELSE 0)
    BY <1>1, <1>3, CountFarewell
  <2>4. /\ Count(watching'.requests, "AddMatch", c) = adds + 0
        /\ Count(watching'.requests, "RemoveMatch", c) =
             removes + (IF c \in NamesHeld THEN 1 ELSE 0)
    BY <1>4, <2>3
  <2>5. watching.names[c].refs = IF c \in NamesHeld THEN 1 ELSE 0
    <3>1. watching.names[c].refs \in {0, 1}
      BY <1>1
    <3>2. QED
      BY <3>1 DEF NamesHeld
  <2> HIDE DEF adds, removes
  <2>6. CASE c \in NamesHeld
    BY <1>4, <2>1, <2>2, <2>4, <2>5, <2>6
  <2>7. CASE c \notin NamesHeld
    BY <1>4, <2>1, <2>2, <2>4, <2>5, <2>7
  <2>8. QED
    BY <2>6, <2>7
<1>8. InStep(watching, rules)'
  BY <1>1, <1>7 DEF InStep
<1>9. AllFollowed'
  BY <1>4 DEF AllFollowed
<1>10. Numbered(watching.requests, inbox, Len(streams))'
  <2>1. \A i \in 1..m : asked[i].type # "GetNameOwner"
    BY <1>3 DEF EachOnce
  <2>2. Numbered(q \o asked, inbox, Len(streams))
    BY <1>1, <2>1, NumberedFarewell DEF Queues
  <2>3. QED
    BY <1>1, <1>4, <1>6, <2>2
<1>11. Tidings(inbox)' /\ Notices'
  BY <1>1, <1>5 DEF Queues, Notices
<1>12. QED
  BY <1>8, <1>9, <1>10, <1>11 DEF Queues

(* A peer is removed when something has been noted of its watch, or nothing. *)
LEMMA PeerGone ==
  ASSUME PInv, NEW c \in Clients, NEW w, RemovePeer(w, c), Noted(w, c),
         w.requests = watching.requests,
         \A d \in Clients : d # c => w.names[d] = watching.names[d]
  PROVE  /\ Removed(watching', c) /\ peers' = [peers EXCEPT ![c] = NoPeer]
         /\ Len(streams') = Len(streams)
<1>1. Tables /\ api \in {"gio", "libdbus"}
  BY QueueTypes
<1>2. /\ watching' = PeerDestroyed(w, c) /\ streams' = StreamsWithout(c)
      /\ peers' = [peers EXCEPT ![c] = NoPeer]
  BY DEF RemovePeer
<1>3. Removed(watching', c)
  BY <1>1, <1>2, RemovedIs
<1>4. Len(streams') = Len(streams)
  BY <1>1, <1>2, StreamsWithoutIs
<1>5. QED
  BY <1>2, <1>3, <1>4

LEMMA HandleQueues ==
  ASSUME PInv, Queues, Handle
  PROVE  Queues'
<1> DEFINE c == Head(inbox).name
           watch == watching.names[c]
<1>1. /\ Tables /\ api \in {"gio", "libdbus"} /\ inbox \in Seq(Messages)
      /\ inbox # <<>> /\ inbox' = Tail(inbox) /\ UNCHANGED <<api, rules, alive>>
      /\ missed \subseteq missed'
  BY QueueTypes
  DEF Handle, HandleOpen, HandleClose, HandleNameOwnerChanged, HandleNameOwner, Receive
<1>2. /\ Head(inbox) \in Messages /\ c \in Clients
      /\ watching \in Watching /\ watch \in Watch /\ watching.requests \in Seq(Requests)
      /\ ~watch.vanished /\ (watch.pending # 0 => watch.refs > 0)
      /\ watch.refs = IF api = "libdbus" /\ peers[c] # NoPeer THEN 1 ELSE 0
  <2>1. Head(inbox) \in Messages /\ c \in Clients
    BY <1>1, Received
  <2>2. watching \in Watching
    BY <1>1 DEF Tables
  <2>3. watching.requests \in Seq(Requests) /\ watching.names \in [Clients -> Watch]
    BY <2>2 DEF Watching
  <2>4. watch \in Watch
    BY <2>1, <2>3
  <2>5. ~watch.vanished /\ (watch.pending # 0 => watch.refs > 0)
    BY <1>1, <2>1 DEF Tables, VanishedIsForgotten, Asking
  <2>6. watch.refs = IF api = "libdbus" /\ peers[c] # NoPeer THEN 1 ELSE 0
    BY <2>1, QueueTypes
  <2>7. QED
    BY <2>1, <2>2, <2>3, <2>4, <2>5, <2>6
<1>3. ASSUME UNCHANGED <<peers, streams, watching>>,
             ~Head(inbox).gone \/ c \in missed' \/ api = "gio" \/ peers[c] = NoPeer
               \/ (Head(inbox).type = "NameOwner" /\ Head(inbox).serial # watch.pending)
      PROVE  Queues'
  <2>1. \A d \in Clients \ (alive \cup missed') : api = "libdbus" /\ peers[d] # NoPeer =>
          ~Telltale(Head(inbox), d, watching.names[d].pending)
    <3> SUFFICES ASSUME NEW d \in Clients \ (alive \cup missed'), api = "libdbus",
                        peers[d] # NoPeer, Telltale(Head(inbox), d, watching.names[d].pending)
                 PROVE  FALSE
      OBVIOUS
    <3>1. d = c
      BY DEF Telltale
    <3>2. QED
      BY <1>3, <3>1 DEF Telltale
  <2> HIDE DEF c
  <2>2. QED
    BY <1>1, <1>3, <2>1, NothingHeard
<1>4. ASSUME NEW w, RemovePeer(w, c), Noted(w, c), w.requests = watching.requests,
             \A d \in Clients : d # c => w.names[d] = watching.names[d]
      PROVE  Queues'
  <2>1. /\ Removed(watching', c) /\ peers' = [peers EXCEPT ![c] = NoPeer]
        /\ Len(streams') = Len(streams)
    <3> HIDE DEF c
    <3>1. QED
      BY <1>2, <1>4, PeerGone
  <2>2. Head(inbox).name = c
    OBVIOUS
  <2> HIDE DEF c
  <2>3. QED
    BY <1>1, <1>2, <2>1, <2>2, RemovedQueues
<1>5. CASE HandleOpen
  <2>1. CASE Opened(c)
    BY <1>5, <2>1, OpenedQueues
  <2>2. CASE UNCHANGED <<peers, streams, watching>>
    <3>1. Head(inbox).type = "LogOpen"
      BY <1>5 DEF HandleOpen, Receive
    <3>2. ~Head(inbox).gone
      BY <1>1, <3>1, TidingsLess DEF Queues
    <3>3. QED
      BY <1>3, <2>2, <3>2
  <2>3. QED
    BY <1>5, <2>1, <2>2 DEF HandleOpen
<1>6. CASE HandleClose
  <2>1. CASE RemovePeer(watching, c)
    <3>1. Noted(watching, c)
      BY <1>1, <1>2, Unnoted
    <3>2. QED
      BY <1>4, <2>1, <3>1
  <2>2. CASE UNCHANGED <<peers, streams, watching>>
    <3>1. Head(inbox).type = "LogClose"
      BY <1>6 DEF HandleClose, Receive
    <3>2. ~Head(inbox).gone
      BY <1>1, <3>1, TidingsLess DEF Queues
    <3>3. QED
      BY <1>3, <2>2, <3>2
  <2>3. QED
    BY <1>6, <2>1, <2>2 DEF HandleClose
<1>7. CASE HandleNameOwnerChanged
  <2>1. CASE Vanished(c) /\ watch.refs > 0
    <3> DEFINE w == [watching EXCEPT !.names[c].vanished = TRUE]
               noted == [watch EXCEPT !.vanished = TRUE]
    <3>1. w = Changed(watching, c, noted, watching.requests)
      BY <1>2 DEF Changed, Watching
    <3>2. noted \in Watch /\ noted.refs = watch.refs
      BY <1>2 DEF Watch
    <3>3. RemovePeer(w, c)
      BY <2>1 DEF Vanished
    <3> HIDE DEF w, noted
    <3>4. /\ Noted(w, c) /\ w.requests = watching.requests
          /\ \A d \in Clients : d # c => w.names[d] = watching.names[d]
      <4> HIDE DEF c
      <4>1. QED
        BY <1>1, <1>2, <2>1, <3>1, <3>2, NotedIs
    <3>5. QED
      BY <1>4, <3>3, <3>4
  <2>2. CASE ~(server.listening /\ watch.refs > 0)
    <3>1. UNCHANGED <<peers, streams, watching>>
      BY <1>7, <2>2 DEF HandleNameOwnerChanged
    <3>2. missed' = IF server.listening THEN missed ELSE missed \cup {c}
      BY <1>7 DEF HandleNameOwnerChanged
    <3>3. CASE server.listening
      <4>1. api = "gio" \/ peers[c] = NoPeer
        BY <1>1, <1>2, <2>2, <3>3
      <4>2. QED
        BY <1>3, <3>1, <4>1
    <3>4. CASE ~server.listening
      BY <1>3, <3>1, <3>2, <3>4
    <3>5. QED
      BY <3>3, <3>4
  <2>3. QED
    BY <1>2, <1>7, <2>1, <2>2 DEF HandleNameOwnerChanged
<1>8. CASE HandleNameOwner
  <2> DEFINE answered == [watching EXCEPT !.names[c].pending = 0]
             w == [answered EXCEPT !.names[c].vanished = TRUE]
  <2>1. Head(inbox).type = "NameOwner" /\ UNCHANGED missed
    BY <1>8 DEF HandleNameOwner, Receive
  <2>2. CASE watch.pending # Head(inbox).serial
    <3>1. UNCHANGED <<peers, streams, watching>>
      BY <1>8, <2>2 DEF HandleNameOwner
    <3>2. QED
      BY <1>3, <2>1, <2>2, <3>1
  <2>3. CASE watch.pending = Head(inbox).serial /\ Head(inbox).gone
    <3> DEFINE noted == [refs |-> watch.refs, pending |-> 0, vanished |-> TRUE]
    <3>1. RemovePeer(w, c)
      BY <1>2, <1>8, <2>3 DEF HandleNameOwner
    <3>2. watch.refs > 0
      BY <1>2, <2>1, <2>3 DEF Messages
    <3>3. w = Changed(watching, c, noted, watching.requests)
      BY <1>2, GoneNoted
    <3>4. noted \in Watch /\ noted.refs = watch.refs
      BY <1>2 DEF Watch
    <3> HIDE DEF w, noted, answered
    <3>5. /\ Noted(w, c) /\ w.requests = watching.requests
          /\ \A d \in Clients : d # c => w.names[d] = watching.names[d]
      <4> HIDE DEF c
      <4>1. QED
        BY <1>1, <1>2, <3>2, <3>3, <3>4, NotedIs
    <3>6. QED
      BY <1>4, <3>1, <3>5
  <2>4. CASE watch.pending = Head(inbox).serial /\ ~Head(inbox).gone
    <3> DEFINE noted == [watch EXCEPT !.pending = 0]
    <3>1. watching' = answered /\ UNCHANGED <<peers, streams>>
      BY <1>2, <1>8, <2>4 DEF HandleNameOwner
    <3>2. answered = Changed(watching, c, noted, watching.requests)
      BY <1>2 DEF Changed, Watching
    <3>3. noted \in Watch /\ noted.refs = watch.refs
      BY <1>2 DEF Watch
    <3> HIDE DEF answered, noted
    <3>4. /\ watching'.requests = watching.requests
          /\ \A d \in Clients : watching'.names[d] = IF d = c THEN noted ELSE watching.names[d]
      <4> HIDE DEF c
      <4>1. QED
        BY <1>2, <3>1, <3>2, <3>3, NamesChanged
    <3>5. \A d \in Clients : /\ watching'.names[d].refs = watching.names[d].refs
                             /\ d # c => watching'.names[d] = watching.names[d]
      BY <3>3, <3>4
    <3>6. Head(inbox).name = c /\ Head(inbox).serial = watching.names[c].pending
      BY <2>4
    <3> HIDE DEF c
    <3>7. QED
      BY <1>1, <1>2, <2>1, <2>4, <3>1, <3>4, <3>5, <3>6, AnsweredQueues
  <2>5. QED
    BY <2>2, <2>3, <2>4
<1>9. QED
  BY <1>5, <1>6, <1>7, <1>8 DEF Handle

LEMMA InitQueues == Init => Queues
<1> SUFFICES ASSUME Init PROVE Queues
  OBVIOUS
<1>1. /\ watching.requests = <<>> /\ inbox = <<>> /\ streams = <<>>
      /\ \A c \in Clients : rules[c] = 0 /\ watching.names[c] = NoWatch /\ peers[c] = NoPeer
  BY DEF Init
<1>2. InStep(watching, rules)
  <2>1. \A type, c : Count(<<>>, type, c) = 0
    <3>1. \A type, c : Places(<<>>, type, c) = {}
      BY DEF Places
    <3>2. QED
      BY <3>1, FS_EmptySet DEF Count
  <2>2. QED
    BY <1>1, <2>1 DEF InStep, NoWatch
<1>3. AllFollowed /\ Notices
  BY <1>1 DEF AllFollowed, Notices, NoWatch
<1>4. Numbered(watching.requests, inbox, Len(streams)) /\ Tidings(inbox)
  BY <1>1 DEF Numbered, Tidings
<1>5. QED
  BY <1>2, <1>3, <1>4 DEF Queues

LEMMA NextQueues == PInv /\ Queues /\ [Next]_vars => Queues'
<1> SUFFICES ASSUME PInv, Queues, [Next]_vars PROVE Queues'
  OBVIOUS
<1>1. /\ streams \in Seq(Streams) /\ Len(streams) \in Nat /\ DOMAIN streams = 1..Len(streams)
      /\ Tables
  BY QueueTypes, LengthIs DEF PInv, PeersTypeOK
<1>2. ASSUME UNCHANGED <<watching, peers, api, rules, alive, missed, inbox>>,
             Len(streams') = Len(streams)
      PROVE  Queues'
  <2>1. InStep(watching, rules)' /\ AllFollowed' /\ Notices'
    BY <1>2 DEF Queues, InStep, AllFollowed, Notices
  <2>2. QED
    BY <1>2, <2>1 DEF Queues
<1>3. CASE Handle
  BY <1>3, HandleQueues
<1>4. CASE Daemon
  BY <1>4, DaemonQueues
<1>5. CASE Start \/ Stop \/ BusAcquired \/ NameLost \/ UNCHANGED vars
  <2>1. UNCHANGED <<watching, peers, api, rules, alive, missed, inbox, streams>>
    BY <1>5 DEF Start, Stop, BusAcquired, NameLost, vars
  <2>2. QED
    BY <1>2, <2>1
<1>6. CASE Dispose
  BY <1>6, DisposeQueues
<1>7. ASSUME NEW id \in Ids, GioPeerVanished(id) PROVE Queues'
  <2> DEFINE c == watching.ids[id]
  <2>1. /\ c \in Clients /\ RemovePeer(watching, c)
        /\ UNCHANGED <<api, rules, alive, missed, inbox>>
    BY <1>7 DEF GioPeerVanished
  <2> HIDE DEF c
  <2>2. Noted(watching, c)
    BY <1>1, <2>1, Unnoted
  <2>3. /\ Removed(watching', c) /\ peers' = [peers EXCEPT ![c] = NoPeer]
        /\ Len(streams') = Len(streams)
    BY <2>1, <2>2, PeerGone
  <2>4. QED
    BY <2>1, <2>3, RemovedQueues
<1>8. ASSUME NEW s \in DOMAIN streams, Fill(s) \/ Drain(s) \/ Shutdown(s) \/ LetGo(s)
      PROVE  Queues'
  <2>1. /\ \E to : streams' = [streams EXCEPT ![s] = to]
        /\ UNCHANGED <<watching, peers, api, rules, alive, missed, inbox>>
    BY <1>8 DEF Fill, Drain, Shutdown, LetGo, ChangeStream
  <2>2. DOMAIN streams' = 1..Len(streams)
    BY <1>1, <2>1
  <2>3. streams' = [i \in 1..Len(streams) |-> streams'[i]]
    BY <1>1, <2>1
  <2>4. Len(streams') = Len(streams)
    BY <1>1, <2>3, LengthOf
  <2>5. QED
    BY <1>2, <2>1, <2>4
<1>9. ASSUME NEW c \in Clients, Leave(c) PROVE Queues'
  BY <1>9, LeaveQueues
<1>10. ASSUME NEW c \in Clients, NEW type \in {"LogOpen", "LogClose"}, Call(c, type)
       PROVE  Queues'
  <2> DEFINE m == Message(type, c, 0, FALSE)
  <2>1. m \in Messages /\ ~m.gone /\ m.type # "NameOwner"
    BY DEF Message, Messages
  <2>2. /\ inbox' = Append(inbox, m)
        /\ UNCHANGED <<watching, peers, api, rules, alive, missed, streams>>
    BY <1>10 DEF Call
  <2> HIDE DEF m
  <2>3. QED
    BY <2>1, <2>2, NothingSaid
<1>11. QED
  BY <1>3, <1>4, <1>5, <1>6, <1>7, <1>8, <1>9, <1>10 DEF Next

-----------------------------------------------------------------------------
(* What the daemon is told, and what it tells                                *)

LEMMA QueuesInvariance == Spec => [](PInv /\ Queues)
<1>1. PInv /\ Queues /\ [Next]_vars => (PInv /\ Queues)'
  BY NextPInv, NextQueues
<1>2. QED
  BY InitPInv, InitQueues, <1>1, PTL DEF Spec

(* However watches come and go, the match rules which the daemon has and     *)
(* those it is still asked to add, less those it is asked to remove, are the *)
(* names which are watched (dbus_log_server_dbus_watch_name and _unref, and  *)
(* the end of the server): no rule is left behind, none is missing.          *)
THEOREM MatchRules == Spec => []RulesInStep
<1>1. Queues => RulesInStep
  BY InStepIs DEF Queues
<1>2. QED
  BY <1>1, QueuesInvariance, PTL

(* A client may leave before its rule is there, after the question has been  *)
(* answered, or in between: NameOwnerChanged or the answer is on its way for *)
(* as long as the server has a peer for it, unless the server was stopped    *)
(* when the signal arrived (dbus_log_server_dbus_get_name_owner_reply and    *)
(* dbus_log_server_dbus_handle_name_owner_changed).                          *)
THEOREM AbsenceNoticed == Spec => []AbsenceIsNoticed
<1>1. Queues => AbsenceIsNoticed
  BY NoticesIs DEF Queues
<1>2. QED
  BY <1>1, QueuesInvariance, PTL
=============================================================================
