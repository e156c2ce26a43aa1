-------------------------- MODULE LogStreamProofs --------------------------
(***************************************************************************)
(* A sender which only the main thread uses and a receiver keep the        *)
(* promise of LogDelivery, whatever the sizes of the pipe, the packets and *)
(* the queue, and wherever the reads and the writes are cut.               *)
(*                                                                         *)
(* The argument follows the units.  What the receiver has read and what is *)
(* in the pipe is a row of packets, whole ones but for the one which is    *)
(* being written; the messages whose end is there are those on the wire    *)
(* which were not taken; so the first one is the oldest one, and           *)
(* nothing is left when Bye is the first one.                              *)
(***************************************************************************)
EXTENDS LogStream, LogSenderProofs

(* What the receiver has read of a packet, and what is in the pipe.          *)
Row == partial \o pipe

Proper(p) ==
  \/ p \in {PingPacket, ByePacket}
  \/ p.msg \in Message /\ p = MessagePacket(p.msg)

(* How much of an unfinished packet has been written.                        *)
Begun == IF AllWritten THEN 0 ELSE written

Ends(i) == Row[i].offset = Row[i].packet.size - 1

(* Every unit of the row is in a packet of units which begins in the row,    *)
(* and goes on to its end, or to the end of the row.                         *)
Framed ==
  /\ \A i \in 1..Len(Row) :
       /\ Proper(Row[i].packet)
       /\ Row[i].offset \in Nat /\ Row[i].offset < Row[i].packet.size
       /\ Row[i].offset < i
       /\ \A j \in 1..Len(Row) :
            /\ i - Row[i].offset <= j
            /\ j < i - Row[i].offset + Row[i].packet.size
            => /\ Row[j].packet = Row[i].packet
               /\ Row[j].offset = j - i + Row[i].offset

(* The row ends with what has been written of the current packet; there are  *)
(* whole packets before it.                                                  *)
Growing ==
  /\ Begun <= Len(Row)
  /\ \A i \in Len(Row) - Begun + 1..Len(Row) :
       Row[i] = [packet |-> packet, offset |-> i - (Len(Row) - Begun) - 1]
  /\ Begun < Len(Row) => Ends(Len(Row) - Begun)

(* Where messages end, and what messages those are.                          *)
Complete == {i \in 1..Len(Row) : Row[i].packet.type = "MESSAGE" /\ Ends(i)}
IndexAt(i) == Row[i].packet.msg.index

(* Messages are in order, and nothing follows Bye.                           *)
Ordered ==
  /\ \A i \in Complete, j \in 1..Len(Row) :
       i < j /\ Row[j].packet.type = "MESSAGE" => IndexAt(i) < IndexAt(j)
  /\ \A i \in 1..Len(Row) : Row[i].packet.type = "BYE" =>
       /\ \A j \in i..Len(Row) : Row[j].packet.type = "BYE"
       /\ packet.type = "BYE" \/ ~io
       /\ Ends(i) => \E k \in 1..Len(wire) : wire[k].type = "BYE"

(* The messages in the row are those on the wire the client has not got.     *)
Matched ==
  /\ \A k \in Len(Taken) + 1..MessagesOnWire :
       \E i \in Complete : IndexAt(i) = wire[k].msg.index
  /\ \A i \in Complete : \E k \in Len(Taken) + 1..MessagesOnWire :
       IndexAt(i) = wire[k].msg.index

Tidy == Framed /\ Growing /\ Ordered /\ Matched

(* Only messages and Bye are counted on the wire.                            *)
WireShape == \A k \in 1..Len(wire) : wire[k].type \in {"MESSAGE", "BYE"}

(* What the client has got, and what it remembers of it.                     *)
Received ==
  /\ Len(Taken) <= MessagesOnWire
  /\ \A k \in 1..Len(Taken) : Taken[k] = wire[k].msg.index
  /\ message_received <=> Taken # <<>>
  /\ message_received =>
       last_message_index = (Taken[Len(Taken)] + StartIndex - 1) % Modulus

(* The receiver has a watch when it may read, holds the pipe open while it   *)
(* is open, never keeps a complete packet, and has got everything when it    *)
(* has got Bye.                                                              *)
Reading ==
  /\ read_watch <=> opened /\ paused = 0
  /\ opened => "client" \in readers /\ ~farewell
  /\ Len(partial) < R!Wanted(partial)
  /\ farewell => /\ Len(Taken) = MessagesOnWire /\ reporting = <<>>
                 /\ \E k \in 1..Len(wire) : wire[k].type = "BYE"

(* The inductive invariant                                                   *)
SenderInv == AloneInv /\ Limited /\ PingsWhole /\ accepted <= MaxMessages
Linked    == WireShape /\ Received /\ Tidy
StreamInv == SenderInv /\ R!TypeOK /\ Reading /\ (opened => Linked)

-----------------------------------------------------------------------------
(* Sequences and packets                                                     *)

LEMMA Moved ==
  ASSUME NEW l \in Nat, NEW s \in Nat, NEW b \in Nat, NEW i \in Int
  PROVE  /\ (i + s) - (l - b) - 1 = i - ((l - s) - b) - 1
         /\ ((l - s) - b) + s = l - b
         /\ b < l - s => (l - s) - b \in 1..l - s /\ b < l
         /\ l - b >= s /\ i \in (l - s) - b + 1..l - s =>
              i \in 1..l - s /\ i + s \in l - b + 1..l
OBVIOUS

LEMMA JoinIs ==
  ASSUME NEW S, NEW s \in Seq(S), NEW t \in Seq(S)
  PROVE  /\ s \o t \in Seq(S) /\ Len(s \o t) = Len(s) + Len(t)
         /\ Len(s) \in Nat /\ Len(t) \in Nat
         /\ \A i \in 1..Len(s) : (s \o t)[i] = s[i]
         /\ \A i \in Len(s) + 1..Len(s) + Len(t) : (s \o t)[i] = t[i - Len(s)]
OBVIOUS

LEMMA SameSequence ==
  ASSUME NEW S, NEW s \in Seq(S), NEW t \in Seq(S), Len(s) = Len(t),
         \A i \in 1..Len(s) : s[i] = t[i]
  PROVE  s = t
OBVIOUS

LEMMA ReceiverTyped ==
  ASSUME R!TypeOK
  PROVE  /\ partial \in Seq(Unit) /\ Taken \in Seq(Nat) /\ skipped \in Nat
         /\ opened \in BOOLEAN /\ paused \in Nat /\ read_watch \in BOOLEAN
         /\ last_message_index \in 0..Modulus - 1
         /\ message_received \in BOOLEAN /\ farewell \in BOOLEAN
         /\ reporting \in Seq(Nat)
<1>1. delivered \in Seq(Nat) /\ reporting \in Seq(Nat)
  BY DEF R!TypeOK
<1>2. Taken \in Seq(Nat)
  BY <1>1 DEF Taken
<1>3. QED
  BY <1>1, <1>2
     DEF R!TypeOK, R!Unit, Unit, R!Packet, Packet, R!PacketType, PacketType, R!Message, Message

(* What is taken changes only when a message is read.                        *)
LEMMA SameTaken == ASSUME UNCHANGED <<delivered, reporting>> PROVE Taken' = Taken
BY DEF Taken

LEMMA MessageIsTaken ==
  ASSUME R!TypeOK, reporting = <<>>, NEW m \in Nat, delivered' = delivered,
         reporting' = <<m>>
  PROVE  Taken' = Append(Taken, m)
<1>1. delivered \in Seq(Nat)
  BY DEF R!TypeOK
<1>2. \A d \in Seq(Nat) : d \o <<m>> = Append(d \o <<>>, m)
  OBVIOUS
<1>3. QED
  BY <1>1, <1>2 DEF Taken

LEMMA TakenIsReported ==
  ASSUME R!TypeOK, delivered' = delivered \o reporting, reporting' = <<>>
  PROVE  Taken' = Taken
<1>1. delivered \in Seq(Nat) /\ reporting \in Seq(Nat)
  BY DEF R!TypeOK
<1>2. \A d, r \in Seq(Nat) : (d \o r) \o <<>> = d \o r
  OBVIOUS
<1>3. QED
  BY <1>1, <1>2 DEF Taken

LEMMA RowTyped ==
  ASSUME pipe \in Seq(Unit), partial \in Seq(Unit)
  PROVE  /\ Row \in Seq(Unit) /\ Len(Row) = Len(partial) + Len(pipe)
         /\ Len(Row) \in Nat /\ Len(pipe) \in Nat /\ Len(partial) \in Nat
         /\ \A i \in 1..Len(Row) : Row[i] \in Unit
<1>1. Row \in Seq(Unit) /\ Len(Row) = Len(partial) + Len(pipe)
  BY DEF Row
<1>2. QED
  BY <1>1

(* A packet which is sent has a header and, if it is a message, a prefix.    *)
LEMMA ProperIs ==
  ASSUME NEW p, Proper(p)
  PROVE  /\ p \in Packet /\ p.size \in Nat /\ HeaderSize \in Nat /\ PrefixSize \in Nat
         /\ 0 < HeaderSize /\ HeaderSize <= p.size
         /\ p.type \in {"PING", "MESSAGE", "BYE"}
         /\ p.type = "MESSAGE" => /\ HeaderSize + PrefixSize <= p.size
                                  /\ p.msg \in Message /\ p.msg.index \in Nat
         /\ p.type # "MESSAGE" => p.size = HeaderSize
<1>1. CASE p = PingPacket \/ p = ByePacket
  BY <1>1, ProtocolConstants, PacketsTyped DEF PingPacket, ByePacket, Header
<1>2. CASE p.msg \in Message /\ p = MessagePacket(p.msg)
  <2>1. PICK m \in Message : m = p.msg
    BY <1>2
  <2>2. m.length \in Nat /\ m.index \in Nat
    BY DEF Message
  <2>3. p.type = "MESSAGE" /\ p.size = HeaderSize + (PrefixSize + m.length)
    BY <1>2, <2>1 DEF MessagePacket, Header
  <2>4. QED
    BY <1>2, <2>1, <2>2, <2>3, ProtocolConstants, PacketsTyped
<1>3. QED
  BY <1>1, <1>2 DEF Proper

(* A packet which is being written is one of those, in an open channel.      *)
LEMMA UnfinishedIs ==
  ASSUME AloneInv, written < packet.size
  PROVE  /\ Proper(packet) /\ ~AllWritten /\ Begun = written
         /\ written \in Nat /\ packet.size \in Nat /\ packet \in Packet
         /\ packet.type = "MESSAGE" => packet.msg = current /\ current \in Message
<1>1. packet \in Packet /\ written \in Nat /\ packet.size \in Nat /\ current \in Message
  BY DEF AloneInv, IInv, TypeOK, Packet
<1>2. packet # NoPacket
  BY <1>1, PacketContents
<1>3. CASE packet \in {PingPacket, ByePacket}
  BY <1>1, <1>3, PacketContents DEF Proper, AllWritten, Begun
<1>4. CASE packet = MessagePacket(current)
  <2>1. packet.msg = current
    BY <1>1, <1>4, PacketContents
  <2>2. QED
    BY <1>1, <1>4, <2>1 DEF Proper, AllWritten, Begun
<1>5. QED
  BY <1>2, <1>3, <1>4 DEF AloneInv, Messages, Contents

(* What is begun is less than a packet.                                      *)
LEMMA BegunIs ==
  ASSUME AloneInv
  PROVE  Begun \in Nat /\ (Begun > 0 => Begun = written /\ written < packet.size)
<1>1. packet.size \in Nat /\ written \in Nat /\ written <= packet.size
  BY DEF AloneInv, IInv, TypeOK, Packet, Bounds
<1>2. QED
  BY <1>1 DEF Begun, AllWritten

(* Nothing else is on the wire until Bye is.                                 *)
LEMMA WireIs ==
  ASSUME AloneInv, WireShape
  PROVE  /\ Len(wire) \in Nat /\ MessagesOnWire \in 0..Len(wire)
         /\ \A k \in 1..MessagesOnWire : k \in Sent /\ wire[k].type = "MESSAGE"
         /\ \A k, l \in 1..MessagesOnWire :
              k < l => wire[k].msg.index < wire[l].msg.index
         /\ \A k \in 1..Len(wire) : wire[k] \in Packet /\ wire[k].msg.index \in Nat
         /\ (\A k \in 1..Len(wire) : wire[k].type # "BYE") => MessagesOnWire = Len(wire)
         /\ (\E k \in 1..Len(wire) : wire[k].type = "BYE") =>
              MessagesOnWire = Len(wire) - 1
<1>1. wire \in Seq(Packet) /\ Len(wire) \in Nat
  BY DEF AloneInv, IInv, TypeOK
<1>2. \A k \in 1..Len(wire) : wire[k] \in Packet /\ wire[k].msg.index \in Nat
  <2>1. \A k \in 1..Len(wire) : wire[k] \in Packet
    BY <1>1
  <2>2. \A p \in Packet : p.msg.index \in Nat
    BY DEF Packet, Message
  <2>3. QED
    BY <2>1, <2>2
<1>3. \A k \in 1..Len(wire) : wire[k].type = "BYE" => k = Len(wire)
  BY DEF AloneInv, IInv, ByeState
<1>4. wire = <<>> <=> Len(wire) = 0
  BY <1>1
<1>5. \A k \in 1..Len(wire) : wire[k].type \in {"MESSAGE", "BYE"}
  BY DEF WireShape
<1>6. CASE \E k \in 1..Len(wire) : wire[k].type = "BYE"
  <2>1. Len(wire) > 0 /\ wire[Len(wire)].type = "BYE" /\ MessagesOnWire = Len(wire) - 1
    BY <1>1, <1>3, <1>4, <1>6 DEF MessagesOnWire
  <2>2. \A k \in 1..MessagesOnWire : k \in 1..Len(wire) /\ wire[k].type = "MESSAGE"
    BY <1>1, <1>3, <1>5, <2>1
  <2>3. \A k \in 1..MessagesOnWire : k \in Sent
    BY <2>2 DEF Sent
  <2>4. MessagesOnWire \in 0..Len(wire)
    BY <1>1, <2>1
  <2>5. \A k, l \in 1..MessagesOnWire :
          k < l => wire[k].msg.index < wire[l].msg.index
    BY <2>3 DEF AloneInv, Messages, InOrder
  <2>6. QED
    BY <1>1, <1>2, <1>6, <2>1, <2>2, <2>3, <2>4, <2>5
<1>7. CASE ~\E k \in 1..Len(wire) : wire[k].type = "BYE"
  <2>1. MessagesOnWire = Len(wire)
    BY <1>1, <1>4, <1>7 DEF MessagesOnWire
  <2>2. \A k \in 1..MessagesOnWire : k \in 1..Len(wire) /\ wire[k].type = "MESSAGE"
    BY <1>5, <1>7, <2>1
  <2>3. \A k \in 1..MessagesOnWire : k \in Sent
    BY <2>2 DEF Sent
  <2>4. QED
    BY <1>1, <1>2, <1>7, <2>1, <2>2, <2>3 DEF AloneInv, Messages, InOrder
<1>8. QED
  BY <1>6, <1>7

-----------------------------------------------------------------------------
(* The row of units                                                          *)

(* A step between packets leaves the row as it is.                           *)
LEMMA TidyKept ==
  ASSUME Tidy, UNCHANGED <<partial, pipe, wire, Taken>>,
         Begun = 0, Begun' = 0,
         packet.type = "BYE" \/ ~io => packet'.type = "BYE" \/ ~io'
  PROVE  Tidy'
<1>1. Row' = Row
  BY DEF Row
<1>2. Framed'
  BY <1>1 DEF Tidy, Framed
<1>3. Growing'
  BY <1>1 DEF Tidy, Growing, Ends
<1>4. Complete' = Complete /\ \A i : IndexAt(i)' = IndexAt(i)
  BY <1>1 DEF Complete, Ends, IndexAt
<1>5. Ordered'
  BY <1>1, <1>4 DEF Tidy, Ordered, Ends
<1>6. Matched'
  BY <1>4 DEF Tidy, Matched, MessagesOnWire
<1>7. QED
  BY <1>2, <1>3, <1>5, <1>6 DEF Tidy

(* The row starts with a packet, or a part of it.                            *)
LEMMA FirstPacket ==
  ASSUME pipe \in Seq(Unit), partial \in Seq(Unit), Framed, Len(Row) > 0,
         NEW j \in 1..Len(Row), j <= Row[1].packet.size
  PROVE  Row[j].packet = Row[1].packet /\ Row[j].offset = j - 1
<1>1. 1 \in 1..Len(Row) /\ Len(Row) \in Nat
  BY RowTyped
<1>2. /\ Proper(Row[1].packet) /\ Row[1].offset = 0
      /\ 1 - Row[1].offset <= j => (j < 1 - Row[1].offset + Row[1].packet.size =>
           Row[j].packet = Row[1].packet /\ Row[j].offset = j - 1 + Row[1].offset)
  BY <1>1 DEF Framed
<1>3. Row[1].packet.size \in Nat
  BY <1>2, ProperIs
<1>4. QED
  BY <1>2, <1>3

(* The receiver finds the end of the first packet from its header.           *)
LEMMA WantedIs ==
  ASSUME pipe \in Seq(Unit), partial \in Seq(Unit), Framed, Len(Row) > 0,
         Len(Row) >= R!Wanted(Row)
  PROVE  /\ R!Wanted(Row) = Row[1].packet.size
         /\ Row[HeaderSize].packet = Row[1].packet
         /\ Proper(Row[1].packet)
         /\ Row[1].packet.size \in 1..Len(Row)
<1>1. Len(Row) \in Nat /\ 1 \in 1..Len(Row)
  BY RowTyped
<1>2. Proper(Row[1].packet)
  BY <1>1 DEF Framed
<1>3. PICK p : p = Row[1].packet
  OBVIOUS
<1>4. /\ p.size \in Nat /\ HeaderSize \in Nat /\ PrefixSize \in Nat
      /\ 0 < HeaderSize /\ HeaderSize <= p.size
      /\ p.type \in {"PING", "MESSAGE", "BYE"}
      /\ p.type = "MESSAGE" => HeaderSize + PrefixSize <= p.size
      /\ p.type # "MESSAGE" => p.size = HeaderSize
  BY <1>2, <1>3, ProperIs
<1>5. HeaderSize <= Len(Row)
  BY <1>1, <1>4 DEF R!Wanted
<1>6. Row[HeaderSize].packet = p
  BY <1>1, <1>3, <1>4, <1>5, FirstPacket
<1>7. R!FixedPart(Row[HeaderSize])
        = IF p.type = "MESSAGE" THEN HeaderSize + PrefixSize ELSE HeaderSize
  BY <1>4, <1>6 DEF R!FixedPart, R!MaxFixedPart
<1>8. R!Wanted(Row) = p.size
  BY <1>1, <1>4, <1>5, <1>6, <1>7 DEF R!Wanted
<1>9. QED
  BY <1>1, <1>2, <1>3, <1>4, <1>6, <1>8

(* Where units go when the first n of them are taken.                        *)
Shifts(n) ==
  /\ n \in 1..Len(Row) /\ Len(Row) \in Nat /\ Len(Row') = Len(Row) - n
  /\ \A i \in 1..Len(Row') : i + n \in 1..Len(Row) /\ Row'[i] = Row[i + n]
  /\ \A i \in 1..Len(Row) : i > n => i - n \in 1..Len(Row') /\ Row'[i - n] = Row[i]

LEMMA TakeIs ==
  ASSUME pipe \in Seq(Unit), partial \in Seq(Unit), NEW n \in 1..Len(Row),
         Row' = SubSeq(Row, n + 1, Len(Row))
  PROVE  Shifts(n)
<1>1. Row \in Seq(Unit) /\ Len(Row) \in Nat
  BY RowTyped
<1>2. PICK s \in Seq(Unit) : s = Row
  BY <1>1
<1>3. PICK l \in Nat : l = Len(s)
  BY <1>2
<1>4. PICK t : t = SubSeq(s, n + 1, l)
  OBVIOUS
<1>5. n \in 1..l /\ Len(t) = l - n /\ \A i \in 1..l - n : t[i] = s[i + n]
  <2>1. n \in 1..l
    BY <1>2, <1>3
  <2>2. Len(t) = l - n
    BY <1>3, <1>4, <2>1
  <2>3. ASSUME NEW i \in 1..l - n PROVE t[i] = s[i + n]
    <3>1. t[i] = s[(n + 1) + i - 1]
      BY <1>3, <1>4, <2>1
    <3>2. (n + 1) + i - 1 = i + n
      BY <2>1
    <3>3. QED
      BY <3>1, <3>2
  <2>4. QED
    BY <2>1, <2>2, <2>3
<1>6. \A i \in 1..l - n : i + n \in 1..l
  BY <1>5
<1>7. \A i \in 1..l : i > n => i - n \in 1..l - n /\ (i - n) + n = i
  BY <1>5
<1>8. Row' = t /\ Row = s /\ Len(Row) = l
  BY <1>2, <1>3, <1>4
<1>9. QED
  BY <1>5, <1>6, <1>7, <1>8 DEF Shifts

(* The end of the first packet, and no other end before it.                  *)
LEMMA FirstEnds ==
  ASSUME pipe \in Seq(Unit), partial \in Seq(Unit), Framed,
         NEW s \in 1..Len(Row), s = Row[1].packet.size
  PROVE  /\ Row[s].packet = Row[1].packet /\ Row[s].offset = s - 1
         /\ \A i \in 1..s : i \in 1..Len(Row) /\ Row[i].packet = Row[1].packet
         /\ \A i \in 1..s : Ends(i) => i = s
         /\ \A i \in 1..Len(Row) : i > s => i - Row[i].offset > s
<1>1. Len(Row) \in Nat /\ Len(Row) > 0
  BY RowTyped
<1>2. \A i \in 1..s : /\ i \in 1..Len(Row) /\ Row[i].packet = Row[1].packet
                      /\ Row[i].offset = i - 1
  BY <1>1, FirstPacket
<1>3. s \in 1..s
  BY <1>1
<1>4. ASSUME NEW i \in 1..Len(Row), i > s, i - Row[i].offset <= s PROVE FALSE
  <2>1. PICK o \in Nat, z \in Nat : o = Row[i].offset /\ z = Row[i].packet.size
    BY <1>4, ProperIs DEF Framed
  <2>2. o < z /\ o < i
    BY <1>4, <2>1 DEF Framed
  <2>3. i - o <= s /\ s < i - o + z
    BY <1>4, <2>1, <2>2
  <2>4. Row[s].packet = Row[i].packet /\ Row[s].offset = s - i + o
    BY <1>4, <2>1, <2>3 DEF Framed
  <2>5. z = s /\ s - 1 = s - i + o
    BY <1>2, <1>3, <2>1, <2>4
  <2>6. QED
    BY <1>4, <2>2, <2>5
<1>5. \A i \in 1..Len(Row) : Row[i].offset \in Nat
  BY DEF Framed
<1>6. ASSUME NEW i \in 1..Len(Row), i > s PROVE i - Row[i].offset > s
  <2>1. Row[i].offset \in Nat
    BY <1>5
  <2>2. QED
    BY <1>4, <1>6, <2>1
<1>7. \A i \in 1..s : Ends(i) => i = s
  BY <1>2 DEF Ends
<1>8. QED
  BY <1>2, <1>3, <1>6, <1>7

(* The end of the row stays where it is.                                     *)
LEMMA GrowsOn ==
  ASSUME AloneInv, NEW s, Shifts(s), Growing, Row[s].packet.size = s,
         Row[s].offset = s - 1, UNCHANGED <<packet, written>>,
         \A i \in 1..Len(Row') : Ends(i)' <=> Ends(i + s)
  PROVE  Growing'
<1>1. Begun' = Begun /\ Begun \in Nat /\ (Begun > 0 => Begun = written /\ written < packet.size)
  BY BegunIs DEF Begun, AllWritten
<1>2. PICK b \in Nat, l \in Nat : b = Begun /\ l = Len(Row)
  BY <1>1 DEF Shifts
<1>3. b <= l /\ s \in 1..l /\ Len(Row') = l - s
  BY <1>2 DEF Growing, Shifts
<1>9. s \in Nat
  BY <1>3
<1>4. l - b >= s
  <2> SUFFICES ASSUME l - b < s PROVE FALSE
    BY <1>3
  <2>1. s \in l - b + 1..l /\ b > 0
    BY <1>3
  <2>2. Row[s] = [packet |-> packet, offset |-> s - (l - b) - 1]
    BY <1>2, <2>1 DEF Growing
  <2>3. packet.size = s /\ s - 1 = s - (l - b) - 1
    BY <2>2
  <2>4. QED
    BY <1>1, <1>2, <1>3, <2>1, <2>3
<1>5. Begun' <= Len(Row')
  BY <1>1, <1>2, <1>3, <1>4
<1>6. ASSUME NEW i \in Len(Row') - Begun' + 1..Len(Row')
      PROVE  Row'[i] = [packet |-> packet', offset |-> i - (Len(Row') - Begun') - 1]
  <2>1. i \in (l - s) - b + 1..l - s
    BY <1>1, <1>2, <1>3
  <2>2. i \in 1..Len(Row') /\ i + s \in l - b + 1..l
    BY <1>3, <1>4, <1>9, <2>1, Moved
  <2>3. Row'[i] = Row[i + s]
    BY <2>2 DEF Shifts
  <2>4. Row[i + s] = [packet |-> packet, offset |-> (i + s) - (l - b) - 1]
    BY <1>2, <2>2 DEF Growing
  <2>5. (i + s) - (l - b) - 1 = i - ((l - s) - b) - 1
    BY <1>9, Moved
  <2>6. Len(Row') - Begun' = (l - s) - b
    BY <1>1, <1>2, <1>3
  <2>7. QED
    BY <2>3, <2>4, <2>5, <2>6
<1>7. ASSUME Begun' < Len(Row') PROVE Ends(Len(Row) - Begun)'
  <2>0. b < l - s /\ s \in 1..l
    BY <1>1, <1>2, <1>3, <1>7
  <2>1. (l - s) - b \in 1..l - s /\ ((l - s) - b) + s = l - b /\ b < l
    BY <1>9, <2>0, Moved
  <2>2. Ends(l - b)
    BY <1>2, <2>1 DEF Growing
  <2>3. PICK e \in 1..Len(Row') : e = (l - s) - b /\ e + s = l - b
    BY <1>3, <2>1
  <2>4. Ends(e)'
    BY <2>2, <2>3
  <2>5. e = Len(Row') - Begun'
    BY <1>1, <1>2, <1>3, <2>3
  <2>6. QED
    BY <2>4, <2>5 DEF Ends
<1>8. QED
  BY <1>5, <1>6, <1>7 DEF Growing

(* The size of the first packet, which is complete.                          *)
FirstIs(s) == s \in 1..Len(Row) /\ s = Row[1].packet.size

(* What is left when the first packet is taken is as regular as before.      *)
LEMMA FirstTaken ==
  ASSUME AloneInv, partial \in Seq(Unit), Framed, Growing,
         NEW s, FirstIs(s), Row' = SubSeq(Row, s + 1, Len(Row)), UNCHANGED <<packet, written>>
  PROVE  /\ Shifts(s) /\ Framed' /\ Growing'
         /\ \A i \in 1..Len(Row') : Ends(i)' <=> Ends(i + s)
<1>1. pipe \in Seq(Unit) /\ Len(Row) \in Nat
  BY RowTyped DEF AloneInv, IInv, TypeOK
<1>2. Shifts(s)
  BY <1>1, TakeIs DEF FirstIs
<1>0. s \in Nat /\ Len(Row') \in Nat
  BY <1>1, <1>2 DEF Shifts
<1>3. \A i \in 1..Len(Row') : Ends(i)' <=> Ends(i + s)
  BY <1>2 DEF Shifts, Ends
<1>4. /\ Row[s].packet = Row[1].packet /\ Row[s].offset = s - 1
      /\ \A i \in 1..Len(Row) : i > s => i - Row[i].offset > s
  BY <1>1, FirstEnds DEF FirstIs
<1>5. Framed'
  <2>1. ASSUME NEW i \in 1..Len(Row')
        PROVE  /\ Proper(Row'[i].packet)
               /\ Row'[i].offset \in Nat /\ Row'[i].offset < Row'[i].packet.size
               /\ Row'[i].offset < i
               /\ \A j \in 1..Len(Row') :
                    i - Row'[i].offset <= j /\ j < i - Row'[i].offset + Row'[i].packet.size
                    => /\ Row'[j].packet = Row'[i].packet
                       /\ Row'[j].offset = j - i + Row'[i].offset
    <3>1. i + s \in 1..Len(Row) /\ Row'[i] = Row[i + s] /\ i + s > s
      BY <1>0, <1>2 DEF Shifts
    <3>2. /\ Proper(Row[i + s].packet)
          /\ Row[i + s].offset \in Nat /\ Row[i + s].offset < Row[i + s].packet.size
      BY <3>1 DEF Framed
    <3>3. PICK o \in Nat, z \in Nat : o = Row[i + s].offset /\ z = Row[i + s].packet.size
      BY <3>2, ProperIs
    <3>4. (i + s) - o > s
      <4>1. PICK k \in 1..Len(Row) : k = i + s
        BY <3>1
      <4>2. k - Row[k].offset > s /\ Row[k].offset = o
        BY <1>4, <3>1, <3>3, <4>1
      <4>3. QED
        BY <4>1, <4>2
    <3>5. o < i
      BY <1>0, <3>3, <3>4
    <3>6. ASSUME NEW j \in 1..Len(Row'), i - o <= j, j < i - o + z
          PROVE  Row'[j].packet = Row'[i].packet /\ Row'[j].offset = j - i + o
      <4>1. j + s \in 1..Len(Row) /\ Row'[j] = Row[j + s]
        BY <1>2 DEF Shifts
      <4>2. (i + s) - o <= j + s /\ j + s < (i + s) - o + z
        BY <1>0, <3>6
      <4>3. Row[j + s].packet = Row[i + s].packet /\ Row[j + s].offset = (j + s) - (i + s) + o
        BY <3>1, <3>3, <4>1, <4>2 DEF Framed
      <4>4. (j + s) - (i + s) + o = j - i + o
        BY <1>0
      <4>5. QED
        BY <3>1, <4>1, <4>3, <4>4
    <3>7. QED
      BY <3>1, <3>2, <3>3, <3>5, <3>6
  <2>2. QED
    BY <2>1 DEF Framed
<1>6. Growing'
  BY <1>2, <1>3, <1>4, GrowsOn DEF FirstIs
<1>7. QED
  BY <1>2, <1>3, <1>5, <1>6

LEMMA CompleteGives ==
  ASSUME pipe \in Seq(Unit), partial \in Seq(Unit), Framed, NEW types,
         R!Complete(types)
  PROVE  /\ \E s : FirstIs(s) /\ Row' = SubSeq(Row, s + 1, Len(Row))
         /\ partial' = <<>> /\ pipe' \in Seq(Unit) /\ Len(pipe') <= Len(Row)
         /\ Row[1].packet.type \in types /\ Len(Row) > 0
<1>1. /\ Len(Row) >= R!Wanted(Row) /\ Row[HeaderSize].packet.type \in types
      /\ pipe' = SubSeq(Row, R!Wanted(Row) + 1, Len(Row)) /\ partial' = <<>>
  BY DEF R!Complete, R!Available, Row
<1>2. Len(Row) \in Nat /\ Row \in Seq(Unit)
  BY RowTyped
<1>3. Len(Row) > 0
  BY <1>1, <1>2, ProtocolConstants DEF R!Wanted
<1>4. PICK s : s = R!Wanted(Row)
  OBVIOUS
<1>5. /\ s = Row[1].packet.size /\ Row[HeaderSize].packet = Row[1].packet
      /\ Row[1].packet.size \in 1..Len(Row)
  BY <1>1, <1>3, <1>4, WantedIs
<1>6. s \in 1..Len(Row)
  BY <1>5
<1>7. pipe' = SubSeq(Row, s + 1, Len(Row))
  BY <1>1, <1>4
<1>8. pipe' \in Seq(Unit) /\ Len(pipe') <= Len(Row)
  <2>1. PICK t \in Seq(Unit), l \in Nat : t = Row /\ l = Len(t)
    BY <1>2
  <2>2. SubSeq(t, s + 1, l) \in Seq(Unit) /\ Len(SubSeq(t, s + 1, l)) = l - s
    BY <1>6, <2>1
  <2>3. l - s <= l
    BY <1>6, <2>1
  <2>4. QED
    BY <1>7, <2>1, <2>2, <2>3
<1>9. Row' = pipe'
  BY <1>1, <1>8 DEF Row
<1>10. QED
  BY <1>1, <1>3, <1>5, <1>6, <1>7, <1>8, <1>9 DEF FirstIs

(* The first message in the row is the oldest one the client has not got.    *)
LEMMA OldestFirst ==
  ASSUME AloneInv, partial \in Seq(Unit), WireShape, Tidy,
         Taken \in Seq(Nat), Len(Taken) <= MessagesOnWire,
         NEW s, FirstIs(s), Row[1].packet.type = "MESSAGE"
  PROVE  /\ s \in Complete /\ IndexAt(s) = IndexAt(1)
         /\ \A i \in Complete : i >= s
         /\ Len(Taken) + 1 \in 1..MessagesOnWire
         /\ wire[Len(Taken) + 1].msg.index = IndexAt(s)
<1>1. /\ pipe \in Seq(Unit) /\ Len(Row) \in Nat /\ s \in 1..Len(Row)
      /\ Len(Taken) \in Nat
  BY RowTyped DEF AloneInv, IInv, TypeOK, FirstIs
<1>2. /\ Row[s].packet = Row[1].packet /\ Row[s].offset = s - 1
      /\ \A i \in 1..s : Ends(i) => i = s
      /\ s = Row[1].packet.size
  BY <1>1, FirstEnds DEF FirstIs, Tidy
<1>3. s \in Complete /\ IndexAt(s) = IndexAt(1)
  BY <1>1, <1>2 DEF Complete, Ends, IndexAt
<1>4. \A i \in Complete : i >= s
  <2> SUFFICES ASSUME NEW i \in Complete, i < s PROVE FALSE
    BY <1>1 DEF Complete
  <2>1. i \in 1..s /\ Ends(i)
    BY <1>1 DEF Complete
  <2>2. QED
    BY <1>2, <2>1
<1>5. PICK d \in Nat, n \in Nat : d = Len(Taken) /\ n = MessagesOnWire /\ d <= n
  BY <1>1, WireIs
<1>6. PICK k \in d + 1..n : IndexAt(s) = wire[k].msg.index
  BY <1>3, <1>5 DEF Tidy, Matched
<1>7. d + 1 \in d + 1..n /\ d + 1 \in 1..n /\ k \in 1..n
  BY <1>5, <1>6
<1>8. PICK i \in Complete : IndexAt(i) = wire[d + 1].msg.index
  BY <1>5, <1>7 DEF Tidy, Matched
<1>9. IndexAt(s) \in Nat /\ IndexAt(i) \in Nat
  <2>1. \A j \in 1..n : wire[j].msg.index \in Nat
    BY <1>5, WireIs
  <2>2. QED
    BY <1>6, <1>7, <1>8, <2>1
<1>10. CASE i = s
  BY <1>3, <1>4, <1>5, <1>7, <1>8, <1>10
<1>11. CASE i > s
  <2>1. i \in 1..Len(Row) /\ Row[i].packet.type = "MESSAGE"
    BY DEF Complete
  <2>2. IndexAt(s) < IndexAt(i)
    BY <1>3, <1>11, <2>1 DEF Tidy, Ordered
  <2>3. k # d + 1 => wire[d + 1].msg.index < wire[k].msg.index
    BY <1>5, <1>6, <1>7, WireIs
  <2>4. QED
    BY <1>3, <1>4, <1>5, <1>6, <1>7, <1>8, <1>9, <2>2, <2>3
<1>12. i \in Int /\ s \in Int /\ i >= s
  BY <1>1, <1>4 DEF Complete
<1>13. QED
  BY <1>10, <1>11, <1>12

(* Which units end messages when the first packet is taken.                  *)
LEMMA CompleteTaken ==
  ASSUME AloneInv, partial \in Seq(Unit), Tidy, NEW s, FirstIs(s),
         Row' = SubSeq(Row, s + 1, Len(Row)), UNCHANGED <<packet, written, wire, io>>
  PROVE  /\ Framed' /\ Growing' /\ Ordered' /\ s \in Nat
         /\ \A i \in Complete' : i + s \in Complete /\ IndexAt(i)' = IndexAt(i + s)
         /\ \A i \in Complete : i > s => i - s \in Complete' /\ IndexAt(i - s)' = IndexAt(i)
         /\ Complete \subseteq Int
<1>1. /\ Shifts(s) /\ Framed' /\ Growing'
      /\ \A i \in 1..Len(Row') : Ends(i)' <=> Ends(i + s)
  BY FirstTaken DEF Tidy
<1>2. s \in Nat /\ Len(Row) \in Nat /\ Len(Row') \in Nat
  BY <1>1 DEF Shifts
<1>3. ASSUME NEW i \in Complete' PROVE i + s \in Complete /\ IndexAt(i)' = IndexAt(i + s)
  <2>1. i \in 1..Len(Row') /\ Row'[i].packet.type = "MESSAGE" /\ Ends(i)'
    BY DEF Complete
  <2>2. i + s \in 1..Len(Row) /\ Row'[i] = Row[i + s] /\ Ends(i + s)
    BY <1>1, <2>1 DEF Shifts
  <2>3. QED
    BY <2>1, <2>2 DEF Complete, IndexAt
<1>4. ASSUME NEW i \in Complete, i > s
      PROVE  i - s \in Complete' /\ IndexAt(i - s)' = IndexAt(i)
  <2>1. i \in 1..Len(Row) /\ Row[i].packet.type = "MESSAGE" /\ Ends(i)
    BY DEF Complete
  <2>2. PICK j : j = i - s
    OBVIOUS
  <2>3. j \in 1..Len(Row') /\ Row'[j] = Row[i] /\ j + s = i
    BY <1>1, <1>2, <1>4, <2>1, <2>2 DEF Shifts
  <2>4. Ends(j)'
    BY <1>1, <2>1, <2>3
  <2>5. j \in Complete' /\ IndexAt(j)' = IndexAt(i)
    BY <2>1, <2>3, <2>4 DEF Complete, IndexAt
  <2>6. QED
    BY <2>2, <2>5
<1>5. Ordered'
  <2>1. ASSUME NEW i \in Complete', NEW j \in 1..Len(Row'), i < j,
               Row'[j].packet.type = "MESSAGE"
        PROVE  IndexAt(i)' < IndexAt(j)'
    <3>1. i + s \in Complete /\ IndexAt(i)' = IndexAt(i + s) /\ i \in Int
      BY <1>2, <1>3 DEF Complete
    <3>2. j + s \in 1..Len(Row) /\ Row'[j] = Row[j + s] /\ j \in Int
      BY <1>1, <1>2 DEF Shifts
    <3>3. i + s < j + s
      BY <1>2, <2>1, <3>1, <3>2
    <3>4. IndexAt(i + s) < IndexAt(j + s)
      BY <2>1, <3>1, <3>2, <3>3 DEF Tidy, Ordered
    <3>5. QED
      BY <3>1, <3>2, <3>4 DEF IndexAt
  <2>2. ASSUME NEW i \in 1..Len(Row'), Row'[i].packet.type = "BYE"
        PROVE  /\ \A j \in i..Len(Row') : Row'[j].packet.type = "BYE"
               /\ packet'.type = "BYE" \/ ~io'
               /\ Ends(i)' => \E k \in 1..Len(wire') : wire'[k].type = "BYE"
    <3>1. i + s \in 1..Len(Row) /\ Row'[i] = Row[i + s] /\ i \in Int
      BY <1>1, <1>2 DEF Shifts
    <3>2. /\ \A j \in i + s..Len(Row) : Row[j].packet.type = "BYE"
          /\ packet.type = "BYE" \/ ~io
          /\ Ends(i + s) => \E k \in 1..Len(wire) : wire[k].type = "BYE"
      BY <2>2, <3>1 DEF Tidy, Ordered
    <3>3. ASSUME NEW j \in i..Len(Row') PROVE Row'[j].packet.type = "BYE"
      <4>1. j \in 1..Len(Row')
        BY <1>2
      <4>2. j + s \in 1..Len(Row) /\ Row'[j] = Row[j + s]
        BY <1>1, <4>1 DEF Shifts
      <4>3. j + s \in i + s..Len(Row)
        BY <1>2, <4>2, <3>1
      <4>4. QED
        BY <3>2, <4>2, <4>3
    <3>4. QED
      BY <1>1, <3>1, <3>2, <3>3
  <2>3. QED
    BY <2>1, <2>2 DEF Ordered
<1>6. Complete \subseteq Int
  BY DEF Complete
<1>7. QED
  BY <1>1, <1>2, <1>3, <1>4, <1>5, <1>6

(* The oldest message is taken.                                              *)
LEMMA MessageTaken ==
  ASSUME AloneInv, partial \in Seq(Unit), WireShape, Tidy,
         Taken \in Seq(Nat), Len(Taken) <= MessagesOnWire,
         NEW s, FirstIs(s), Row[1].packet.type = "MESSAGE",
         Row' = SubSeq(Row, s + 1, Len(Row)), UNCHANGED <<packet, written, wire, io>>,
         Len(Taken') = Len(Taken) + 1
  PROVE  Tidy'
<1>1. /\ s \in Complete /\ \A i \in Complete : i >= s
      /\ Len(Taken) + 1 \in 1..MessagesOnWire
      /\ wire[Len(Taken) + 1].msg.index = IndexAt(s)
  BY OldestFirst
<1>2. /\ Framed' /\ Growing' /\ Ordered' /\ s \in Nat
      /\ \A i \in Complete' : i + s \in Complete /\ IndexAt(i)' = IndexAt(i + s)
      /\ \A i \in Complete : i > s => i - s \in Complete' /\ IndexAt(i - s)' = IndexAt(i)
      /\ Complete \subseteq Int
  BY CompleteTaken
<1>3. MessagesOnWire' = MessagesOnWire
  BY DEF MessagesOnWire
<1>4. PICK d \in Nat, n \in Nat : d = Len(Taken) /\ n = MessagesOnWire /\ d <= n
  BY WireIs
<1>5. \A k, l \in 1..n : k < l => wire[k].msg.index < wire[l].msg.index
  BY <1>4, WireIs
<1>6. \A k \in 1..n : wire[k].msg.index \in Nat
  BY <1>4, WireIs
<1>7. Matched'
  <2>1. ASSUME NEW k \in d + 1 + 1..n
        PROVE  \E i \in Complete' : IndexAt(i)' = wire[k].msg.index
    <3>1. k \in d + 1..n /\ k \in 1..n /\ d + 1 \in 1..n /\ d + 1 < k
      BY <1>1, <1>4
    <3>2. PICK i \in Complete : IndexAt(i) = wire[k].msg.index
      BY <1>4, <3>1 DEF Tidy, Matched
    <3>3. IndexAt(s) < IndexAt(i)
      BY <1>1, <1>4, <1>5, <3>1, <3>2
    <3>4. IndexAt(i) \in Nat
      BY <1>6, <3>1, <3>2
    <3>5. i # s
      BY <3>3, <3>4
    <3>6. i > s
      BY <1>1, <1>2, <3>5
    <3>7. i - s \in Complete' /\ IndexAt(i - s)' = IndexAt(i)
      BY <1>2, <3>6
    <3>8. PICK j : j = i - s
      OBVIOUS
    <3>9. j \in Complete' /\ IndexAt(j)' = wire[k].msg.index
      BY <3>2, <3>7, <3>8
    <3>10. QED
      BY <3>9
  <2>2. ASSUME NEW i \in Complete'
        PROVE  \E k \in d + 1 + 1..n : IndexAt(i)' = wire[k].msg.index
    <3>1. i + s \in Complete /\ IndexAt(i)' = IndexAt(i + s) /\ i > 0
      <4>1. i > 0
        BY DEF Complete
      <4>2. QED
        BY <1>2, <4>1
    <3>2. PICK k \in d + 1..n : IndexAt(i + s) = wire[k].msg.index
      BY <1>4, <3>1 DEF Tidy, Matched
    <3>3. k # d + 1
      <4>1. i + s \in 1..Len(Row) /\ Row[i + s].packet.type = "MESSAGE"
        BY <3>1 DEF Complete
      <4>2. s < i + s
        BY <1>2, <3>1 DEF Complete
      <4>3. IndexAt(s) < IndexAt(i + s)
        BY <1>1, <4>1, <4>2 DEF Tidy, Ordered
      <4>4. IndexAt(s) \in Nat
        BY <1>1, <1>4, <1>6
      <4>5. QED
        BY <1>1, <1>4, <3>2, <4>3, <4>4
    <3>4. k \in d + 1 + 1..n
      BY <3>3
    <3>5. QED
      BY <3>1, <3>2, <3>4
  <2>3. Len(Taken') = d + 1
    BY <1>4
  <2>4. QED
    BY <1>3, <1>4, <2>1, <2>2, <2>3 DEF Matched
<1>8. QED
  BY <1>2, <1>7 DEF Tidy

(* A packet without a message is skipped.                                    *)
LEMMA OtherTaken ==
  ASSUME AloneInv, partial \in Seq(Unit), Tidy, NEW s, FirstIs(s),
         Row[1].packet.type # "MESSAGE", Row' = SubSeq(Row, s + 1, Len(Row)),
         UNCHANGED <<packet, written, wire, io, Taken>>
  PROVE  Tidy'
<1>1. /\ Framed' /\ Growing' /\ Ordered' /\ s \in Nat
      /\ \A i \in Complete' : i + s \in Complete /\ IndexAt(i)' = IndexAt(i + s)
      /\ \A i \in Complete : i > s => i - s \in Complete' /\ IndexAt(i - s)' = IndexAt(i)
      /\ Complete \subseteq Int
  BY CompleteTaken
<1>2. \A i \in Complete : i > s
  <2> SUFFICES ASSUME NEW i \in Complete, i <= s PROVE FALSE
    BY <1>1
  <2>1. pipe \in Seq(Unit) /\ i \in 1..s /\ s \in 1..Len(Row)
    BY <1>1 DEF AloneInv, IInv, TypeOK, Complete, FirstIs
  <2>2. Row[i].packet = Row[1].packet
    BY <2>1, FirstEnds DEF FirstIs, Tidy
  <2>3. QED
    BY <2>2 DEF Complete
<1>3. MessagesOnWire' = MessagesOnWire
  BY DEF MessagesOnWire
<1>4. Matched'
  <2>1. ASSUME NEW k \in Len(Taken) + 1..MessagesOnWire
        PROVE  \E i \in Complete' : IndexAt(i)' = wire[k].msg.index
    <3>1. PICK i \in Complete : IndexAt(i) = wire[k].msg.index
      BY DEF Tidy, Matched
    <3>2. i - s \in Complete' /\ IndexAt(i - s)' = IndexAt(i)
      BY <1>1, <1>2
    <3>3. PICK j : j = i - s
      OBVIOUS
    <3>4. j \in Complete' /\ IndexAt(j)' = wire[k].msg.index
      BY <3>1, <3>2, <3>3
    <3>5. QED
      BY <3>4
  <2>2. ASSUME NEW i \in Complete'
        PROVE  \E k \in Len(Taken) + 1..MessagesOnWire :
                 IndexAt(i)' = wire[k].msg.index
    BY <1>1 DEF Tidy, Matched
  <2>3. QED
    BY <1>3, <2>1, <2>2 DEF Matched
<1>5. QED
  BY <1>1, <1>4 DEF Tidy

(* When Bye is the first packet, it is on the wire, and everything that is   *)
(* on the wire has been taken.                                               *)
LEMMA ByeFirst ==
  ASSUME AloneInv, partial \in Seq(Unit), WireShape, Tidy,
         Taken \in Seq(Nat), Len(Taken) <= MessagesOnWire,
         NEW s, FirstIs(s), Row[1].packet.type = "BYE"
  PROVE  /\ Len(Taken) = MessagesOnWire
         /\ \E k \in 1..Len(wire) : wire[k].type = "BYE"
<1>1. pipe \in Seq(Unit) /\ Len(Row) \in Nat /\ s \in 1..Len(Row)
  BY RowTyped DEF AloneInv, IInv, TypeOK, FirstIs
<1>2. Ends(s) /\ Row[s].packet.type = "BYE"
  BY <1>1, FirstEnds DEF FirstIs, Tidy, Ends
<1>3. \E k \in 1..Len(wire) : wire[k].type = "BYE"
  BY <1>1, <1>2 DEF Tidy, Ordered
<1>4. 1 \in 1..Len(Row) /\ \A i \in 1..Len(Row) : Row[i].packet.type = "BYE"
  BY <1>1 DEF Tidy, Ordered
<1>5. Complete = {}
  BY <1>4 DEF Complete
<1>6. PICK d \in Nat, n \in Nat : d = Len(Taken) /\ n = MessagesOnWire /\ d <= n
  BY WireIs
<1>7. d + 1 \notin d + 1..n
  BY <1>5, <1>6 DEF Tidy, Matched
<1>8. QED
  BY <1>3, <1>6, <1>7

-----------------------------------------------------------------------------
(* Writing                                                                   *)

(* A write puts the next n units of the packet into the pipe.                *)
Puts(n) ==
  /\ io /\ n \in Nat /\ written < packet.size /\ written + n <= packet.size
  /\ Hand(Units(packet, written, n))
  /\ UNCHANGED <<packet, current, buffer, accepted, dropped, io, readers, done>>

(* The row goes on from where the packet begins.                             *)
LEMMA RowGrows ==
  ASSUME AloneInv, partial \in Seq(Unit), Growing, NEW n, Puts(n), partial' = partial
  PROVE  \E b \in Nat :
           /\ Len(Row) = b + written /\ Len(Row') = b + written + n
           /\ written' = written + n
           /\ \A i \in 1..b : Row'[i] = Row[i]
           /\ \A i \in 1..Len(Row) : Row'[i] = Row[i]
           /\ \A i \in b + 1..b + written + n :
                Row'[i] = [packet |-> packet, offset |-> i - b - 1]
           /\ b > 0 => Ends(b)
<1>1. /\ pipe \in Seq(Unit) /\ Row \in Seq(Unit) /\ Len(Row) \in Nat
      /\ written \in Nat /\ packet \in Packet /\ Begun = written
  BY RowTyped, UnfinishedIs DEF AloneInv, IInv, TypeOK, Puts
<1>2. PICK l \in Nat, w \in Nat : l = Len(Row) /\ w = written
  BY <1>1
<1>3. PICK m \in Nat : m = n
  BY DEF Puts
<1>4. PICK units : units = Units(packet, w, m)
  OBVIOUS
<1>5. units \in Seq(Unit) /\ Len(units) = m
  BY <1>1, <1>2, <1>4, UnitsTyped
<1>6. \A i \in 1..m : units[i] = [packet |-> packet, offset |-> w + i - 1]
  BY <1>4 DEF Units
<1>7. pipe' = pipe \o units /\ written' = w + m
  BY <1>2, <1>3, <1>4, <1>5 DEF Puts, Hand
<1>8. Row' = Row \o units
  BY <1>1, <1>5, <1>7 DEF Row
<1>9. /\ Len(Row') = l + m
      /\ \A i \in 1..l : Row'[i] = Row[i]
      /\ \A i \in l + 1..l + m : Row'[i] = units[i - l]
  BY <1>1, <1>2, <1>5, <1>8, JoinIs
<1>10. w <= l /\ \A i \in l - w + 1..l : Row[i] = [packet |-> packet, offset |-> i - (l - w) - 1]
  BY <1>1, <1>2 DEF Growing
<1>11. PICK b \in Nat : b = l - w /\ l = b + w
  BY <1>10
<1>12. ASSUME NEW i \in b + 1..b + w + m
       PROVE  Row'[i] = [packet |-> packet, offset |-> i - b - 1]
  <2>1. CASE i <= l
    <3>1. i \in 1..l /\ i \in l - w + 1..l
      BY <1>11, <2>1
    <3>2. i - (l - w) - 1 = i - b - 1
      BY <1>11
    <3>3. QED
      BY <1>9, <1>10, <3>1, <3>2
  <2>2. CASE ~(i <= l)
    <3>1. i \in l + 1..l + m /\ i - l \in 1..m /\ w + (i - l) - 1 = i - b - 1
      BY <1>11, <2>2
    <3>2. QED
      BY <1>6, <1>9, <3>1
  <2>3. QED
    BY <2>1, <2>2
<1>13. b > 0 => Ends(b)
  <2>1. b > 0 => w < l
    BY <1>11
  <2>2. b = Len(Row) - Begun
    BY <1>1, <1>2, <1>11
  <2>3. w < l => Ends(Len(Row) - Begun)
    BY <1>1, <1>2 DEF Growing
  <2>4. QED
    BY <2>1, <2>2, <2>3
<1>14. \A i \in 1..b : i \in 1..l
  BY <1>11
<1>15. Len(Row') = b + w + m
  BY <1>9, <1>11
<1>16. QED
  BY <1>2, <1>3, <1>7, <1>9, <1>11, <1>12, <1>13, <1>14, <1>15

(* The packets in the row stay whole.                                        *)
LEMMA FramedGrows ==
  ASSUME AloneInv, partial \in Seq(Unit), Framed, Growing, NEW n, Puts(n),
         partial' = partial
  PROVE  Framed'
<1>1. PICK b \in Nat :
        /\ Len(Row) = b + written /\ Len(Row') = b + written + n
        /\ \A i \in 1..Len(Row) : Row'[i] = Row[i]
        /\ \A i \in b + 1..b + written + n :
             Row'[i] = [packet |-> packet, offset |-> i - b - 1]
        /\ b > 0 => Ends(b)
  BY RowGrows
<1>2. Proper(packet) /\ written \in Nat /\ packet.size \in Nat /\ n \in Nat
      /\ written + n <= packet.size
  BY UnfinishedIs DEF Puts
<1>3. PICK w \in Nat, m \in Nat, z \in Nat : w = written /\ m = n /\ z = packet.size
  BY <1>2
<1>4. PICK t : t = Row'
  OBVIOUS
<1>5. /\ Len(Row) = b + w /\ Len(t) = b + w + m /\ w + m <= z
      /\ \A i \in 1..b + w : t[i] = Row[i]
      /\ \A i \in b + 1..b + w + m : t[i] = [packet |-> packet, offset |-> i - b - 1]
  BY <1>1, <1>2, <1>3, <1>4
<1>6. ASSUME NEW i \in 1..b + w + m
      PROVE  /\ Proper(t[i].packet)
             /\ t[i].offset \in Nat /\ t[i].offset < t[i].packet.size
             /\ t[i].offset < i
             /\ \A j \in 1..b + w + m :
                  i - t[i].offset <= j /\ j < i - t[i].offset + t[i].packet.size
                  => t[j].packet = t[i].packet /\ t[j].offset = j - i + t[i].offset
  <2>1. CASE i <= b
    <3>1. i \in 1..Len(Row) /\ i \in 1..b + w /\ t[i] = Row[i]
      BY <1>5, <2>1
    <3>2. /\ Proper(Row[i].packet) /\ Row[i].offset \in Nat
          /\ Row[i].offset < Row[i].packet.size /\ Row[i].offset < i
      BY <3>1 DEF Framed
    <3>3. PICK o \in Nat, s \in Nat : o = Row[i].offset /\ s = Row[i].packet.size
      BY <3>2, ProperIs
    <3>4. \A j \in 1..b + w : i - o <= j /\ j < i - o + s =>
            Row[j].packet = Row[i].packet /\ Row[j].offset = j - i + o
      BY <1>5, <3>1, <3>3 DEF Framed
    <3>5. i - o + s <= b + 1
      <4> SUFFICES ASSUME i - o + s > b + 1 PROVE FALSE
        OBVIOUS
      <4>1. b \in 1..b + w /\ b > 0 /\ i - o <= b /\ b < i - o + s
        BY <2>1
      <4>2. Row[b].packet = Row[i].packet /\ Row[b].offset = b - i + o
        BY <3>4, <4>1
      <4>3. b - i + o = s - 1
        BY <1>1, <3>3, <4>1, <4>2 DEF Ends
      <4>4. QED
        BY <4>3
    <3>6. ASSUME NEW j \in 1..b + w + m, i - o <= j, j < i - o + s
          PROVE  t[j].packet = t[i].packet /\ t[j].offset = j - i + o
      <4>1. j \in 1..b + w
        BY <3>5, <3>6
      <4>2. QED
        BY <1>5, <3>1, <3>4, <3>6, <4>1
    <3>7. QED
      BY <3>1, <3>2, <3>3, <3>6
  <2>2. CASE i > b
    <3>0. i \in b + 1..b + w + m
      BY <2>2
    <3>1. i \in b + 1..b + w + m /\ t[i] = [packet |-> packet, offset |-> i - b - 1]
      BY <1>5, <3>0
    <3>2. i - b - 1 \in Nat /\ i - b - 1 < z /\ i - b - 1 < i
      BY <1>5, <3>1
    <3>3. ASSUME NEW j \in 1..b + w + m, i - (i - b - 1) <= j
          PROVE  t[j].packet = packet /\ t[j].offset = j - i + (i - b - 1)
      <4>1. j \in b + 1..b + w + m /\ j - b - 1 = j - i + (i - b - 1)
        BY <3>3
      <4>2. t[j] = [packet |-> packet, offset |-> j - b - 1]
        BY <1>5, <4>1
      <4>3. t[j].packet = packet /\ t[j].offset = j - b - 1
        BY <4>2
      <4>4. QED
        BY <4>1, <4>3
    <3>4. t[i].packet = packet /\ t[i].offset = i - b - 1
      BY <3>1
    <3>5. QED
      BY <1>2, <1>3, <3>2, <3>3, <3>4
  <2>3. QED
    BY <2>1, <2>2
<1>7. QED
  BY <1>4, <1>5, <1>6 DEF Framed

(* When all of the packet is there, it is on the wire, unless it is a ping.  *)
LEMMA WireAfter ==
  ASSUME AloneInv, WireShape, NEW n, Puts(n)
  PROVE  /\ MessagesOnWire = Len(wire) /\ WireShape' /\ Len(wire) \in Nat
         /\ Len(wire') \in Nat /\ Len(wire) <= Len(wire')
         /\ \A k \in 1..Len(wire) : k \in 1..Len(wire') /\ wire'[k] = wire[k]
         /\ \A k \in 1..Len(wire) : k \in Sent
         /\ MessagesOnWire' =
              IF written' = packet.size /\ packet.type = "MESSAGE"
              THEN Len(wire) + 1 ELSE Len(wire)
         /\ written' = packet.size /\ packet.type = "MESSAGE" =>
              wire'[Len(wire) + 1] = packet
         /\ written' = packet.size /\ packet.type = "BYE" =>
              \E k \in 1..Len(wire') : wire'[k].type = "BYE"
<1>1. /\ wire \in Seq(Packet) /\ Len(wire) \in Nat /\ TypeOK
      /\ packet \in Packet /\ Proper(packet) /\ ~AllWritten
      /\ packet.type \in {"PING", "MESSAGE", "BYE"}
  BY UnfinishedIs, ProperIs DEF AloneInv, IInv, TypeOK, Puts
<1>2. \A k \in 1..Len(wire) : wire[k].type # "BYE"
  BY <1>1 DEF AloneInv, IInv, ByeState, AllWritten
<1>3. MessagesOnWire = Len(wire) /\ \A k \in 1..Len(wire) : k \in Sent
  BY <1>2, WireIs
<1>4. wire' = IF written' = packet.size /\ packet.type # "PING"
              THEN Append(wire, packet) ELSE wire
  BY DEF Puts, Hand
<1>5. CASE wire' = wire /\ ~(written' = packet.size /\ packet.type # "PING")
  <2>1. MessagesOnWire' = MessagesOnWire /\ WireShape'
    BY <1>5 DEF MessagesOnWire, WireShape
  <2>2. QED
    BY <1>1, <1>3, <1>5, <2>1
<1>6. CASE /\ wire' = Append(wire, packet)
           /\ written' = packet.size /\ packet.type # "PING"
  <2>1. /\ Len(wire') = Len(wire) + 1 /\ wire' # <<>>
        /\ \A k \in 1..Len(wire) : wire'[k] = wire[k]
        /\ wire'[Len(wire) + 1] = packet
    BY <1>1, <1>6
  <2>2. \A k \in 1..Len(wire') : k \in 1..Len(wire) \/ k = Len(wire) + 1
    BY <1>1, <2>1
  <2>3. WireShape'
    BY <1>1, <1>6, <2>1, <2>2 DEF WireShape
  <2>4. MessagesOnWire' = IF packet.type = "BYE" THEN Len(wire) ELSE Len(wire) + 1
    <3>1. wire'[Len(wire')] = packet /\ Len(wire') - 1 = Len(wire)
      BY <1>1, <2>1
    <3>2. QED
      BY <2>1, <3>1 DEF MessagesOnWire
  <2>5. \A k \in 1..Len(wire) : k \in 1..Len(wire')
    BY <1>1, <2>1
  <2>6. Len(wire) + 1 \in 1..Len(wire')
    BY <1>1, <2>1
  <2>7. Len(wire') \in Nat /\ Len(wire) <= Len(wire')
    BY <1>1, <2>1
  <2>8. QED
    BY <1>1, <1>3, <1>6, <2>1, <2>3, <2>4, <2>5, <2>6, <2>7
<1>7. QED
  BY <1>4, <1>5, <1>6

(* Units of the packet are added, and the end of a message if that is it.    *)
LEMMA CompleteGrows ==
  ASSUME AloneInv, partial \in Seq(Unit), Framed, Growing, NEW n, Puts(n),
         partial' = partial
  PROVE  /\ Growing'
         /\ \A i \in Complete : i \in Complete' /\ IndexAt(i)' = IndexAt(i)
         /\ \A i \in Complete' : \/ i \in Complete /\ IndexAt(i)' = IndexAt(i)
                                 \/ /\ i = Len(Row') /\ IndexAt(i)' = packet.msg.index
                                    /\ written' = packet.size
                                    /\ packet.type = "MESSAGE"
         /\ written' = packet.size /\ packet.type = "MESSAGE" =>
              Len(Row') \in Complete' /\ IndexAt(Len(Row))' = packet.msg.index
<1>1. PICK b \in Nat :
        /\ Len(Row) = b + written /\ Len(Row') = b + written + n
        /\ written' = written + n
        /\ \A i \in 1..b : Row'[i] = Row[i]
        /\ \A i \in 1..Len(Row) : Row'[i] = Row[i]
        /\ \A i \in b + 1..b + written + n :
             Row'[i] = [packet |-> packet, offset |-> i - b - 1]
        /\ b > 0 => Ends(b)
  BY RowGrows
<1>2. Proper(packet) /\ written \in Nat /\ packet.size \in Nat /\ n \in Nat
      /\ written + n <= packet.size /\ packet' = packet /\ packet.size > 0
      /\ written < packet.size
  BY UnfinishedIs, ProperIs DEF Puts
<1>3. PICK w \in Nat, m \in Nat, z \in Nat : w = written /\ m = n /\ z = packet.size
  BY <1>2
<1>4. PICK t : t = Row'
  OBVIOUS
<1>5. /\ Len(Row) = b + w /\ Len(t) = b + w + m /\ w + m <= z /\ w < z
      /\ written' = w + m
      /\ \A i \in 1..b + w : t[i] = Row[i]
      /\ \A i \in b + 1..b + w + m : t[i] = [packet |-> packet, offset |-> i - b - 1]
      /\ z > 0
  BY <1>1, <1>2, <1>3, <1>4
<1>6. Begun' = IF w + m = z THEN 0 ELSE w + m
  BY <1>2, <1>3, <1>5 DEF Begun, AllWritten
<1>7. b > 0 => b \in 1..b + w /\ t[b].offset = t[b].packet.size - 1
  BY <1>1, <1>5 DEF Ends
<1>8. w + m = z => /\ b + w + m \in b + 1..b + w + m
                   /\ t[b + w + m] = [packet |-> packet, offset |-> z - 1]
  <2> SUFFICES ASSUME w + m = z
               PROVE  /\ b + w + m \in b + 1..b + w + m
                      /\ t[b + w + m] = [packet |-> packet, offset |-> z - 1]
    OBVIOUS
  <2>1. b + w + m \in b + 1..b + w + m /\ b + w + m - b - 1 = z - 1
    BY <1>5
  <2>2. QED
    BY <1>5, <2>1
<1>9. Growing'
  <2>1. CASE w + m = z
    <3>1. /\ Begun' = 0 /\ Len(t) = b + w + m /\ Len(t) - 0 = b + w + m
          /\ Len(t) - 0 + 1..Len(t) = {}
      BY <1>5, <1>6, <2>1
    <3>2. t[b + w + m].offset = t[b + w + m].packet.size - 1
      BY <1>3, <1>8, <2>1
    <3>3. QED
      BY <1>4, <3>1, <3>2 DEF Growing, Ends
  <2>2. CASE w + m # z
    <3>1. Begun' = w + m /\ Len(t) - (w + m) = b
      BY <1>5, <1>6, <2>2
    <3>2. w + m <= Len(t)
      BY <1>5
    <3>3. \A i \in b + 1..Len(t) : t[i] = [packet |-> packet, offset |-> i - b - 1]
      BY <1>5
    <3>4. w + m < Len(t) => t[b].offset = t[b].packet.size - 1
      BY <1>5, <1>7
    <3>5. QED
      BY <1>2, <1>4, <3>1, <3>2, <3>3, <3>4 DEF Growing, Ends
  <2>3. QED
    BY <2>1, <2>2
<1>10. ASSUME NEW i \in Complete PROVE i \in Complete' /\ IndexAt(i)' = IndexAt(i)
  <2>1. i \in 1..b + w /\ Row[i].packet.type = "MESSAGE" /\ Ends(i)
    BY <1>5 DEF Complete
  <2>2. i \in 1..b + w + m /\ t[i] = Row[i]
    BY <1>5, <2>1
  <2>3. QED
    BY <1>4, <1>5, <2>1, <2>2 DEF Complete, Ends, IndexAt
<1>11. ASSUME NEW i \in Complete'
       PROVE  \/ i \in Complete /\ IndexAt(i)' = IndexAt(i)
              \/ /\ i = Len(Row') /\ IndexAt(i)' = packet.msg.index
                 /\ written' = packet.size /\ packet.type = "MESSAGE"
  <2>1. /\ i \in 1..b + w + m /\ t[i].packet.type = "MESSAGE"
        /\ t[i].offset = t[i].packet.size - 1
    BY <1>4, <1>5 DEF Complete, Ends
  <2>2. CASE i <= b + w
    <3>1. i \in 1..b + w
      BY <2>1, <2>2
    <3>2. t[i] = Row[i]
      BY <1>5, <3>1
    <3>3. QED
      BY <1>4, <1>5, <2>1, <3>1, <3>2 DEF Complete, Ends, IndexAt
  <2>3. CASE i > b + w
    <3>1. i \in b + 1..b + w + m
      BY <2>1, <2>3
    <3>2. t[i] = [packet |-> packet, offset |-> i - b - 1]
      BY <1>5, <3>1
    <3>3. i - b - 1 = z - 1
      BY <1>3, <2>1, <3>2
    <3>4. i = b + w + m /\ w + m = z
      BY <1>5, <2>1, <3>3
    <3>5. QED
      BY <1>3, <1>4, <1>5, <2>1, <3>2, <3>4 DEF IndexAt
  <2>4. QED
    BY <2>1, <2>2, <2>3
<1>12. ASSUME written' = packet.size, packet.type = "MESSAGE"
       PROVE  Len(Row') \in Complete' /\ IndexAt(Len(Row))' = packet.msg.index
  <2>1. w + m = z
    BY <1>3, <1>5, <1>12
  <2>2. PICK e : e = b + w + m
    OBVIOUS
  <2>3. e \in 1..Len(t) /\ t[e] = [packet |-> packet, offset |-> z - 1] /\ e = Len(t)
    BY <1>5, <1>8, <2>1, <2>2
  <2>4. e \in Complete' /\ IndexAt(e)' = packet.msg.index
    BY <1>3, <1>4, <1>12, <2>3 DEF Complete, Ends, IndexAt
  <2>5. QED
    BY <1>4, <2>3, <2>4 DEF IndexAt
<1>13. QED
  BY <1>9, <1>10, <1>11, <1>12

(* A message which is being written is newer than those on the wire.         *)
LEMMA NewerThanRow ==
  ASSUME AloneInv, WireShape, Matched, Taken \in Seq(Nat),
         NEW n, Puts(n), packet.type = "MESSAGE", NEW i \in Complete
  PROVE  IndexAt(i) < packet.msg.index
<1>1. PICK k \in Len(Taken) + 1..MessagesOnWire : IndexAt(i) = wire[k].msg.index
  BY DEF Matched
<1>2. MessagesOnWire = Len(wire) /\ \A j \in 1..Len(wire) : j \in Sent
  BY WireAfter
<1>3. k \in 1..Len(wire)
  <2>1. Len(Taken) \in Nat
    OBVIOUS
  <2>2. QED
    BY <1>1, <1>2, <2>1
<1>4. k \in Sent
  BY <1>2, <1>3
<1>5. packet.msg = current /\ ~AllWritten
  BY UnfinishedIs DEF Puts
<1>6. wire[k].msg.index < current.index
  BY <1>4, <1>5 DEF AloneInv, Messages, Contents
<1>7. QED
  BY <1>1, <1>5, <1>6

(* The order of what has been written does not change.                       *)
LEMMA OrderedGrows ==
  ASSUME AloneInv, partial \in Seq(Unit), WireShape, Tidy,
         Taken \in Seq(Nat), NEW n, Puts(n), partial' = partial
  PROVE  Ordered'
<1>1. PICK b \in Nat :
        /\ Len(Row) = b + written /\ Len(Row') = b + written + n
        /\ written' = written + n
        /\ \A i \in 1..Len(Row) : Row'[i] = Row[i]
        /\ \A i \in b + 1..b + written + n :
             Row'[i] = [packet |-> packet, offset |-> i - b - 1]
  BY RowGrows DEF Tidy
<1>2. written \in Nat /\ packet.size \in Nat /\ n \in Nat
      /\ written + n <= packet.size /\ packet' = packet /\ io /\ io' = io
  BY UnfinishedIs DEF Puts
<1>3. PICK w \in Nat, m \in Nat, z \in Nat : w = written /\ m = n /\ z = packet.size
  BY <1>2
<1>4. PICK t : t = Row'
  OBVIOUS
<1>5. /\ Len(Row) = b + w /\ Len(t) = b + w + m /\ w + m <= z
      /\ \A i \in 1..b + w : t[i] = Row[i]
      /\ \A i \in b + 1..b + w + m : t[i] = [packet |-> packet, offset |-> i - b - 1]
  BY <1>1, <1>2, <1>3, <1>4
<1>6. \A i \in 1..Len(t) : i \in 1..b + w \/ (i > b + w /\ i \in b + 1..b + w + m)
  BY <1>5
<1>7. ASSUME NEW i \in Complete', NEW j \in 1..Len(Row'), i < j,
             Row'[j].packet.type = "MESSAGE"
      PROVE  IndexAt(i)' < IndexAt(j)'
  <2>1. i # Len(Row')
    BY <1>4, <1>5, <1>7
  <2>2. i \in Complete /\ IndexAt(i)' = IndexAt(i)
    BY <2>1, CompleteGrows DEF Tidy
  <2>3. CASE j \in 1..b + w
    <3>1. t[j] = Row[j] /\ j \in 1..Len(Row)
      BY <1>5, <2>3
    <3>2. Row[j].packet.type = "MESSAGE"
      BY <1>4, <1>7, <3>1
    <3>3. IndexAt(i) < IndexAt(j)
      BY <1>7, <2>2, <3>1, <3>2 DEF Tidy, Ordered
    <3>4. IndexAt(j)' = IndexAt(j)
      BY <1>4, <3>1 DEF IndexAt
    <3>5. QED
      BY <2>2, <3>3, <3>4
  <2>4. CASE j \in b + 1..b + w + m
    <3>1. t[j] = [packet |-> packet, offset |-> j - b - 1]
      BY <1>5, <2>4
    <3>2. packet.type = "MESSAGE" /\ IndexAt(j)' = packet.msg.index
      BY <1>4, <1>7, <3>1 DEF IndexAt
    <3>3. IndexAt(i) < packet.msg.index
      BY <2>2, <3>2, NewerThanRow DEF Tidy
    <3>4. QED
      BY <2>2, <3>2, <3>3
  <2>5. QED
    BY <1>4, <1>6, <2>3, <2>4
<1>8. ASSUME NEW i \in 1..Len(Row'), Row'[i].packet.type = "BYE"
      PROVE  /\ \A j \in i..Len(Row') : Row'[j].packet.type = "BYE"
             /\ packet'.type = "BYE" \/ ~io'
             /\ Ends(i)' => \E k \in 1..Len(wire') : wire'[k].type = "BYE"
  <2>1. CASE i \in 1..b + w
    <3>1. t[i] = Row[i] /\ i \in 1..Len(Row)
      BY <1>5, <2>1
    <3>2. /\ \A j \in i..Len(Row) : Row[j].packet.type = "BYE"
          /\ packet.type = "BYE"
          /\ Ends(i) => \E k \in 1..Len(wire) : wire[k].type = "BYE"
      BY <1>2, <1>4, <1>8, <3>1 DEF Tidy, Ordered
    <3>3. ASSUME NEW j \in i..Len(t) PROVE t[j].packet.type = "BYE"
      <4>1. j \in i..b + w \/ j \in b + 1..b + w + m
        BY <1>5, <2>1
      <4>2. CASE j \in i..b + w
        <5>1. j \in 1..b + w /\ j \in i..Len(Row)
          BY <1>5, <2>1, <4>2
        <5>2. QED
          BY <1>5, <3>2, <5>1
      <4>3. CASE j \in b + 1..b + w + m
        <5>1. t[j] = [packet |-> packet, offset |-> j - b - 1]
          BY <1>5, <4>3
        <5>2. QED
          BY <3>2, <5>1
      <4>4. QED
        BY <4>1, <4>2, <4>3
    <3>4. Ends(i)' => Ends(i)
      BY <1>4, <3>1 DEF Ends
    <3>5. \A k \in 1..Len(wire) : k \in 1..Len(wire') /\ wire'[k] = wire[k]
      BY WireAfter
    <3>6. QED
      BY <1>2, <1>4, <3>2, <3>3, <3>4, <3>5
  <2>2. CASE i \in b + 1..b + w + m
    <3>1. t[i] = [packet |-> packet, offset |-> i - b - 1]
      BY <1>5, <2>2
    <3>2. packet.type = "BYE"
      BY <1>4, <1>8, <3>1
    <3>3. ASSUME NEW j \in i..Len(t) PROVE t[j].packet.type = "BYE"
      <4>1. j \in b + 1..b + w + m
        BY <1>5, <2>2
      <4>2. t[j] = [packet |-> packet, offset |-> j - b - 1]
        BY <1>5, <4>1
      <4>3. QED
        BY <3>2, <4>2
    <3>4. Ends(i)' => written' = packet.size
      <4>1. Ends(i)' => i - b - 1 = z - 1
        BY <1>3, <1>4, <3>1 DEF Ends
      <4>2. i - b - 1 = z - 1 => w + m = z
        BY <1>5, <2>2
      <4>3. QED
        BY <1>1, <1>3, <4>1, <4>2
    <3>5. Ends(i)' => \E k \in 1..Len(wire') : wire'[k].type = "BYE"
      BY <3>2, <3>4, WireAfter
    <3>6. QED
      BY <1>2, <1>4, <3>2, <3>3, <3>5
  <2>3. QED
    BY <1>4, <1>6, <2>1, <2>2
<1>9. QED
  BY <1>7, <1>8 DEF Ordered

(* A message is on the wire when its last unit is in the row.                *)
LEMMA MatchedGrows ==
  ASSUME AloneInv, partial \in Seq(Unit), WireShape, Tidy,
         Taken \in Seq(Nat), Len(Taken) <= MessagesOnWire,
         NEW n, Puts(n), UNCHANGED <<partial, Taken>>
  PROVE  Matched'
<1>1. /\ MessagesOnWire = Len(wire) /\ Len(wire) \in Nat
      /\ \A k \in 1..Len(wire) : wire'[k] = wire[k]
      /\ MessagesOnWire' = IF written' = packet.size /\ packet.type = "MESSAGE"
                           THEN Len(wire) + 1 ELSE Len(wire)
      /\ written' = packet.size /\ packet.type = "MESSAGE" =>
           wire'[Len(wire) + 1] = packet
  BY WireAfter
<1>2. /\ \A i \in Complete : i \in Complete' /\ IndexAt(i)' = IndexAt(i)
      /\ \A i \in Complete' : \/ i \in Complete /\ IndexAt(i)' = IndexAt(i)
                              \/ /\ IndexAt(i)' = packet.msg.index
                                 /\ written' = packet.size
                                 /\ packet.type = "MESSAGE"
      /\ written' = packet.size /\ packet.type = "MESSAGE" =>
           \E i \in Complete' : IndexAt(i)' = packet.msg.index
  <2>1. written' = packet.size /\ packet.type = "MESSAGE" =>
          Len(Row') \in Complete' /\ IndexAt(Len(Row))' = packet.msg.index
    BY CompleteGrows DEF Tidy
  <2>2. written' = packet.size /\ packet.type = "MESSAGE" =>
          \E i \in Complete' : IndexAt(i)' = packet.msg.index
    BY <2>1 DEF IndexAt
  <2>3. /\ \A i \in Complete : i \in Complete' /\ IndexAt(i)' = IndexAt(i)
        /\ \A i \in Complete' : \/ i \in Complete /\ IndexAt(i)' = IndexAt(i)
                                \/ /\ IndexAt(i)' = packet.msg.index
                                   /\ written' = packet.size
                                   /\ packet.type = "MESSAGE"
    BY CompleteGrows DEF Tidy
  <2>4. QED
    BY <2>2, <2>3
<1>3. PICK d \in Nat, l \in Nat : d = Len(Taken) /\ l = Len(wire) /\ d <= l
  BY <1>1
<1>4. \A k \in d + 1..l : k \in 1..l
  BY <1>3
<1>5. /\ \A k \in d + 1..l : \E i \in Complete : IndexAt(i) = wire[k].msg.index
      /\ \A i \in Complete : \E k \in d + 1..l : IndexAt(i) = wire[k].msg.index
  BY <1>1, <1>3 DEF Tidy, Matched
<1>6. /\ \A k \in d + 1..l : \E i \in Complete' : IndexAt(i)' = wire'[k].msg.index
      /\ \A i \in Complete' :
           \/ \E k \in d + 1..l : IndexAt(i)' = wire'[k].msg.index
           \/ /\ IndexAt(i)' = packet.msg.index
              /\ written' = packet.size /\ packet.type = "MESSAGE"
  <2>1. \A k \in d + 1..l : wire'[k].msg.index = wire[k].msg.index
    BY <1>1, <1>3, <1>4
  <2>2. ASSUME NEW k \in d + 1..l
        PROVE  \E i \in Complete' : IndexAt(i)' = wire'[k].msg.index
    <3>1. PICK i \in Complete : IndexAt(i) = wire[k].msg.index
      BY <1>5
    <3>2. i \in Complete' /\ IndexAt(i)' = IndexAt(i)
      BY <1>2
    <3>3. QED
      BY <2>1, <3>1, <3>2
  <2>3. ASSUME NEW i \in Complete'
        PROVE  \/ \E k \in d + 1..l : IndexAt(i)' = wire'[k].msg.index
               \/ /\ IndexAt(i)' = packet.msg.index
                  /\ written' = packet.size /\ packet.type = "MESSAGE"
    <3>1. CASE i \in Complete /\ IndexAt(i)' = IndexAt(i)
      BY <1>5, <2>1, <3>1
    <3>2. QED
      BY <1>2, <3>1
  <2>4. QED
    BY <2>2, <2>3
<1>7. CASE written' = packet.size /\ packet.type = "MESSAGE"
  <2>1. MessagesOnWire' = l + 1 /\ wire'[l + 1] = packet
    BY <1>1, <1>3, <1>7
  <2>2. /\ \A k \in d + 1..l + 1 : k \in d + 1..l \/ k = l + 1
        /\ \A k \in d + 1..l : k \in d + 1..l + 1
        /\ l + 1 \in d + 1..l + 1
    BY <1>3
  <2>3. \A k \in d + 1..l + 1 : \E i \in Complete' : IndexAt(i)' = wire'[k].msg.index
    BY <1>2, <1>6, <1>7, <2>1, <2>2
  <2>4. \A i \in Complete' : \E k \in d + 1..l + 1 : IndexAt(i)' = wire'[k].msg.index
    BY <1>6, <2>1, <2>2
  <2>5. QED
    BY <1>3, <2>1, <2>3, <2>4 DEF Matched
<1>8. CASE ~(written' = packet.size /\ packet.type = "MESSAGE")
  BY <1>1, <1>3, <1>6, <1>8 DEF Matched
<1>9. QED
  BY <1>7, <1>8

(* What the client is linked to stays regular while the sender writes.       *)
LEMMA LinkedGrows ==
  ASSUME AloneInv, R!TypeOK, Linked, NEW n, Puts(n), UNCHANGED receiver
  PROVE  Linked'
<1>1. /\ partial \in Seq(Unit) /\ Taken \in Seq(Nat)
      /\ UNCHANGED <<partial, Taken, message_received, last_message_index>>
      /\ WireShape /\ Received /\ Tidy /\ Len(Taken) <= MessagesOnWire
  BY ReceiverTyped, SameTaken DEF receiver, Linked, Received
<1>2. Tidy'
  BY <1>1, FramedGrows, CompleteGrows, OrderedGrows, MatchedGrows DEF Tidy
<1>3. /\ WireShape' /\ MessagesOnWire = Len(wire) /\ Len(wire) \in Nat
      /\ \A k \in 1..Len(wire) : wire'[k] = wire[k]
      /\ MessagesOnWire' \in {Len(wire), Len(wire) + 1}
  BY <1>1, WireAfter
<1>4. Len(Taken) <= MessagesOnWire' /\ Len(Taken) \in Nat
  BY <1>1, <1>3
<1>5. \A k \in 1..Len(Taken) : k \in 1..Len(wire)
  BY <1>1, <1>3, <1>4
<1>6. Received'
  BY <1>1, <1>3, <1>4, <1>5 DEF Received
<1>7. QED
  BY <1>2, <1>3, <1>6 DEF Linked

-----------------------------------------------------------------------------
(* The queue of LogDelivery                                                  *)

(* The parts it is made of.                                                  *)
InPacket == IF packet.type = "MESSAGE" /\ written < packet.size
            THEN <<current.index>> ELSE <<>>
Waiting == [i \in 1..Len(buffer) |-> buffer[i].index]

LEMMA InFlightIs ==
  ASSUME AloneInv, Taken \in Seq(Nat), Len(Taken) <= MessagesOnWire
  PROVE  /\ InFlight = Undelivered \o InPacket \o Waiting
         /\ Undelivered \in Seq(Nat) /\ InPacket \in Seq(Nat) /\ Waiting \in Seq(Nat)
         /\ Len(Undelivered) = MessagesOnWire - Len(Taken)
         /\ Len(Waiting) = Len(buffer)
<1>1. /\ wire \in Seq(Packet) /\ buffer \in Seq(Message) /\ current \in Message
      /\ Len(wire) \in Nat
  BY DEF AloneInv, IInv, TypeOK
<1>2. InFlight = Undelivered \o InPacket \o Waiting
  BY DEF InFlight, InPacket, Waiting
<1>3. MessagesOnWire \in 0..Len(wire)
  <2>1. wire # <<>> => Len(wire) > 0
    BY <1>1
  <2>2. QED
    BY <1>1, <2>1 DEF MessagesOnWire
<1>4. PICK d \in Nat, m \in Nat, l \in Nat :
        d = Len(Taken) /\ m = MessagesOnWire /\ l = Len(wire) /\ d <= m /\ m <= l
  <2>1. Len(Taken) \in Nat /\ MessagesOnWire \in Nat /\ MessagesOnWire <= Len(wire)
    BY <1>1, <1>3
  <2>2. QED
    BY <1>1, <2>1
<1>5. \A p \in Packet : p.msg.index \in Nat
  BY DEF Packet, Message
<1>6. \A k \in 1..m - d : d + k \in 1..l
  BY <1>4
<1>7. \A k \in 1..m - d : wire[d + k].msg.index \in Nat
  BY <1>1, <1>4, <1>5, <1>6
<1>8. m - d \in Nat
  BY <1>4
<1>9. Undelivered = [k \in 1..m - d |-> wire[d + k].msg.index]
  BY <1>4 DEF Undelivered
<1>10. Undelivered \in Seq(Nat) /\ Len(Undelivered) = m - d
  <2> DEFINE f(k) == wire[d + k].msg.index
  <2>1. \A k \in 1..m - d : f(k) \in Nat
    BY <1>7
  <2>2. Undelivered = [k \in 1..m - d |-> f(k)]
    BY <1>9
  <2> HIDE DEF f
  <2>3. QED
    BY <1>8, <2>1, <2>2
<1>11. InPacket \in Seq(Nat)
  <2>1. current.index \in Nat
    BY <1>1 DEF Message
  <2>2. QED
    BY <2>1 DEF InPacket
<1>12. Waiting \in Seq(Nat) /\ Len(Waiting) = Len(buffer)
  <2>1. \A k \in 1..Len(buffer) : buffer[k].index \in Nat
    <3>1. \A k \in 1..Len(buffer) : buffer[k] \in Message
      BY <1>1
    <3>2. QED
      BY <3>1 DEF Message
  <2>2. Len(buffer) \in Nat
    BY <1>1
  <2>3. QED
    BY <2>1, <2>2 DEF Waiting
<1>13. QED
  BY <1>2, <1>4, <1>10, <1>11, <1>12

LEMMA JoinRegroups ==
  \A s, t, u \in Seq(Nat) : (s \o t) \o u = s \o (t \o u)
<1> SUFFICES ASSUME NEW s \in Seq(Nat), NEW t \in Seq(Nat), NEW u \in Seq(Nat)
             PROVE  (s \o t) \o u = s \o (t \o u)
  OBVIOUS
<1>1. (s \o t) \o u \in Seq(Nat) /\ s \o (t \o u) \in Seq(Nat)
  OBVIOUS
<1>2. Len((s \o t) \o u) = Len(s \o (t \o u))
  OBVIOUS
<1>3. \A i \in 1..Len((s \o t) \o u) : ((s \o t) \o u)[i] = (s \o (t \o u))[i]
  OBVIOUS
<1>4. QED
  BY <1>1, <1>2, <1>3, SameSequence

LEMMA JoinEmpty ==
  ASSUME NEW S, NEW s \in Seq(S)
  PROVE  s \o <<>> = s /\ <<>> \o s = s
<1>1. s \o <<>> \in Seq(S) /\ <<>> \o s \in Seq(S)
  OBVIOUS
<1>2. QED
  BY <1>1, SameSequence

LEMMA AppendIs ==
  ASSUME NEW S, NEW s \in Seq(S), NEW e \in S
  PROVE  Append(s, e) = s \o <<e>>
<1>1. s \o <<e>> \in Seq(S) /\ Append(s, e) \in Seq(S)
  OBVIOUS
<1>2. QED
  BY <1>1, SameSequence

LEMMA HeadIs ==
  ASSUME NEW S, NEW s \in Seq(S), s # <<>>
  PROVE  /\ s = <<Head(s)>> \o Tail(s) /\ Head(s) = s[1] /\ Tail(s) \in Seq(S)
         /\ Len(s) \in Nat /\ Len(Tail(s)) = Len(s) - 1
         /\ \A i \in 1..Len(s) - 1 : Tail(s)[i] = s[i + 1]
<1>1. /\ <<Head(s)>> \o Tail(s) \in Seq(S) /\ Tail(s) \in Seq(S) /\ Head(s) = s[1]
      /\ Len(s) \in Nat /\ Len(Tail(s)) = Len(s) - 1
      /\ \A i \in 1..Len(s) - 1 : Tail(s)[i] = s[i + 1]
  OBVIOUS
<1>2. s = <<Head(s)>> \o Tail(s)
  BY <1>1, SameSequence
<1>3. QED
  BY <1>1, <1>2

LEMMA BeginningOf ==
  ASSUME NEW S, NEW s \in Seq(S), NEW t \in Seq(S), NEW n \in 0..Len(t)
  PROVE  /\ Len(s) + n \in 0..Len(s \o t)
         /\ SubSeq(s \o t, 1, Len(s) + n) = s \o SubSeq(t, 1, n)
<1>1. /\ s \o t \in Seq(S) /\ Len(s \o t) = Len(s) + Len(t) /\ Len(s) \in Nat
      /\ Len(t) \in Nat /\ n \in Nat
  OBVIOUS
<1>2. Len(s) + n \in 0..Len(s \o t)
  BY <1>1
<1>3. /\ SubSeq(s \o t, 1, Len(s) + n) \in Seq(S)
      /\ Len(SubSeq(s \o t, 1, Len(s) + n)) = Len(s) + n
      /\ SubSeq(t, 1, n) \in Seq(S) /\ Len(SubSeq(t, 1, n)) = n
  BY <1>1, <1>2
<1>4. /\ s \o SubSeq(t, 1, n) \in Seq(S)
      /\ Len(s \o SubSeq(t, 1, n)) = Len(s) + n
  BY <1>1, <1>3
<1>5. \A i \in 1..Len(s) + n :
        SubSeq(s \o t, 1, Len(s) + n)[i] = (s \o SubSeq(t, 1, n))[i]
  BY <1>1, <1>2, <1>3
<1>6. QED
  BY <1>2, <1>3, <1>4, <1>5, SameSequence

(* A write does not change what is in flight: when the last unit of a message *)
(* is in the pipe, the message is on the wire.                               *)
LEMMA PutsQueue ==
  ASSUME AloneInv, AloneInv', R!TypeOK, WireShape, Taken' = Taken,
         Len(Taken) <= MessagesOnWire, NEW n, Puts(n)
  PROVE  InFlight' = InFlight
<1>1. /\ Taken \in Seq(Nat) /\ Len(Taken) \in Nat /\ current.index \in Nat
      /\ packet' = packet /\ current' = current /\ buffer' = buffer
      /\ written < packet.size
      /\ packet.type = "MESSAGE" => packet.msg = current
  <2>1. Taken \in Seq(Nat) /\ Len(Taken) \in Nat
    BY ReceiverTyped
  <2>2. current.index \in Nat
    BY DEF AloneInv, IInv, TypeOK, Message
  <2>3. /\ packet' = packet /\ current' = current /\ buffer' = buffer
        /\ written < packet.size
    BY DEF Puts
  <2>4. packet.type = "MESSAGE" => packet.msg = current
    BY <2>3, UnfinishedIs
  <2>5. QED
    BY <2>1, <2>2, <2>3, <2>4
<1>2. /\ MessagesOnWire = Len(wire) /\ Len(wire) \in Nat
      /\ \A k \in 1..Len(wire) : wire'[k] = wire[k]
      /\ MessagesOnWire' =
           IF written' = packet.size /\ packet.type = "MESSAGE"
           THEN Len(wire) + 1 ELSE Len(wire)
      /\ written' = packet.size /\ packet.type = "MESSAGE" =>
           wire'[Len(wire) + 1] = packet
  BY WireAfter
<1>4. /\ InFlight = Undelivered \o InPacket \o Waiting
      /\ Undelivered \in Seq(Nat) /\ InPacket \in Seq(Nat) /\ Waiting \in Seq(Nat)
      /\ Len(Undelivered) = MessagesOnWire - Len(Taken)
  BY <1>1, InFlightIs
<1>5. InFlight' = Undelivered' \o InPacket' \o Waiting'
  BY DEF InFlight, InPacket, Waiting
<1>6. Waiting' = Waiting
  BY <1>1 DEF Waiting
<1>7. PICK d \in Nat, l \in Nat : d = Len(Taken) /\ l = Len(wire) /\ d <= l
  BY <1>1, <1>2
<1>8. \A k \in 1..l - d : d + k \in 1..l /\ k \in 1..l + 1 - d
  BY <1>7
<1>9. \A k \in 1..l - d : Undelivered[k] = wire[d + k].msg.index
  BY <1>2, <1>7 DEF Undelivered
<1>10. CASE written' = packet.size /\ packet.type = "MESSAGE"
  <2>1. MessagesOnWire' = l + 1 /\ wire'[l + 1].msg.index = current.index
    BY <1>1, <1>2, <1>7, <1>10
  <2>2. Undelivered' = [k \in 1..l + 1 - d |-> wire'[d + k].msg.index]
    BY <1>1, <1>7, <2>1 DEF Undelivered
  <2>3. l + 1 - d \in 1..l + 1 - d /\ d + (l + 1 - d) = l + 1
    BY <1>7
  <2>4. Undelivered'[l + 1 - d] = current.index
    BY <2>1, <2>2, <2>3
  <2>5. \A k \in 1..l - d : Undelivered'[k] = Undelivered[k]
    BY <1>2, <1>7, <1>8, <1>9, <2>2
  <2>6. InPacket = <<current.index>> /\ InPacket' = <<>>
    <3>1. ~(written' < packet.size)
      <4>1. packet.size \in Nat
        BY UnfinishedIs DEF Puts
      <4>2. QED
        BY <1>10, <4>1
    <3>2. QED
      BY <1>1, <1>10, <3>1 DEF InPacket
  <2>10. Undelivered' \in Seq(Nat) /\ Len(Undelivered') = l + 1 - d
    <3>1. \A k \in 1..l - d : Undelivered[k] \in Nat
      BY <1>2, <1>4, <1>7
    <3>2. \A k \in 1..l + 1 - d : k \in 1..l - d \/ k = l + 1 - d
      BY <1>7
    <3>3. \A k \in 1..l + 1 - d : Undelivered'[k] \in Nat
      BY <1>1, <2>4, <2>5, <3>1, <3>2
    <3>4. l + 1 - d \in Nat
      BY <1>7
    <3>5. \A k \in 1..l + 1 - d : wire'[d + k].msg.index \in Nat
      BY <2>2, <3>3
    <3> DEFINE f(k) == wire'[d + k].msg.index
    <3>6. Undelivered' = [k \in 1..l + 1 - d |-> f(k)]
      BY <2>2
    <3>7. \A k \in 1..l + 1 - d : f(k) \in Nat
      BY <3>5
    <3> HIDE DEF f
    <3>8. QED
      BY <3>4, <3>6, <3>7
  <2>7. Undelivered' = Undelivered \o <<current.index>>
    <3>1. Undelivered \o <<current.index>> \in Seq(Nat)
      BY <1>1, <1>4
    <3>2. /\ Len(Undelivered) = l - d /\ Len(Undelivered') = l + 1 - d
          /\ Len(Undelivered \o <<current.index>>) = l + 1 - d
      <4>1. Len(Undelivered) = l - d
        BY <1>2, <1>4, <1>7
      <4>2. Len(Undelivered \o <<current.index>>) = l + 1 - d
        <5>1. PICK u \in Seq(Nat), c \in Nat : u = Undelivered /\ c = current.index
          BY <1>1, <1>4
        <5>2. Len(u \o <<c>>) = Len(u) + 1
          OBVIOUS
        <5>3. QED
          BY <1>7, <4>1, <5>1, <5>2
      <4>3. QED
        BY <2>10, <4>1, <4>2
    <3>3. \A k \in 1..l + 1 - d : Undelivered'[k] = (Undelivered \o <<current.index>>)[k]
      <4>1. \A k \in 1..l + 1 - d : k \in 1..l - d \/ k = l + 1 - d
        BY <1>7
      <4>2. PICK u \in Seq(Nat), c \in Nat : u = Undelivered /\ c = current.index
        BY <1>1, <1>4
      <4>3. \A k \in 1..l - d : (u \o <<c>>)[k] = u[k]
        BY <3>2, <4>2
      <4>4. (u \o <<c>>)[l + 1 - d] = c
        <5>1. Len(u) = l - d /\ l - d \in Nat /\ l + 1 - d = Len(u) + 1
          BY <1>7, <3>2, <4>2
        <5>2. (u \o <<c>>)[Len(u) + 1] = c
          BY <4>2
        <5>3. QED
          BY <5>1, <5>2
      <4>5. QED
        BY <2>4, <2>5, <4>1, <4>2, <4>3, <4>4
    <3>4. QED
      BY <2>10, <3>1, <3>2, <3>3, SameSequence
  <2>8. Undelivered' \o InPacket' = Undelivered \o InPacket
    BY <2>6, <2>7, <2>10, JoinEmpty
  <2>9. QED
    BY <1>4, <1>5, <1>6, <2>8
<1>11. CASE ~(written' = packet.size /\ packet.type = "MESSAGE")
  <2>1. MessagesOnWire' = l
    BY <1>2, <1>7, <1>11
  <2>2. Undelivered' = [k \in 1..l - d |-> wire'[d + k].msg.index]
    BY <1>1, <1>7, <2>1 DEF Undelivered
  <2>3. Undelivered = [k \in 1..l - d |-> wire[d + k].msg.index]
    BY <1>2, <1>7 DEF Undelivered
  <2>4. \A k \in 1..l - d : wire'[d + k].msg.index = wire[d + k].msg.index
    BY <1>2, <1>7, <1>8
  <2>5. Undelivered' = Undelivered
    BY <2>2, <2>3, <2>4
  <2>6. InPacket' = InPacket
    <3>1. packet.type = "MESSAGE" => written' < packet.size
      <4>1. /\ packet.size \in Nat /\ written' \in Nat /\ packet' = packet
            /\ written' <= packet'.size
        BY <1>1, UnfinishedIs DEF Puts, AloneInv, IInv, TypeOK, Bounds
      <4>2. QED
        BY <1>11, <4>1
    <3>2. QED
      BY <1>1, <3>1 DEF InPacket
  <2>7. QED
    BY <1>4, <1>5, <1>6, <2>5, <2>6
<1>12. QED
  BY <1>10, <1>11

(* The next message goes from the queue to the packet.                       *)
LEMMA PicksQueue ==
  ASSUME AloneInv, R!TypeOK, AllWritten, buffer # <<>>,
         packet' = MessagePacket(Head(buffer)), written' = 0,
         current' = Head(buffer), buffer' = Tail(buffer),
         UNCHANGED <<wire, Taken>>,
         Len(Taken) <= MessagesOnWire
  PROVE  InFlight' = InFlight
<1>1. /\ buffer \in Seq(Message) /\ Taken \in Seq(Nat)
      /\ packet.size \in Nat /\ written \in Nat
  BY ReceiverTyped DEF AloneInv, IInv, TypeOK, Packet
<1>2. /\ Undelivered \in Seq(Nat) /\ InPacket \in Seq(Nat) /\ Waiting \in Seq(Nat)
      /\ InFlight = Undelivered \o InPacket \o Waiting /\ Len(Waiting) = Len(buffer)
  BY <1>1, InFlightIs
<1>3. InPacket = <<>>
  BY <1>1 DEF InPacket, AllWritten
<1>4. Head(buffer) \in Message
  BY <1>1
<1>5. InPacket' = <<Head(buffer).index>>
  <2>1. packet'.type = "MESSAGE" /\ 0 < packet'.size
    <3>1. /\ Head(buffer).length \in Nat
          /\ packet'.size = HeaderSize + (PrefixSize + Head(buffer).length)
      BY <1>4 DEF MessagePacket, Header, Message
    <3>2. QED
      BY <1>4, <3>1, PacketContents, ProtocolConstants
  <2>2. QED
    BY <2>1 DEF InPacket
<1>6. /\ Len(buffer) \in Nat /\ Len(buffer) > 0 /\ Len(buffer') = Len(buffer) - 1
      /\ Head(buffer) = buffer[1]
      /\ \A i \in 1..Len(buffer) - 1 : buffer'[i] = buffer[i + 1]
  BY <1>1
<1>7. Waiting # <<>> /\ Head(Waiting) = Head(buffer).index
  <2>1. Waiting # <<>>
    BY <1>2, <1>6
  <2>2. Head(Waiting) = Waiting[1]
    BY <1>2, <2>1
  <2>3. 1 \in 1..Len(buffer)
    BY <1>6
  <2>4. Waiting[1] = buffer[1].index
    BY <2>3 DEF Waiting
  <2>5. QED
    BY <1>6, <2>1, <2>2, <2>4
<1>8. Waiting = <<Head(buffer).index>> \o Tail(Waiting) /\ Tail(Waiting) \in Seq(Nat)
      /\ Len(Tail(Waiting)) = Len(buffer) - 1
      /\ \A i \in 1..Len(buffer) - 1 : Tail(Waiting)[i] = Waiting[i + 1]
  BY <1>2, <1>7, HeadIs
<1>9. Waiting' = Tail(Waiting)
  <2>1. Waiting' = [i \in 1..Len(buffer) - 1 |-> buffer'[i].index]
    BY <1>6 DEF Waiting
  <2>2. \A i \in 1..Len(buffer) - 1 : i + 1 \in 1..Len(buffer)
    BY <1>6
  <2>3. \A i \in 1..Len(buffer) - 1 : buffer'[i].index = Waiting[i + 1]
    BY <1>6, <2>2 DEF Waiting
  <2>4. \A i \in 1..Len(buffer) - 1 : Waiting'[i] = Tail(Waiting)[i]
    BY <1>8, <2>1, <2>3
  <2>5. Waiting' \in Seq(Nat) /\ Len(Waiting') = Len(buffer) - 1
    <3>1. \A i \in 1..Len(buffer) - 1 : buffer'[i].index \in Nat
      <4>1. \A i \in 1..Len(buffer) : buffer[i] \in Message
        BY <1>1
      <4>2. QED
        BY <1>6, <2>2, <4>1 DEF Message
    <3>2. Len(buffer) - 1 \in Nat
      BY <1>6
    <3>3. QED
      BY <2>1, <3>1, <3>2
  <2>6. QED
    BY <1>8, <2>4, <2>5, SameSequence
<1>10. Undelivered' = Undelivered
  BY DEF Undelivered, MessagesOnWire
<1>11. InFlight' = Undelivered' \o InPacket' \o Waiting'
  BY DEF InFlight, InPacket, Waiting
<1>12. /\ Undelivered \o <<>> = Undelivered
       /\ (Undelivered \o <<Head(buffer).index>>) \o Tail(Waiting)
            = Undelivered \o (<<Head(buffer).index>> \o Tail(Waiting))
  <2>1. <<Head(buffer).index>> \in Seq(Nat)
    BY <1>4 DEF Message
  <2>2. Undelivered \o <<>> = Undelivered
    BY <1>2, JoinEmpty
  <2>3. PICK u \in Seq(Nat), h \in Seq(Nat), t \in Seq(Nat) :
          u = Undelivered /\ h = <<Head(buffer).index>> /\ t = Tail(Waiting)
    BY <1>2, <1>8, <2>1
  <2>4. (u \o h) \o t = u \o (h \o t)
    <3>1. u \in Seq(Nat) /\ h \in Seq(Nat) /\ t \in Seq(Nat)
      OBVIOUS
    <3>2. QED
      BY <3>1, JoinRegroups
  <2>5. QED
    BY <2>2, <2>3, <2>4
<1>13. QED
  BY <1>2, <1>3, <1>5, <1>8, <1>9, <1>10, <1>11, <1>12

(* The packet changes, and neither was nor becomes an unfinished message.    *)
LEMMA OthersQueue ==
  ASSUME UNCHANGED <<wire, Taken, buffer>>,
         InPacket = <<>>, InPacket' = <<>>
  PROVE  InFlight' = InFlight
<1>1. Undelivered' = Undelivered /\ Waiting' = Waiting
  BY DEF Undelivered, MessagesOnWire, Waiting
<1>2. /\ InFlight = Undelivered \o InPacket \o Waiting
      /\ InFlight' = Undelivered' \o InPacket' \o Waiting'
  BY DEF InFlight, InPacket, Waiting
<1>3. QED
  BY <1>1, <1>2

(* A full queue always spares something.                                     *)
LEMMA SomeSpared ==
  ASSUME TypeOK, Limited, Len(buffer) > 0
  PROVE  Len(Spared) > 0
<1>1. buffer \in Seq(Message) /\ Len(buffer) \in Nat /\ backlog \in Int
  BY DEF TypeOK
<1>2. CASE CanPut(buffer)
  BY <1>2 DEF Spared
<1>3. CASE ~CanPut(buffer)
  <2>1. PICK l \in Nat : l = Len(buffer) /\ l > 0
    BY <1>1
  <2>2. l - l \div 2 \in 1..l
    BY <2>1
  <2>3. Spared = SubSeq(buffer, 1, l - l \div 2)
    BY <1>3, <2>1 DEF Spared
  <2>4. Len(Spared) = l - l \div 2
    BY <1>1, <2>1, <2>2, <2>3
  <2>5. QED
    BY <2>2, <2>4
<1>4. QED
  BY <1>2, <1>3

(* What waits after a message was put into the queue.                        *)
LEMMA WaitingGrows ==
  ASSUME AloneInv, Limited, NEW length \in Lengths, Accept(length), ~AllWritten,
         Waiting \in Seq(Nat), Len(Waiting) = Len(buffer)
  PROVE  /\ Len(Spared) \in 0..Len(Waiting)
         /\ Waiting' = Append(SubSeq(Waiting, 1, Len(Spared)), accepted + 1)
<1> DEFINE msg == [index |-> accepted + 1, length |-> length]
<1>1. /\ TypeOK /\ accepted \in Nat /\ msg \in Message /\ msg.index = accepted + 1
      /\ buffer' = Put(Spared, msg)
  BY SenderConstants DEF AloneInv, IInv, TypeOK, Accept, Message
<1> HIDE DEF msg
<1>2. buffer' = Append(Spared, msg) /\ Spared \in Seq(Message)
  BY <1>1, SparedHasRoom DEF Put
<1>3. /\ Len(Spared) \in 0..Len(buffer) /\ Len(buffer) \in Nat /\ Len(Spared) \in Nat
      /\ \A k \in 1..Len(Spared) : Spared[k] = buffer[k]
  <2>1. /\ Len(Spared) \in 0..Len(buffer)
        /\ \A k \in 1..Len(Spared) : Spared[k] = buffer[k]
    BY <1>1, SparedPrefix
  <2>2. Len(buffer) \in Nat
    BY <1>1 DEF TypeOK
  <2>3. QED
    BY <2>1, <2>2
<1>4. PICK n \in Nat, l \in Nat : n = Len(Spared) /\ l = Len(buffer) /\ n \in 0..l
  BY <1>3
<1>5. /\ Len(buffer') = n + 1 /\ buffer'[n + 1] = msg
      /\ \A k \in 1..n : buffer'[k] = Spared[k]
  BY <1>2, <1>4
<1>6. Waiting' = [k \in 1..n + 1 |-> buffer'[k].index]
  BY <1>5 DEF Waiting
<1>7. \A k \in 1..n : k \in 1..l
  BY <1>4
<1>8. \A k \in 1..n : buffer'[k].index = Waiting[k]
  BY <1>3, <1>4, <1>5, <1>7 DEF Waiting
<1>9. PICK w \in Seq(Nat), a \in Nat : w = Waiting /\ a = accepted + 1
  BY <1>1
<1>10. /\ SubSeq(w, 1, n) \in Seq(Nat) /\ Len(SubSeq(w, 1, n)) = n
       /\ \A k \in 1..n : SubSeq(w, 1, n)[k] = w[k]
  BY <1>4, <1>9
<1>11. PICK v \in Seq(Nat) : v = SubSeq(w, 1, n) /\ Len(v) = n /\ \A k \in 1..n : v[k] = w[k]
  BY <1>10
<1>12. /\ Append(v, a) \in Seq(Nat) /\ Len(Append(v, a)) = n + 1
       /\ Append(v, a)[n + 1] = a /\ \A k \in 1..n : Append(v, a)[k] = w[k]
  BY <1>11
<1>13. \A k \in 1..n + 1 : k \in 1..n \/ k = n + 1
  OBVIOUS
<1>14. n + 1 \in 1..n + 1 /\ \A k \in 1..n : k \in 1..n + 1
  OBVIOUS
<1>15. \A k \in 1..n + 1 : buffer'[k].index = Append(v, a)[k]
  BY <1>1, <1>5, <1>8, <1>9, <1>12, <1>13
<1>16. \A k \in 1..n + 1 : Waiting'[k] = Append(v, a)[k]
  BY <1>6, <1>15
<1>17. Waiting' \in Seq(Nat) /\ Len(Waiting') = n + 1
  <2>1. \A k \in 1..n + 1 : Append(v, a)[k] \in Nat
    BY <1>12
  <2>2. \A k \in 1..n + 1 : buffer'[k].index \in Nat
    BY <1>15, <2>1
  <2> DEFINE f(k) == buffer'[k].index
  <2>3. Waiting' = [k \in 1..n + 1 |-> f(k)] /\ \A k \in 1..n + 1 : f(k) \in Nat
    BY <1>6, <2>2
  <2> HIDE DEF f
  <2>4. QED
    BY <2>3
<1>18. Waiting' = Append(v, a)
  BY <1>12, <1>16, <1>17, SameSequence
<1>19. QED
  BY <1>4, <1>9, <1>11, <1>18

(* A message which is accepted comes last, and what was given up for it was  *)
(* not the first in flight.                                                  *)
LEMMA AcceptQueue ==
  ASSUME AloneInv, Limited, R!TypeOK, io, IsIdle, NEW length \in Lengths,
         Accept(length), Taken' = Taken, Len(Taken) <= MessagesOnWire
  PROVE  \E kept \in 0..Len(InFlight) :
           /\ InFlight # <<>> => kept > 0
           /\ InFlight' = Append(SubSeq(InFlight, 1, kept), accepted + 1)
<1>1. /\ TypeOK /\ buffer \in Seq(Message) /\ Taken \in Seq(Nat) /\ accepted \in Nat
      /\ wire' = wire
  BY ReceiverTyped DEF AloneInv, IInv, TypeOK, Accept
<1>2. /\ InFlight = (Undelivered \o InPacket) \o Waiting
      /\ Undelivered \in Seq(Nat) /\ InPacket \in Seq(Nat) /\ Waiting \in Seq(Nat)
      /\ Len(Waiting) = Len(buffer)
  BY <1>1, InFlightIs
<1>3. InFlight' = (Undelivered' \o InPacket') \o Waiting'
  BY DEF InFlight, InPacket, Waiting
<1>4. Undelivered' = Undelivered
  BY <1>1 DEF Undelivered, MessagesOnWire
<1>5. PICK u \in Seq(Nat), c \in Seq(Nat), w \in Seq(Nat), a \in Nat :
        u = Undelivered /\ c = InPacket /\ w = Waiting /\ a = accepted + 1
  BY <1>1, <1>2
<1>6. CASE AllWritten
  <2>1. buffer = <<>> /\ buffer' = buffer
    BY <1>6 DEF AloneInv, Control, OneWriter, Writes, IsIdle, Accept
  <2>2. c = <<>>
    <3>1. packet.size \in Nat /\ written \in Nat
      BY <1>1 DEF TypeOK, Packet
    <3>2. QED
      BY <1>5, <1>6, <3>1 DEF AllWritten, InPacket
  <2>3. w = <<>> /\ Waiting' = <<>>
    <3>1. Len(buffer) = 0
      BY <2>1
    <3>2. w = <<>>
      BY <1>2, <1>5, <3>1
    <3>3. QED
      BY <1>5, <2>1, <3>2 DEF Waiting
  <2>4. InPacket' = <<a>>
    <3> DEFINE msg == [index |-> accepted + 1, length |-> length]
    <3>1. /\ msg \in Message /\ msg.index = a /\ msg.length \in Nat
          /\ current' = msg /\ packet' = MessagePacket(msg) /\ written' = 0
      BY <1>1, <1>5, <1>6, SenderConstants DEF Accept, Message
    <3> HIDE DEF msg
    <3>2. packet'.type = "MESSAGE" /\ packet'.size = HeaderSize + (PrefixSize + msg.length)
      BY <3>1, PacketContents DEF MessagePacket, Header
    <3>3. 0 < packet'.size
      BY <3>1, <3>2, ProtocolConstants
    <3>4. QED
      BY <3>1, <3>2, <3>3 DEF InPacket
  <2>5. InFlight = u
    <3>1. u \o <<>> = u
      BY JoinEmpty
    <3>2. QED
      BY <1>2, <1>5, <2>2, <2>3, <3>1
  <2>6. InFlight' = Append(u, a)
    <3>1. u \o <<a>> = Append(u, a) /\ u \o <<a>> \in Seq(Nat)
      BY AppendIs
    <3>2. (u \o <<a>>) \o <<>> = u \o <<a>>
      BY <3>1, JoinEmpty
    <3>3. QED
      BY <1>3, <1>4, <1>5, <2>3, <2>4, <3>1, <3>2
  <2>7. SubSeq(u, 1, Len(u)) = u /\ Len(u) \in 0..Len(u) /\ (u # <<>> => Len(u) > 0)
    <3>1. Len(u) \in Nat /\ SubSeq(u, 1, Len(u)) \in Seq(Nat)
      OBVIOUS
    <3>2. Len(SubSeq(u, 1, Len(u))) = Len(u)
      OBVIOUS
    <3>3. \A k \in 1..Len(u) : SubSeq(u, 1, Len(u))[k] = u[k]
      OBVIOUS
    <3>4. SubSeq(u, 1, Len(u)) = u
      BY <3>1, <3>2, <3>3, SameSequence
    <3>5. QED
      BY <3>1, <3>4
  <2>8. QED
    BY <1>5, <2>5, <2>6, <2>7
<1>7. CASE ~AllWritten
  <2>1. InPacket' = c
    BY <1>5, <1>7 DEF Accept, InPacket
  <2>2. PICK n \in 0..Len(w) : n = Len(Spared) /\ Waiting' = Append(SubSeq(w, 1, n), a)
    BY <1>2, <1>5, <1>7, WaitingGrows
  <2>3. PICK s \in Seq(Nat) : s = u \o c
    <3>1. u \o c \in Seq(Nat)
      OBVIOUS
    <3>2. QED
      BY <3>1, Zenon
  <2>4. InFlight = s \o w
    BY <1>2, <1>5, <2>3
  <2>5. /\ Len(s) + n \in 0..Len(s \o w)
        /\ SubSeq(s \o w, 1, Len(s) + n) = s \o SubSeq(w, 1, n)
    BY BeginningOf
  <2>6. PICK v \in Seq(Nat) : v = SubSeq(w, 1, n)
    <3>1. SubSeq(w, 1, n) \in Seq(Nat)
      OBVIOUS
    <3>2. QED
      BY <3>1, Zenon
  <2>7. InFlight' = s \o (v \o <<a>>)
    <3>1. Append(v, a) = v \o <<a>>
      BY AppendIs
    <3>2. QED
      BY <1>3, <1>4, <1>5, <2>1, <2>2, <2>3, <2>6, <3>1
  <2>8. s \o (v \o <<a>>) = Append(s \o v, a)
    <3>1. <<a>> \in Seq(Nat) /\ s \o v \in Seq(Nat)
      OBVIOUS
    <3>2. (s \o v) \o <<a>> = s \o (v \o <<a>>)
      BY <3>1, JoinRegroups
    <3>3. Append(s \o v, a) = (s \o v) \o <<a>>
      BY <3>1, AppendIs
    <3>4. QED
      BY <3>2, <3>3
  <2>9. s \o w # <<>> => Len(s) + n > 0
    <3>1. Len(s) \in Nat /\ Len(w) \in Nat /\ Len(s \o w) = Len(s) + Len(w)
      OBVIOUS
    <3>2. Len(w) > 0 => n > 0
      BY <1>1, <1>2, <1>5, <2>2, SomeSpared
    <3>3. s \o w # <<>> => Len(s \o w) > 0
      OBVIOUS
    <3>4. QED
      BY <3>1, <3>2, <3>3
  <2>10. QED
    BY <1>5, <2>4, <2>5, <2>6, <2>7, <2>8, <2>9
<1>8. QED
  BY <1>6, <1>7

(* The first one in flight is taken.                                         *)
LEMMA ArriveQueue ==
  ASSUME AloneInv, R!TypeOK, UNCHANGED <<packet, written, current, buffer, wire>>,
         Len(Taken) + 1 \in 1..MessagesOnWire,
         NEW m \in Nat, Taken' = Append(Taken, m)
  PROVE  /\ InFlight # <<>>
         /\ Head(InFlight) = wire[Len(Taken) + 1].msg.index
         /\ InFlight' = Tail(InFlight)
<1>1. /\ Taken \in Seq(Nat) /\ Len(Taken) \in Nat /\ wire \in Seq(Packet)
      /\ Len(Taken) <= MessagesOnWire /\ Len(Taken') = Len(Taken) + 1
  <2>1. wire \in Seq(Packet)
    BY DEF AloneInv, IInv, TypeOK
  <2>2. Taken \in Seq(Nat)
    BY ReceiverTyped
  <2>3. Len(wire) \in Nat /\ (wire # <<>> => Len(wire) > 0)
    BY <2>1
  <2>4. MessagesOnWire \in Nat
    BY <2>3 DEF MessagesOnWire
  <2>5. Len(Taken) \in Nat /\ Len(Taken') = Len(Taken) + 1
    BY <2>2
  <2>6. QED
    BY <2>1, <2>2, <2>4, <2>5
<1>2. /\ InFlight = (Undelivered \o InPacket) \o Waiting
      /\ Undelivered \in Seq(Nat) /\ InPacket \in Seq(Nat) /\ Waiting \in Seq(Nat)
  BY <1>1, InFlightIs
<1>3. InFlight' = (Undelivered' \o InPacket) \o Waiting
  BY DEF InFlight, InPacket, Waiting
<1>4. MessagesOnWire' = MessagesOnWire /\ MessagesOnWire \in Nat
  <2>1. Len(wire) \in Nat /\ (wire # <<>> => Len(wire) > 0)
    BY <1>1
  <2>2. QED
    BY <2>1 DEF MessagesOnWire
<1>5. PICK d \in Nat, n \in Nat : d = Len(Taken) /\ n = MessagesOnWire /\ d + 1 <= n
  BY <1>1, <1>4
<1>6. /\ Undelivered = [k \in 1..n - d |-> wire[d + k].msg.index]
      /\ Undelivered' = [k \in 1..n - (d + 1) |-> wire[d + 1 + k].msg.index]
  BY <1>1, <1>4, <1>5 DEF Undelivered
<1>7. PICK u \in Seq(Nat), c \in Seq(Nat), w \in Seq(Nat) :
        u = Undelivered /\ c = InPacket /\ w = Waiting
  BY <1>2
<1>8. n - d \in Nat /\ n - d > 0
  BY <1>5
<1>9. Len(u) = n - d
  BY <1>1, <1>5, <1>7, InFlightIs
<1>10. u # <<>> /\ u[1] = wire[d + 1].msg.index
  <2>1. 1 \in 1..n - d
    BY <1>8
  <2>2. u[1] = wire[d + 1].msg.index
    BY <1>6, <1>7, <2>1
  <2>3. QED
    BY <1>8, <1>9, <2>2
<1>11. /\ u = <<Head(u)>> \o Tail(u) /\ Head(u) = u[1] /\ Tail(u) \in Seq(Nat)
       /\ Len(Tail(u)) = n - d - 1
       /\ \A i \in 1..n - d - 1 : Tail(u)[i] = u[i + 1]
  BY <1>9, <1>10, HeadIs
<1>12. Undelivered' = Tail(u)
  <2>1. \A k \in 1..n - d - 1 : k + 1 \in 1..n - d /\ d + (k + 1) = d + 1 + k
    BY <1>5
  <2>2. \A k \in 1..n - d - 1 : Tail(u)[k] = wire[d + 1 + k].msg.index
    BY <1>6, <1>7, <1>11, <2>1
  <2>3. n - (d + 1) = n - d - 1 /\ n - d - 1 \in Nat
    BY <1>5
  <2>4. PICK t \in Seq(Nat) : t = Tail(u)
    BY <1>11
  <2>5. \A k \in 1..n - d - 1 : t[k] \in Nat
    BY <1>11, <2>4
  <2> DEFINE f(k) == wire[d + 1 + k].msg.index
  <2>6. \A k \in 1..n - d - 1 : f(k) = t[k] /\ f(k) \in Nat
    BY <2>2, <2>4, <2>5
  <2>7. Undelivered' = [k \in 1..n - d - 1 |-> f(k)]
    BY <1>6, <2>3
  <2> HIDE DEF f
  <2>8. Undelivered' \in Seq(Nat) /\ Len(Undelivered') = n - d - 1
        /\ \A k \in 1..n - d - 1 : Undelivered'[k] = t[k]
    BY <2>3, <2>6, <2>7
  <2>9. QED
    BY <1>11, <2>4, <2>8, SameSequence
<1>13. PICK h \in Nat, t \in Seq(Nat) : h = Head(u) /\ t = Tail(u) /\ u = <<h>> \o t
  <2>1. u[1] \in Nat
    BY <1>8, <1>9
  <2>2. QED
    BY <1>11, <2>1
<1>14. InFlight = <<h>> \o ((t \o c) \o w)
  <2>1. PICK x \in Seq(Nat), y \in Seq(Nat) : x = <<h>> /\ y = t \o c
    <3>1. <<h>> \in Seq(Nat) /\ t \o c \in Seq(Nat)
      OBVIOUS
    <3>2. QED
      BY <3>1, Zenon
  <2>2. (x \o t) \o c = x \o (t \o c)
    BY JoinRegroups
  <2>3. (x \o y) \o w = x \o (y \o w)
    BY JoinRegroups
  <2>4. QED
    BY <1>2, <1>7, <1>13, <2>1, <2>2, <2>3
<1>15. PICK r \in Seq(Nat) : r = (t \o c) \o w
  <2>1. t \o c \in Seq(Nat)
    OBVIOUS
  <2>2. (t \o c) \o w \in Seq(Nat)
    BY <2>1
  <2>3. QED
    BY <2>2, Zenon
<1>16. <<h>> \o r # <<>> /\ Head(<<h>> \o r) = h /\ Tail(<<h>> \o r) = r
  <2>1. /\ <<h>> \o r \in Seq(Nat) /\ Len(<<h>> \o r) = Len(r) + 1 /\ Len(r) \in Nat
        /\ (<<h>> \o r)[1] = h
        /\ \A i \in 1..Len(r) : (<<h>> \o r)[i + 1] = r[i]
    OBVIOUS
  <2>2. <<h>> \o r # <<>>
    BY <2>1
  <2>3. /\ Tail(<<h>> \o r) \in Seq(Nat) /\ Len(Tail(<<h>> \o r)) = Len(r)
        /\ Head(<<h>> \o r) = h
        /\ \A i \in 1..Len(r) : Tail(<<h>> \o r)[i] = (<<h>> \o r)[i + 1]
    BY <2>1, <2>2
  <2>4. QED
    BY <2>1, <2>2, <2>3, SameSequence
<1>17. QED
  BY <1>3, <1>5, <1>7, <1>10, <1>11, <1>12, <1>13, <1>14, <1>15, <1>16

-----------------------------------------------------------------------------
(* What the sender does while the client holds the pipe open                 *)

Outside == <<pipe, wire, accepted>>

(* Nothing the client could notice.                                          *)
Rests == UNCHANGED <<Outside, packet, written, current, buffer, io>>

(* The next message is picked.                                               *)
Picks ==
  /\ AllWritten /\ buffer # <<>> /\ io /\ packet.type # "BYE"
  /\ packet' = MessagePacket(Head(buffer)) /\ written' = 0
  /\ current' = Head(buffer) /\ buffer' = Tail(buffer)
  /\ UNCHANGED <<Outside, io>>

(* A ping, Bye or nothing takes the place of a packet which has been written *)
(* or not been begun, and no message is cut.                                 *)
TurnsOver ==
  /\ Begun = 0 /\ written' = 0 /\ packet'.type # "MESSAGE" /\ InPacket = <<>>
  /\ packet.type = "BYE" \/ ~io => packet'.type = "BYE" \/ ~io'
  /\ UNCHANGED <<Outside, buffer>>

LEMMA FixedSteps ==
  ASSUME AloneInv, readers # {}, WriteFixed
  PROVE  (Rests \/ \E n \in Nat : Puts(n)) /\ readers' = readers
<1>1. /\ TypeOK /\ packet \in Packet /\ written \in Nat /\ packet.fixed <= packet.size
      /\ packet.fixed \in Nat /\ packet.size \in Nat /\ io
  BY DEF AloneInv, IInv, TypeOK, Bounds, Watched, Writes, Packet, WriteFixed
<1>2. CASE UNCHANGED <<object, readers, pipe, history>>
  BY <1>2 DEF Rests, Outside, object, history
<1>3. CASE /\ written < packet.size /\ written < packet.fixed
           /\ Hand(Units(packet, written, Fitting(packet.fixed - written)))
           /\ UNCHANGED <<done, io, buffer, packet, current, readers, accepted, dropped>>
  <2>1. packet.fixed - written \in Nat
    BY <1>1, <1>3
  <2>2. PICK k \in Nat : k = packet.fixed - written
    BY <2>1
  <2>3. Fitting(k) \in 0..k
    BY <1>1, FittingBounded
  <2>4. PICK n \in Nat : n = Fitting(k) /\ n <= k
    BY <2>3
  <2>5. written + n <= packet.size
    BY <1>1, <1>3, <2>2, <2>4
  <2>6. Puts(n)
    BY <1>1, <1>3, <2>2, <2>4, <2>5 DEF Puts
  <2>7. QED
    BY <1>3, <2>6
<1>4. QED
  BY <1>2, <1>3 DEF WriteFixed

LEMMA DataSteps ==
  ASSUME AloneInv, readers # {}, WriteData
  PROVE  (Rests \/ \E n \in Nat : Puts(n)) /\ readers' = readers
<1>1. /\ TypeOK /\ packet \in Packet /\ written \in Nat /\ packet.fixed <= written
      /\ packet.fixed \in Nat /\ packet.size \in Nat /\ io
  BY DEF AloneInv, IInv, TypeOK, Control, Steps, Watched, Writes, Packet, WriteData
<1>2. CASE UNCHANGED <<object, readers, pipe, history>>
  BY <1>2 DEF Rests, Outside, object, history
<1>3. CASE /\ written < packet.size
           /\ Hand(Units(packet, written, Fitting(packet.size - written)))
           /\ UNCHANGED <<done, io, buffer, packet, current, readers, accepted, dropped>>
  <2>1. packet.size - written \in Nat
    BY <1>1, <1>3
  <2>2. PICK k \in Nat : k = packet.size - written
    BY <2>1
  <2>3. Fitting(k) \in 0..k
    BY <1>1, FittingBounded
  <2>4. PICK n \in Nat : n = Fitting(k) /\ n <= k
    BY <2>3
  <2>5. written + n <= packet.size
    BY <1>1, <1>3, <2>2, <2>4
  <2>6. Puts(n)
    BY <1>1, <1>3, <2>2, <2>4, <2>5 DEF Puts
  <2>7. QED
    BY <1>3, <2>6
<1>4. ~(written < packet.fixed)
  BY <1>1
<1>5. QED
  BY <1>2, <1>3, <1>4 DEF WriteData

LEMMA PickSteps ==
  ASSUME AloneInv, PickNext
  PROVE  Rests \/ Picks \/ TurnsOver
<1>1. /\ AllWritten /\ io /\ buffer \in Seq(Message) /\ written \in Nat
      /\ packet.size \in Nat
      /\ packet.type = "BYE" => buffer = <<>> /\ done
  BY DEF AloneInv, IInv, TypeOK, Packet, Control, Steps, Watched, Writes, ByeState, PickNext
<1>2. Begun = 0 /\ InPacket = <<>>
  BY <1>1 DEF Begun, AllWritten, InPacket
<1>3. UNCHANGED Outside
  BY DEF PickNext, Outside, history
<1>4. CASE /\ buffer # <<>> /\ current' = Head(buffer) /\ buffer' = Tail(buffer)
           /\ packet' = MessagePacket(Head(buffer)) /\ written' = 0 /\ WriteNext
  BY <1>1, <1>3, <1>4 DEF Picks, WriteNext
<1>5. CASE packet' = ByePacket /\ written' = 0 /\ WriteNext /\ UNCHANGED buffer
  <2>1. packet'.type = "BYE"
    BY <1>5, PacketContents
  <2>2. QED
    BY <1>2, <1>3, <1>5, <2>1 DEF TurnsOver
<1>6. CASE /\ IF done THEN Shutdown
              ELSE /\ packet' = NoPacket /\ written' = 0
                   /\ UNCHANGED <<done, bye, io, readers>>
           /\ UNCHANGED buffer
  <2>1. packet'.type = "NONE" /\ written' = 0 /\ (~done \/ ~io')
    BY <1>6, PacketContents DEF Shutdown
  <2>2. QED
    BY <1>1, <1>2, <1>3, <1>6, <2>1 DEF TurnsOver
<1>7. QED
  BY <1>4, <1>5, <1>6 DEF PickNext

LEMMA PingSteps ==
  ASSUME AloneInv, PingsWhole, PingFill
  PROVE  TurnsOver
<1>1. /\ ~done /\ io /\ NothingIsPending /\ written \in Nat /\ packet.size \in Nat
      /\ packet.type = "BYE" => done
  BY DEF AloneInv, IInv, TypeOK, Packet, Control, Steps, Finality, ByeState, PingFill
<1>2. packet \in {NoPacket, PingPacket, ByePacket}
  BY <1>1 DEF AloneInv, Messages, Contents, NothingIsPending
<1>3. InPacket = <<>>
  BY <1>2, PacketContents DEF InPacket
<1>4. Begun = 0
  <2>1. CASE packet = NoPacket
    <3>1. written = 0
      BY <1>1, <2>1, PacketContents DEF AloneInv, IInv, Bounds
    <3>2. QED
      BY <3>1 DEF Begun
  <2>2. CASE packet = PingPacket
    BY <2>2, PacketContents DEF PingsWhole, Begun, AllWritten
  <2>3. QED
    BY <1>1, <1>2, <2>1, <2>2, PacketContents
<1>5. packet'.type = "PING" /\ written' = 0 /\ UNCHANGED <<Outside, buffer>>
  BY PacketContents DEF PingFill, Outside, history
<1>6. QED
  BY <1>1, <1>3, <1>4, <1>5 DEF TurnsOver

LEMMA CloseSteps ==
  ASSUME AloneInv, Close
  PROVE  Rests \/ TurnsOver
<1>1. UNCHANGED <<Outside, buffer, current, io>>
  BY DEF Close, Outside, history
<1>2. CASE AllWritten /\ packet' = ByePacket /\ written' = 0
  <2>1. packet'.type = "BYE"
    BY <1>2, PacketContents
  <2>2. Begun = 0
    BY <1>2 DEF Begun
  <2>3. InPacket = <<>>
    <3>1. written \in Nat /\ packet.size \in Nat
      BY DEF AloneInv, IInv, TypeOK, Packet
    <3>2. QED
      BY <1>2, <3>1 DEF AllWritten, InPacket
  <2>4. QED
    BY <1>1, <1>2, <2>1, <2>2, <2>3 DEF TurnsOver
<1>3. CASE UNCHANGED <<packet, written>>
  BY <1>1, <1>3 DEF Rests
<1>4. QED
  BY <1>2, <1>3 DEF Close

LEMMA SenderSteps ==
  ASSUME Threads = {}, Roomy, AloneInv, PingsWhole, "client" \in readers, SenderNext
  PROVE  /\ \/ Rests \/ Picks \/ TurnsOver \/ \E n \in Nat : Puts(n)
            \/ \E length \in Lengths : Accept(length) /\ IsIdle
         /\ "client" \in readers'
<1>0. readers # {}
  OBVIOUS
<1>1. CASE WriteCallback
  BY <1>1 DEF WriteCallback, Rests, Outside, object, history
<1>2. ~WriteCallbackHup
  BY <1>0 DEF WriteCallbackHup, IsIdle, AloneInv, Control, OneWriter, Writes
<1>3. ~RunInvoke
  BY DEF RunInvoke, AloneInv, Control, OneWriter
<1>4. CASE WriteFixed
  BY <1>0, <1>4, FixedSteps
<1>5. CASE WriteData
  BY <1>0, <1>5, DataSteps
<1>6. CASE PickNext
  <2>1. "client" \in readers'
    BY <1>6 DEF PickNext, WriteNext, Shutdown
  <2>2. QED
    BY <1>6, <2>1, PickSteps
<1>7. CASE PingFill
  <2>1. "client" \in readers'
    BY <1>7 DEF PingFill
  <2>2. QED
    BY <1>7, <2>1, PingSteps
<1>8. ASSUME NEW length \in Lengths, MainSend(length)
      PROVE  Accept(length) /\ IsIdle /\ "client" \in readers'
  BY <1>8 DEF MainSend, Accept
<1>9. CASE PingCheck
  BY <1>9 DEF PingCheck, Rests, Outside, object, history
<1>10. CASE Close
  <2>1. "client" \in readers'
    BY <1>10 DEF Close
  <2>2. QED
    BY <1>10, <2>1, CloseSteps
<1>11. ~Dispose /\ Backlogs = {}
  BY DEF Dispose, Roomy
<1>12. QED
  BY <1>1, <1>2, <1>3, <1>4, <1>5, <1>6, <1>7, <1>8, <1>9, <1>10, <1>11
     DEF SenderNext, MainLoop, Writing

(* The row does not change while nothing is written.                         *)
LEMMA TidySame ==
  ASSUME Tidy, Row' = Row, UNCHANGED <<wire, Taken, packet, written, io>>
  PROVE  Tidy'
<1>1. Row' = Row /\ Begun' = Begun
  BY DEF Begun, AllWritten
<1>2. Framed'
  BY <1>1 DEF Tidy, Framed
<1>3. Growing'
  BY <1>1 DEF Tidy, Growing, Ends
<1>4. Complete' = Complete /\ \A i : IndexAt(i)' = IndexAt(i)
  BY <1>1 DEF Complete, Ends, IndexAt
<1>5. Ordered'
  BY <1>1, <1>4 DEF Tidy, Ordered, Ends
<1>6. Matched'
  BY <1>4 DEF Tidy, Matched, MessagesOnWire
<1>7. QED
  BY <1>2, <1>3, <1>5, <1>6 DEF Tidy

LEMMA AcceptTidy ==
  ASSUME AloneInv, Tidy, NEW length \in Lengths, Accept(length),
         UNCHANGED <<partial, Taken>>
  PROVE  Tidy'
<1>1. /\ io /\ io' = io /\ packet.type # "BYE" /\ UNCHANGED <<pipe, wire>>
  BY DEF AloneInv, IInv, Finality, ByeState, Accept
<1>2. CASE AllWritten
  <2>1. Begun = 0 /\ Begun' = 0
    BY <1>2 DEF Accept, Begun
  <2>2. QED
    BY <1>1, <2>1, TidyKept
<1>3. CASE ~AllWritten
  BY <1>1, <1>3, TidySame DEF Accept, Row
<1>4. QED
  BY <1>2, <1>3

LEMMA SenderLinked ==
  ASSUME Threads = {}, Roomy, SenderInv, R!TypeOK, "client" \in readers, Linked,
         SenderNext, UNCHANGED receiver
  PROVE  Linked' /\ "client" \in readers'
<1>1. /\ AloneInv /\ PingsWhole /\ Tidy /\ WireShape /\ Received
      /\ UNCHANGED <<partial, Taken, message_received, last_message_index>>
  BY SameTaken DEF SenderInv, Linked, receiver
<1>2. /\ \/ Rests \/ Picks \/ TurnsOver \/ \E n \in Nat : Puts(n)
         \/ \E length \in Lengths : Accept(length) /\ IsIdle
      /\ "client" \in readers'
  BY <1>1, SenderSteps
<1>3. CASE UNCHANGED wire /\ Tidy'
  <2>1. WireShape'
    BY <1>1, <1>3 DEF WireShape
  <2>2. MessagesOnWire' = MessagesOnWire
    BY <1>3 DEF MessagesOnWire
  <2>3. Received'
    BY <1>1, <1>3, <2>2, Zenon DEF Received
  <2>4. QED
    BY <1>2, <1>3, <2>1, <2>3 DEF Linked
<1>4. CASE Rests
  BY <1>1, <1>3, <1>4, TidySame DEF Rests, Outside, Row
<1>5. CASE Picks
  <2>1. Begun = 0 /\ Begun' = 0
    BY <1>5 DEF Picks, Begun
  <2>2. QED
    BY <1>1, <1>3, <1>5, <2>1, TidyKept DEF Picks, Outside
<1>6. CASE TurnsOver
  <2>1. Begun' = 0
    BY <1>6 DEF TurnsOver, Begun
  <2>2. QED
    BY <1>1, <1>3, <1>6, <2>1, TidyKept DEF TurnsOver, Outside
<1>7. ASSUME NEW n \in Nat, Puts(n) PROVE Linked'
  BY <1>1, <1>7, LinkedGrows
<1>8. ASSUME NEW length \in Lengths, Accept(length) PROVE Linked'
  <2>1. Tidy'
    BY <1>1, <1>8, AcceptTidy
  <2>2. QED
    BY <1>3, <1>8, <2>1 DEF Accept
<1>9. QED
  BY <1>2, <1>4, <1>5, <1>6, <1>7, <1>8

(* Nothing is put on the wire after Bye, and no message is accepted.         *)
LEMMA NothingAfterBye ==
  ASSUME AloneInv, SenderNext, \E k \in 1..Len(wire) : wire[k].type = "BYE"
  PROVE  wire' = wire /\ accepted' = accepted
<1>1. /\ packet.type = "NONE" \/ written = packet.size
      /\ packet.type = "NONE" => packet.size = 0
      /\ written \in Nat /\ packet.size \in Nat /\ done
  BY DEF AloneInv, IInv, TypeOK, Packet, Bounds, ByeState
<1>2. ~(written < packet.size)
  BY <1>1
<1>3. CASE MainLoop \/ PickNext \/ PingFill \/ PingCheck \/ Close \/ Dispose
           \/ \E n \in Backlogs : SetBacklog(n)
  BY <1>3 DEF MainLoop, WriteCallback, WriteCallbackHup, RunInvoke, PickNext, PingFill,
              PingCheck, Close, Dispose, SetBacklog, history
<1>4. CASE WriteFixed \/ WriteData
  BY <1>2, <1>4 DEF WriteFixed, WriteData, history
<1>5. ~\E length : Accept(length)
  BY <1>1 DEF Accept
<1>6. QED
  BY <1>3, <1>4, <1>5 DEF SenderNext, Writing, ThreadSend, MainSend

(* The bound on the messages.                                                *)
LEMMA SenderBounded ==
  ASSUME SenderNext, accepted <= MaxMessages, accepted \in Nat
  PROVE  accepted' <= MaxMessages /\ (accepted' = accepted \/ accepted' = accepted + 1)
<1>1. ASSUME NEW length, Accept(length)
      PROVE  accepted' <= MaxMessages /\ accepted' = accepted + 1
  <2>1. accepted < MaxMessages /\ accepted' = accepted + 1
    BY <1>1 DEF Accept
  <2>2. QED
    BY <2>1, SenderConstants
<1>2. CASE MainLoop \/ Writing \/ PingCheck \/ Close \/ Dispose
           \/ \E n \in Backlogs : SetBacklog(n)
  <2>1. accepted' = accepted
    BY <1>2 DEF MainLoop, WriteCallback, WriteCallbackHup, RunInvoke, Writing, WriteFixed,
                WriteData, WriteFailed, PickNext, PingFill, PingCheck, Close, Dispose,
                SetBacklog, history
  <2>2. QED
    BY <2>1
<1>3. QED
  BY <1>1, <1>2 DEF SenderNext, ThreadSend, MainSend

(* A step of the sender                                                      *)
LEMMA SenderKeeps ==
  ASSUME Threads = {}, Roomy, HeaderSize <= PipeBuf, StreamInv, SenderStep
  PROVE  StreamInv'
<1>1. /\ SenderInv /\ AloneInv /\ Limited /\ PingsWhole /\ IInv /\ [Next]_vars
      /\ accepted \in Nat /\ accepted <= MaxMessages /\ SenderNext
      /\ R!TypeOK /\ Reading /\ UNCHANGED receiver
  BY DEF StreamInv, SenderInv, AloneInv, IInv, TypeOK, SenderStep, Next
<1>2. AloneInv'
  BY <1>1, InductiveAlone
<1>3. Limited' /\ PingsWhole' /\ accepted' <= MaxMessages
  BY <1>1, <1>2, StaysLimited, PingsStayWhole, SenderBounded
<1>4. R!TypeOK'
  BY <1>1 DEF R!TypeOK, receiver
<1>5. CASE opened
  <2>1. Linked' /\ "client" \in readers'
    BY <1>1, <1>5, SenderLinked DEF StreamInv, Reading
  <2>2. Reading'
    BY <1>1, <1>5, <2>1 DEF Reading, receiver
  <2>3. QED
    BY <1>2, <1>3, <1>4, <2>1, <2>2 DEF StreamInv, SenderInv
<1>6. CASE ~opened
  <2>1. farewell => wire' = wire
    BY <1>1, NothingAfterBye DEF Reading
  <2>2. Reading' /\ ~opened'
    BY <1>1, <1>6, <2>1, SameTaken DEF Reading, receiver, MessagesOnWire
  <2>3. QED
    BY <1>2, <1>3, <1>4, <2>2 DEF StreamInv, SenderInv
<1>7. QED
  BY <1>5, <1>6

-----------------------------------------------------------------------------
(* What the receiver does                                                    *)

(* Only the pipe and its readers concern the sender.                         *)
LEMMA SenderStays ==
  ASSUME SenderInv, UNCHANGED <<object, main, invokes, history>>,
         readers' \in SUBSET {"client", "server"},
         pipe' \in Seq(Unit), Len(pipe') <= PipeCapacity
  PROVE  SenderInv'
<1>1. AloneInv /\ IInv /\ TypeOK /\ Limited /\ PingsWhole
  BY DEF SenderInv, AloneInv, IInv
<1>2. TypeOK'
  BY <1>1 DEF TypeOK, object, history
<1>3. /\ Bounds' /\ Watched' /\ Finality' /\ NoLostWakeup' /\ ByeState'
      /\ CurrentGone'
  BY <1>1 DEF IInv, Bounds, Watched, Writes, Finality, NoLostWakeup, IsIdle,
              ByeState, CurrentGone, AllWritten, object, history
<1>4. Control'
  BY <1>1 DEF AloneInv, Control, OneWriter, Steps, Writes, AllWritten,
              NothingIsPending, object
<1>5. Messages'
  BY <1>1, SameMessages DEF AloneInv, object, history
<1>6. Limited' /\ PingsWhole' /\ accepted' = accepted
  BY <1>1 DEF Limited, NewestKept, PingsWhole, object, history
<1>7. QED
  BY <1>2, <1>3, <1>4, <1>5, <1>6 DEF SenderInv, AloneInv, IInv

(* What was kept of a packet is a beginning of it.                           *)
LEMMA KeptIsLess ==
  ASSUME pipe \in Seq(Unit), partial \in Seq(Unit), Framed,
         Len(partial) < R!Wanted(partial), NEW s, FirstIs(s)
  PROVE  Len(partial) < s
<1>1. /\ Len(Row) \in Nat /\ Len(Row) > 0 /\ 1 \in 1..Len(Row) /\ s \in 1..Len(Row)
      /\ Len(Row) = Len(partial) + Len(pipe) /\ Len(partial) \in Nat /\ Len(pipe) \in Nat
      /\ \A i \in 1..Len(partial) : Row[i] = partial[i]
  BY RowTyped, JoinIs DEF FirstIs, Row
<1>2. PICK p : p = Row[1].packet
  OBVIOUS
<1>3. /\ Proper(p) /\ p.size \in Nat /\ HeaderSize \in Nat /\ PrefixSize \in Nat
      /\ 0 < HeaderSize /\ HeaderSize <= p.size
      /\ p.type \in {"PING", "MESSAGE", "BYE"}
      /\ p.type = "MESSAGE" => HeaderSize + PrefixSize <= p.size
      /\ p.type # "MESSAGE" => p.size = HeaderSize
  BY <1>1, <1>2, ProperIs DEF Framed
<1>4. p.size = s
  BY <1>2 DEF FirstIs
<1>5. CASE Len(partial) < HeaderSize
  BY <1>1, <1>3, <1>4, <1>5
<1>6. CASE HeaderSize <= Len(partial)
  <2>1. HeaderSize \in 1..Len(partial) /\ HeaderSize \in 1..Len(Row)
    BY <1>1, <1>3, <1>6
  <2>2. Row[HeaderSize].packet = p
    BY <1>1, <1>2, <1>3, <2>1, FirstPacket
  <2>3. partial[HeaderSize].packet = p
    BY <1>1, <2>1, <2>2
  <2>4. R!FixedPart(partial[HeaderSize])
          = IF p.type = "MESSAGE" THEN HeaderSize + PrefixSize ELSE HeaderSize
    BY <1>3, <2>3 DEF R!FixedPart, R!MaxFixedPart
  <2>5. R!FixedPart(partial[HeaderSize]) <= p.size
    BY <1>3, <2>4
  <2>6. ~(Len(partial) < HeaderSize) /\ R!FixedPart(partial[HeaderSize]) \in Nat
    BY <1>1, <1>3, <1>6, <2>4
  <2>7. R!Wanted(partial) = IF p.size > R!FixedPart(partial[HeaderSize]) THEN p.size
                            ELSE R!FixedPart(partial[HeaderSize])
    BY <2>3, <2>6 DEF R!Wanted
  <2>8. R!Wanted(partial) = p.size
    BY <1>3, <2>5, <2>6, <2>7
  <2>9. QED
    BY <1>4, <2>8
<1>7. QED
  BY <1>1, <1>3, <1>5, <1>6

(* A complete packet takes what the pipe had of it.                          *)
LEMMA PacketRead ==
  ASSUME pipe \in Seq(Unit), partial \in Seq(Unit), Framed,
         Len(partial) < R!Wanted(partial), NEW types, R!Complete(types)
  PROVE  /\ \E s : FirstIs(s) /\ Row' = SubSeq(Row, s + 1, Len(Row))
         /\ partial' = <<>> /\ pipe' \in Seq(Unit) /\ Len(pipe') <= Len(pipe)
         /\ Row[1].packet.type \in types /\ Len(Row) > 0
<1>1. PICK s : FirstIs(s) /\ Row' = SubSeq(Row, s + 1, Len(Row))
  BY CompleteGives
<1>2. /\ partial' = <<>> /\ pipe' \in Seq(Unit)
      /\ Row[1].packet.type \in types /\ Len(Row) > 0
  BY CompleteGives
<1>3. Shifts(s)
  BY <1>1, TakeIs DEF FirstIs
<1>4. /\ Len(Row') = Len(Row) - s /\ s \in 1..Len(Row) /\ Len(Row) \in Nat
      /\ Len(Row) = Len(partial) + Len(pipe) /\ Len(partial) \in Nat /\ Len(pipe) \in Nat
  BY <1>3, RowTyped DEF Shifts
<1>5. Len(partial) < s
  BY <1>1, KeptIsLess
<1>6. Row' = pipe'
  BY <1>2, JoinEmpty DEF Row
<1>7. Len(pipe') <= Len(pipe)
  <2>1. Len(pipe') = Len(Row) - s
    BY <1>4, <1>6
  <2>2. QED
    BY <1>4, <1>5, <2>1
<1>8. QED
  BY <1>1, <1>2, <1>7

(* The message is that of the first packet.                                  *)
LEMMA ParsedIs ==
  ASSUME pipe \in Seq(Unit), partial \in Seq(Unit), Framed, NEW s, FirstIs(s),
         Row[1].packet.type = "MESSAGE"
  PROVE  R!ParsedMessage = Row[1].packet.msg
<1>1. PICK p : p = Row[1].packet
  OBVIOUS
<1>2. /\ Len(Row) \in Nat /\ Len(Row) > 0 /\ 1 \in 1..Len(Row) /\ s \in 1..Len(Row)
      /\ s = p.size
  BY <1>1, RowTyped DEF FirstIs
<1>3. /\ HeaderSize \in Nat /\ PrefixSize \in Nat /\ 0 < HeaderSize
      /\ HeaderSize + PrefixSize <= p.size /\ p.size \in Nat
  BY <1>1, <1>2, ProperIs DEF Framed
<1>4. PICK j : j = HeaderSize + PrefixSize
  OBVIOUS
<1>5. j \in 1..Len(Row) /\ j <= p.size
  BY <1>2, <1>3, <1>4
<1>6. Row[j].packet = p
  BY <1>1, <1>2, <1>5, FirstPacket
<1>7. QED
  BY <1>1, <1>4, <1>6 DEF R!ParsedMessage, R!Available, R!MaxFixedPart, Row

(* The watch is there when the receiver is open and not paused.              *)
Watching ==
  /\ paused \in Nat /\ opened \in BOOLEAN /\ read_watch \in BOOLEAN
  /\ read_watch <=> opened /\ paused = 0

WatchKept == Watching' /\ (opened' => opened)

LEMMA WatchingIs == ASSUME R!TypeOK, Reading PROVE Watching
BY ReceiverTyped DEF Watching, Reading

LEMMA SilenceKeeps ==
  ASSUME Watching, NEW pauses \in Nat, NEW closing \in BOOLEAN,
         pauses > 0 \/ closing, R!Silence(pauses, closing)
  PROVE  WatchKept
<1>1. paused \in Nat /\ opened \in BOOLEAN
  BY DEF Watching
<1>2. paused' = paused + pauses /\ opened' = (opened /\ ~closing) /\ read_watch' = FALSE
  BY DEF R!Silence
<1>3. paused' \in Nat /\ (pauses > 0 => paused' # 0)
  BY <1>1, <1>2
<1>4. opened' \in BOOLEAN /\ (closing => ~opened') /\ (opened' => opened)
  BY <1>1, <1>2
<1>5. QED
  BY <1>2, <1>3, <1>4 DEF WatchKept, Watching

LEMMA ClosedKeeps == ASSUME Watching, R!Closed PROVE WatchKept /\ ~opened'
<1>1. R!Silence(0, TRUE)
  BY DEF R!Closed
<1>2. WatchKept
  BY <1>1, SilenceKeeps
<1>3. QED
  BY <1>1, <1>2 DEF R!Silence

LEMMA ResumedKeeps == ASSUME Watching, R!Resumed PROVE WatchKept /\ opened' = opened
<1>1. /\ paused > 0 /\ paused' = paused - 1 /\ read_watch' = (paused' = 0 /\ opened)
      /\ opened' = opened
  BY DEF R!Resumed
<1>2. paused' \in Nat
  BY <1>1 DEF Watching
<1>3. read_watch' \in BOOLEAN /\ (read_watch' <=> opened' /\ paused' = 0)
  BY <1>1 DEF Watching
<1>4. QED
  BY <1>1, <1>2, <1>3 DEF WatchKept, Watching

(* Handlers of both signals may do this with the receiver.                   *)
LEMMA ReactKeeps ==
  ASSUME Watching, NEW reaction \in R!Reactions, R!React(reaction)
  PROVE  WatchKept
<1>1. CASE UNCHANGED R!state
  BY <1>1 DEF R!state, WatchKept, Watching
<1>2. CASE R!Silence(1, FALSE)
  <2>1. 1 \in Nat /\ FALSE \in BOOLEAN /\ 1 > 0
    OBVIOUS
  <2>2. QED
    BY <1>2, <2>1, SilenceKeeps
<1>3. CASE R!Resumed
  BY <1>3, ResumedKeeps
<1>4. CASE R!Closed
  BY <1>4, ClosedKeeps
<1>5. QED
  BY <1>1, <1>2, <1>3, <1>4 DEF R!React

LEMMA HandlersReact ==
  ASSUME Watching, R!ReadMessage \/ R!ReportMessage
  PROVE  WatchKept
<1>1. SkipReactions \subseteq R!Reactions /\ MessageReactions \subseteq R!Reactions
      /\ "none" \in R!Reactions
  BY StreamConstants DEF R!ReceiverConstants, R!Reactions
<1>2. \E reaction \in R!Reactions : R!React(reaction)
  BY <1>1 DEF R!ReadMessage, R!ReportMessage
<1>3. QED
  BY <1>2, ReactKeeps

(* What a message which is read is.                                          *)
LEMMA MessageIs ==
  ASSUME SenderInv, R!TypeOK, Reading, Linked, R!Complete({"MESSAGE"})
  PROVE  /\ Len(Taken) + 1 \in 1..MessagesOnWire
         /\ R!ParsedMessage.index = wire[Len(Taken) + 1].msg.index
         /\ R!ParsedMessage.index \in 1..accepted /\ accepted \in Nat
<1>1. /\ AloneInv /\ partial \in Seq(Unit) /\ pipe \in Seq(Unit) /\ Taken \in Seq(Nat)
      /\ WireShape /\ Tidy /\ Framed /\ Len(Taken) <= MessagesOnWire
      /\ Len(partial) < R!Wanted(partial) /\ accepted \in Nat
  BY ReceiverTyped DEF SenderInv, AloneInv, IInv, TypeOK, Linked, Received, Reading, Tidy
<1>2. PICK s : FirstIs(s) /\ Row[1].packet.type = "MESSAGE"
  BY <1>1, PacketRead
<1>3. /\ Len(Taken) + 1 \in 1..MessagesOnWire
      /\ wire[Len(Taken) + 1].msg.index = IndexAt(1)
  BY <1>1, <1>2, OldestFirst
<1>4. R!ParsedMessage.index = IndexAt(1)
  BY <1>1, <1>2, ParsedIs DEF IndexAt
<1>5. Len(Taken) + 1 \in Sent
  BY <1>1, <1>3, WireIs
<1>6. wire[Len(Taken) + 1].msg.index \in 1..accepted
  BY <1>1, <1>5 DEF AloneInv, Messages, NoneInvented
<1>7. QED
  BY <1>1, <1>3, <1>4, <1>6

(* Taking a message                                                          *)
LEMMA ReadMessageKeeps ==
  ASSUME StreamInv, opened, reporting = <<>>, R!ReadMessage,
         UNCHANGED <<object, main, invokes, history>>
  PROVE  /\ WatchKept /\ R!TypeOK' /\ Linked' /\ farewell' = farewell
         /\ partial' = <<>> /\ pipe' \in Seq(Unit) /\ Len(pipe') <= PipeCapacity
<1>1. /\ SenderInv /\ AloneInv /\ partial \in Seq(Unit) /\ pipe \in Seq(Unit)
      /\ Len(pipe) <= PipeCapacity /\ Taken \in Seq(Nat) /\ R!TypeOK /\ Reading
      /\ Linked /\ WireShape /\ Tidy /\ Framed /\ Received
      /\ Len(Taken) <= MessagesOnWire /\ Len(partial) < R!Wanted(partial)
      /\ R!Complete({"MESSAGE"}) /\ skipped \in Nat
  BY ReceiverTyped DEF StreamInv, SenderInv, AloneInv, IInv, TypeOK, Linked, Received,
                       Reading, Tidy, R!ReadMessage
<1>2. PICK s : FirstIs(s) /\ Row' = SubSeq(Row, s + 1, Len(Row))
  BY <1>1, PacketRead
<1>3. /\ partial' = <<>> /\ pipe' \in Seq(Unit) /\ Len(pipe') <= Len(pipe)
      /\ Row[1].packet.type = "MESSAGE"
  BY <1>1, PacketRead
<1>4. PICK m : m = R!ParsedMessage.index
  OBVIOUS
<1>5. /\ Len(Taken) + 1 \in 1..MessagesOnWire /\ m \in Nat
      /\ m = wire[Len(Taken) + 1].msg.index
  BY <1>1, <1>4, MessageIs
<1>6. /\ message_received' = TRUE /\ Taken' = Append(Taken, m)
      /\ last_message_index' = (m + StartIndex - 1) % Modulus
      /\ skipped' = skipped + R!SkippedNow /\ farewell' = farewell
      /\ delivered' = delivered /\ reporting' = <<m>>
  <2>1. /\ message_received' = TRUE /\ last_message_index' = (m + StartIndex - 1) % Modulus
        /\ skipped' = skipped + R!SkippedNow /\ farewell' = farewell
        /\ delivered' = delivered /\ reporting' = <<m>>
    BY <1>4 DEF R!ReadMessage, R!ParsedIndex
  <2>2. QED
    BY <1>1, <1>5, <2>1, MessageIsTaken
<1>7. Modulus \in Nat \ {0} /\ StartIndex \in Nat /\ StartIndex < Modulus
  BY StreamConstants DEF R!ReceiverConstants
<1>8. PICK d \in Nat : d = Len(Taken)
  BY <1>1
<1>9. /\ Taken' \in Seq(Nat) /\ Len(Taken') = d + 1 /\ Taken'[d + 1] = m
      /\ \A k \in 1..d : Taken'[k] = Taken[k]
      /\ Taken' # <<>>
  <2>1. PICK t \in Seq(Nat) : t = Taken
    BY <1>1
  <2>2. Taken' = Append(t, m) /\ d = Len(t)
    BY <1>6, <1>8, <2>1
  <2>3. PICK u : u = Append(t, m)
    OBVIOUS
  <2>4. /\ u \in Seq(Nat) /\ Len(u) = d + 1 /\ u[d + 1] = m
        /\ \A k \in 1..d : u[k] = t[k]
        /\ u # <<>>
    BY <1>5, <2>1, <2>2, <2>3
  <2>5. QED
    BY <2>1, <2>2, <2>3, <2>4
<1>10. UNCHANGED <<packet, written, current, buffer, io, wire>>
  BY DEF object, history
<1>11. Tidy'
  BY <1>1, <1>2, <1>3, <1>8, <1>9, <1>10, MessageTaken
<1>12. MessagesOnWire' = MessagesOnWire /\ WireShape'
  BY <1>1, <1>10 DEF MessagesOnWire, WireShape
<1>13. Received'
  <2>1. Len(Taken') <= MessagesOnWire'
    <3>1. MessagesOnWire \in Nat
      BY <1>1, WireIs
    <3>2. QED
      BY <1>5, <1>8, <1>9, <1>12, <3>1
  <2>2. \A k \in 1..d + 1 : k \in 1..d \/ k = d + 1
    OBVIOUS
  <2>3. \A k \in 1..d + 1 : Taken'[k] = wire'[k].msg.index
    BY <1>1, <1>5, <1>8, <1>9, <1>10, <2>2 DEF Received
  <2>4. last_message_index' = (Taken'[Len(Taken')] + StartIndex - 1) % Modulus
    BY <1>6, <1>9
  <2>5. QED
    BY <1>6, <1>9, <2>1, <2>3, <2>4 DEF Received
<1>14. R!SkippedNow \in Nat
  <2>1. R!ParsedIndex \in 0..Modulus - 1 /\ R!Expected \in 0..Modulus - 1
    <3>1. \A i \in Int : i % Modulus \in 0..Modulus - 1
      BY <1>7
    <3>2. last_message_index + 1 \in Int
      BY <1>1, <1>7, ReceiverTyped
    <3>3. m + StartIndex - 1 \in Int
      BY <1>5, <1>7
    <3>4. /\ R!ParsedIndex = (m + StartIndex - 1) % Modulus
          /\ R!Expected = (last_message_index + 1) % Modulus
      BY <1>4 DEF R!ParsedIndex, R!Expected
    <3>5. QED
      BY <3>1, <3>2, <3>3, <3>4
  <2>2. QED
    BY <1>7, <2>1 DEF R!SkippedNow
<1>15. WatchKept
  BY <1>1, WatchingIs, HandlersReact
<1>16. R!TypeOK'
  <2>1. last_message_index' \in 0..Modulus - 1
    BY <1>5, <1>6, <1>7
  <2>2. skipped' \in Nat
    BY <1>1, <1>6, <1>14
  <2>3. partial' \in Seq(R!Unit) /\ farewell' \in BOOLEAN
    BY <1>1, <1>3, <1>6, ReceiverTyped
  <2>4. reporting' \in Seq(Nat) /\ Len(reporting') <= 1 /\ delivered' \in Seq(Nat)
    BY <1>1, <1>5, <1>6 DEF R!TypeOK
  <2>5. QED
    BY <1>6, <1>15, <2>1, <2>2, <2>3, <2>4 DEF R!TypeOK, WatchKept, Watching
<1>17. QED
  BY <1>1, <1>3, <1>6, <1>11, <1>12, <1>13, <1>15, <1>16, SenderConstants DEF Linked

(* MESSAGE of a message which was taken                                      *)
LEMMA ReportMessageKeeps ==
  ASSUME StreamInv, R!ReportMessage, UNCHANGED <<object, main, invokes, history>>
  PROVE  /\ WatchKept /\ R!TypeOK' /\ (opened' => Linked') /\ farewell' = farewell
         /\ Len(partial') < R!Wanted(partial') /\ pipe' = pipe /\ Taken' = Taken
         /\ reporting' = <<>>
<1>1. R!TypeOK /\ Reading /\ (opened => Linked)
  BY DEF StreamInv
<1>2. /\ UNCHANGED <<pipe, partial, message_received, last_message_index, skipped, farewell>>
      /\ delivered' = delivered \o reporting /\ reporting' = <<>>
  BY DEF R!ReportMessage, R!parsing
<1>3. Taken' = Taken
  BY <1>1, <1>2, TakenIsReported
<1>4. WatchKept
  BY <1>1, WatchingIs, HandlersReact
<1>5. R!TypeOK'
  <2>1. delivered \in Seq(Nat) /\ reporting \in Seq(Nat)
    BY <1>1 DEF R!TypeOK
  <2>2. \A d, r \in Seq(Nat) : d \o r \in Seq(Nat)
    OBVIOUS
  <2>3. delivered' \in Seq(Nat) /\ reporting' \in Seq(Nat) /\ Len(reporting') <= 1
    BY <1>2, <2>1, <2>2
  <2>4. QED
    BY <1>1, <1>2, <1>4, <2>3 DEF R!TypeOK, WatchKept, Watching
<1>6. opened => Tidy'
  BY <1>1, <1>2, <1>3, TidySame DEF Row, Linked, object, history
<1>7. wire' = wire /\ MessagesOnWire' = MessagesOnWire
  BY DEF history, MessagesOnWire
<1>8. opened => WireShape'
  BY <1>1, <1>7 DEF Linked, WireShape
<1>9. opened => Received'
  BY <1>1, <1>2, <1>3, <1>7, Zenon DEF Linked, Received
<1>10. opened' => Linked'
  BY <1>4, <1>6, <1>8, <1>9 DEF Linked, WatchKept
<1>11. Len(partial') < R!Wanted(partial')
  BY <1>1, <1>2 DEF Reading
<1>12. QED
  BY <1>2, <1>3, <1>4, <1>5, <1>10, <1>11

(* A packet which is cut                                                     *)
LEMMA WaitKeeps ==
  ASSUME StreamInv, opened, R!Wait, UNCHANGED <<object, main, invokes, history>>
  PROVE  /\ WatchKept /\ R!TypeOK' /\ (opened' => Linked') /\ farewell' = farewell
         /\ Len(partial') < R!Wanted(partial') /\ reporting' = reporting
         /\ pipe' \in Seq(Unit) /\ Len(pipe') <= PipeCapacity
<1>1. /\ partial \in Seq(Unit) /\ pipe \in Seq(Unit) /\ R!TypeOK /\ Reading /\ Linked
  BY ReceiverTyped DEF StreamInv, SenderInv, AloneInv, IInv, TypeOK
<1>2. pipe' \in Seq(Unit) /\ pipe' = <<>> /\ Len(pipe') <= PipeCapacity
  BY SenderConstants DEF R!Wait
<1>3. Row \in Seq(Unit) /\ Len(Row) < R!Wanted(Row)
  BY <1>1, RowTyped DEF R!Wait, R!Available, Row
<1>4. UNCHANGED <<message_received, last_message_index, delivered, reporting, Taken,
                  skipped, farewell>>
  BY SameTaken DEF R!Wait, R!reported
<1>5. CASE R!Closed /\ partial' = <<>>
  <2>1. WatchKept /\ ~opened'
    BY <1>1, <1>5, WatchingIs, ClosedKeeps
  <2>2. Len(partial') < R!Wanted(partial')
    BY <1>5, ProtocolConstants DEF R!Wanted
  <2>3. partial' \in Seq(R!Unit)
    BY <1>5
  <2>4. R!TypeOK'
    BY <1>1, <1>4, <2>1, <2>3 DEF R!TypeOK, WatchKept, Watching
  <2>5. QED
    BY <1>2, <1>4, <2>1, <2>2, <2>4
<1>6. CASE UNCHANGED <<opened, paused, read_watch>> /\ partial' = Row
  <2>1. WatchKept
    BY <1>1, <1>6, ReceiverTyped DEF WatchKept, Watching, Reading
  <2>2. R!TypeOK'
    <3>1. partial' \in Seq(R!Unit)
      BY <1>3, <1>6 DEF R!Unit, Unit, R!Packet, Packet, R!PacketType, PacketType,
                        R!Message, Message
    <3>2. QED
      BY <1>1, <1>4, <1>6, <3>1 DEF R!TypeOK
  <2>3. Row' = Row
    BY <1>2, <1>3, <1>6, JoinEmpty DEF Row
  <2>4. Tidy'
    BY <1>1, <1>4, <2>3, TidySame DEF Linked, object, history
  <2>5. wire' = wire /\ MessagesOnWire' = MessagesOnWire
    BY DEF history, MessagesOnWire
  <2>6. WireShape'
    BY <1>1, <2>5 DEF Linked, WireShape
  <2>7. Received'
    BY <1>1, <1>4, <2>5, Zenon DEF Linked, Received
  <2>8. QED
    BY <1>2, <1>3, <1>4, <1>6, <2>1, <2>2, <2>4, <2>6, <2>7 DEF Linked
<1>7. QED
  BY <1>5, <1>6 DEF R!Wait, R!state, R!Available, Row

(* A packet without a message                                                *)
LEMMA ReadOtherKeeps ==
  ASSUME StreamInv, opened, R!ReadOther, UNCHANGED <<object, main, invokes, history>>
  PROVE  /\ WatchKept /\ R!TypeOK' /\ Linked' /\ farewell' = farewell
         /\ partial' = <<>> /\ pipe' \in Seq(Unit) /\ Len(pipe') <= PipeCapacity
         /\ reporting' = reporting
<1>1. /\ SenderInv /\ AloneInv /\ partial \in Seq(Unit) /\ pipe \in Seq(Unit)
      /\ Len(pipe) <= PipeCapacity /\ Taken \in Seq(Nat) /\ R!TypeOK /\ Reading
      /\ Linked /\ WireShape /\ Tidy /\ Framed /\ Received
      /\ Len(partial) < R!Wanted(partial) /\ R!Complete({"PING", "NONE"})
  BY ReceiverTyped DEF StreamInv, SenderInv, AloneInv, IInv, TypeOK, Linked, Reading, Tidy,
                       R!ReadOther
<1>2. PICK s : FirstIs(s) /\ Row' = SubSeq(Row, s + 1, Len(Row))
  BY <1>1, PacketRead
<1>3. /\ partial' = <<>> /\ pipe' \in Seq(Unit) /\ Len(pipe') <= Len(pipe)
      /\ Row[1].packet.type # "MESSAGE" /\ Len(pipe) \in Nat /\ Len(pipe') \in Nat
  <2>1. /\ partial' = <<>> /\ pipe' \in Seq(Unit) /\ Len(pipe') <= Len(pipe)
        /\ Row[1].packet.type \in {"PING", "NONE"}
    BY <1>1, PacketRead
  <2>2. QED
    BY <1>1, <2>1
<1>4. /\ UNCHANGED <<opened, paused, read_watch, message_received, last_message_index,
                     delivered, reporting, Taken, skipped, farewell>>
      /\ UNCHANGED <<packet, written, io, wire>>
  BY SameTaken DEF R!ReadOther, R!state, R!reported, object, history
<1>5. Tidy'
  BY <1>1, <1>2, <1>3, <1>4, OtherTaken
<1>6. MessagesOnWire' = MessagesOnWire /\ WireShape'
  BY <1>1, <1>4 DEF MessagesOnWire, WireShape
<1>7. Received'
  BY <1>1, <1>4, <1>6, Zenon DEF Received
<1>8. WatchKept
  BY <1>1, <1>4, ReceiverTyped DEF WatchKept, Watching, Reading
<1>9. R!TypeOK'
  <2>1. partial' \in Seq(R!Unit)
    BY <1>3
  <2>2. QED
    BY <1>1, <1>4, <2>1 DEF R!TypeOK
<1>10. QED
  BY <1>1, <1>3, <1>4, <1>5, <1>6, <1>7, <1>8, <1>9, SenderConstants DEF Linked

(* Bye                                                                       *)
LEMMA ReadByeKeeps ==
  ASSUME StreamInv, opened, R!ReadBye, UNCHANGED <<object, main, invokes, history>>
  PROVE  /\ WatchKept /\ ~opened' /\ R!TypeOK'
         /\ partial' = <<>> /\ pipe' \in Seq(Unit) /\ Len(pipe') <= PipeCapacity
         /\ Len(Taken') = MessagesOnWire' /\ reporting' = reporting /\ Taken' = Taken
         /\ \E k \in 1..Len(wire') : wire'[k].type = "BYE"
<1>1. /\ AloneInv /\ partial \in Seq(Unit) /\ pipe \in Seq(Unit)
      /\ Len(pipe) <= PipeCapacity /\ Taken \in Seq(Nat) /\ R!TypeOK
      /\ WireShape /\ Tidy /\ Framed /\ Len(Taken) <= MessagesOnWire
      /\ Len(partial) < R!Wanted(partial) /\ R!Complete({"BYE"}) /\ R!Closed
      /\ Reading
  BY ReceiverTyped DEF StreamInv, SenderInv, AloneInv, IInv, TypeOK, Linked, Received,
                       Reading, Tidy, R!ReadBye
<1>2. PICK s : FirstIs(s)
  BY <1>1, PacketRead
<1>3. /\ partial' = <<>> /\ pipe' \in Seq(Unit) /\ Len(pipe') <= Len(pipe)
      /\ Row[1].packet.type = "BYE" /\ Len(pipe) \in Nat /\ Len(pipe') \in Nat
  <2>1. /\ partial' = <<>> /\ pipe' \in Seq(Unit) /\ Len(pipe') <= Len(pipe)
        /\ Row[1].packet.type = "BYE"
    BY <1>1, PacketRead
  <2>2. QED
    BY <1>1, <2>1
<1>4. WatchKept /\ ~opened'
  BY <1>1, WatchingIs, ClosedKeeps
<1>5. /\ UNCHANGED <<message_received, last_message_index, delivered, reporting, Taken,
                     skipped, wire>>
      /\ farewell' = TRUE
  BY SameTaken DEF R!ReadBye, history
<1>6. Len(Taken) = MessagesOnWire /\ \E k \in 1..Len(wire) : wire[k].type = "BYE"
  BY <1>1, <1>2, <1>3, ByeFirst
<1>7. R!TypeOK'
  <2>1. partial' \in Seq(R!Unit)
    BY <1>3
  <2>2. QED
    BY <1>1, <1>4, <1>5, <2>1 DEF R!TypeOK, WatchKept, Watching
<1>8. MessagesOnWire' = MessagesOnWire
  BY <1>5 DEF MessagesOnWire
<1>9. QED
  BY <1>1, <1>3, <1>4, <1>5, <1>6, <1>7, <1>8, SenderConstants

(* What happens between the packets                                          *)
LEMMA OthersKeep ==
  ASSUME StreamInv, R!HupCallback \/ R!Pause \/ R!Resume \/ R!CloseReceiver,
         UNCHANGED <<object, main, invokes, history>>
  PROVE  /\ WatchKept /\ R!TypeOK' /\ (opened' => Linked') /\ farewell' = farewell
         /\ Len(partial') < R!Wanted(partial') /\ pipe' = pipe /\ Taken' = Taken
         /\ reporting' = reporting
<1>1. R!TypeOK /\ Reading /\ (opened => Linked)
  BY DEF StreamInv
<1>2. UNCHANGED <<pipe, message_received, last_message_index, delivered, reporting, Taken,
                  skipped, farewell>>
  BY SameTaken DEF R!HupCallback, R!Pause, R!Resume, R!CloseReceiver, R!parsing, R!reported
<1>3. CASE R!HupCallback \/ R!CloseReceiver
  <2>1. R!Closed /\ partial' = <<>>
    BY <1>3 DEF R!HupCallback, R!CloseReceiver
  <2>2. WatchKept /\ ~opened'
    BY <1>1, <2>1, WatchingIs, ClosedKeeps
  <2>3. R!TypeOK'
    <3>1. partial' \in Seq(R!Unit)
      BY <2>1
    <3>2. QED
      BY <1>1, <1>2, <2>2, <3>1 DEF R!TypeOK, WatchKept, Watching
  <2>4. Len(partial') < R!Wanted(partial')
    BY <2>1, ProtocolConstants DEF R!Wanted
  <2>5. QED
    BY <1>2, <2>2, <2>3, <2>4
<1>4. CASE R!Pause \/ R!Resume
  <2>1. partial' = partial /\ opened' = opened
    <3>1. opened \in BOOLEAN
      BY <1>1, ReceiverTyped
    <3>2. QED
      BY <1>4, <3>1 DEF R!Pause, R!Resume, R!Resumed, R!Silence, R!parsing
  <2>2. WatchKept
    <3>1. CASE R!Pause
      <4>1. R!Silence(1, FALSE)
        BY <3>1 DEF R!Pause
      <4>2. 1 \in Nat /\ FALSE \in BOOLEAN /\ 1 > 0
        OBVIOUS
      <4>3. QED
        BY <1>1, <4>1, <4>2, WatchingIs, SilenceKeeps
    <3>2. CASE R!Resume
      BY <1>1, <3>2, WatchingIs, ResumedKeeps DEF R!Resume
    <3>3. QED
      BY <1>4, <3>1, <3>2
  <2>3. R!TypeOK'
    BY <1>1, <1>2, <2>1, <2>2 DEF R!TypeOK, WatchKept, Watching
  <2>4. opened => Tidy'
    BY <1>1, <1>2, <2>1, TidySame DEF Row, Linked, object, history
  <2>5. wire' = wire /\ MessagesOnWire' = MessagesOnWire
    BY DEF history, MessagesOnWire
  <2>6. opened => WireShape'
    BY <1>1, <2>5 DEF Linked, WireShape
  <2>7. opened => Received'
    BY <1>1, <1>2, <2>5, Zenon DEF Linked, Received
  <2>8. QED
    BY <1>1, <1>2, <2>1, <2>2, <2>3, <2>4, <2>6, <2>7 DEF Linked, Reading
<1>5. QED
  BY <1>3, <1>4

(* A step of the receiver                                                    *)
LEMMA ReceiverKeeps ==
  ASSUME StreamInv, ReceiverStep
  PROVE  StreamInv'
<1>1. /\ SenderInv /\ R!TypeOK /\ Reading /\ (opened => Linked) /\ R!Next
      /\ UNCHANGED <<object, main, invokes, history>>
      /\ readers' = IF opened' THEN readers ELSE readers \ {"client"}
  BY DEF StreamInv, ReceiverStep, ReceiverDoes
<1>2. pipe \in Seq(Unit) /\ Len(pipe) <= PipeCapacity /\ readers \in SUBSET {"client", "server"}
  BY <1>1 DEF SenderInv, AloneInv, IInv, TypeOK
<1>3. R!ReadCallback => opened /\ ~farewell /\ reporting = <<>>
  BY <1>1 DEF R!ReadCallback, Reading
<1>4. wire' = wire /\ MessagesOnWire' = MessagesOnWire
  BY <1>1 DEF history, MessagesOnWire
<1>5. /\ WatchKept /\ R!TypeOK' /\ (opened' => Linked')
      /\ Len(partial') < R!Wanted(partial')
      /\ pipe' \in Seq(Unit) /\ Len(pipe') <= PipeCapacity
      /\ farewell' => /\ ~opened' /\ Len(Taken') = MessagesOnWire' /\ reporting' = <<>>
                      /\ \E k \in 1..Len(wire') : wire'[k].type = "BYE"
  <2>1. partial' = <<>> => Len(partial') < R!Wanted(partial')
    BY ProtocolConstants DEF R!Wanted
  <2>2. CASE R!ReadCallback /\ R!Wait
    BY <1>1, <1>3, <2>2, WaitKeeps DEF Reading
  <2>3. CASE R!ReadCallback /\ R!ReadMessage
    BY <1>1, <1>3, <2>1, <2>3, ReadMessageKeeps DEF Reading
  <2>4. CASE R!ReadCallback /\ R!ReadOther
    BY <1>1, <1>3, <2>1, <2>4, ReadOtherKeeps DEF Reading
  <2>5. CASE R!ReadCallback /\ R!ReadBye
    BY <1>1, <1>3, <2>1, <2>5, ReadByeKeeps
  <2>6. CASE R!ReportMessage \/ R!HupCallback \/ R!Pause \/ R!Resume \/ R!CloseReceiver
    <3>1. /\ WatchKept /\ R!TypeOK' /\ (opened' => Linked') /\ farewell' = farewell
          /\ Len(partial') < R!Wanted(partial') /\ pipe' = pipe /\ Taken' = Taken
          /\ reporting' \in {reporting, <<>>}
      BY <1>1, <2>6, OthersKeep, ReportMessageKeeps
    <3>2. opened' => opened
      BY <3>1 DEF WatchKept
    <3>3. farewell' => /\ ~opened' /\ Len(Taken') = MessagesOnWire' /\ reporting' = <<>>
                       /\ \E k \in 1..Len(wire') : wire'[k].type = "BYE"
      BY <1>1, <1>4, <3>1, <3>2 DEF Reading
    <3>4. QED
      BY <1>2, <3>1, <3>3
  <2>7. QED
    BY <1>1, <2>2, <2>3, <2>4, <2>5, <2>6 DEF R!Next, R!Callback, R!ReadCallback
<1>6. SenderInv'
  <2>1. readers' \in SUBSET {"client", "server"}
    BY <1>1, <1>2
  <2>2. QED
    BY <1>1, <1>5, <2>1, SenderStays
<1>7. Reading'
  <2>1. opened' => "client" \in readers'
    BY <1>1, <1>5 DEF Reading, WatchKept
  <2>2. QED
    BY <1>5, <2>1 DEF Reading, WatchKept, Watching
<1>8. QED
  BY <1>5, <1>6, <1>7 DEF StreamInv

-----------------------------------------------------------------------------
(* The invariant                                                             *)

(* The code which sends runs on the main thread only, a ping is written in   *)
(* one piece, and the queue is not limited to one message, nor its limit     *)
(* changed or the sender disposed of.                                        *)
Suited == Threads = {} /\ Roomy /\ HeaderSize <= PipeBuf

LEMMA StreamBegins == Suited /\ StreamInit => StreamInv
<1> SUFFICES ASSUME Suited, StreamInit PROVE StreamInv
  OBVIOUS
<1>1. /\ opened = TRUE /\ paused = 0 /\ read_watch = TRUE
      /\ partial = <<>> /\ message_received = FALSE /\ last_message_index = 0
      /\ delivered = <<>> /\ reporting = <<>> /\ Taken = <<>> /\ skipped = 0
      /\ farewell = FALSE
  BY DEF StreamInit, R!Init, Taken
<1>2. /\ Init /\ packet = NoPacket /\ written = 0 /\ wire = <<>> /\ pipe = <<>>
      /\ accepted = 0 /\ "client" \in readers
  BY DEF StreamInit, Init
<1>3. AloneInv /\ Limited /\ PingsWhole /\ accepted <= MaxMessages
  BY <1>2, InitiallyAlone, InitiallyLimited, SenderConstants DEF Suited, PingsWhole
<1>4. R!TypeOK
  <2>1. 0 \in 0..Modulus - 1
    BY StreamConstants DEF R!ReceiverConstants
  <2>2. /\ partial \in Seq(R!Unit) /\ delivered \in Seq(Nat) /\ skipped \in Nat
        /\ reporting \in Seq(Nat) /\ Len(reporting) <= 1
    BY <1>1
  <2>3. QED
    BY <1>1, <2>1, <2>2 DEF R!TypeOK
<1>5. Reading
  <2>1. Len(<<>>) = 0
    OBVIOUS
  <2>2. Len(partial) < R!Wanted(partial)
    BY <1>1, <2>1, ProtocolConstants DEF R!Wanted
  <2>3. QED
    BY <1>1, <1>2, <2>2 DEF Reading
<1>6. /\ Row = <<>> /\ Len(Row) = 0 /\ Begun = 0 /\ Len(wire) = 0 /\ Len(Taken) = 0
      /\ MessagesOnWire = 0
  <2>1. Row = <<>> /\ Len(<<>>) = 0
    BY <1>1, <1>2 DEF Row
  <2>2. Begun = 0
    BY <1>2 DEF Begun
  <2>3. MessagesOnWire = 0
    BY <1>2, <2>1 DEF MessagesOnWire
  <2>4. QED
    BY <1>1, <1>2, <2>1, <2>2, <2>3
<1>7. 1..0 = {} /\ 0 + 1..0 = {} /\ 0 - 0 + 1..0 = {}
  OBVIOUS
<1>8. Tidy
  BY <1>6, <1>7 DEF Tidy, Framed, Growing, Ordered, Matched, Complete
<1>9. Received /\ WireShape
  BY <1>1, <1>6, <1>7 DEF Received, WireShape
<1>10. QED
  BY <1>3, <1>4, <1>5, <1>8, <1>9 DEF StreamInv, SenderInv, Linked

LEMMA StreamInductive == Suited /\ StreamInv /\ [StreamNext]_svars => StreamInv'
<1> SUFFICES ASSUME Suited, StreamInv, [StreamNext]_svars PROVE StreamInv'
  OBVIOUS
<1>1. CASE SenderStep
  BY <1>1, SenderKeeps DEF Suited
<1>2. CASE ReceiverStep
  BY <1>2, ReceiverKeeps
<1>3. CASE UNCHANGED svars
  <2>1. /\ UNCHANGED <<object, main, invokes, history, readers, pipe>>
        /\ UNCHANGED <<opened, paused, read_watch, partial, message_received,
                       last_message_index, delivered, reporting, Taken, skipped,
                       farewell>>
    BY <1>3, SameTaken DEF svars, vars, receiver
  <2>2. SenderInv'
    <3>1. readers \in SUBSET {"client", "server"} /\ pipe \in Seq(Unit)
          /\ Len(pipe) <= PipeCapacity
      BY DEF StreamInv, SenderInv, AloneInv, IInv, TypeOK
    <3>2. QED
      BY <2>1, <3>1, SenderStays DEF StreamInv
  <2>3. wire' = wire /\ MessagesOnWire' = MessagesOnWire
    BY <2>1 DEF history, MessagesOnWire
  <2>4. R!TypeOK' /\ Reading'
    BY <2>1, <2>3 DEF StreamInv, R!TypeOK, Reading
  <2>5. opened => Tidy'
    BY <2>1, TidySame DEF StreamInv, Linked, Row, object, history
  <2>6. opened => WireShape'
    BY <2>3 DEF StreamInv, Linked, WireShape
  <2>7. opened => Received'
    BY <2>1, <2>3, Zenon DEF StreamInv, Linked, Received
  <2>8. QED
    BY <2>1, <2>2, <2>4, <2>5, <2>6, <2>7 DEF StreamInv, Linked
<1>4. QED
  BY <1>1, <1>2, <1>3 DEF StreamNext

LEMMA StreamInvariance == Suited => (StreamSpec => []StreamInv)
<1> SUFFICES ASSUME Suited PROVE StreamSpec => []StreamInv
  OBVIOUS
<1>1. StreamInit => StreamInv
  BY StreamBegins
<1>2. StreamInv /\ [StreamNext]_svars => StreamInv'
  BY StreamInductive
<1>3. QED
  BY <1>1, <1>2, PTL DEF StreamSpec

-----------------------------------------------------------------------------
(* Pausing, for all constants                                                *)

TakesNothing ==
  /\ UNCHANGED <<skipped, farewell>>
  /\ \/ UNCHANGED <<delivered, reporting>>
     \/ delivered' = delivered \o reporting /\ reporting' = <<>>

LEMMA WatchingStays ==
  ASSUME Watching, [StreamNext]_svars
  PROVE  Watching' /\ (~(opened /\ paused = 0) => TakesNothing)
<1>1. CASE UNCHANGED receiver
  BY <1>1 DEF receiver, Watching, TakesNothing
<1>2. CASE R!ReadCallback
  <2>1. opened /\ paused = 0
    BY <1>2 DEF R!ReadCallback, Watching
  <2>2. CASE R!Closed
    BY <2>1, <2>2, ClosedKeeps DEF WatchKept
  <2>3. CASE UNCHANGED R!state
    BY <2>1, <2>3 DEF R!state, Watching
  <2>4. CASE R!ReadMessage
    BY <2>1, <2>4, HandlersReact DEF WatchKept
  <2>5. QED
    BY <1>2, <2>2, <2>3, <2>4 DEF R!ReadCallback, R!Wait, R!ReadOther, R!ReadBye
<1>3. CASE R!ReportMessage
  BY <1>3, HandlersReact DEF WatchKept, R!ReportMessage, TakesNothing
<1>4. CASE R!HupCallback \/ R!Pause \/ R!Resume \/ R!CloseReceiver
  <2>1. TakesNothing
    BY <1>4 DEF R!HupCallback, R!Pause, R!Resume, R!CloseReceiver, R!reported, TakesNothing
  <2>2. CASE R!HupCallback \/ R!CloseReceiver
    BY <2>1, <2>2, ClosedKeeps DEF R!HupCallback, R!CloseReceiver, WatchKept
  <2>3. CASE R!Pause
    <3>1. R!Silence(1, FALSE)
      BY <2>3 DEF R!Pause
    <3>2. 1 \in Nat /\ FALSE \in BOOLEAN /\ 1 > 0
      OBVIOUS
    <3>3. QED
      BY <2>1, <3>1, <3>2, SilenceKeeps DEF WatchKept
  <2>4. CASE R!Resume
    BY <2>1, <2>4, ResumedKeeps DEF R!Resume, WatchKept
  <2>5. QED
    BY <1>4, <2>2, <2>3, <2>4
<1>5. QED
  BY <1>1, <1>2, <1>3, <1>4
     DEF StreamNext, SenderStep, ReceiverStep, ReceiverDoes, R!Next, R!Callback, svars

(* However pauses nest, and whatever the handlers of both signals do, a      *)
(* receiver which is paused or closed takes nothing from the pipe: pause and *)
(* close remove the watch, and only the last resume adds it again.  The      *)
(* message a callback had already taken then is reported all the same.       *)
THEOREM PausedTakesNothing == StreamSpec => NothingTakenWhilePaused
<1>1. StreamInit => Watching
  BY DEF StreamInit, R!Init, Watching
<1>2. Watching /\ [StreamNext]_svars
        => Watching' /\ [~(opened /\ paused = 0) => TakesNothing]_svars
  BY WatchingStays
<1>3. QED
  BY <1>1, <1>2, PTL DEF StreamSpec, NothingTakenWhilePaused, TakesNothing

-----------------------------------------------------------------------------
(* The stream implements LogDelivery                                         *)

(* Indices of the messages do not wrap around.                               *)
NoWrap == StartIndex + MaxMessages <= Modulus

LEMMA PhaseIs ==
  ASSUME StreamInv
  PROVE  /\ Phase \in {"open", "ended", "broken"}
         /\ Phase = "open" <=> opened
         /\ Phase = "ended" <=> farewell
         /\ Phase = "broken" => Queue = <<>>
         /\ Phase # "broken" => Queue = InFlight
BY ReceiverTyped DEF StreamInv, Reading, Phase, Queue

(* Nothing is in flight when the client has got what is before Bye.          *)
LEMMA NothingInFlight ==
  ASSUME AloneInv, Taken \in Seq(Nat), Len(Taken) = MessagesOnWire,
         \E k \in 1..Len(wire) : wire[k].type = "BYE"
  PROVE  InFlight = <<>>
<1>1. /\ InFlight = Undelivered \o InPacket \o Waiting
      /\ Undelivered \in Seq(Nat) /\ Waiting \in Seq(Nat)
      /\ Len(Undelivered) = MessagesOnWire - Len(Taken) /\ Len(Waiting) = Len(buffer)
  <2>1. Len(Taken) <= MessagesOnWire
    <3>1. Len(Taken) \in Nat
      OBVIOUS
    <3>2. QED
      BY <3>1
  <2>2. QED
    BY <2>1, InFlightIs
<1>2. /\ buffer = <<>>
      /\ packet.type = "NONE" \/ (packet.type = "BYE" /\ written = packet.size)
  BY DEF AloneInv, IInv, ByeState
<1>3. InPacket = <<>>
  BY <1>2 DEF InPacket
<1>4. Len(Undelivered) = 0 /\ Len(Waiting) = 0
  <2>1. Len(Taken) \in Nat /\ Len(<<>>) = 0
    OBVIOUS
  <2>2. QED
    BY <1>1, <1>2, <2>1
<1>5. Undelivered = <<>> /\ Waiting = <<>>
  BY <1>1, <1>4
<1>6. QED
  BY <1>1, <1>3, <1>5

(* The sender posts a message when it accepts one, and does nothing else the *)
(* client could be told of.                                                  *)
LEMMA OpenSenderPosts ==
  ASSUME Suited, StreamInv, AloneInv', opened, SenderStep
  PROVE  \/ InFlight' = InFlight /\ accepted' = accepted
         \/ /\ accepted' = accepted + 1
            /\ \E kept \in 0..Len(InFlight) :
                 /\ InFlight # <<>> => kept > 0
                 /\ InFlight' = Append(SubSeq(InFlight, 1, kept), accepted + 1)
<1>1. /\ AloneInv /\ PingsWhole /\ Limited /\ R!TypeOK /\ SenderNext /\ WireShape
      /\ Len(Taken) <= MessagesOnWire /\ "client" \in readers
      /\ Taken' = Taken
  BY SameTaken DEF StreamInv, SenderInv, Reading, Linked, Received, SenderStep, receiver
<1>2. \/ Rests \/ Picks \/ TurnsOver \/ \E n \in Nat : Puts(n)
      \/ \E length \in Lengths : Accept(length) /\ IsIdle
  BY <1>1, SenderSteps DEF Suited
<1>3. CASE Rests
  <2>1. UNCHANGED <<wire, Taken, packet, written, current, buffer, accepted>>
    BY <1>1, <1>3 DEF Rests, Outside
  <2>2. InFlight' = InFlight
    BY <2>1 DEF InFlight, Undelivered, MessagesOnWire
  <2>3. QED
    BY <2>1, <2>2
<1>4. CASE Picks
  BY <1>1, <1>4, PicksQueue DEF Picks, Outside
<1>5. CASE TurnsOver
  <2>1. InPacket = <<>> /\ InPacket' = <<>>
    BY <1>5 DEF TurnsOver, InPacket
  <2>2. QED
    BY <1>1, <1>5, <2>1, OthersQueue DEF TurnsOver, Outside
<1>6. ASSUME NEW n \in Nat, Puts(n) PROVE InFlight' = InFlight /\ accepted' = accepted
  BY <1>1, <1>6, PutsQueue DEF Puts
<1>7. ASSUME NEW length \in Lengths, Accept(length), IsIdle
      PROVE  /\ accepted' = accepted + 1
             /\ \E kept \in 0..Len(InFlight) :
                  /\ InFlight # <<>> => kept > 0
                  /\ InFlight' = Append(SubSeq(InFlight, 1, kept), accepted + 1)
  <2>1. io /\ accepted' = accepted + 1
    BY <1>1, <1>7 DEF Accept, AloneInv, IInv, Finality
  <2>2. QED
    BY <1>1, <1>7, <2>1, AcceptQueue
<1>8. QED
  BY <1>2, <1>3, <1>4, <1>5, <1>6, <1>7

LEMMA SenderImplements ==
  ASSUME Suited, StreamInv, StreamInv', SenderStep
  PROVE  [D!DeliveryNext]_D!dvars
<1>1. /\ UNCHANGED <<opened, farewell, Taken, skipped>> /\ Phase' = Phase
      /\ SenderNext /\ AloneInv /\ AloneInv' /\ accepted \in Nat
      /\ accepted <= MaxMessages
  BY SameTaken DEF StreamInv, SenderInv, AloneInv, IInv, TypeOK, SenderStep, receiver, Phase
<1>2. CASE opened
  <2>1. /\ Phase = "open" /\ Queue = InFlight /\ Queue' = InFlight'
    BY <1>1, <1>2, PhaseIs DEF Queue
  <2>2. CASE InFlight' = InFlight /\ accepted' = accepted
    BY <1>1, <2>1, <2>2 DEF D!dvars
  <2>3. CASE /\ accepted' = accepted + 1
             /\ \E kept \in 0..Len(InFlight) :
                  /\ InFlight # <<>> => kept > 0
                  /\ InFlight' = Append(SubSeq(InFlight, 1, kept), accepted + 1)
    <3>1. D!Post
      BY <1>1, <2>1, <2>3 DEF D!Post
    <3>2. QED
      BY <3>1 DEF D!DeliveryNext
  <2>4. QED
    BY <1>1, <1>2, <2>2, <2>3, OpenSenderPosts
<1>3. CASE ~opened /\ farewell
  <2>1. /\ Len(Taken) = MessagesOnWire
        /\ \E k \in 1..Len(wire) : wire[k].type = "BYE"
        /\ Taken \in Seq(Nat)
    BY <1>3, ReceiverTyped DEF StreamInv, Reading
  <2>2. wire' = wire /\ accepted' = accepted
    BY <1>1, <2>1, NothingAfterBye
  <2>3. Queue = <<>>
    BY <1>1, <2>1, NothingInFlight DEF Queue
  <2>4. InFlight' = <<>>
    <3>1. /\ (Len(Taken) = MessagesOnWire)'
          /\ (\E k \in 1..Len(wire) : wire[k].type = "BYE")'
          /\ (Taken \in Seq(Nat))'
      BY <1>1, <2>1, <2>2 DEF MessagesOnWire
    <3>2. QED
      <4>1. (AloneInv /\ Taken \in Seq(Nat) /\ Len(Taken) = MessagesOnWire
             /\ (\E k \in 1..Len(wire) : wire[k].type = "BYE") => InFlight = <<>>)'
        BY NothingInFlight, PTL
      <4>2. QED
        BY <1>1, <3>1, <4>1
  <2>5. QED
    BY <1>1, <2>2, <2>3, <2>4 DEF Queue, D!dvars
<1>4. CASE ~opened /\ ~farewell
  <2>1. Phase = "broken" /\ Queue = <<>> /\ Queue' = <<>>
    BY <1>1, <1>4 DEF Phase, Queue
  <2>2. CASE accepted' = accepted
    BY <1>1, <2>1, <2>2 DEF D!dvars
  <2>3. CASE accepted' = accepted + 1
    <3>1. D!Post
      BY <1>1, <2>1, <2>3 DEF D!Post
    <3>2. QED
      BY <3>1 DEF D!DeliveryNext
  <2>4. QED
    BY <1>1, <2>2, <2>3, SenderBounded
<1>5. QED
  BY <1>2, <1>3, <1>4

(* While indices do not wrap around, their difference is how many messages   *)
(* are missing.                                                              *)
LEMMA SkippedIs ==
  ASSUME NoWrap, SenderInv, R!TypeOK, message_received, NEW d \in Nat, 0 < d,
         last_message_index = (d + StartIndex - 1) % Modulus,
         R!ParsedMessage.index \in 1..accepted, d < R!ParsedMessage.index
  PROVE  R!SkippedNow = R!ParsedMessage.index - d - 1
<1>1. /\ Modulus \in Nat \ {0} /\ StartIndex \in Nat /\ MaxMessages \in Nat
      /\ accepted \in Nat /\ accepted <= MaxMessages
  BY SenderConstants, StreamConstants
     DEF R!ReceiverConstants, SenderInv, AloneInv, IInv, TypeOK
<1>2. PICK m \in Nat : m = R!ParsedMessage.index /\ m <= accepted
  BY <1>1
<1>3. m <= MaxMessages /\ d < m
  BY <1>1, <1>2
<1>4. \A i \in 0..Modulus - 1 : i % Modulus = i
  BY <1>1
<1>5. /\ m + StartIndex - 1 \in 0..Modulus - 1 /\ d + StartIndex - 1 \in 0..Modulus - 1
      /\ d + StartIndex \in 0..Modulus - 1
  BY <1>1, <1>3 DEF NoWrap
<1>6. R!ParsedIndex = m + StartIndex - 1
  BY <1>2, <1>4, <1>5 DEF R!ParsedIndex
<1>7. last_message_index = d + StartIndex - 1
  BY <1>4, <1>5
<1>8. R!Expected = d + StartIndex
  <2>1. last_message_index + 1 = d + StartIndex
    BY <1>1, <1>7
  <2>2. QED
    BY <1>4, <1>5, <2>1 DEF R!Expected
<1>9. PICK p \in Int, e \in Int :
        p = R!ParsedIndex /\ e = R!Expected /\ p = m + StartIndex - 1 /\ e = d + StartIndex
  BY <1>1, <1>6, <1>8
<1>10. R!SkippedNow = IF p > e THEN p - e ELSE e - p
  BY <1>9 DEF R!SkippedNow
<1>11. e <= p /\ (IF p > e THEN p - e ELSE e - p) = m - d - 1
  BY <1>1, <1>3, <1>9
<1>12. QED
  BY <1>2, <1>10, <1>11

(* A message arrives, it is the oldest one in flight, and the client is told *)
(* how many it has missed.                                                   *)
LEMMA ReadMessageArrives ==
  ASSUME NoWrap, StreamInv, opened, reporting = <<>>, R!ReadMessage,
         UNCHANGED <<object, main, invokes, history>>
  PROVE  /\ InFlight # <<>> /\ Taken' = Append(Taken, Head(InFlight))
         /\ skipped' = skipped + D!Gap(Head(InFlight)) /\ InFlight' = Tail(InFlight)
<1>1. /\ SenderInv /\ AloneInv /\ R!TypeOK /\ Reading /\ Linked /\ WireShape /\ Received
      /\ Taken \in Seq(Nat) /\ R!Complete({"MESSAGE"})
  BY ReceiverTyped DEF StreamInv, SenderInv, Linked, R!ReadMessage
<1>2. PICK m \in Nat : m = R!ParsedMessage.index /\ m \in 1..accepted
  BY <1>1, MessageIs
<1>3. PICK d \in Nat : d = Len(Taken)
  BY <1>1
<1>4. d + 1 \in 1..MessagesOnWire /\ m = wire[d + 1].msg.index /\ accepted \in Nat
  BY <1>1, <1>2, <1>3, MessageIs
<1>5. Taken' = Append(Taken, m) /\ skipped' = skipped + R!SkippedNow
  <2>1. /\ delivered' = delivered /\ reporting' = <<m>>
        /\ skipped' = skipped + R!SkippedNow
    BY <1>2 DEF R!ReadMessage
  <2>2. QED
    BY <1>1, <2>1, MessageIsTaken
<1>6. InFlight # <<>> /\ Head(InFlight) = m /\ InFlight' = Tail(InFlight)
  BY <1>1, <1>3, <1>4, <1>5, ArriveQueue DEF object, history
<1>7. R!SkippedNow = D!Gap(m)
  <2>1. CASE Taken = <<>>
    BY <1>1, <2>1 DEF R!SkippedNow, D!Gap, Received
  <2>2. CASE Taken # <<>>
    <3>1. d \in 1..MessagesOnWire /\ d \in 1..Len(Taken) /\ MessagesOnWire \in Nat
      <4>1. 0 < d
        BY <1>1, <1>3, <2>2
      <4>2. MessagesOnWire \in Nat
        BY <1>1, WireIs
      <4>3. QED
        BY <1>3, <1>4, <4>1, <4>2
    <3>2. Taken[d] = wire[d].msg.index /\ d \in Sent
      BY <1>1, <3>1, WireIs DEF Received
    <3>3. PICK last \in Nat : last = Taken[d] /\ 0 < last
      <4>1. Taken[d] \in 1..accepted
        BY <1>1, <3>2 DEF AloneInv, Messages, NoneInvented
      <4>2. QED
        BY <1>4, <4>1
    <3>4. last < m
      <4>1. d < d + 1
        BY <1>3
      <4>2. wire[d].msg.index < wire[d + 1].msg.index
        BY <1>1, <1>4, <3>1, <4>1, WireIs
      <4>3. QED
        BY <1>4, <3>2, <3>3, <4>2
    <3>5. message_received /\ last_message_index = (last + StartIndex - 1) % Modulus
      BY <1>1, <1>3, <2>2, <3>3 DEF Received
    <3>6. R!SkippedNow = m - last - 1
      BY <1>1, <1>2, <3>3, <3>4, <3>5, SkippedIs
    <3>7. QED
      BY <1>3, <2>2, <3>3, <3>6 DEF D!Gap
  <2>3. QED
    BY <2>1, <2>2
<1>8. QED
  BY <1>5, <1>6, <1>7

(* What is in flight stays in flight while nothing is taken.                 *)
LEMMA FlightKept ==
  ASSUME UNCHANGED <<object, history, Taken>>
  PROVE  InFlight' = InFlight /\ accepted' = accepted
BY DEF object, history, InFlight, Undelivered, MessagesOnWire

(* The client leaves, or does nothing the sender could notice.               *)
LEMMA QuietReceiver ==
  ASSUME StreamInv, StreamInv', opened' => opened,
         UNCHANGED <<object, history, Taken, skipped, farewell>>
  PROVE  [D!DeliveryNext]_D!dvars
<1>1. InFlight' = InFlight /\ accepted' = accepted
  BY FlightKept
<1>2. CASE opened /\ ~opened'
  <2>1. ~farewell
    BY <1>2 DEF StreamInv, Reading
  <2>2. Phase = "open" /\ Phase' = "broken" /\ Queue' = <<>>
    BY <1>2, <2>1 DEF Phase, Queue
  <2>3. D!Break
    BY <1>1, <2>2 DEF D!Break
  <2>4. QED
    BY <2>3 DEF D!DeliveryNext
<1>3. CASE opened <=> opened'
  <2>1. Phase' = Phase
    BY <1>3 DEF Phase
  <2>2. Queue' = Queue
    BY <1>1, <2>1 DEF Queue
  <2>3. QED
    BY <1>1, <2>1, <2>2 DEF D!dvars
<1>4. QED
  BY <1>2, <1>3

LEMMA ReceiverImplements ==
  ASSUME NoWrap, StreamInv, StreamInv', ReceiverStep
  PROVE  [D!DeliveryNext]_D!dvars
<1>1. /\ R!Next /\ UNCHANGED <<object, main, invokes, history>>
      /\ R!TypeOK /\ Reading /\ Watching /\ opened \in BOOLEAN /\ opened' \in BOOLEAN
  <2>1. R!TypeOK /\ Reading /\ opened' \in BOOLEAN
    BY DEF StreamInv, R!TypeOK
  <2>2. QED
    BY <2>1, WatchingIs, ReceiverTyped DEF ReceiverStep, ReceiverDoes
<1>2. R!ReadCallback => opened /\ ~farewell /\ reporting = <<>>
  BY <1>1 DEF R!ReadCallback, Reading
<1>3. CASE R!ReadCallback /\ R!Wait
  <2>1. UNCHANGED <<Taken, skipped, farewell>>
    BY <1>3, SameTaken DEF R!Wait, R!reported
  <2>2. QED
    BY <1>1, <1>2, <1>3, <2>1, QuietReceiver
<1>4. CASE R!ReadCallback /\ R!ReadOther
  <2>1. UNCHANGED <<Taken, skipped, farewell>>
    BY <1>4, SameTaken DEF R!ReadOther, R!reported
  <2>2. QED
    BY <1>1, <1>2, <1>4, <2>1, QuietReceiver
<1>5. CASE R!ReportMessage \/ R!HupCallback \/ R!Pause \/ R!Resume \/ R!CloseReceiver
  <2>1. UNCHANGED <<Taken, skipped, farewell>>
    <3>1. skipped' = skipped
      BY <1>5 DEF R!ReportMessage, R!HupCallback, R!Pause, R!Resume, R!CloseReceiver,
                  R!reported
    <3>2. QED
      BY <1>1, <1>5, <3>1, OthersKeep, ReportMessageKeeps
  <2>2. opened' => opened
    BY <1>1, <1>5, OthersKeep, ReportMessageKeeps DEF WatchKept
  <2>3. QED
    BY <1>1, <2>1, <2>2, QuietReceiver
<1>6. CASE R!ReadCallback /\ R!ReadMessage
  <2>1. /\ InFlight # <<>> /\ Taken' = Append(Taken, Head(InFlight))
        /\ skipped' = skipped + D!Gap(Head(InFlight)) /\ InFlight' = Tail(InFlight)
    BY <1>1, <1>2, <1>6, ReadMessageArrives
  <2>2. accepted' = accepted /\ farewell' = farewell
    BY <1>1, <1>6 DEF R!ReadMessage, history
  <2>3. Phase = "open" /\ Queue = InFlight
    BY <1>2, <1>6 DEF Phase, Queue
  <2>4. \/ Phase' = "open" /\ Queue' = Tail(Queue)
        \/ Phase' = "broken" /\ Queue' = <<>>
    BY <1>1, <1>2, <1>6, <2>1, <2>2, <2>3 DEF Phase, Queue
  <2>5. D!Arrive
    BY <2>1, <2>2, <2>3, <2>4 DEF D!Arrive
  <2>6. QED
    BY <2>5 DEF D!DeliveryNext
<1>7. CASE R!ReadCallback /\ R!ReadBye
  <2>1. /\ UNCHANGED <<Taken, skipped>> /\ farewell' = TRUE
        /\ accepted' = accepted /\ wire' = wire /\ InFlight' = InFlight
    <3>1. UNCHANGED <<Taken, skipped>> /\ farewell' = TRUE
      BY <1>7, SameTaken DEF R!ReadBye
    <3>2. QED
      BY <1>1, <3>1, FlightKept DEF history
  <2>2. Phase = "open" /\ Phase' = "ended" /\ Queue = InFlight /\ Queue' = InFlight
    BY <1>2, <1>7, <2>1 DEF Phase, Queue
  <2>3. /\ Len(Taken) = MessagesOnWire
        /\ \E k \in 1..Len(wire) : wire[k].type = "BYE"
    <3>1. /\ Len(Taken') = MessagesOnWire'
          /\ \E k \in 1..Len(wire') : wire'[k].type = "BYE"
      BY <1>1, <1>2, <1>7, ReadByeKeeps
    <3>2. MessagesOnWire' = MessagesOnWire
      BY <2>1 DEF MessagesOnWire
    <3>3. QED
      BY <2>1, <3>1, <3>2
  <2>4. InFlight = <<>>
    <3>1. AloneInv /\ Taken \in Seq(Nat)
      BY <1>1, ReceiverTyped DEF StreamInv, SenderInv
    <3>2. QED
      BY <2>3, <3>1, NothingInFlight
  <2>5. D!End
    BY <2>1, <2>2, <2>4 DEF D!End
  <2>6. QED
    BY <2>5 DEF D!DeliveryNext
<1>8. QED
  BY <1>1, <1>3, <1>4, <1>5, <1>6, <1>7 DEF R!Next, R!Callback, R!ReadCallback

LEMMA StreamStepImplements ==
  ASSUME Suited, NoWrap, StreamInv, StreamInv', [StreamNext]_svars
  PROVE  [D!DeliveryNext]_D!dvars
<1>1. CASE UNCHANGED svars
  <2>1. /\ UNCHANGED <<object, history, opened, farewell, Taken, skipped>>
    BY <1>1, SameTaken DEF svars, vars, receiver
  <2>2. InFlight' = InFlight /\ accepted' = accepted
    BY <2>1, FlightKept
  <2>3. Phase' = Phase
    BY <2>1 DEF Phase
  <2>4. QED
    BY <2>1, <2>2, <2>3 DEF Queue, D!dvars
<1>2. QED
  BY <1>1, SenderImplements, ReceiverImplements DEF StreamNext

LEMMA StreamBeginsOpen == ASSUME StreamInit PROVE D!DeliveryInit
<1>1. /\ opened = TRUE /\ Taken = <<>> /\ skipped = 0 /\ farewell = FALSE
      /\ packet = NoPacket /\ wire = <<>> /\ buffer = <<>> /\ accepted = 0
  BY DEF StreamInit, R!Init, Init, Taken
<1>2. Undelivered = <<>> /\ Waiting = <<>> /\ InPacket = <<>>
  <2>1. Len(<<>>) = 0 /\ 1..0 - 0 = {} /\ 1..0 = {}
    OBVIOUS
  <2>2. MessagesOnWire = 0 /\ Len(Taken) = 0 /\ Len(buffer) = 0
    BY <1>1, <2>1 DEF MessagesOnWire
  <2>3. Undelivered = [k \in 1..0 - 0 |-> wire[Len(Taken) + k].msg.index]
    BY <2>2 DEF Undelivered
  <2>4. Waiting = [i \in 1..0 |-> buffer[i].index]
    BY <2>2 DEF Waiting
  <2>5. InPacket = <<>>
    BY <1>1 DEF InPacket, NoPacket
  <2>6. QED
    BY <2>1, <2>3, <2>4, <2>5
<1>3. InFlight = <<>>
  BY <1>2 DEF InFlight, InPacket, Waiting
<1>4. QED
  BY <1>1, <1>3 DEF D!DeliveryInit, Phase, Queue

(* A sender which is used on the main thread, with room for two messages in  *)
(* its queue, and a receiver keep the promise of LogDelivery: messages come  *)
(* in order, the client misses only what a full queue has given up, never    *)
(* the oldest or the newest one in flight, it is told how many those are,    *)
(* and it gets Bye when nothing is in flight.                                *)
THEOREM StreamImplements == Suited /\ NoWrap => (StreamSpec => ImplementsDelivery)
<1> SUFFICES ASSUME Suited, NoWrap PROVE StreamSpec => ImplementsDelivery
  OBVIOUS
<1>1. StreamInit => D!DeliveryInit
  BY StreamBeginsOpen
<1>2. StreamInv /\ StreamInv' /\ [StreamNext]_svars => [D!DeliveryNext]_D!dvars
  BY StreamStepImplements
<1>3. StreamSpec => []StreamInv
  BY StreamInvariance
<1>4. QED
  BY <1>1, <1>2, <1>3, PTL DEF StreamSpec, ImplementsDelivery, D!DeliverySpec

DP == INSTANCE LogDeliveryProofs WITH
        posted <- accepted, arrived <- Taken, missed <- skipped, phase <- Phase,
        queue <- Queue

(* A client which has got Bye can account for every message the sender has   *)
(* accepted: it was delivered, or reported as skipped.                       *)
THEOREM StreamAccounts == Suited /\ NoWrap => (StreamSpec => []Accounting)
<1> SUFFICES ASSUME Suited, NoWrap PROVE StreamSpec => []Accounting
  OBVIOUS
<1>1. StreamSpec => D!DeliverySpec
  BY StreamImplements DEF ImplementsDelivery
<1>2. D!DeliveryInit => DP!DeliveryInit
  BY DEF D!DeliveryInit, DP!DeliveryInit
<1>3. [D!DeliveryNext]_D!dvars => [DP!DeliveryNext]_DP!dvars
  BY DEF D!DeliveryNext, DP!DeliveryNext, D!dvars, DP!dvars, D!Post, DP!Post,
         D!Arrive, DP!Arrive, D!Gap, DP!Gap, D!End, DP!End, D!Break, DP!Break
<1>4. DP!DeliverySpec => []DP!Accounted
  BY DP!DeliveryAccounts
<1>5. StreamInv /\ DP!Accounted => Accounting
  <2>1. SUFFICES ASSUME StreamInv, DP!Accounted, farewell
                 PROVE  accepted = Len(delivered) + skipped
    BY DEF Accounting
  <2>2. accepted = Len(Taken) + skipped
    BY <2>1 DEF DP!Accounted, Phase
  <2>3. reporting = <<>> /\ delivered \in Seq(Nat)
    BY <2>1 DEF StreamInv, Reading, R!TypeOK
  <2>4. Taken = delivered
    BY <2>3 DEF Taken
  <2>5. QED
    BY <2>2, <2>4
<1>6. StreamSpec => []StreamInv
  BY StreamInvariance
<1>7. QED
  BY <1>1, <1>2, <1>3, <1>4, <1>5, <1>6, PTL DEF D!DeliverySpec, DP!DeliverySpec
=============================================================================
