-------------------------- MODULE LogSenderProofs --------------------------
(***************************************************************************)
(* Theorems about LogSender for any sizes and any limits.  For any set of  *)
(* logging threads: the types, that no wakeup is lost, that Bye is last    *)
(* and that the newest message is kept.  For a sender which only the main  *)
(* thread uses: that nothing is lost, one watch, and whole packets.        *)
(***************************************************************************)
EXTENDS LogSender, TLAPS

Writes == main.pc \in {"fixed", "data", "pick"}

(* The current packet never has more of it written than there is.            *)
Bounds ==
  /\ packet.fixed <= packet.size /\ written <= packet.size
  /\ packet.type = "NONE" => packet.size = 0

(* write_watch_id stands for an attached watch; write runs on an open        *)
(* channel, and when its caller is the callback the watch is still attached. *)
Watched ==
  /\ watch => attached > 0
  /\ Writes => io
  /\ Writes /\ main.frames = 0 => attached > 0

(* A closed channel is done; a ping in progress means the sender is not.     *)
Finality ==
  /\ ~io => done
  /\ main.pc = "ping" => ~done

(* From the moment Bye is the packet to write nothing else is left.          *)
ByeState ==
  /\ bye => done /\ packet.type # "BYE"
  /\ packet.type = "BYE" => done /\ ~bye /\ buffer = <<>> /\ current = NoMsg
  /\ \A i \in 1..Len(wire) : wire[i].type = "BYE" =>
       /\ i = Len(wire) /\ done /\ ~bye /\ buffer = <<>>
       /\ packet.type = "NONE" \/ (packet.type = "BYE" /\ written = packet.size)

(* Outside of write, no message is left behind its finished packet.          *)
CurrentGone == ~Writes /\ ~done /\ AllWritten => current = NoMsg

(* The inductive invariant.                                                  *)
IInv ==
  /\ TypeOK /\ Bounds /\ Watched /\ Finality /\ NoLostWakeup /\ ByeState
  /\ CurrentGone

-----------------------------------------------------------------------------
(* Operators                                                                 *)

LEMMA PacketsTyped ==
  /\ NoMsg \in Message
  /\ PingPacket \in Packet /\ ByePacket \in Packet /\ NoPacket \in Packet
  /\ \A m \in Message : MessagePacket(m) \in Packet
BY SenderConstants, ProtocolConstants
   DEF Message, NoMsg, PingPacket, ByePacket, NoPacket, MessagePacket, Header,
       Packet, PacketType, MaxFixedPart

Fits(p) == p.fixed <= p.size /\ p.size > 0

LEMMA PacketsBounded ==
  /\ \A m \in Message : Fits(MessagePacket(m)) /\ MessagePacket(m).type = "MESSAGE"
  /\ Fits(PingPacket) /\ PingPacket.type = "PING"
  /\ Fits(ByePacket) /\ ByePacket.type = "BYE"
<1>1. \A m \in Message : m.length \in Nat
  BY DEF Message
<1>2. QED
  BY <1>1, SenderConstants, ProtocolConstants
     DEF Fits, PingPacket, ByePacket, MessagePacket, Header, MaxFixedPart

LEMMA UnitsTyped ==
  ASSUME NEW p \in Packet, NEW from \in Nat, NEW n \in Nat
  PROVE  Units(p, from, n) \in Seq(Unit) /\ Len(Units(p, from, n)) = n
BY DEF Units, Unit

LEMMA GarbageTyped ==
  ASSUME NEW n \in Nat
  PROVE  [i \in 1..n |-> Garbage] \in Seq(Unit) /\ Len([i \in 1..n |-> Garbage]) = n
BY PacketsTyped DEF Garbage, Unit

(* A write takes no more than it is given and no more than fits.             *)
LEMMA FittingBounded ==
  ASSUME TypeOK, NEW n \in Nat
  PROVE  Fitting(n) \in 0..n /\ Len(pipe) + Fitting(n) <= PipeCapacity
BY SenderConstants DEF Fitting, TypeOK

(* A full buffer keeps messages; putting one more keeps the type.            *)
LEMMA QueueTyped ==
  ASSUME TypeOK, NEW m \in Message
  PROVE  Put(Spared, m) \in Seq(Message)
<1>1. Spared \in Seq(Message)
  <2>1. Len(buffer) - Len(buffer) \div 2 \in 0..Len(buffer)
    BY DEF TypeOK
  <2>2. QED
    BY <2>1 DEF Spared, TypeOK
<1>2. QED
  BY <1>1 DEF Put

LEMMA IndicesTyped ==
  ASSUME NEW s \in Seq(Message)
  PROVE  IndicesOf(s) \in SUBSET Nat
<1>1. \A i \in 1..Len(s) : s[i] \in Message
  OBVIOUS
<1>2. \A i \in 1..Len(s) : s[i].index \in Nat
  BY <1>1 DEF Message
<1>3. QED
  BY <1>2 DEF IndicesOf

-----------------------------------------------------------------------------
(* Parts of steps                                                            *)

(* When write returns, a watch is there if there is more to write.           *)
LEMMA ReturnKeeps ==
  ASSUME IInv, Writes, NEW more \in BOOLEAN, NEW open \in BOOLEAN,
         Return(more, open)
  PROVE  /\ main' = Idle /\ main' \in Main /\ main'.pc = "idle"
         /\ attached' \in Nat /\ watch' \in BOOLEAN
         /\ watch' => attached' > 0
         /\ more /\ open => attached' > 0
<1>1. main.frames \in Nat /\ attached \in Nat /\ watch \in BOOLEAN
  BY DEF IInv, TypeOK, Main
<1>2. main.frames = 0 => attached > 0
  BY DEF IInv, Watched
<1>3. main' = Idle /\ Idle \in Main /\ main'.pc = "idle"
  BY DEF Return, Idle, Main
<1>4. CASE main.frames = 0 /\ more
  BY <1>1, <1>2, <1>3, <1>4 DEF Return
<1>5. CASE main.frames = 0 /\ ~more
  BY <1>1, <1>2, <1>3, <1>5 DEF Return
<1>6. CASE main.frames > 0 /\ more
  BY <1>1, <1>3, <1>6 DEF Return
<1>7. CASE main.frames > 0 /\ ~more
  BY <1>1, <1>3, <1>7 DEF Return
<1>8. QED
  BY <1>1, <1>4, <1>5, <1>6, <1>7

(* Units of an unfinished packet go to the pipe, which holds no Bye yet.     *)
LEMMA HandKeeps ==
  ASSUME IInv, NEW units \in Seq(Unit), Hand(units),
         Len(pipe) + Len(units) <= PipeCapacity,
         written < packet.size, written + Len(units) <= packet.size,
         UNCHANGED <<done, bye, buffer, packet, current>>
  PROVE  /\ pipe' \in Seq(Unit) /\ Len(pipe') <= PipeCapacity
         /\ written' \in Nat /\ written' <= packet.size
         /\ wire' \in Seq(Packet)
         /\ ByeState'
<1>1. pipe' \in Seq(Unit) /\ Len(pipe') <= PipeCapacity
  BY SenderConstants DEF Hand, IInv, TypeOK
<1>2. written' \in Nat /\ written' <= packet.size
  BY DEF Hand, Packet, IInv, TypeOK
<1>3. packet \in Packet /\ wire \in Seq(Packet) /\ ByeState
  BY DEF IInv, TypeOK
<1>4. packet.type # "NONE" /\ written # packet.size
  BY <1>3 DEF IInv, TypeOK, Bounds, Packet
<1>5. \A i \in 1..Len(wire) : wire[i].type # "BYE"
  BY <1>3, <1>4 DEF ByeState
<1>6. /\ bye' => done' /\ packet'.type # "BYE"
      /\ packet'.type = "BYE" => done' /\ ~bye' /\ buffer' = <<>> /\ current' = NoMsg
  BY <1>3 DEF ByeState
<1>7. CASE wire' = wire
  <2>1. ByeState'
    BY <1>5, <1>6, <1>7 DEF ByeState
  <2>2. QED
    BY <1>1, <1>2, <1>3, <1>7, <2>1
<1>8. CASE wire' = Append(wire, packet) /\ written' = packet.size
  <2>1. wire' \in Seq(Packet) /\ Len(wire') = Len(wire) + 1 /\ Len(wire) \in Nat
    BY <1>3, <1>8
  <2>2. /\ \A i \in 1..Len(wire) : wire'[i] = wire[i]
        /\ wire'[Len(wire) + 1] = packet
    BY <1>3, <1>8
  <2>3. ASSUME NEW i \in 1..Len(wire'), wire'[i].type = "BYE"
        PROVE  i = Len(wire') /\ packet.type = "BYE"
    <3>1. i \in 1..Len(wire) \/ i = Len(wire) + 1
      BY <2>1
    <3>2. i \notin 1..Len(wire)
      BY <1>5, <2>2, <2>3
    <3>3. QED
      BY <2>1, <2>2, <2>3, <3>1, <3>2
  <2>4. packet' = packet /\ written' = packet'.size
    BY <1>8
  <2>5. ByeState'
    BY <1>6, <2>3, <2>4 DEF ByeState
  <2>6. QED
    BY <1>1, <1>2, <2>1, <2>5
<1>9. wire' = wire \/ (wire' = Append(wire, packet) /\ written' = packet.size)
  BY DEF Hand
<1>10. QED
  BY <1>7, <1>8, <1>9

(* Shutting down leaves nothing to be written.                               *)
LEMMA ShutdownKeeps ==
  ASSUME IInv, Shutdown, UNCHANGED <<pipe, invokes, backlog, accepted, wire>>,
         buffer' = buffer \/ buffer' = <<>>,
         current' = current \/ current' = NoMsg,
         dropped' \in SUBSET Nat,
         main' \in Main, main'.pc = "idle", attached' \in Nat, watch' \in BOOLEAN,
         watch' => attached' > 0
  PROVE  IInv'
<1> USE DEF IInv, TypeOK
<1>1. TypeOK'
  <2>1. <<>> \in Seq(Message)
    OBVIOUS
  <2>2. buffer' \in Seq(Message) /\ current' \in Message
    BY <2>1, PacketsTyped
  <2>3. readers' \in SUBSET {"client", "server"}
    BY DEF Shutdown
  <2>4. packet' \in Packet /\ written' \in Nat /\ done' \in BOOLEAN /\ bye' \in BOOLEAN
        /\ io' \in BOOLEAN
    BY PacketsTyped DEF Shutdown
  <2>5. QED
    BY <2>1, <2>2, <2>3, <2>4
<1>2. Bounds'
  BY DEF Shutdown, Bounds, NoPacket
<1>3. Watched' /\ Finality' /\ NoLostWakeup' /\ CurrentGone'
  BY DEF Shutdown, Watched, Writes, Finality, NoLostWakeup, IsIdle, CurrentGone
<1>4. ByeState'
  BY DEF Shutdown, ByeState, NoPacket
<1>5. QED
  BY <1>1, <1>2, <1>3, <1>4

(* write gave up: the channel is shut down.                                  *)
LEMMA WriteFailedKeeps ==
  ASSUME IInv, Writes, WriteFailed
  PROVE  IInv'
<1>1. /\ main' \in Main /\ main'.pc = "idle" /\ attached' \in Nat /\ watch' \in BOOLEAN
      /\ watch' => attached' > 0
  BY ReturnKeeps DEF WriteFailed
<1>2. dropped' \in SUBSET Nat
  BY DEF WriteFailed, history, IInv, TypeOK
<1>3. QED
  BY <1>1, <1>2, ShutdownKeeps DEF WriteFailed, history

(* Only the main thread has gone on to another part of write.                *)
LEMMA GoOnKeeps ==
  ASSUME IInv, Writes, NEW pc \in {"data", "pick"}, main' = [main EXCEPT !.pc = pc],
         UNCHANGED <<object, invokes, readers, pipe, history>>
  PROVE  IInv'
<1> USE DEF IInv, object, history
<1>1. /\ main' \in Main /\ main'.pc = pc
      /\ main'.frames = main.frames
  BY DEF TypeOK, Main
<1>2. TypeOK'
  BY <1>1 DEF TypeOK
<1>3. Bounds' /\ ByeState'
  BY DEF Bounds, ByeState
<1>4. Watched' /\ Finality' /\ NoLostWakeup' /\ CurrentGone'
  BY <1>1 DEF Watched, Writes, Finality, NoLostWakeup, IsIdle, CurrentGone
<1>5. QED
  BY <1>2, <1>3, <1>4

(* A part of the packet was written.                                         *)
LEMMA WrittenKeeps ==
  ASSUME IInv, Writes, NEW units \in Seq(Unit), Hand(units),
         Len(pipe) + Len(units) <= PipeCapacity,
         written < packet.size, written + Len(units) <= packet.size,
         UNCHANGED <<done, bye, io, buffer, backlog, packet, current,
                     invokes, readers, accepted, dropped>>,
         NEW pc \in {"data", "pick"},
         \/ Return(TRUE, TRUE) /\ written' < packet.size
         \/ main' = [main EXCEPT !.pc = pc] /\ UNCHANGED <<watch, attached>>
  PROVE  IInv'
<1> USE DEF IInv
<1>1. /\ pipe' \in Seq(Unit) /\ Len(pipe') <= PipeCapacity
      /\ written' \in Nat /\ written' <= packet.size
      /\ wire' \in Seq(Packet) /\ ByeState'
  BY HandKeeps
<1>2. Bounds' /\ Finality'
  <2>1. CASE Return(TRUE, TRUE) /\ written' < packet.size
    BY <1>1, <2>1 DEF Bounds, Finality, Return, Idle
  <2>2. CASE main' = [main EXCEPT !.pc = pc]
    BY <1>1, <2>2 DEF Bounds, Finality, TypeOK, Main
  <2>3. QED
    BY <2>1, <2>2
<1>3. CASE Return(TRUE, TRUE) /\ written' < packet.size
  <2>1. /\ main' = Idle /\ main' \in Main /\ attached' \in Nat
        /\ watch' \in BOOLEAN /\ attached' > 0
    BY <1>3, ReturnKeeps
  <2>2. TypeOK'
    BY <1>1, <2>1 DEF TypeOK
  <2>3. Watched' /\ NoLostWakeup'
    BY <2>1 DEF Watched, Writes, NoLostWakeup, Idle
  <2>4. CurrentGone'
    BY <1>1, <1>3, <2>1 DEF CurrentGone, AllWritten, Packet, TypeOK
  <2>5. QED
    BY <1>1, <1>2, <2>2, <2>3, <2>4
<1>4. CASE main' = [main EXCEPT !.pc = pc] /\ UNCHANGED <<watch, attached>>
  <2>1. main' \in Main /\ main'.pc = pc /\ main'.frames = main.frames
    BY <1>4 DEF TypeOK, Main
  <2>2. TypeOK'
    BY <1>1, <1>4, <2>1 DEF TypeOK
  <2>3. Watched' /\ NoLostWakeup' /\ CurrentGone'
    BY <1>4, <2>1 DEF Watched, Writes, NoLostWakeup, IsIdle, CurrentGone
  <2>4. QED
    BY <1>1, <1>2, <2>2, <2>3
<1>5. QED
  BY <1>3, <1>4

(* The next packet is chosen: somebody is going to write it.                 *)
LEMMA WriteNextKeeps ==
  ASSUME IInv, Writes, WriteNext
  PROVE  /\ main' \in Main /\ attached' \in Nat /\ watch' \in BOOLEAN
         /\ io' = io /\ done' = done /\ readers' = readers
         /\ Watched' /\ Finality'
         /\ attached' > 0 \/ ~IsIdle'
<1>1. io' = io /\ done' = done /\ readers' = readers /\ io
  BY DEF WriteNext, IInv, Watched
<1>2. /\ main \in Main /\ attached \in Nat /\ watch \in BOOLEAN
      /\ watch => attached > 0
  BY DEF IInv, TypeOK, Watched
<1>3. CASE watch
  <2>1. /\ main' = Idle /\ main' \in Main /\ attached' \in Nat /\ watch' \in BOOLEAN
        /\ attached' > 0
    BY <1>3, ReturnKeeps DEF WriteNext
  <2>2. QED
    BY <1>1, <2>1 DEF Watched, Writes, Finality, Idle, IInv
<1>4. CASE ~watch
  <2>1. /\ main' = [main EXCEPT !.pc = "fixed", !.frames = @ + 1]
        /\ UNCHANGED <<watch, attached>>
    BY <1>4 DEF WriteNext
  <2>2. main' \in Main /\ main'.pc = "fixed" /\ main'.frames > 0
    <3>1. main' = [pc |-> "fixed", frames |-> main.frames + 1]
      BY <1>2, <2>1 DEF Main
    <3>2. QED
      BY <1>2, <3>1 DEF Main
  <2>3. QED
    BY <1>1, <1>2, <1>4, <2>1, <2>2 DEF Watched, Finality, IInv, IsIdle
<1>5. QED
  BY <1>2, <1>3, <1>4

(* schedule_write outside of write: the packet is attended to.               *)
LEMMA ScheduleWriteKeeps ==
  ASSUME IInv, ~Writes, ScheduleWrite, UNCHANGED <<io, watch, attached>>
  PROVE  /\ main' \in Main /\ main'.pc # "ping"
         /\ Watched'
         /\ io' => attached' > 0 \/ ~IsIdle'
<1>1. watch \in BOOLEAN /\ io \in BOOLEAN /\ (watch => attached > 0)
  BY DEF IInv, TypeOK, Watched
<1>2. CASE io /\ ~watch
  <2>1. main' = [pc |-> "fixed", frames |-> 1]
    BY <1>2 DEF ScheduleWrite
  <2>2. QED
    BY <1>1, <1>2, <2>1 DEF Main, Watched, IsIdle
<1>3. CASE ~(io /\ ~watch)
  <2>1. main' = Idle
    BY <1>3 DEF ScheduleWrite
  <2>2. QED
    BY <1>1, <1>3, <2>1 DEF Main, Idle, Watched, Writes
<1>4. QED
  BY <1>2, <1>3

(* A message is accepted: nothing but the wakeup is left to show.            *)
LEMMA AcceptKeeps ==
  ASSUME IInv, NEW length \in Lengths, Accept(length)
  PROVE  /\ done' = done /\ bye' = bye /\ io' = io /\ watch' = watch
         /\ attached' = attached /\ readers' = readers
         /\ buffer' \in Seq(Message) /\ backlog' \in Int
         /\ packet' \in Packet /\ written' \in Nat /\ current' \in Message
         /\ pipe' \in Seq(Unit) /\ Len(pipe') <= PipeCapacity
         /\ accepted' \in Nat /\ dropped' \in SUBSET Nat /\ wire' \in Seq(Packet)
         /\ Bounds' /\ ByeState' /\ ~AllWritten'
         /\ ~done /\ ~bye
         /\ ~AllWritten => written < packet.size
<1> DEFINE msg == [index |-> accepted + 1, length |-> length]
           queued == Put(Spared, msg)
<1>1. msg \in Message
  BY SenderConstants DEF Message, IInv, TypeOK
<1>2. TypeOK /\ Bounds /\ ByeState /\ packet \in Packet /\ written \in Nat
  BY DEF IInv, TypeOK
<1>3. queued \in Seq(Message)
  BY <1>1, <1>2, QueueTyped
<1>4. /\ done' = done /\ bye' = bye /\ io' = io /\ watch' = watch
      /\ attached' = attached /\ readers' = readers /\ backlog' = backlog
      /\ pipe' = pipe /\ wire' = wire /\ ~done /\ accepted' = accepted + 1
  BY DEF Accept
<1>5. ~bye /\ packet.type # "BYE" /\ \A i \in 1..Len(wire) : wire[i].type # "BYE"
  BY <1>2, <1>4 DEF ByeState
<1>6. IndicesOf(buffer) \in SUBSET Nat
  BY <1>2, IndicesTyped DEF TypeOK
<1>7. dropped' \in SUBSET Nat
  BY <1>1, <1>2, <1>6 DEF Accept, TypeOK, Message
<1>8. CASE AllWritten
  <2>1. packet' = MessagePacket(msg) /\ written' = 0 /\ buffer' = buffer /\ current' = msg
    BY <1>8 DEF Accept
  <2>2. packet' \in Packet /\ packet'.type = "MESSAGE"
    BY <1>1, <2>1, PacketsTyped, PacketsBounded
  <2>3. Bounds' /\ ~AllWritten'
    BY <1>1, <2>1, <2>2, PacketsBounded DEF Fits, Packet, Bounds, AllWritten
  <2>4. ByeState'
    BY <1>4, <1>5, <2>2 DEF ByeState
  <2>5. QED
    BY <1>1, <1>2, <1>4, <1>5, <1>7, <1>8, <2>1, <2>2, <2>3, <2>4 DEF TypeOK
<1>9. CASE ~AllWritten
  <2>1. packet' = packet /\ written' = written /\ buffer' = queued /\ current' = current
    BY <1>9 DEF Accept
  <2>2. written < packet.size
    BY <1>2, <1>9 DEF Bounds, AllWritten, Packet
  <2>3. Bounds' /\ ByeState' /\ ~AllWritten'
    BY <1>2, <1>4, <1>5, <1>9, <2>1 DEF Bounds, ByeState, AllWritten
  <2>4. QED
    BY <1>2, <1>3, <1>4, <1>5, <1>7, <2>1, <2>2, <2>3 DEF TypeOK
<1>10. QED
  BY <1>8, <1>9

-----------------------------------------------------------------------------
(* Steps of the main thread                                                  *)

LEMMA WriteFixedStep == ASSUME IInv, WriteFixed PROVE IInv'
<1> DEFINE n == Fitting(packet.fixed - written)
<1>1. /\ Writes /\ TypeOK /\ packet \in Packet /\ written \in Nat
      /\ packet.fixed <= packet.size
  BY DEF WriteFixed, Writes, IInv, TypeOK, Bounds
<1>2. CASE written >= packet.size /\ main' = [main EXCEPT !.pc = "pick"]
           /\ UNCHANGED <<object, invokes, readers, pipe, history>>
  BY <1>1, <1>2, GoOnKeeps
<1>3. CASE main' = [main EXCEPT !.pc = "data"]
           /\ UNCHANGED <<object, invokes, readers, pipe, history>>
  BY <1>1, <1>3, GoOnKeeps
<1>4. CASE WriteFailed
  BY <1>1, <1>4, WriteFailedKeeps
<1>5. CASE /\ written < packet.size /\ written < packet.fixed
           /\ Hand(Units(packet, written, n))
           /\ \/ Return(TRUE, TRUE) /\ written' < packet.fixed
              \/ main' = [main EXCEPT !.pc = "data"] /\ UNCHANGED <<watch, attached>>
           /\ UNCHANGED <<done, bye, io, buffer, backlog, packet, current,
                          invokes, readers, accepted, dropped>>
  <2>1. packet.fixed - written \in Nat
    BY <1>1, <1>5 DEF Packet
  <2>2. n \in 0..(packet.fixed - written) /\ Len(pipe) + n <= PipeCapacity
    BY <1>1, <2>1, FittingBounded
  <2>3. n \in Nat
    BY <2>1, <2>2
  <2>4. Units(packet, written, n) \in Seq(Unit) /\ Len(Units(packet, written, n)) = n
    BY <1>1, <2>3, UnitsTyped
  <2>5. written + n <= packet.size
    BY <1>1, <2>1, <2>2 DEF Packet
  <2>6. "data" \in {"data", "pick"}
    OBVIOUS
  <2>7. written' = written + n
    BY <1>5, <2>4 DEF Hand
  <2>8. written' < packet.fixed => written' < packet.size
    BY <1>1, <2>3, <2>7 DEF Packet
  <2> HIDE DEF n
  <2>9. QED
    BY <1>1, <1>5, <2>2, <2>4, <2>5, <2>6, <2>8, WrittenKeeps
<1>6. QED
  BY <1>2, <1>3, <1>4, <1>5 DEF WriteFixed

LEMMA WriteDataStep == ASSUME IInv, WriteData PROVE IInv'
<1> DEFINE n == Fitting(packet.size - written)
           units == IF written < packet.fixed THEN [i \in 1..n |-> Garbage]
                    ELSE Units(packet, written, n)
<1>1. Writes /\ TypeOK /\ packet \in Packet /\ written \in Nat
  BY DEF WriteData, Writes, IInv, TypeOK
<1>2. CASE main' = [main EXCEPT !.pc = "pick"]
           /\ UNCHANGED <<object, invokes, readers, pipe, history>>
  BY <1>1, <1>2, GoOnKeeps
<1>3. CASE WriteFailed
  BY <1>1, <1>3, WriteFailedKeeps
<1>4. CASE /\ written < packet.size
           /\ Hand(units)
           /\ \/ Return(TRUE, TRUE) /\ written' < packet.size
              \/ main' = [main EXCEPT !.pc = "pick"] /\ UNCHANGED <<watch, attached>>
           /\ UNCHANGED <<done, bye, io, buffer, backlog, packet, current,
                          invokes, readers, accepted, dropped>>
  <2>1. packet.size - written \in Nat
    BY <1>1, <1>4 DEF Packet
  <2>2. n \in 0..(packet.size - written) /\ Len(pipe) + n <= PipeCapacity
    BY <1>1, <2>1, FittingBounded
  <2>3. n \in Nat
    BY <2>1, <2>2
  <2>4. units \in Seq(Unit) /\ Len(units) = n
    BY <1>1, <2>3, UnitsTyped, GarbageTyped
  <2>5. written + n <= packet.size
    BY <1>1, <2>1, <2>2 DEF Packet
  <2>6. "pick" \in {"data", "pick"}
    OBVIOUS
  <2> HIDE DEF n, units
  <2>7. QED
    BY <1>1, <1>4, <2>2, <2>4, <2>5, <2>6, WrittenKeeps
<1>5. QED
  BY <1>2, <1>3, <1>4 DEF WriteData

LEMMA PickNextStep == ASSUME IInv, PickNext PROVE IInv'
<1>1. /\ Writes /\ TypeOK /\ ByeState /\ buffer \in Seq(Message)
      /\ UNCHANGED <<backlog, invokes, pipe, accepted, dropped, wire>>
  BY DEF PickNext, Writes, IInv, TypeOK, history
<1>2. CASE /\ buffer # <<>>
           /\ current' = Head(buffer) /\ buffer' = Tail(buffer)
           /\ packet' = MessagePacket(Head(buffer)) /\ written' = 0
           /\ WriteNext
           /\ UNCHANGED bye
  <2>1. Head(buffer) \in Message /\ Tail(buffer) \in Seq(Message)
    BY <1>1, <1>2
  <2>2. packet' \in Packet /\ packet'.type = "MESSAGE" /\ Bounds' /\ CurrentGone'
    <3>1. packet' \in Packet /\ packet'.type = "MESSAGE" /\ Fits(packet')
      BY <1>2, <2>1, PacketsTyped, PacketsBounded
    <3>2. QED
      BY <1>2, <3>1 DEF Fits, Packet, Bounds, CurrentGone, AllWritten
  <2>3. /\ main' \in Main /\ attached' \in Nat /\ watch' \in BOOLEAN
        /\ io' = io /\ done' = done /\ readers' = readers
        /\ Watched' /\ Finality' /\ NoLostWakeup'
    BY <1>1, <1>2, WriteNextKeeps DEF NoLostWakeup
  <2>4. TypeOK'
    BY <1>1, <1>2, <2>1, <2>2, <2>3 DEF TypeOK
  <2>5. \A i \in 1..Len(wire) : wire[i].type # "BYE"
    BY <1>1, <1>2 DEF ByeState
  <2>6. ByeState'
    BY <1>1, <1>2, <2>2, <2>3, <2>5 DEF ByeState
  <2>7. QED
    BY <2>2, <2>3, <2>4, <2>6 DEF IInv
<1>3. CASE /\ ByeIsDue
           /\ current' = NoMsg /\ bye' = FALSE
           /\ packet' = ByePacket /\ written' = 0
           /\ WriteNext
           /\ UNCHANGED buffer
  <2>1. packet' \in Packet /\ packet'.type = "BYE" /\ Bounds' /\ CurrentGone'
    BY <1>3, PacketsTyped, PacketsBounded
       DEF Fits, Packet, Bounds, CurrentGone, AllWritten
  <2>2. /\ main' \in Main /\ attached' \in Nat /\ watch' \in BOOLEAN
        /\ io' = io /\ done' = done /\ readers' = readers
        /\ Watched' /\ Finality' /\ NoLostWakeup'
    BY <1>1, <1>3, WriteNextKeeps DEF NoLostWakeup
  <2>3. TypeOK'
    BY <1>1, <1>3, <2>1, <2>2, PacketsTyped DEF TypeOK
  <2>4. done /\ \A i \in 1..Len(wire) : wire[i].type # "BYE"
    BY <1>1, <1>3 DEF ByeState, ByeIsDue
  <2>5. ByeState'
    BY <1>1, <1>3, <2>1, <2>2, <2>4 DEF ByeState, ByeIsDue
  <2>6. QED
    BY <2>1, <2>2, <2>3, <2>5 DEF IInv
<1>4. CASE /\ buffer = <<>> /\ ~bye /\ done
           /\ current' = NoMsg /\ Shutdown /\ Return(FALSE, FALSE)
           /\ UNCHANGED buffer
  <2>1. /\ main' \in Main /\ main'.pc = "idle" /\ attached' \in Nat /\ watch' \in BOOLEAN
        /\ watch' => attached' > 0
    BY <1>1, <1>4, ReturnKeeps
  <2>2. dropped' \in SUBSET Nat
    BY <1>1 DEF TypeOK
  <2>3. QED
    BY <1>1, <1>4, <2>1, <2>2, ShutdownKeeps
<1>5. CASE /\ buffer = <<>> /\ ~bye /\ ~done
           /\ current' = NoMsg
           /\ packet' = NoPacket /\ written' = 0
           /\ UNCHANGED <<done, bye, io, readers>>
           /\ Return(FALSE, TRUE)
           /\ UNCHANGED buffer
  <2>1. /\ main' = Idle /\ main' \in Main /\ attached' \in Nat /\ watch' \in BOOLEAN
        /\ watch' => attached' > 0
    BY <1>1, <1>5, ReturnKeeps
  <2>2. TypeOK'
    BY <1>1, <1>5, <2>1, PacketsTyped DEF TypeOK
  <2>3. Bounds' /\ NoLostWakeup' /\ CurrentGone'
    BY <1>5 DEF Bounds, NoLostWakeup, NoPacket, CurrentGone
  <2>4. Watched' /\ Finality'
    BY <1>5, <2>1 DEF IInv, Watched, Writes, Finality, Idle
  <2>5. ByeState'
    BY <1>1, <1>5 DEF ByeState, NoPacket
  <2>6. QED
    BY <2>2, <2>3, <2>4, <2>5 DEF IInv
<1>6. done \in BOOLEAN
  BY <1>1 DEF TypeOK
<1>7. QED
  BY <1>2, <1>3, <1>4, <1>5, <1>6 DEF PickNext

LEMMA WriteCallbackStep == ASSUME IInv, WriteCallback PROVE IInv'
<1> USE DEF IInv
<1>1. main' \in Main /\ main'.pc = "fixed" /\ io /\ attached > 0
  BY DEF WriteCallback, Main
<1>2. UNCHANGED <<object, invokes, readers, pipe, history>>
  BY DEF WriteCallback
<1>3. TypeOK'
  BY <1>1, <1>2 DEF TypeOK, object, history
<1>4. Bounds' /\ ByeState'
  BY <1>2 DEF Bounds, ByeState, object, history
<1>5. Watched' /\ Finality' /\ NoLostWakeup' /\ CurrentGone'
  BY <1>1, <1>2 DEF Watched, Writes, Finality, NoLostWakeup, CurrentGone, object,
                    history
<1>6. QED
  BY <1>3, <1>4, <1>5

LEMMA WriteCallbackHupStep == ASSUME IInv, WriteCallbackHup PROVE IInv'
<1>1. /\ Shutdown /\ UNCHANGED <<pipe, invokes, backlog, accepted, wire>>
      /\ buffer' = buffer /\ current' = current /\ dropped' = dropped
      /\ watch' = FALSE /\ attached' = attached - 1 /\ attached > 0
      /\ main' = main /\ main.pc = "idle"
  BY DEF WriteCallbackHup, history, IsIdle
<1>2. TypeOK
  BY DEF IInv
<1>3. attached' \in Nat /\ dropped' \in SUBSET Nat /\ main' \in Main
  BY <1>1, <1>2 DEF TypeOK
<1>4. QED
  BY <1>1, <1>3, ShutdownKeeps

LEMMA RunInvokeStep == ASSUME IInv, RunInvoke PROVE IInv'
<1>1. /\ ~Writes /\ ScheduleWrite
      /\ UNCHANGED <<object, readers, pipe, history>> /\ invokes' = invokes - 1
      /\ invokes > 0
  BY DEF RunInvoke, Writes, IsIdle
<1>2. /\ main' \in Main /\ main'.pc # "ping" /\ Watched'
      /\ io' => attached' > 0 \/ ~IsIdle'
  BY <1>1, ScheduleWriteKeeps DEF object
<1>3. TypeOK'
  BY <1>1, <1>2 DEF IInv, TypeOK, object, history
<1>4. Bounds' /\ ByeState' /\ Finality' /\ NoLostWakeup' /\ CurrentGone'
  BY <1>1, <1>2 DEF IInv, Bounds, ByeState, Finality, NoLostWakeup, CurrentGone,
                    AllWritten, object, history
<1>5. QED
  BY <1>2, <1>3, <1>4 DEF IInv

-----------------------------------------------------------------------------
(* Steps of the interface and of the peer                                    *)

LEMMA ThreadSendStep ==
  ASSUME IInv, NEW t \in Threads, NEW length \in Lengths, ThreadSend(t, length)
  PROVE  IInv'
<1>1. /\ Accept(length) /\ main' = main
      /\ invokes' = IF AllWritten THEN invokes + 1 ELSE invokes
  BY DEF ThreadSend
<1>2. TypeOK /\ Watched /\ Finality /\ NoLostWakeup
  BY DEF IInv
<1>3. /\ done' = done /\ bye' = bye /\ io' = io /\ watch' = watch
      /\ attached' = attached /\ readers' = readers
      /\ buffer' \in Seq(Message) /\ backlog' \in Int
      /\ packet' \in Packet /\ written' \in Nat /\ current' \in Message
      /\ pipe' \in Seq(Unit) /\ Len(pipe') <= PipeCapacity
      /\ accepted' \in Nat /\ dropped' \in SUBSET Nat /\ wire' \in Seq(Packet)
      /\ Bounds' /\ ByeState' /\ ~AllWritten'
      /\ ~AllWritten => written < packet.size
  BY <1>1, AcceptKeeps
<1>4. invokes' \in Nat /\ (AllWritten => invokes' > 0)
  BY <1>1, <1>2 DEF TypeOK
<1>5. TypeOK'
  BY <1>1, <1>2, <1>3, <1>4 DEF TypeOK
<1>6. Watched' /\ Finality'
  BY <1>1, <1>2, <1>3 DEF Watched, Writes, Finality
<1>7. NoLostWakeup'
  BY <1>1, <1>2, <1>3, <1>4 DEF NoLostWakeup, IsIdle
<1>8. QED
  BY <1>3, <1>5, <1>6, <1>7 DEF IInv, CurrentGone

LEMMA MainSendStep ==
  ASSUME IInv, NEW length \in Lengths, MainSend(length)
  PROVE  IInv'
<1>1. /\ Accept(length) /\ ~Writes /\ invokes' = invokes /\ main.pc = "idle"
      /\ IF AllWritten THEN ScheduleWrite ELSE main' = main
  BY DEF MainSend, Writes, IsIdle
<1>2. TypeOK /\ Watched /\ Finality /\ NoLostWakeup
  BY DEF IInv
<1>3. /\ main' \in Main /\ main'.pc # "ping" /\ Watched'
      /\ io' /\ AllWritten => attached' > 0 \/ ~IsIdle'
  <2>1. CASE AllWritten
    BY <1>1, <2>1, AcceptKeeps, ScheduleWriteKeeps
  <2>2. CASE ~AllWritten
    BY <1>1, <1>2, <2>2, AcceptKeeps DEF TypeOK, Watched, Writes
  <2>3. QED
    BY <2>1, <2>2
<1>4. TypeOK'
  BY <1>1, <1>2, <1>3, AcceptKeeps DEF TypeOK
<1>5. Bounds' /\ ByeState' /\ CurrentGone'
  BY <1>1, AcceptKeeps DEF CurrentGone
<1>6. Finality'
  BY <1>2, <1>3, <1>1, AcceptKeeps DEF Finality
<1>7. NoLostWakeup'
  <2>1. CASE AllWritten
    BY <1>3, <2>1 DEF NoLostWakeup
  <2>2. CASE ~AllWritten
    BY <1>1, <1>2, <2>2, AcceptKeeps DEF NoLostWakeup, IsIdle
  <2>3. QED
    BY <2>1, <2>2
<1>8. QED
  BY <1>3, <1>4, <1>5, <1>6, <1>7 DEF IInv

LEMMA PingCheckStep == ASSUME IInv, PingCheck PROVE IInv'
<1> USE DEF IInv
<1>1. /\ main' \in Main /\ main'.pc = "ping" /\ ~done
      /\ UNCHANGED <<object, invokes, readers, pipe, history>>
  BY DEF PingCheck, Idle, Main
<1>2. TypeOK' /\ Bounds' /\ ByeState'
  BY <1>1 DEF TypeOK, Bounds, ByeState, object, history
<1>3. Watched' /\ Finality' /\ NoLostWakeup' /\ CurrentGone'
  BY <1>1 DEF Watched, Writes, Finality, NoLostWakeup, IsIdle, CurrentGone,
              AllWritten, PingCheck, NothingIsPending, object, history
<1>4. QED
  BY <1>2, <1>3

LEMMA PingFillStep == ASSUME IInv, PingFill PROVE IInv'
<1>1. /\ main.pc = "ping" /\ ~Writes /\ packet' = PingPacket /\ written' = 0
      /\ ScheduleWrite
      /\ UNCHANGED <<done, bye, io, watch, attached, buffer, backlog, current,
                     invokes, readers, pipe, history>>
  BY DEF PingFill, Writes
<1>2. TypeOK /\ ByeState /\ ~done
  BY <1>1 DEF IInv, Finality
<1>3. packet' \in Packet /\ packet'.type = "PING" /\ Bounds' /\ CurrentGone'
  BY <1>1, PacketsTyped, PacketsBounded
     DEF Fits, Packet, Bounds, CurrentGone, AllWritten
<1>4. /\ main' \in Main /\ main'.pc # "ping" /\ Watched'
      /\ io' => attached' > 0 \/ ~IsIdle'
  BY <1>1, ScheduleWriteKeeps
<1>5. TypeOK'
  BY <1>1, <1>2, <1>3, <1>4 DEF TypeOK, history
<1>6. ByeState'
  BY <1>1, <1>2, <1>3 DEF ByeState, history
<1>7. Finality' /\ NoLostWakeup'
  BY <1>1, <1>4 DEF IInv, Finality, NoLostWakeup
<1>8. QED
  BY <1>3, <1>4, <1>5, <1>6, <1>7 DEF IInv

LEMMA CloseStep == ASSUME IInv, Close PROVE IInv'
<1>1. /\ ~Writes /\ main.pc = "idle" /\ ~done /\ done' = TRUE
      /\ UNCHANGED <<io, watch, attached, buffer, backlog, current, invokes,
                     readers, pipe, history>>
  BY DEF Close, Writes, IsIdle
<1>2. /\ TypeOK /\ Bounds /\ Watched /\ NoLostWakeup /\ packet.type # "BYE"
      /\ ~bye /\ \A i \in 1..Len(wire) : wire[i].type # "BYE"
  BY <1>1 DEF IInv, ByeState
<1>3. CASE /\ AllWritten /\ buffer = <<>>
           /\ packet' = ByePacket /\ written' = 0 /\ bye' = FALSE
           /\ ScheduleWrite
  <2>1. packet' \in Packet /\ packet'.type = "BYE" /\ Bounds'
    BY <1>3, PacketsTyped, PacketsBounded DEF Fits, Packet, Bounds
  <2>2. /\ main' \in Main /\ main'.pc # "ping" /\ Watched'
        /\ io' => attached' > 0 \/ ~IsIdle'
    BY <1>1, <1>3, ScheduleWriteKeeps
  <2>3. TypeOK'
    BY <1>1, <1>2, <1>3, <2>1, <2>2 DEF TypeOK, history
  <2>4. Finality' /\ NoLostWakeup' /\ CurrentGone'
    BY <1>1, <2>2 DEF Finality, NoLostWakeup, CurrentGone
  <2>5. current = NoMsg
    BY <1>1, <1>3 DEF IInv, CurrentGone
  <2>6. ByeState'
    BY <1>1, <1>2, <1>3, <2>1, <2>5 DEF ByeState, history
  <2>7. QED
    BY <2>1, <2>2, <2>3, <2>4, <2>6 DEF IInv
<1>4. CASE /\ ~(AllWritten /\ buffer = <<>>)
           /\ bye' = TRUE /\ UNCHANGED <<packet, written, main>>
  <2>1. TypeOK' /\ Bounds' /\ ByeState'
    BY <1>1, <1>2, <1>4 DEF TypeOK, Bounds, ByeState, history
  <2>2. Watched' /\ Finality' /\ CurrentGone'
    BY <1>1, <1>2, <1>4 DEF Watched, Writes, Finality, CurrentGone
  <2>3. written < packet.size \/ buffer # <<>>
    BY <1>2, <1>4 DEF TypeOK, Bounds, AllWritten, Packet
  <2>4. NoLostWakeup'
    BY <1>1, <1>2, <1>4, <2>3 DEF NoLostWakeup, IsIdle
  <2>5. QED
    BY <2>1, <2>2, <2>4 DEF IInv
<1>5. QED
  BY <1>3, <1>4 DEF Close

LEMMA SetBacklogStep ==
  ASSUME IInv, NEW limit \in Backlogs, SetBacklog(limit)
  PROVE  IInv'
<1>1. /\ UNCHANGED <<done, bye, io, watch, attached, packet, written, current,
                     main, invokes, readers, pipe, accepted, wire>>
      /\ backlog' = NormalizeBacklog(limit)
      /\ dropped' = dropped \cup (IndicesOf(buffer) \ IndicesOf(buffer'))
  BY DEF SetBacklog
<1>2. TypeOK /\ buffer \in Seq(Message)
  BY DEF IInv, TypeOK
<1>3. backlog' \in Int
  BY <1>1, SenderConstants DEF NormalizeBacklog, DefaultBacklog, Unlimited
<1>4. buffer' \in Seq(Message) /\ (buffer = <<>> => buffer' = <<>>)
  <2>1. CASE buffer' = buffer
    BY <1>2, <2>1
  <2>2. CASE /\ backlog' > 0 /\ backlog' < Len(buffer)
             /\ buffer' = SubSeq(buffer, 1, backlog')
    <3>1. 1 \in 1..Len(buffer) /\ backlog' \in 1..Len(buffer) /\ Len(<<>>) = 0
      BY <1>2, <1>3, <2>2
    <3>2. SubSeq(buffer, 1, backlog') \in Seq(Message)
      BY <1>2, <3>1
    <3>3. buffer # <<>>
      BY <2>2, <3>1
    <3>4. QED
      BY <2>2, <3>2, <3>3
  <2>3. CASE /\ backlog' > 0 /\ backlog' < Len(buffer)
             /\ buffer' = SubSeq(buffer, Len(buffer) - backlog' + 1, Len(buffer))
    <3>1. /\ Len(buffer) - backlog' + 1 \in 1..Len(buffer)
          /\ Len(buffer) \in 1..Len(buffer) /\ Len(<<>>) = 0
      BY <1>2, <1>3, <2>3
    <3>2. SubSeq(buffer, Len(buffer) - backlog' + 1, Len(buffer)) \in Seq(Message)
      BY <1>2, <3>1
    <3>3. buffer # <<>>
      BY <2>3, <3>1
    <3>4. QED
      BY <2>3, <3>2, <3>3
  <2>4. QED
    BY <2>1, <2>2, <2>3 DEF SetBacklog
<1>5. dropped' \in SUBSET Nat
  BY <1>1, <1>2, IndicesTyped DEF TypeOK
<1>6. TypeOK'
  BY <1>1, <1>2, <1>3, <1>4, <1>5 DEF TypeOK
<1>7. Bounds' /\ Watched' /\ Finality' /\ NoLostWakeup' /\ CurrentGone'
  BY <1>1, <1>4 DEF IInv, Bounds, Watched, Writes, Finality, NoLostWakeup, IsIdle,
                    CurrentGone, AllWritten
<1>8. ByeState'
  BY <1>1, <1>4 DEF IInv, ByeState
<1>9. QED
  BY <1>6, <1>7, <1>8 DEF IInv

LEMMA DisposeStep == ASSUME IInv, Dispose PROVE IInv'
<1>1. /\ Shutdown /\ UNCHANGED <<pipe, invokes, backlog, accepted, wire, current>>
      /\ buffer' = <<>> /\ dropped' = dropped \cup IndicesOf(buffer)
      /\ watch' = FALSE /\ attached' = IF watch THEN attached - 1 ELSE attached
      /\ main' = main /\ main.pc = "idle"
  BY DEF Dispose, IsIdle
<1>2. TypeOK /\ buffer \in Seq(Message) /\ (watch => attached > 0)
  BY DEF IInv, TypeOK, Watched
<1>3. attached' \in Nat /\ main' \in Main
  BY <1>1, <1>2 DEF TypeOK
<1>4. dropped' \in SUBSET Nat
  BY <1>1, <1>2, IndicesTyped DEF TypeOK
<1>5. QED
  BY <1>1, <1>3, <1>4, ShutdownKeeps

LEMMA PeerStep ==
  ASSUME IInv, PeerClose \/ \E n \in 1..PipeCapacity : PeerRead(n)
  PROVE  IInv'
<1>1. UNCHANGED <<object, main, invokes, history>>
  BY DEF PeerClose, PeerRead
<1>2. TypeOK
  BY DEF IInv
<1>3. /\ readers' \in SUBSET {"client", "server"}
      /\ pipe' \in Seq(Unit) /\ Len(pipe') <= PipeCapacity
  <2>1. CASE PeerClose
    BY <1>2, <2>1 DEF PeerClose, TypeOK
  <2>2. ASSUME NEW n \in 1..PipeCapacity, PeerRead(n)
        PROVE  /\ readers' = readers
               /\ pipe' \in Seq(Unit) /\ Len(pipe') <= PipeCapacity
    <3>1. pipe \in Seq(Unit) /\ n \in 1..Len(pipe) /\ Len(pipe) <= PipeCapacity
          /\ pipe' = SubSeq(pipe, n + 1, Len(pipe))
      BY <1>2, <2>2 DEF PeerRead, TypeOK
    <3>2. pipe' \in Seq(Unit) /\ Len(pipe') = Len(pipe) - n
      BY <3>1
    <3>3. QED
      BY <2>2, <3>1, <3>2, SenderConstants DEF PeerRead
  <2>3. QED
    BY <1>2, <2>1, <2>2 DEF TypeOK
<1>4. TypeOK'
  BY <1>1, <1>2, <1>3 DEF TypeOK, object, history
<1>5. /\ Bounds' /\ Watched' /\ Finality' /\ NoLostWakeup' /\ ByeState'
      /\ CurrentGone'
  BY <1>1 DEF IInv, Bounds, Watched, Writes, Finality, NoLostWakeup, IsIdle,
              ByeState, CurrentGone, AllWritten, object, history
<1>6. QED
  BY <1>4, <1>5 DEF IInv

-----------------------------------------------------------------------------
(* The invariant                                                             *)

LEMMA Initially == Init => IInv
<1> SUFFICES ASSUME Init PROVE IInv
  OBVIOUS
<1>1. NormalizeBacklog(Backlog) \in Int
  BY SenderConstants DEF NormalizeBacklog, DefaultBacklog, Unlimited
<1>2. NoPacket \in Packet /\ NoMsg \in Message /\ Idle \in Main
  BY PacketsTyped DEF Idle, Main
<1>3. /\ <<>> \in Seq(Message) /\ <<>> \in Seq(Unit) /\ <<>> \in Seq(Packet)
      /\ Len(<<>>) <= PipeCapacity
  BY SenderConstants
<1>4. readers \in SUBSET {"client", "server"}
  BY DEF Init
<1>5. TypeOK
  BY <1>1, <1>2, <1>3, <1>4 DEF Init, TypeOK
<1>6. Bounds /\ Watched /\ Finality /\ NoLostWakeup /\ ByeState /\ CurrentGone
  BY DEF Init, Bounds, Watched, Writes, Finality, NoLostWakeup, ByeState,
         CurrentGone, NoPacket, Idle
<1>7. QED
  BY <1>5, <1>6 DEF IInv

LEMMA Stuttering == ASSUME IInv, UNCHANGED vars PROVE IInv'
BY DEF IInv, vars, object, history, TypeOK, Bounds, Watched, Writes, Finality,
       NoLostWakeup, IsIdle, ByeState, CurrentGone, AllWritten

LEMMA Inductive == IInv /\ [Next]_vars => IInv'
<1> SUFFICES ASSUME IInv, [Next]_vars PROVE IInv'
  OBVIOUS
<1>1. CASE MainLoop
  BY <1>1, WriteCallbackStep, WriteCallbackHupStep, RunInvokeStep DEF MainLoop
<1>2. CASE Writing
  BY <1>2, WriteFixedStep, WriteDataStep, PickNextStep, PingFillStep DEF Writing
<1>3. CASE \E t \in Threads, length \in Lengths : ThreadSend(t, length)
  BY <1>3, ThreadSendStep
<1>4. CASE \E length \in Lengths : MainSend(length)
  BY <1>4, MainSendStep
<1>5. CASE PingCheck \/ Close \/ Dispose
  BY <1>5, PingCheckStep, CloseStep, DisposeStep
<1>6. CASE \E limit \in Backlogs : SetBacklog(limit)
  BY <1>6, SetBacklogStep
<1>7. CASE PeerClose \/ \E n \in 1..PipeCapacity : PeerRead(n)
  BY <1>7, PeerStep
<1>8. CASE UNCHANGED vars
  BY <1>8, Stuttering
<1>9. QED
  BY <1>1, <1>2, <1>3, <1>4, <1>5, <1>6, <1>7, <1>8 DEF Next, SenderNext

(* The invariant holds for any number of logging threads, with or without    *)
(* pings, new limits, disposal and a copy of the reading end in the server.  *)
THEOREM Invariance == Spec => []IInv
<1>1. QED
  BY Initially, Inductive, PTL DEF Spec

(* Every field of a sender keeps its type, and the pipe is never overfilled. *)
THEOREM TypeCorrect == Spec => []TypeOK
<1>1. IInv => TypeOK
  BY DEF IInv
<1>2. QED
  BY <1>1, Invariance, PTL

(* Whatever is left to write while the channel is open, somebody is going to *)
(* write it (dbus_log_sender_send, schedule_write and write).                *)
THEOREM WakeupKept == Spec => []NoLostWakeup
<1>1. IInv => NoLostWakeup
  BY DEF IInv
<1>2. QED
  BY <1>1, Invariance, PTL

(* Nothing follows a Bye (dbus_log_sender_close and the tail of write).      *)
THEOREM ByeLast == Spec => []ByeIsLast
<1>1. ASSUME IInv PROVE ByeIsLast
  <2>1. /\ ByeState
        /\ packet.type = "BYE" => buffer = <<>> /\ current = NoMsg /\ done /\ ~bye
    BY <1>1 DEF IInv, ByeState
  <2>2. \A i \in 1..Len(wire) : wire[i].type = "BYE" =>
          i = Len(wire) /\ packet.type \in {"NONE", "BYE"}
    BY <2>1 DEF ByeState
  <2>3. QED
    BY <2>1, <2>2 DEF ByeIsLast
<1>2. QED
  BY <1>1, Invariance, PTL

(* The assertion of dbus_log_sender_send holds as long as only the main      *)
(* thread logs.                                                              *)
THEOREM SendFindsNoCurrentAlone ==
  Threads = {} => (Spec => []SendFindsNoCurrent)
<1> SUFFICES ASSUME Threads = {} PROVE Spec => []SendFindsNoCurrent
  OBVIOUS
<1>1. IInv => SendFindsNoCurrent
  BY DEF IInv, CurrentGone, Writes, IsIdle, SendFindsNoCurrent
<1>2. QED
  BY <1>1, Invariance, PTL

-----------------------------------------------------------------------------
(* The main thread alone. No thread but the main one logs: nothing happens   *)
(* to the sender between the unlocked parts of write, and every message and  *)
(* every watch can be accounted for.                                         *)

(* write was called by the callback of the only watch, or by schedule_write  *)
(* when there was nothing but its packet to write; outside of write, what    *)
(* waits for its turn waits for an unfinished packet.                        *)
OneWriter ==
  /\ invokes = 0
  /\ ~Writes => attached = (IF watch /\ io THEN 1 ELSE 0)
  /\ Writes => \/ main.frames = 0 /\ watch /\ attached = 1
               \/ main.frames = 1 /\ ~watch /\ attached = 0 /\ buffer = <<>> /\ ~bye
  /\ ~Writes /\ io /\ AllWritten => buffer = <<>> /\ ~bye

(* What the parts of write and ping have found out stays true.               *)
Steps ==
  /\ main.pc = "data" => packet.fixed <= written
  /\ main.pc = "pick" => AllWritten
  /\ main.pc = "ping" => NothingIsPending

(* The packet is that of the current message, which goes to the wire last.   *)
Contents ==
  /\ \/ packet \in {NoPacket, PingPacket, ByePacket}
     \/ current # NoMsg /\ packet = MessagePacket(current)
  /\ io /\ current # NoMsg => packet = MessagePacket(current)
  /\ packet.type = "MESSAGE" =>
       IF AllWritten THEN current.index \in OnWire
                     ELSE \A i \in Sent : wire[i].msg.index < current.index

(* No index is made up.                                                      *)
NoneInvented ==
  /\ dropped \subseteq 1..accepted
  /\ \A k \in 1..Len(buffer) : buffer[k].index \in 1..accepted
  /\ \A i \in Sent : wire[i].msg.index \in 1..accepted
  /\ current # NoMsg => current.index \in 1..accepted

Covered ==
  1..accepted \subseteq OnWire \cup dropped \cup IndicesOf(buffer) \cup {current.index}

(* Bye is made when every message is on the wire or given up.                *)
ByeCovers ==
  packet.type = "BYE" \/ (\E i \in 1..Len(wire) : wire[i].type = "BYE") =>
    1..accepted \subseteq OnWire \cup dropped

Control  == OneWriter /\ Steps
Messages == Contents /\ NoneInvented /\ InOrder /\ Covered /\ ByeCovers

LEMMA PacketContents ==
  /\ \A m \in Message : MessagePacket(m).type = "MESSAGE" /\ MessagePacket(m).msg = m
  /\ PingPacket.type = "PING" /\ ByePacket.type = "BYE" /\ NoPacket.type = "NONE"
  /\ NoPacket.size = 0
BY DEF MessagePacket, PingPacket, ByePacket, NoPacket, Header

(* One more packet on the wire.                                              *)
LEMMA WireGrows ==
  ASSUME TypeOK, NEW p \in Packet, wire' = Append(wire, p)
  PROVE  /\ Len(wire') = Len(wire) + 1 /\ Len(wire) \in Nat
         /\ \A i \in 1..Len(wire) : wire'[i] = wire[i]
         /\ wire'[Len(wire) + 1] = p
         /\ Sent' = Sent \cup (IF p.type = "MESSAGE" THEN {Len(wire) + 1} ELSE {})
         /\ OnWire' = OnWire \cup (IF p.type = "MESSAGE" THEN {p.msg.index} ELSE {})
<1>1. /\ Len(wire') = Len(wire) + 1 /\ Len(wire) \in Nat
      /\ \A i \in 1..Len(wire) : wire'[i] = wire[i]
      /\ wire'[Len(wire) + 1] = p
  BY DEF TypeOK
<1>2. 1..Len(wire') = 1..Len(wire) \cup {Len(wire) + 1}
  BY <1>1
<1>3. Sent' = Sent \cup (IF p.type = "MESSAGE" THEN {Len(wire) + 1} ELSE {})
  BY <1>1, <1>2 DEF Sent
<1>4. \A i \in Sent : wire'[i] = wire[i]
  BY <1>1 DEF Sent
<1>5. OnWire' = OnWire \cup (IF p.type = "MESSAGE" THEN {p.msg.index} ELSE {})
  <2>1. {wire'[i].msg.index : i \in Sent} = OnWire
    BY <1>4 DEF OnWire
  <2>2. CASE p.type = "MESSAGE"
    <3>1. Sent' = Sent \cup {Len(wire) + 1}
      BY <1>3, <2>2
    <3>2. OnWire' = {wire'[i].msg.index : i \in Sent} \cup {wire'[Len(wire) + 1].msg.index}
      BY <3>1 DEF OnWire
    <3>3. QED
      BY <1>1, <2>1, <2>2, <3>2
  <2>3. CASE p.type # "MESSAGE"
    <3>1. Sent' = Sent
      BY <1>3, <2>3
    <3>2. QED
      BY <2>1, <2>3, <3>1 DEF OnWire
  <2>4. QED
    BY <2>2, <2>3
<1>6. QED
  BY <1>1, <1>3, <1>5

(* A step which leaves the messages alone, and does not open the channel.    *)
LEMMA SameMessages ==
  ASSUME Messages, io' => io,
         UNCHANGED <<packet, written, current, buffer, wire, dropped, accepted>>
  PROVE  Messages'
BY DEF Messages, Contents, AllWritten, NoneInvented, InOrder, Covered, ByeCovers,
       Sent, OnWire, IndicesOf

(* Units of the packet go to the pipe, and the packet to the wire when all   *)
(* of it was written.                                                        *)
LEMMA HandMessages ==
  ASSUME IInv, Messages, NEW units, Hand(units), written < packet.size,
         written' < packet.size \/ written' = packet.size,
         UNCHANGED <<io, packet, current, buffer, dropped, accepted>>
  PROVE  Messages'
<1>1. /\ TypeOK /\ packet \in Packet /\ current \in Message /\ ~AllWritten
      /\ written \in Nat
  BY DEF IInv, TypeOK, AllWritten, Packet
<1>2. CASE wire' = wire /\ packet.type # "MESSAGE"
  BY <1>2, PacketContents
     DEF Messages, Contents, NoneInvented, InOrder, Covered, ByeCovers, Sent,
         OnWire, IndicesOf
<1>3. CASE wire' = wire /\ packet.type = "MESSAGE" /\ ~AllWritten'
  BY <1>1, <1>3
     DEF Messages, Contents, NoneInvented, InOrder, Covered, ByeCovers, Sent,
         OnWire, IndicesOf
<1>4. CASE wire' = Append(wire, packet) /\ packet.type # "MESSAGE"
  <2>1. Sent' = Sent /\ OnWire' = OnWire /\ \A i \in Sent : wire'[i] = wire[i]
    BY <1>1, <1>4, WireGrows DEF Sent
  <2>2. Contents' /\ NoneInvented' /\ InOrder' /\ Covered'
    BY <1>4, <2>1 DEF Messages, Contents, NoneInvented, InOrder, Covered, IndicesOf
  <2>3. (\E i \in 1..Len(wire') : wire'[i].type = "BYE") =>
          packet.type = "BYE" \/ \E i \in 1..Len(wire) : wire[i].type = "BYE"
    <3>1. /\ Len(wire') = Len(wire) + 1 /\ Len(wire) \in Nat
          /\ \A i \in 1..Len(wire) : wire'[i] = wire[i]
          /\ wire'[Len(wire) + 1] = packet
      BY <1>1, <1>4, WireGrows
    <3>2. \A i \in 1..Len(wire') : i \in 1..Len(wire) \/ i = Len(wire) + 1
      BY <3>1
    <3>3. QED
      BY <3>1, <3>2
  <2>4. ByeCovers'
    BY <2>1, <2>3 DEF Messages, ByeCovers
  <2>5. QED
    BY <2>2, <2>4 DEF Messages
<1>5. CASE wire' = Append(wire, packet) /\ packet.type = "MESSAGE" /\ AllWritten'
  <2>1. /\ current # NoMsg /\ packet = MessagePacket(current) /\ packet.msg = current
        /\ \A i \in Sent : wire[i].msg.index < current.index
    BY <1>1, <1>5, PacketContents DEF Messages, Contents
  <2> DEFINE last == Len(wire) + 1
  <2>2. /\ Sent' = Sent \cup {last} /\ OnWire' = OnWire \cup {current.index}
        /\ \A i \in Sent : wire'[i] = wire[i] /\ i < last /\ last \notin Sent
        /\ wire'[last].msg = current /\ last \in Nat
    BY <1>1, <1>5, <2>1, WireGrows DEF Sent
  <2> HIDE DEF last
  <2>3. Contents'
    BY <1>5, <2>1, <2>2 DEF Messages, Contents
  <2>4. NoneInvented' /\ Covered'
    BY <2>1, <2>2 DEF Messages, NoneInvented, Covered, IndicesOf
  <2>5. InOrder'
    <3>1. current.index \in Nat /\ \A i \in Sent : i \in Nat
      BY <1>1 DEF Message, Sent
    <3>2. \A i, j \in Sent' : i < j => wire'[i].msg.index < wire'[j].msg.index
      BY <2>1, <2>2, <3>1 DEF Messages, InOrder
    <3>3. \A i \in Sent' : wire'[i].msg.index <= current.index
      BY <2>1, <2>2, <3>1 DEF Messages, InOrder
    <3>4. \A i \in Sent', k \in 1..Len(buffer) : wire'[i].msg.index < buffer[k].index
      BY <2>2 DEF Messages, InOrder
    <3>5. QED
      BY <3>2, <3>3, <3>4 DEF Messages, InOrder
  <2>6. ByeCovers'
    <3>1. \A i \in 1..Len(wire) : wire[i].type # "BYE"
      BY <1>1, <1>5 DEF IInv, ByeState, AllWritten
    <3>2. \A i \in 1..Len(wire') : wire'[i].type # "BYE"
      <4>1. /\ Len(wire') = Len(wire) + 1 /\ Len(wire) \in Nat
            /\ \A i \in 1..Len(wire) : wire'[i] = wire[i]
            /\ wire'[Len(wire) + 1] = packet
        BY <1>1, <1>5, WireGrows
      <4>2. \A i \in 1..Len(wire') : i \in 1..Len(wire) \/ i = Len(wire) + 1
        BY <4>1
      <4>3. QED
        BY <1>5, <3>1, <4>1, <4>2
    <3>3. QED
      BY <1>5, <3>2 DEF ByeCovers
  <2>7. QED
    BY <2>3, <2>4, <2>5, <2>6 DEF Messages
<1>6. /\ written' = packet.size \/ ~AllWritten'
      /\ written' # packet.size => wire' = wire
      /\ written' = packet.size /\ packet.type # "PING" => wire' = Append(wire, packet)
      /\ packet.type = "PING" => wire' = wire
      /\ written' = packet.size => AllWritten'
  BY DEF Hand, AllWritten
<1>7. QED
  BY <1>2, <1>3, <1>4, <1>5, <1>6

(* The channel is shut down: what was not written stays where it is, or is   *)
(* given up with the sender.                                                 *)
LEMMA ShutdownMessages ==
  ASSUME IInv, Messages, Shutdown, UNCHANGED <<accepted, wire>>,
         \/ UNCHANGED <<buffer, dropped, current>>
         \/ /\ buffer' = <<>> /\ dropped' = dropped \cup IndicesOf(buffer)
            /\ current' = current
         \/ /\ UNCHANGED <<buffer, dropped>>
            /\ current' = NoMsg /\ current.index \in OnWire \cup {0}
  PROVE  Messages'
<1>1. /\ packet' = NoPacket /\ written' = 0 /\ ~io' /\ TypeOK
      /\ packet'.type = "NONE"
  BY PacketContents DEF Shutdown, IInv, TypeOK
<1>2. Contents'
  BY <1>1 DEF Contents
<1>3. Sent' = Sent /\ OnWire' = OnWire
  BY DEF Sent, OnWire
<1>4. CASE UNCHANGED <<buffer, dropped, current>>
  BY <1>1, <1>2, <1>3, <1>4 DEF Messages, NoneInvented, InOrder, Covered, ByeCovers, IndicesOf
<1>5. CASE /\ buffer' = <<>> /\ dropped' = dropped \cup IndicesOf(buffer)
           /\ current' = current
  <2>1. Len(buffer') = 0 /\ 1..Len(buffer') = {} /\ IndicesOf(buffer') = {}
    BY <1>5 DEF IndicesOf
  <2>2. NoneInvented'
    BY <1>3, <1>5, <2>1 DEF Messages, NoneInvented, IndicesOf
  <2>3. InOrder' /\ Covered' /\ ByeCovers'
    BY <1>1, <1>3, <1>5, <2>1 DEF Messages, InOrder, Covered, ByeCovers
  <2>4. QED
    BY <1>2, <2>2, <2>3 DEF Messages
<1>6. CASE /\ UNCHANGED <<buffer, dropped>>
           /\ current' = NoMsg /\ current.index \in OnWire \cup {0}
  <2>1. NoneInvented' /\ ByeCovers'
    BY <1>1, <1>3, <1>6 DEF Messages, NoneInvented, ByeCovers
  <2>2. InOrder'
    <3>1. \A k \in 1..Len(buffer) : NoMsg.index < buffer[k].index
      BY <1>1 DEF Messages, NoneInvented, NoMsg
    <3>2. QED
      BY <1>3, <1>6, <3>1 DEF Messages, InOrder
  <2>3. Covered'
    BY <1>3, <1>6 DEF Messages, Covered, IndicesOf
  <2>4. QED
    BY <1>2, <2>1, <2>2, <2>3 DEF Messages
<1>7. QED
  BY <1>4, <1>5, <1>6

(* The next message of the queue, once the current one is on the wire.       *)
LEMMA PickMessages ==
  ASSUME IInv, Messages, current.index \in OnWire \cup {0},
         buffer # <<>>, current' = Head(buffer), buffer' = Tail(buffer),
         packet' = MessagePacket(Head(buffer)), written' = 0, ~AllWritten',
         UNCHANGED <<wire, dropped, accepted>>
  PROVE  Messages'
<1>1. TypeOK /\ buffer \in Seq(Message) /\ Sent' = Sent /\ OnWire' = OnWire
  BY DEF IInv, TypeOK, Sent, OnWire
<1>2. /\ Len(buffer) \in Nat /\ Len(buffer) >= 1 /\ Len(buffer') = Len(buffer) - 1
      /\ \A k \in 1..Len(buffer') : k + 1 \in 1..Len(buffer) /\ buffer'[k] = buffer[k + 1]
      /\ current' = buffer[1] /\ 1 \in 1..Len(buffer)
  BY <1>1
<1>3. /\ current' \in Message /\ current'.index \in 1..accepted /\ current' # NoMsg
      /\ accepted \in Nat
  BY <1>1, <1>2 DEF Messages, NoneInvented, NoMsg, TypeOK
<1>4. packet'.type = "MESSAGE" /\ packet' = MessagePacket(current')
  BY <1>3, PacketContents
<1>5. Contents'
  <2>1. \A i \in Sent' : wire'[i].msg.index < current'.index
    BY <1>1, <1>2 DEF Messages, InOrder
  <2>2. QED
    BY <1>3, <1>4, <2>1 DEF Contents
<1>6. NoneInvented'
  <2>1. \A k \in 1..Len(buffer') : buffer'[k].index \in 1..accepted
    BY <1>2 DEF Messages, NoneInvented
  <2>2. QED
    BY <1>1, <1>3, <2>1 DEF Messages, NoneInvented
<1>7. InOrder'
  <2>1. \A i \in Sent : wire[i].msg.index \in Nat
    BY <1>3 DEF Messages, NoneInvented
  <2>2. \A i \in Sent' : wire'[i].msg.index <= current'.index
    BY <1>1, <1>2, <1>3, <2>1 DEF Messages, InOrder
  <2>3. \A i \in Sent', k \in 1..Len(buffer') : wire'[i].msg.index < buffer'[k].index
    BY <1>1, <1>2 DEF Messages, InOrder
  <2>4. \A k \in 1..Len(buffer') : current'.index < buffer'[k].index
    <3>1. ASSUME NEW k \in 1..Len(buffer') PROVE 1 < k + 1
      OBVIOUS
    <3>2. QED
      BY <1>2, <3>1 DEF Messages, InOrder
  <2>5. \A k, l \in 1..Len(buffer') : k < l => buffer'[k].index < buffer'[l].index
    <3>1. ASSUME NEW k \in 1..Len(buffer'), NEW l \in 1..Len(buffer'), k < l
          PROVE  k + 1 < l + 1
      BY <3>1
    <3>2. QED
      BY <1>2, <3>1 DEF Messages, InOrder
  <2>6. QED
    BY <1>1, <2>2, <2>3, <2>4, <2>5 DEF Messages, InOrder
<1>8. Covered'
  <2>1. IndicesOf(buffer) \subseteq IndicesOf(buffer') \cup {current'.index}
    <3>1. ASSUME NEW k \in 1..Len(buffer)
          PROVE  buffer[k].index \in IndicesOf(buffer') \cup {current'.index}
      <4>1. CASE k = 1
        BY <1>2, <4>1
      <4>2. CASE k # 1
        <5>1. k - 1 \in 1..Len(buffer') /\ (k - 1) + 1 = k
          BY <1>2, <4>2
        <5>2. buffer'[k - 1] = buffer[k]
          BY <1>2, <5>1
        <5>3. QED
          BY <5>1, <5>2 DEF IndicesOf
      <4>3. QED
        BY <4>1, <4>2
    <3>2. QED
      BY <3>1 DEF IndicesOf
  <2>2. 0 \notin 1..accepted
    BY <1>3
  <2>3. QED
    BY <1>1, <2>1, <2>2 DEF Messages, Covered
<1>9. ByeCovers'
  BY <1>1, <1>4 DEF Messages, ByeCovers
<1>10. QED
  BY <1>5, <1>6, <1>7, <1>8, <1>9 DEF Messages

(* A packet without a message, once the current message is on the wire. Bye  *)
(* is one only when the queue is empty.                                      *)
LEMMA PlainMessages ==
  ASSUME IInv, Messages, current.index \in OnWire \cup {0}, current' = NoMsg,
         packet' \in {NoPacket, PingPacket, ByePacket},
         packet' = ByePacket => buffer = <<>>,
         UNCHANGED <<buffer, wire, dropped, accepted>>
  PROVE  Messages'
<1>1. /\ TypeOK /\ Sent' = Sent /\ OnWire' = OnWire /\ accepted \in Nat
      /\ IndicesOf(buffer') = IndicesOf(buffer)
  BY DEF IInv, TypeOK, Sent, OnWire, IndicesOf
<1>2. Contents' /\ NoneInvented'
  BY <1>1, PacketContents DEF Messages, Contents, NoneInvented
<1>3. InOrder'
  <2>1. \A k \in 1..Len(buffer) : NoMsg.index < buffer[k].index
    BY <1>1 DEF Messages, NoneInvented, NoMsg
  <2>2. QED
    BY <1>1, <2>1 DEF Messages, InOrder
<1>4. 1..accepted \subseteq OnWire \cup dropped \cup IndicesOf(buffer)
  <2>1. 0 \notin 1..accepted
    BY <1>1
  <2>2. QED
    BY <2>1 DEF Messages, Covered
<1>5. Covered'
  BY <1>1, <1>4 DEF Covered
<1>6. ByeCovers'
  <2>1. CASE packet' = ByePacket
    <3>1. IndicesOf(buffer) = {}
      <4>1. Len(buffer) = 0 /\ 1..Len(buffer) = {}
        BY <2>1
      <4>2. QED
        BY <4>1 DEF IndicesOf
    <3>2. QED
      BY <1>1, <1>4, <3>1 DEF ByeCovers
  <2>2. CASE packet' # ByePacket
    BY <1>1, <2>2, PacketContents DEF Messages, ByeCovers
  <2>3. QED
    BY <2>1, <2>2
<1>7. QED
  BY <1>2, <1>3, <1>5, <1>6 DEF Messages

(* What a full buffer spares is a beginning of it.                           *)
LEMMA SparedPrefix ==
  ASSUME TypeOK
  PROVE  /\ Spared \in Seq(Message) /\ Len(Spared) \in 0..Len(buffer)
         /\ \A k \in 1..Len(Spared) : Spared[k] = buffer[k]
<1>1. buffer \in Seq(Message)
  BY DEF TypeOK
<1>2. CASE CanPut(buffer)
  BY <1>1, <1>2 DEF Spared
<1>3. CASE ~CanPut(buffer)
  <2>1. Len(buffer) - Len(buffer) \div 2 \in 0..Len(buffer)
    BY <1>1
  <2>2. Spared = SubSeq(buffer, 1, Len(buffer) - Len(buffer) \div 2)
    BY <1>3 DEF Spared
  <2>3. QED
    BY <1>1, <2>1, <2>2
<1>4. QED
  BY <1>2, <1>3

(* A message put into a queue that was in order, behind all the others.      *)
LEMMA PutKeepsOrder ==
  ASSUME TypeOK, NEW m \in Message,
         \A k \in 1..Len(buffer) : buffer[k].index < m.index,
         \A k, l \in 1..Len(buffer) : k < l => buffer[k].index < buffer[l].index
  PROVE  LET queued == Put(Spared, m)
         IN  /\ queued \in Seq(Message)
             /\ \A k \in 1..Len(queued) : queued[k] = m
                   \/ (k \in 1..Len(buffer) /\ queued[k] = buffer[k])
             /\ \A k, l \in 1..Len(queued) : k < l => queued[k].index < queued[l].index
<1> DEFINE queued == Put(Spared, m)
<1>1. /\ Spared \in Seq(Message) /\ Len(Spared) \in 0..Len(buffer)
      /\ \A k \in 1..Len(Spared) : Spared[k] = buffer[k]
      /\ buffer \in Seq(Message) /\ Len(buffer) \in Nat
  BY SparedPrefix DEF TypeOK
<1>2. \A k \in 1..Len(Spared) : k \in 1..Len(buffer)
  BY <1>1
<1>3. CASE queued = Spared
  BY <1>1, <1>2, <1>3
<1>4. CASE queued = Append(Spared, m)
  <2>1. /\ queued \in Seq(Message) /\ Len(queued) = Len(Spared) + 1
        /\ \A k \in 1..Len(Spared) : queued[k] = buffer[k]
        /\ queued[Len(Spared) + 1] = m
    BY <1>1, <1>4
  <2>2. \A k \in 1..Len(queued) : k \in 1..Len(Spared) \/ k = Len(Spared) + 1
    BY <1>1, <2>1
  <2> HIDE DEF queued
  <2>3. ASSUME NEW k \in 1..Len(queued), NEW l \in 1..Len(queued), k < l
        PROVE  queued[k].index < queued[l].index
    <3>1. k \in 1..Len(Spared)
      BY <1>1, <2>1, <2>3
    <3>2. k \in 1..Len(buffer) /\ queued[k] = buffer[k]
      BY <1>2, <2>1, <3>1
    <3>3. CASE l \in 1..Len(Spared)
      BY <1>2, <2>1, <2>3, <3>2, <3>3
    <3>4. CASE l = Len(Spared) + 1
      BY <2>1, <3>2, <3>4
    <3>5. QED
      BY <2>2, <3>3, <3>4
  <2>4. QED
    BY <1>2, <2>1, <2>2, <2>3 DEF queued
<1>5. QED
  BY <1>3, <1>4 DEF Put

(* A message is accepted by a sender all of whose messages are accounted for.*)
LEMMA AcceptMessages ==
  ASSUME IInv, Messages, NEW length \in Lengths, Accept(length),
         AllWritten => current = NoMsg /\ buffer = <<>>
  PROVE  Messages'
<1> DEFINE msg == [index |-> accepted + 1, length |-> length]
<1>1. /\ TypeOK /\ accepted \in Nat /\ accepted' = accepted + 1 /\ wire' = wire
      /\ msg \in Message /\ msg.index = accepted + 1 /\ ~done /\ ~bye /\ io' = io
  <2>1. TypeOK /\ accepted \in Nat /\ ~done /\ ~bye /\ io' = io
    BY AcceptKeeps DEF IInv, TypeOK
  <2>2. accepted' = accepted + 1 /\ wire' = wire
    BY DEF Accept
  <2>3. QED
    BY <2>1, <2>2, SenderConstants DEF Message
<1>2. /\ Sent' = Sent /\ OnWire' = OnWire
      /\ packet.type # "BYE" /\ \A i \in 1..Len(wire) : wire[i].type # "BYE"
  BY <1>1 DEF IInv, ByeState, Sent, OnWire
<1>3. 1..accepted' = 1..accepted \cup {msg.index} /\ \A i \in 1..accepted : i < msg.index
  BY <1>1
<1>4. msg # NoMsg /\ NoMsg.index = 0
  BY <1>1 DEF NoMsg
<1>5. CASE AllWritten
  <2>1. /\ packet' = MessagePacket(msg) /\ written' = 0 /\ UNCHANGED <<buffer, dropped>>
        /\ current' = msg
    BY <1>5 DEF Accept
  <2>2. packet'.type = "MESSAGE" /\ ~AllWritten'
    BY <1>1, <1>5, <2>1, PacketContents, AcceptKeeps
  <2> HIDE DEF msg
  <2>3. \A i \in Sent' : wire'[i].msg.index < msg.index
    BY <1>1, <1>2, <1>3 DEF Messages, NoneInvented
  <2>4. Contents'
    BY <1>4, <2>1, <2>2, <2>3 DEF Contents
  <2>5. Len(buffer) = 0 /\ 1..Len(buffer) = {}
    BY <1>5
  <2>6. NoneInvented'
    BY <1>1, <1>2, <1>3, <2>1, <2>5 DEF Messages, NoneInvented
  <2>7. InOrder'
    <3>1. \A i \in Sent' : wire'[i].msg.index <= msg.index
      BY <1>1, <1>2, <1>3 DEF Messages, NoneInvented
    <3>2. QED
      BY <1>1, <1>2, <2>1, <2>5, <3>1 DEF Messages, InOrder
  <2>8. Covered'
    <3>1. IndicesOf(buffer') = IndicesOf(buffer) /\ 0 \notin 1..accepted
      BY <1>1, <2>1 DEF IndicesOf
    <3>2. 1..accepted \subseteq OnWire \cup dropped \cup IndicesOf(buffer)
      BY <1>4, <1>5, <3>1 DEF Messages, Covered
    <3>3. QED
      BY <1>2, <1>3, <2>1, <3>1, <3>2 DEF Covered
  <2>9. ByeCovers'
    BY <1>1, <1>2, <2>2 DEF ByeCovers
  <2>10. QED
    BY <2>4, <2>6, <2>7, <2>8, <2>9 DEF Messages
<1>6. CASE ~AllWritten
  <2> DEFINE queued == Put(Spared, msg)
  <2>1. /\ UNCHANGED <<current, packet, written>> /\ buffer' = queued
        /\ dropped' = dropped \cup
             ((IndicesOf(buffer) \cup {msg.index}) \ IndicesOf(buffer'))
    BY <1>6 DEF Accept
  <2>2. \A k \in 1..Len(buffer) : buffer[k].index < msg.index
    BY <1>3 DEF Messages, NoneInvented
  <2>3. /\ \A k \in 1..Len(buffer') : buffer'[k] = msg
              \/ (k \in 1..Len(buffer) /\ buffer'[k] = buffer[k])
        /\ \A k, l \in 1..Len(buffer') : k < l => buffer'[k].index < buffer'[l].index
    BY <1>1, <2>1, <2>2, PutKeepsOrder DEF Messages, InOrder
  <2> HIDE DEF msg, queued
  <2>4. Contents'
    BY <1>1, <1>2, <1>6, <2>1 DEF Messages, Contents, AllWritten
  <2>5. NoneInvented'
    <3>1. \A k \in 1..Len(buffer') : buffer'[k].index \in 1..accepted'
      BY <1>3, <2>3 DEF Messages, NoneInvented
    <3>2. IndicesOf(buffer) \subseteq 1..accepted
      BY DEF Messages, NoneInvented, IndicesOf
    <3>3. QED
      BY <1>1, <1>2, <1>3, <2>1, <3>1, <3>2 DEF Messages, NoneInvented
  <2>6. InOrder'
    <3>1. current.index < msg.index
      BY <1>1, <1>3, <1>4 DEF Messages, NoneInvented
    <3>2. \A i \in Sent : wire[i].msg.index < msg.index
      BY <1>3 DEF Messages, NoneInvented
    <3>3. \A i \in Sent', k \in 1..Len(buffer') : wire'[i].msg.index < buffer'[k].index
      BY <1>1, <1>2, <2>3, <3>2 DEF Messages, InOrder
    <3>4. \A k \in 1..Len(buffer') : current'.index < buffer'[k].index
      BY <2>1, <2>3, <3>1 DEF Messages, InOrder
    <3>5. QED
      BY <1>1, <1>2, <2>1, <2>3, <3>3, <3>4 DEF Messages, InOrder
  <2>7. Covered'
    BY <1>2, <1>3, <2>1 DEF Messages, Covered
  <2>8. ByeCovers'
    BY <1>1, <1>2, <2>1 DEF ByeCovers
  <2>9. QED
    BY <2>4, <2>5, <2>6, <2>7, <2>8 DEF Messages
<1>7. QED
  BY <1>5, <1>6

LEMMA Beginning ==
  ASSUME NEW s \in Seq(Message), NEW n \in 1..Len(s)
  PROVE  Len(SubSeq(s, 1, n)) = n /\ \A k \in 1..n : SubSeq(s, 1, n)[k] = s[k]
OBVIOUS

LEMMA Ending ==
  ASSUME NEW s \in Seq(Message), NEW n \in 1..Len(s)
  PROVE  LET end == SubSeq(s, Len(s) - n + 1, Len(s))
         IN  /\ Len(s) - n \in Nat /\ Len(end) = n
             /\ \A k \in 1..n : /\ k + (Len(s) - n) \in 1..Len(s)
                               /\ end[k] = s[k + (Len(s) - n)]
<1> DEFINE from == Len(s) - n
           end == SubSeq(s, Len(s) - n + 1, Len(s))
<1>1. Len(s) \in Nat /\ n \in Nat /\ n <= Len(s) /\ from \in Nat
  OBVIOUS
<1>2. Len(s) - n + 1 = from + 1 /\ Len(s) = from + n
  BY <1>1
<1>3. Len(end) = n
  BY <1>1
<1>4. ASSUME NEW k \in 1..n
      PROVE  k + from \in 1..Len(s) /\ end[k] = s[k + from]
  <2>1. k + from \in 1..Len(s)
    BY <1>1
  <2>2. (Len(s) - n + 1) + k - 1 = k + from
    BY <1>1
  <2>3. end[k] = s[(Len(s) - n + 1) + k - 1]
    BY <1>1
  <2>4. QED
    BY <2>1, <2>2, <2>3
<1>5. QED
  BY <1>1, <1>3, <1>4

(* A lower limit may take messages off either end of the queue.              *)
LEMMA SetBacklogMessages ==
  ASSUME IInv, Messages, NEW limit \in Backlogs, SetBacklog(limit)
  PROVE  Messages'
<1>1. /\ TypeOK /\ buffer \in Seq(Message) /\ Len(buffer) \in Nat
      /\ UNCHANGED <<done, bye, io, packet, written, current, accepted, wire>>
      /\ dropped' = dropped \cup (IndicesOf(buffer) \ IndicesOf(buffer'))
  BY DEF IInv, TypeOK, SetBacklog
<1>2. backlog' \in Int
  BY SenderConstants DEF SetBacklog, NormalizeBacklog, DefaultBacklog, Unlimited
<1>3. PICK from \in Nat :
        \A k \in 1..Len(buffer') : k + from \in 1..Len(buffer) /\ buffer'[k] = buffer[k + from]
  <2>1. CASE buffer' = buffer
    <3>1. \A k \in 1..Len(buffer') : k + 0 \in 1..Len(buffer) /\ buffer'[k] = buffer[k + 0]
      BY <1>1, <2>1
    <3>2. QED
      BY <3>1
  <2>2. CASE /\ backlog' > 0 /\ backlog' < Len(buffer)
             /\ buffer' = SubSeq(buffer, 1, backlog')
    <3>1. backlog' \in 1..Len(buffer) /\ 1 \in 1..Len(buffer)
      BY <1>1, <1>2, <2>2
    <3>2. Len(buffer') = backlog' /\ \A k \in 1..backlog' : buffer'[k] = buffer[k]
      BY <1>1, <2>2, <3>1, Beginning
    <3>3. \A k \in 1..Len(buffer') : k + 0 = k /\ k \in 1..Len(buffer)
      BY <1>1, <3>1, <3>2
    <3>4. \A k \in 1..Len(buffer') : k + 0 \in 1..Len(buffer) /\ buffer'[k] = buffer[k + 0]
      BY <3>2, <3>3
    <3>5. QED
      BY <3>4
  <2>3. CASE /\ backlog' > 0 /\ backlog' < Len(buffer)
             /\ buffer' = SubSeq(buffer, Len(buffer) - backlog' + 1, Len(buffer))
    <3>1. backlog' \in 1..Len(buffer)
      BY <1>1, <1>2, <2>3
    <3>2. /\ Len(buffer) - backlog' \in Nat /\ Len(buffer') = backlog'
          /\ \A k \in 1..backlog' : /\ k + (Len(buffer) - backlog') \in 1..Len(buffer)
                                   /\ buffer'[k] = buffer[k + (Len(buffer) - backlog')]
      BY <1>1, <2>3, <3>1, Ending
    <3>3. QED
      BY <3>2
  <2>4. QED
    BY <2>1, <2>2, <2>3 DEF SetBacklog
<1>4. Sent' = Sent /\ OnWire' = OnWire
  BY <1>1 DEF Sent, OnWire
<1>5. IndicesOf(buffer) \subseteq 1..accepted
  BY DEF Messages, NoneInvented, IndicesOf
<1>6. Contents' /\ NoneInvented'
  BY <1>1, <1>3, <1>4, <1>5 DEF Messages, Contents, NoneInvented, AllWritten
<1>7. InOrder'
  <2>1. ASSUME NEW k \in 1..Len(buffer'), NEW l \in 1..Len(buffer'), k < l
        PROVE  buffer'[k].index < buffer'[l].index
    <3>1. k + from < l + from
      BY <2>1
    <3>2. QED
      BY <1>3, <3>1 DEF Messages, InOrder
  <2>2. QED
    BY <1>1, <1>3, <1>4, <2>1 DEF Messages, InOrder
<1>8. Covered' /\ ByeCovers'
  BY <1>1, <1>4 DEF Messages, Covered, ByeCovers
<1>9. QED
  BY <1>6, <1>7, <1>8 DEF Messages

-----------------------------------------------------------------------------
(* Steps of a sender no other thread uses                                    *)

(* write returns: its caller leaves one watch behind, or none.               *)
LEMMA ReturnAlone ==
  ASSUME IInv, Control, Writes, NEW more \in BOOLEAN, NEW open \in BOOLEAN,
         more => open, Return(more, open)
  PROVE  main' = Idle /\ watch' = more /\ attached' = IF more THEN 1 ELSE 0
<1>1. CASE main.frames = 0 /\ watch /\ attached = 1
  BY <1>1 DEF Return
<1>2. CASE main.frames = 1 /\ ~watch /\ attached = 0
  <2>1. CASE more
    BY <1>2, <2>1 DEF Return
  <2>2. CASE ~more
    BY <1>2, <2>2 DEF Return
  <2>3. QED
    BY <2>1, <2>2
<1>3. QED
  BY <1>1, <1>2 DEF Control, OneWriter

(* schedule_write with no queue behind the packet.                           *)
LEMMA ScheduleAlone ==
  ASSUME IInv, Control, ~Writes, ScheduleWrite,
         UNCHANGED <<io, watch, attached, invokes>>, buffer' = <<>>, ~bye'
  PROVE  Control'
<1>1. CASE io /\ ~watch
  <2>1. main' = [pc |-> "fixed", frames |-> 1]
    BY <1>1 DEF ScheduleWrite
  <2>2. QED
    BY <1>1, <2>1 DEF Control, OneWriter, Steps, Writes
<1>2. CASE ~(io /\ ~watch)
  <2>1. main' = Idle
    BY <1>2 DEF ScheduleWrite
  <2>2. QED
    BY <1>2, <2>1 DEF Control, OneWriter, Steps, Writes, Idle
<1>3. QED
  BY <1>1, <1>2

(* The channel is closed with no watch left behind.                          *)
LEMMA ClosedAlone ==
  ASSUME Control, ~io', attached' = 0, main' = Idle, invokes' = invokes
  PROVE  Control'
BY DEF Control, OneWriter, Steps, Writes, Idle

(* write returned with a part of the packet left to be written.              *)
LEMMA UnfinishedAlone ==
  ASSUME Control, io', attached' = 1, watch' = TRUE, main' = Idle,
         invokes' = invokes, ~AllWritten'
  PROVE  Control'
BY DEF Control, OneWriter, Steps, Writes, Idle

(* Where write is with its packet does not matter to its caller.             *)
LEMMA GoOnAlone ==
  ASSUME IInv, Control, Writes, NEW pc \in {"data", "pick"},
         main' = [main EXCEPT !.pc = pc],
         pc = "data" => packet'.fixed <= written', pc = "pick" => AllWritten',
         UNCHANGED <<buffer, bye, io, watch, attached, invokes>>
  PROVE  Control'
<1>1. main'.pc = pc /\ main'.frames = main.frames
  BY DEF IInv, TypeOK, Main
<1>2. QED
  BY <1>1 DEF Control, OneWriter, Steps, Writes

(* The current message is on the wire when the next packet is chosen.        *)
LEMMA CurrentSent ==
  ASSUME IInv, Messages, io, AllWritten
  PROVE  current.index \in OnWire \cup {0}
<1>1. CASE current = NoMsg
  BY <1>1 DEF NoMsg
<1>2. CASE current # NoMsg
  <2>1. packet.type = "MESSAGE"
    BY <1>2, PacketContents DEF Messages, Contents, IInv, TypeOK
  <2>2. QED
    BY <2>1 DEF Messages, Contents
<1>3. QED
  BY <1>1, <1>2

AloneInv == IInv /\ Control /\ Messages

LEMMA FailedAlone ==
  ASSUME AloneInv, Writes, WriteFailed
  PROVE  Control' /\ Messages'
<1>1. /\ Shutdown /\ Return(FALSE, FALSE)
      /\ UNCHANGED <<buffer, current, invokes, dropped, accepted, wire>>
  BY DEF WriteFailed, history
<1>2. main' = Idle /\ attached' = 0
  BY <1>1, ReturnAlone DEF AloneInv
<1>3. QED
  BY <1>1, <1>2, ClosedAlone, ShutdownMessages DEF AloneInv, Shutdown

LEMMA WriteFixedAlone ==
  ASSUME AloneInv, IInv', WriteFixed
  PROVE  Control' /\ Messages'
<1>1. /\ Writes /\ io /\ packet \in Packet /\ written \in Nat /\ written <= packet.size
      /\ packet.fixed <= packet.size /\ written' <= packet'.size /\ written' \in Nat
  BY DEF WriteFixed, Writes, AloneInv, IInv, TypeOK, Bounds, Watched
<1>2. ASSUME NEW pc \in {"data", "pick"}, pc = "pick" => written >= packet.size,
             pc = "data" => packet.fixed <= written, main' = [main EXCEPT !.pc = pc],
             UNCHANGED <<object, invokes, readers, pipe, history>>
      PROVE  Control' /\ Messages'
  <2>1. (pc = "data" => packet'.fixed <= written') /\ (pc = "pick" => AllWritten')
    BY <1>1, <1>2 DEF AllWritten, Packet, object
  <2>2. QED
    BY <1>1, <1>2, <2>1, GoOnAlone, SameMessages DEF AloneInv, object, history
<1>3. CASE WriteFailed
  BY <1>1, <1>3, FailedAlone
<1>4. CASE /\ written < packet.size
           /\ Hand(Units(packet, written, Fitting(packet.fixed - written)))
           /\ IF written' < packet.fixed
              THEN Return(TRUE, TRUE)
              ELSE main' = [main EXCEPT !.pc = "data"] /\ UNCHANGED <<watch, attached>>
           /\ UNCHANGED <<done, bye, io, buffer, backlog, packet, current,
                          invokes, readers, accepted, dropped>>
  <2>1. written' < packet.size \/ written' = packet.size
    BY <1>1, <1>4 DEF Packet
  <2>2. Messages'
    BY <1>4, <2>1, HandMessages DEF AloneInv
  <2>3. CASE Return(TRUE, TRUE) /\ written' < packet.fixed
    <3>1. main' = Idle /\ watch' = TRUE /\ attached' = 1
      BY <1>1, <2>3, ReturnAlone DEF AloneInv
    <3>2. ~AllWritten'
      BY <1>1, <1>4, <2>3 DEF AllWritten, Packet
    <3>3. QED
      BY <1>1, <1>4, <2>2, <3>1, <3>2, UnfinishedAlone DEF AloneInv
  <2>4. CASE /\ ~(written' < packet.fixed)
             /\ main' = [main EXCEPT !.pc = "data"] /\ UNCHANGED <<watch, attached>>
    <3>1. packet'.fixed <= written'
      BY <1>1, <1>4, <2>4 DEF Packet
    <3>2. QED
      BY <1>1, <1>4, <2>2, <2>4, <3>1, GoOnAlone DEF AloneInv
  <2>5. QED
    BY <1>4, <2>3, <2>4
<1>5. QED
  BY <1>2, <1>3, <1>4 DEF WriteFixed

LEMMA WriteDataAlone ==
  ASSUME AloneInv, IInv', WriteData
  PROVE  Control' /\ Messages'
<1> DEFINE n == Fitting(packet.size - written)
           units == IF written < packet.fixed THEN [i \in 1..n |-> Garbage]
                    ELSE Units(packet, written, n)
<1>1. /\ Writes /\ io /\ packet \in Packet /\ written \in Nat /\ written <= packet.size
      /\ written' <= packet'.size /\ written' \in Nat
  BY DEF WriteData, Writes, AloneInv, IInv, TypeOK, Bounds, Watched
<1>2. CASE /\ written >= packet.size /\ main' = [main EXCEPT !.pc = "pick"]
           /\ UNCHANGED <<object, invokes, readers, pipe, history>>
  <2>1. AllWritten'
    BY <1>1, <1>2 DEF AllWritten, Packet, object
  <2>2. QED
    BY <1>1, <1>2, <2>1, GoOnAlone, SameMessages DEF AloneInv, object, history
<1>3. CASE WriteFailed
  BY <1>1, <1>3, FailedAlone
<1>4. CASE /\ written < packet.size
           /\ Hand(units)
           /\ IF written' < packet.size
              THEN Return(TRUE, TRUE)
              ELSE main' = [main EXCEPT !.pc = "pick"] /\ UNCHANGED <<watch, attached>>
           /\ UNCHANGED <<done, bye, io, buffer, backlog, packet, current,
                          invokes, readers, accepted, dropped>>
  <2> HIDE DEF n, units
  <2>1. written' < packet.size \/ written' = packet.size
    BY <1>1, <1>4 DEF Packet
  <2>2. Messages'
    BY <1>4, <2>1, HandMessages DEF AloneInv
  <2>3. CASE Return(TRUE, TRUE) /\ written' < packet.size
    <3>1. main' = Idle /\ watch' = TRUE /\ attached' = 1
      BY <1>1, <2>3, ReturnAlone DEF AloneInv
    <3>2. ~AllWritten'
      BY <1>1, <1>4, <2>3 DEF AllWritten, Packet
    <3>3. QED
      BY <1>1, <1>4, <2>2, <3>1, <3>2, UnfinishedAlone DEF AloneInv
  <2>4. CASE /\ ~(written' < packet.size)
             /\ main' = [main EXCEPT !.pc = "pick"] /\ UNCHANGED <<watch, attached>>
    <3>1. AllWritten'
      BY <1>4, <2>1, <2>4 DEF AllWritten
    <3>2. QED
      BY <1>1, <1>4, <2>2, <2>4, <3>1, GoOnAlone DEF AloneInv
  <2>5. QED
    BY <1>4, <2>3, <2>4
<1>5. QED
  BY <1>2, <1>3, <1>4 DEF WriteData

LEMMA PickNextAlone ==
  ASSUME AloneInv, IInv', PickNext
  PROVE  Control' /\ Messages'
<1>1. /\ Writes /\ io /\ AllWritten /\ main.pc = "pick" /\ invokes' = invokes
      /\ UNCHANGED <<accepted, dropped, wire>>
      /\ \/ main.frames = 0 /\ watch
         \/ buffer = <<>> /\ ~bye
  BY DEF PickNext, Writes, AloneInv, IInv, Watched, Control, OneWriter, Steps, history
<1>2. current.index \in OnWire \cup {0}
  BY <1>1, CurrentSent DEF AloneInv
<1>3. CASE /\ buffer # <<>>
           /\ current' = Head(buffer) /\ buffer' = Tail(buffer)
           /\ packet' = MessagePacket(Head(buffer)) /\ written' = 0
           /\ WriteNext
  <2>1. Return(TRUE, TRUE) /\ io' = io
    BY <1>1, <1>3 DEF WriteNext
  <2>2. main' = Idle /\ watch' = TRUE /\ attached' = 1
    BY <1>1, <2>1, ReturnAlone DEF AloneInv
  <2>3. Head(buffer) \in Message
    BY <1>3 DEF AloneInv, IInv, TypeOK
  <2>4. ~AllWritten'
    <3>1. packet' \in Packet /\ Fits(packet') /\ written' = 0
      BY <1>3, <2>3, PacketsBounded, PacketsTyped
    <3>2. QED
      BY <3>1 DEF Fits, Packet, AllWritten
  <2>5. QED
    BY <1>1, <1>2, <1>3, <2>1, <2>2, <2>4, UnfinishedAlone, PickMessages DEF AloneInv
<1>4. CASE /\ ByeIsDue
           /\ current' = NoMsg /\ bye' = FALSE
           /\ packet' = ByePacket /\ written' = 0
           /\ WriteNext
           /\ UNCHANGED buffer
  <2>1. Return(TRUE, TRUE) /\ io' = io /\ buffer = <<>>
    BY <1>1, <1>4 DEF WriteNext, ByeIsDue
  <2>2. main' = Idle /\ watch' = TRUE /\ attached' = 1
    BY <1>1, <2>1, ReturnAlone DEF AloneInv
  <2>3. ~AllWritten'
    BY <1>4, PacketsBounded, PacketsTyped DEF Fits, Packet, AllWritten
  <2>4. QED
    BY <1>1, <1>2, <1>4, <2>1, <2>2, <2>3, UnfinishedAlone, PlainMessages DEF AloneInv
<1>5. CASE /\ done /\ current' = NoMsg /\ Shutdown /\ Return(FALSE, FALSE)
           /\ UNCHANGED buffer
  <2>1. main' = Idle /\ attached' = 0
    BY <1>1, <1>5, ReturnAlone DEF AloneInv
  <2>2. QED
    BY <1>1, <1>2, <1>5, <2>1, ClosedAlone, ShutdownMessages DEF AloneInv, Shutdown
<1>6. CASE /\ buffer = <<>> /\ ~bye /\ ~done /\ current' = NoMsg
           /\ packet' = NoPacket /\ written' = 0
           /\ UNCHANGED <<done, bye, io, readers>>
           /\ Return(FALSE, TRUE)
           /\ UNCHANGED buffer
  <2>1. main' = Idle /\ attached' = 0 /\ watch' = FALSE
    BY <1>1, <1>6, ReturnAlone DEF AloneInv
  <2>2. Control'
    BY <1>1, <1>6, <2>1 DEF AloneInv, Control, OneWriter, Steps, Writes, Idle
  <2>3. NoPacket # ByePacket
    BY PacketContents
  <2>4. Messages'
    BY <1>1, <1>2, <1>6, <2>3, PlainMessages DEF AloneInv
  <2>5. QED
    BY <2>2, <2>4
<1>7. done \in BOOLEAN
  BY DEF AloneInv, IInv, TypeOK
<1>8. QED
  BY <1>3, <1>4, <1>5, <1>6, <1>7 DEF PickNext

LEMMA MainSendAlone ==
  ASSUME AloneInv, NEW length \in Lengths, MainSend(length)
  PROVE  Control' /\ Messages'
<1>1. /\ Accept(length) /\ ~Writes /\ invokes' = invokes /\ main.pc = "idle"
      /\ IF AllWritten THEN ScheduleWrite ELSE main' = main
  BY DEF MainSend, Writes, IsIdle
<1>2. /\ ~done /\ io /\ ~bye /\ ~AllWritten'
      /\ UNCHANGED <<bye, io, watch, attached>>
  BY <1>1, AcceptKeeps DEF AloneInv, IInv, Finality
<1>3. AllWritten => current = NoMsg /\ buffer = <<>>
  BY <1>1, <1>2 DEF AloneInv, IInv, CurrentGone, Control, OneWriter
<1>4. Messages'
  BY <1>1, <1>3, AcceptMessages DEF AloneInv
<1>5. CASE AllWritten
  <2>1. buffer' = <<>>
    BY <1>1, <1>3, <1>5 DEF Accept
  <2>2. QED
    BY <1>1, <1>2, <1>4, <1>5, <2>1, ScheduleAlone DEF AloneInv
<1>6. CASE ~AllWritten
  <2>1. Control'
    BY <1>1, <1>2, <1>6 DEF AloneInv, Control, OneWriter, Steps, Writes
  <2>2. QED
    BY <1>4, <2>1
<1>7. QED
  BY <1>5, <1>6

LEMMA PingFillAlone == ASSUME AloneInv, PingFill PROVE Control' /\ Messages'
<1>1. /\ main.pc = "ping" /\ ~Writes /\ packet' = PingPacket /\ written' = 0
      /\ ScheduleWrite
      /\ UNCHANGED <<done, bye, io, watch, attached, buffer, backlog, current,
                     invokes, readers, pipe, accepted, dropped, wire>>
  BY DEF PingFill, Writes, history
<1>2. current = NoMsg /\ buffer = <<>> /\ ~bye
  BY <1>1 DEF AloneInv, IInv, Finality, ByeState, Control, Steps, NothingIsPending
<1>3. Control'
  BY <1>1, <1>2, ScheduleAlone DEF AloneInv
<1>4. current.index \in OnWire \cup {0} /\ current' = NoMsg
  BY <1>1, <1>2 DEF NoMsg
<1>5. QED
  BY <1>1, <1>2, <1>3, <1>4, PlainMessages DEF AloneInv

LEMMA CloseAlone == ASSUME AloneInv, Close PROVE Control' /\ Messages'
<1>1. /\ ~Writes /\ main.pc = "idle" /\ ~done /\ io
      /\ UNCHANGED <<io, watch, attached, buffer, current, invokes, accepted, dropped,
                     wire>>
  BY DEF Close, Writes, IsIdle, history, AloneInv, IInv, Finality
<1>2. CASE /\ AllWritten /\ buffer = <<>>
           /\ packet' = ByePacket /\ written' = 0 /\ bye' = FALSE
           /\ ScheduleWrite
  <2>1. Control'
    BY <1>1, <1>2, ScheduleAlone DEF AloneInv
  <2>2. current = NoMsg /\ current.index \in OnWire \cup {0}
    BY <1>1, <1>2 DEF AloneInv, IInv, CurrentGone, NoMsg
  <2>3. QED
    BY <1>1, <1>2, <2>1, <2>2, PlainMessages DEF AloneInv
<1>3. CASE /\ ~(AllWritten /\ buffer = <<>>)
           /\ UNCHANGED <<packet, written, main>>
  <2>1. Messages'
    BY <1>1, <1>3, SameMessages DEF AloneInv
  <2>2. ~AllWritten
    BY <1>1, <1>3 DEF AloneInv, Control, OneWriter
  <2>3. Control'
    BY <1>1, <1>3, <2>2 DEF AloneInv, Control, OneWriter, Steps, Writes, AllWritten
  <2>4. QED
    BY <2>1, <2>3
<1>4. QED
  BY <1>2, <1>3 DEF Close

LEMMA SetBacklogAlone ==
  ASSUME AloneInv, NEW limit \in Backlogs, SetBacklog(limit)
  PROVE  Control' /\ Messages'
<1>1. Messages'
  BY SetBacklogMessages DEF AloneInv
<1>2. /\ main.pc = "idle"
      /\ UNCHANGED <<bye, io, watch, attached, packet, written, main, invokes>>
  BY DEF SetBacklog, IsIdle
<1>3. buffer = <<>> => buffer' = <<>>
  <2>1. backlog' \in Int
    BY SenderConstants DEF SetBacklog, NormalizeBacklog, DefaultBacklog, Unlimited
  <2>2. Len(<<>>) = 0
    OBVIOUS
  <2>3. QED
    BY <2>1, <2>2 DEF SetBacklog
<1>4. Control'
  BY <1>2, <1>3 DEF AloneInv, Control, OneWriter, Steps, Writes, AllWritten
<1>5. QED
  BY <1>1, <1>4

LEMMA DisposeAlone == ASSUME AloneInv, Dispose PROVE Control' /\ Messages'
<1>1. /\ Shutdown /\ io /\ main.pc = "idle" /\ ~Writes
      /\ UNCHANGED <<current, main, invokes, accepted, wire>>
      /\ attached' = IF watch THEN attached - 1 ELSE attached
      /\ buffer' = <<>> /\ dropped' = dropped \cup IndicesOf(buffer)
  BY DEF Dispose, IsIdle, Writes
<1>2. attached' = 0 /\ ~io'
  BY <1>1 DEF AloneInv, Control, OneWriter, Shutdown
<1>3. Control'
  BY <1>1, <1>2 DEF AloneInv, Control, OneWriter, Steps, Writes
<1>4. QED
  BY <1>1, <1>3, ShutdownMessages DEF AloneInv

(* Callbacks that find the sender idle, and the peer.                        *)
LEMMA OthersAlone ==
  ASSUME AloneInv,
         \/ WriteCallback \/ WriteCallbackHup \/ RunInvoke \/ PingCheck
         \/ PeerClose \/ \E n \in 1..PipeCapacity : PeerRead(n)
  PROVE  Control' /\ Messages'
<1>1. CASE WriteCallback
  <2>1. /\ ~Writes /\ attached > 0 /\ main' = [pc |-> "fixed", frames |-> 0]
        /\ UNCHANGED <<object, invokes, readers, pipe, history>>
    BY <1>1 DEF WriteCallback, IsIdle, Writes
  <2>2. Control'
    BY <2>1 DEF AloneInv, Control, OneWriter, Steps, Writes, object
  <2>3. QED
    BY <2>1, <2>2, SameMessages DEF AloneInv, object, history
<1>2. CASE WriteCallbackHup
  <2>1. /\ ~Writes /\ attached > 0 /\ Shutdown /\ attached' = attached - 1
        /\ main.pc = "idle" /\ UNCHANGED <<buffer, current, main, invokes, accepted, dropped, wire>>
    BY <1>2 DEF WriteCallbackHup, IsIdle, Writes, history
  <2>2. Control'
    BY <2>1 DEF AloneInv, Control, OneWriter, Steps, Writes, Shutdown
  <2>3. QED
    BY <2>1, <2>2, ShutdownMessages DEF AloneInv
<1>3. ~RunInvoke
  BY DEF RunInvoke, AloneInv, Control, OneWriter
<1>4. CASE PingCheck
  <2>1. /\ ~Writes /\ main'.pc = "ping" /\ NothingIsPending
        /\ UNCHANGED <<object, invokes, readers, pipe, history>>
    BY <1>4 DEF PingCheck, IsIdle, Writes, Idle
  <2>2. Control'
    BY <2>1 DEF AloneInv, Control, OneWriter, Steps, Writes, AllWritten,
                NothingIsPending, object
  <2>3. QED
    BY <2>1, <2>2, SameMessages DEF AloneInv, object, history
<1>5. CASE PeerClose \/ \E n \in 1..PipeCapacity : PeerRead(n)
  <2>1. UNCHANGED <<object, main, invokes, history>>
    BY <1>5 DEF PeerClose, PeerRead
  <2>2. Control'
    BY <2>1 DEF AloneInv, Control, OneWriter, Steps, Writes, AllWritten,
                NothingIsPending, object
  <2>3. QED
    BY <2>1, <2>2, SameMessages DEF AloneInv, object, history
<1>6. QED
  BY <1>1, <1>2, <1>3, <1>4, <1>5

LEMMA InitiallyAlone == Init => AloneInv
<1> SUFFICES ASSUME Init PROVE AloneInv
  OBVIOUS
<1>1. /\ packet = NoPacket /\ current = NoMsg /\ buffer = <<>> /\ wire = <<>>
      /\ dropped = {} /\ accepted = 0 /\ written = 0 /\ main = Idle /\ ~bye
      /\ invokes = 0 /\ attached = 0 /\ ~watch
  BY DEF Init
<1>2. Len(<<>>) = 0 /\ 1..0 = {}
  OBVIOUS
<1>3. Control
  BY <1>1 DEF Control, OneWriter, Steps, Writes, Idle
<1>4. Sent = {} /\ OnWire = {} /\ IndicesOf(buffer) = {}
  BY <1>1, <1>2 DEF Sent, OnWire, IndicesOf
<1>5. Messages
  BY <1>1, <1>2, <1>4, PacketContents
     DEF Messages, Contents, NoneInvented, InOrder, Covered, ByeCovers
<1>6. QED
  BY <1>3, <1>5, Initially DEF AloneInv

LEMMA InductiveAlone ==
  ASSUME Threads = {}
  PROVE  AloneInv /\ [Next]_vars => AloneInv'
<1> SUFFICES ASSUME AloneInv, [Next]_vars PROVE AloneInv'
  OBVIOUS
<1>1. IInv'
  BY Inductive DEF AloneInv
<1>2. CASE MainLoop
  BY <1>1, <1>2, OthersAlone DEF MainLoop, AloneInv
<1>3. CASE Writing
  BY <1>1, <1>3, WriteFixedAlone, WriteDataAlone, PickNextAlone, PingFillAlone
     DEF Writing, AloneInv
<1>4. CASE \E length \in Lengths : MainSend(length)
  BY <1>1, <1>4, MainSendAlone DEF AloneInv
<1>5. CASE PingCheck \/ PeerClose \/ \E n \in 1..PipeCapacity : PeerRead(n)
  BY <1>1, <1>5, OthersAlone DEF AloneInv
<1>6. CASE Close \/ Dispose
  BY <1>1, <1>6, CloseAlone, DisposeAlone DEF AloneInv
<1>7. CASE \E limit \in Backlogs : SetBacklog(limit)
  BY <1>1, <1>7, SetBacklogAlone DEF AloneInv
<1>8. CASE UNCHANGED vars
  <2>1. Control'
    BY <1>8 DEF AloneInv, Control, OneWriter, Steps, Writes, AllWritten,
                NothingIsPending, vars, object
  <2>2. QED
    BY <1>1, <1>8, <2>1, SameMessages DEF AloneInv, vars, object, history
<1>9. QED
  BY <1>2, <1>3, <1>4, <1>5, <1>6, <1>7, <1>8 DEF Next, SenderNext

LEMMA InvarianceAlone == Threads = {} => (Spec => []AloneInv)
<1> SUFFICES ASSUME Threads = {} PROVE Spec => []AloneInv
  OBVIOUS
<1>1. Init => AloneInv
  BY InitiallyAlone
<1>2. AloneInv /\ [Next]_vars => AloneInv'
  BY InductiveAlone
<1>3. QED
  BY <1>1, <1>2, PTL DEF Spec

(* As long as only the main thread logs, every message dbus_log_sender_send  *)
(* accepted is on the wire, being sent, queued or given up by a full queue,  *)
(* in the order of their indices, and Bye goes after all of them.            *)
THEOREM NothingLostAlone == Threads = {} => (Spec => []NothingLost)
<1> SUFFICES ASSUME Threads = {} PROVE Spec => []NothingLost
  OBVIOUS
<1>1. ASSUME AloneInv PROVE NothingLost
  <2>1. dropped \subseteq 1..accepted /\ OnWire \subseteq 1..accepted
    BY <1>1 DEF AloneInv, Messages, NoneInvented, OnWire
  <2>2. QED
    BY <1>1, <2>1 DEF AloneInv, Messages, Covered, ByeCovers, NothingLost
<1>2. QED
  BY <1>1, InvarianceAlone, PTL

(* As long as only the main thread logs, write_watch_id tells whether a      *)
(* watch is attached: none is left to call back into a freed sender.         *)
THEOREM OneWatchAlone == Threads = {} => (Spec => []OneWatch)
<1> SUFFICES ASSUME Threads = {} PROVE Spec => []OneWatch
  OBVIOUS
<1>1. AloneInv => OneWatch
  BY DEF AloneInv, Control, OneWriter, OneWatch, IsIdle, Writes
<1>2. QED
  BY <1>1, InvarianceAlone, PTL

-----------------------------------------------------------------------------
(* Whole packets                                                             *)

(* A write that is not split puts all of a ping into the pipe, or nothing.   *)
PingsWhole == packet.type = "PING" => written \in {0, packet.size}

(* A step which closes the channel, or leaves the packet as it is.           *)
KeepsPacket == (~io' /\ packet' = NoPacket) \/ UNCHANGED <<packet, written>>

(* A step which writes some more of the packet.                              *)
WritesFixed ==
  /\ packet' = packet /\ written < packet.fixed
  /\ written' = written + Fitting(packet.fixed - written)
WritesData ==
  /\ packet' = packet /\ packet.fixed <= written /\ written < packet.size
  /\ written' = written + Fitting(packet.size - written)

(* A step which starts a new packet where the old one has been written.      *)
StartsPacket == AllWritten /\ packet'.type # "PING"

LEMMA FittingTyped ==
  ASSUME TypeOK, NEW n \in Nat
  PROVE  Fitting(n) \in Nat
<1>1. Fitting(n) \in 0..n
  BY FittingBounded
<1>2. QED
  BY <1>1

LEMMA PacketSteps ==
  ASSUME Threads = {}, AloneInv, [Next]_vars
  PROVE  KeepsPacket \/ WritesFixed \/ WritesData \/ StartsPacket \/ PingFill
<1> USE DEF KeepsPacket
<1>1. /\ TypeOK /\ packet \in Packet /\ written \in Nat /\ packet.fixed <= packet.size
  BY DEF AloneInv, IInv, TypeOK, Bounds
<1>2. CASE MainLoop
  BY <1>2 DEF MainLoop, WriteCallback, WriteCallbackHup, RunInvoke, Shutdown, object
<1>3. CASE WriteFixed
  <2>1. CASE UNCHANGED object
    BY <2>1 DEF object
  <2>2. CASE WriteFailed
    BY <2>2 DEF WriteFailed, Shutdown
  <2>3. CASE /\ written < packet.fixed /\ packet' = packet
             /\ Hand(Units(packet, written, Fitting(packet.fixed - written)))
    <3>1. packet.fixed - written \in Nat
      BY <1>1, <2>3 DEF Packet
    <3>2. Fitting(packet.fixed - written) \in Nat
      BY <1>1, <3>1, FittingTyped
    <3>3. Len(Units(packet, written, Fitting(packet.fixed - written)))
            = Fitting(packet.fixed - written)
      BY <1>1, <3>2, UnitsTyped
    <3>4. WritesFixed
      BY <2>3, <3>3 DEF Hand, WritesFixed
    <3>5. QED
      BY <3>4
  <2>4. QED
    BY <1>3, <2>1, <2>2, <2>3 DEF WriteFixed
<1>4. CASE WriteData
  <2>1. CASE UNCHANGED object
    BY <2>1 DEF object
  <2>2. CASE WriteFailed
    BY <2>2 DEF WriteFailed, Shutdown
  <2>3. packet.fixed <= written /\ ~(written < packet.fixed)
    BY <1>1, <1>4 DEF WriteData, AloneInv, Control, Steps, Packet
  <2>4. CASE /\ written < packet.size /\ packet' = packet
             /\ Hand(Units(packet, written, Fitting(packet.size - written)))
    <3>1. packet.size - written \in Nat
      BY <1>1, <2>4 DEF Packet
    <3>2. Fitting(packet.size - written) \in Nat
      BY <1>1, <3>1, FittingTyped
    <3>3. Len(Units(packet, written, Fitting(packet.size - written)))
            = Fitting(packet.size - written)
      BY <1>1, <3>2, UnitsTyped
    <3>4. WritesData
      BY <2>3, <2>4, <3>3 DEF Hand, WritesData
    <3>5. QED
      BY <3>4
  <2>5. QED
    BY <1>4, <2>1, <2>2, <2>3, <2>4 DEF WriteData
<1>5. CASE PickNext
  <2>1. AllWritten
    BY <1>5 DEF PickNext, AloneInv, Control, Steps
  <2>2. packet'.type # "PING"
    <3>1. CASE buffer # <<>> /\ packet' = MessagePacket(Head(buffer))
      BY <1>1, <3>1, PacketContents DEF TypeOK
    <3>2. CASE packet' = ByePacket \/ packet' = NoPacket
      BY <3>2, PacketContents
    <3>3. QED
      BY <1>5, <3>1, <3>2 DEF PickNext, Shutdown
  <2>3. QED
    BY <2>1, <2>2 DEF StartsPacket
<1>6. ASSUME NEW length \in Lengths, MainSend(length)
      PROVE  KeepsPacket \/ StartsPacket
  <2>1. Accept(length) /\ ~AllWritten => UNCHANGED <<packet, written>>
    BY DEF Accept
  <2>2. AllWritten => packet'.type = "MESSAGE"
    <3>1. [index |-> accepted + 1, length |-> length] \in Message
      BY <1>1, SenderConstants DEF TypeOK, Message
    <3>2. QED
      BY <1>6, <3>1, PacketContents DEF MainSend, Accept
  <2>3. QED
    BY <1>6, <2>1, <2>2 DEF MainSend, StartsPacket
<1>7. CASE Close
  BY <1>7, PacketContents DEF Close, StartsPacket
<1>8. CASE PingCheck \/ Dispose \/ (\E limit \in Backlogs : SetBacklog(limit))
           \/ PeerClose \/ (\E n \in 1..PipeCapacity : PeerRead(n))
  BY <1>8 DEF PingCheck, Dispose, SetBacklog, PeerClose, PeerRead, Shutdown, object
<1>9. CASE UNCHANGED vars
  BY <1>9 DEF vars, object
<1>10. QED
  BY <1>2, <1>3, <1>4, <1>5, <1>6, <1>7, <1>8, <1>9 DEF Next, SenderNext, Writing

LEMMA PingShape ==
  ASSUME AloneInv, packet.type = "PING"
  PROVE  packet = PingPacket /\ packet.size = HeaderSize /\ packet.fixed = HeaderSize
<1>1. packet = PingPacket
  BY PacketContents DEF AloneInv, IInv, TypeOK, Messages, Contents
<1>2. QED
  BY <1>1, ProtocolConstants DEF PingPacket, Header, MaxFixedPart

LEMMA PingsStayWhole ==
  ASSUME Threads = {}, HeaderSize <= PipeBuf, AloneInv, AloneInv', PingsWhole,
         [Next]_vars
  PROVE  PingsWhole'
<1>1. TypeOK /\ written \in Nat /\ HeaderSize \in Nat /\ PipeBuf \in Nat
  BY SenderConstants, ProtocolConstants DEF AloneInv, IInv, TypeOK
<1>2. CASE packet' = NoPacket
  BY <1>2, PacketContents DEF PingsWhole
<1>3. CASE UNCHANGED <<packet, written>>
  BY <1>3 DEF PingsWhole
<1>4. CASE WritesFixed /\ packet.type = "PING"
  <2>1. packet.size = HeaderSize /\ packet.fixed = HeaderSize /\ written = 0
    BY <1>1, <1>4, PingShape DEF PingsWhole, WritesFixed
  <2>2. Fitting(HeaderSize) \in {0, HeaderSize}
    BY <1>1 DEF Fitting
  <2>3. HeaderSize - 0 = HeaderSize /\ 0 + Fitting(HeaderSize) = Fitting(HeaderSize)
    BY <1>1, <2>2
  <2>4. QED
    BY <1>4, <2>1, <2>2, <2>3 DEF WritesFixed, PingsWhole
<1>5. ~(WritesData /\ packet.type = "PING")
  BY <1>1, PingShape DEF WritesData, PingsWhole
<1>6. CASE PingFill
  BY <1>6 DEF PingFill, PingsWhole
<1>7. QED
  BY <1>2, <1>3, <1>4, <1>5, <1>6, PacketSteps
     DEF KeepsPacket, WritesFixed, WritesData, StartsPacket, PingsWhole

(* As long as only the main thread logs, a packet gives way to another one,  *)
(* or a ping to a new ping, only when all of it has been written. A header   *)
(* is shorter than PIPE_BUF.                                                 *)
THEOREM WholePacketsAlone ==
  Threads = {} /\ HeaderSize <= PipeBuf => (Spec => WholePackets)
<1> SUFFICES ASSUME Threads = {}, HeaderSize <= PipeBuf PROVE Spec => WholePackets
  OBVIOUS
<1>1. Init => PingsWhole
  BY DEF Init, PingsWhole
<1>2. AloneInv /\ AloneInv' /\ PingsWhole /\ [Next]_vars => PingsWhole'
  BY PingsStayWhole
<1>3. AloneInv /\ AloneInv' /\ PingsWhole /\ [Next]_vars =>
        [(packet' # packet \/ written' < written) /\ io' => written = packet.size]_vars
  <2> SUFFICES ASSUME AloneInv, AloneInv', PingsWhole, [Next]_vars,
                      packet' # packet \/ written' < written, io'
               PROVE  written = packet.size
    OBVIOUS
  <2>1. packet \in Packet /\ written \in Nat /\ TypeOK
    BY DEF AloneInv, IInv, TypeOK
  <2>2. CASE UNCHANGED <<packet, written>>
    BY <2>1, <2>2
  <2>3. CASE WritesFixed
    <3>1. packet.fixed - written \in Nat
      BY <2>1, <2>3 DEF WritesFixed, Packet
    <3>2. Fitting(packet.fixed - written) \in Nat
      BY <2>1, <3>1, FittingTyped
    <3>3. QED
      BY <2>1, <2>3, <3>2 DEF WritesFixed
  <2>4. CASE WritesData
    <3>1. packet.size - written \in Nat
      BY <2>1, <2>4 DEF WritesData, Packet
    <3>2. Fitting(packet.size - written) \in Nat
      BY <2>1, <3>1, FittingTyped
    <3>3. QED
      BY <2>1, <2>4, <3>2 DEF WritesData
  <2>5. CASE StartsPacket
    BY <2>5 DEF StartsPacket, AllWritten
  <2>6. CASE PingFill
    <3>1. /\ current = NoMsg /\ ~done /\ packet' = PingPacket /\ written' = 0
      BY <2>6 DEF PingFill, AloneInv, IInv, Finality, Control, Steps, NothingIsPending
    <3>2. packet \in {NoPacket, PingPacket} /\ written <= packet.size
      BY <3>1, PacketContents DEF AloneInv, IInv, ByeState, Bounds, Messages, Contents
    <3>3. CASE packet = NoPacket
      BY <2>1, <3>2, <3>3, PacketContents
    <3>4. CASE packet = PingPacket
      BY <2>1, <3>1, <3>4, PacketContents DEF PingsWhole
    <3>5. QED
      BY <3>2, <3>3, <3>4
  <2>7. QED
    BY <2>2, <2>3, <2>4, <2>5, <2>6, PacketSteps DEF KeepsPacket
<1>4. QED
  BY <1>1, <1>2, <1>3, InvarianceAlone, PTL DEF Spec, WholePackets

-----------------------------------------------------------------------------
(* The newest message, with any number of logging threads.                   *)

(* The queue respects its limit, which is not one; nothing that is queued or *)
(* given up is newer than the newest message.                                *)
Limited ==
  /\ backlog < 0 \/ (backlog > 1 /\ Len(buffer) <= backlog)
  /\ \A k \in 1..Len(buffer) : buffer[k].index \in 1..accepted
  /\ dropped \subseteq 1..accepted
  /\ NewestKept

(* A limit of at least two always leaves room for one message.               *)
LEMMA SparedHasRoom ==
  ASSUME TypeOK, Limited
  PROVE  /\ CanPut(Spared) /\ Spared \in Seq(Message)
         /\ backlog < 0 \/ Len(Spared) + 1 <= backlog
<1>1. buffer \in Seq(Message) /\ Len(buffer) \in Nat /\ backlog \in Int
  BY DEF TypeOK
<1>2. Spared \in Seq(Message) /\ Len(Spared) \in 0..Len(buffer)
  BY SparedPrefix
<1>3. CASE backlog < 0
  BY <1>2, <1>3 DEF CanPut
<1>4. CASE ~(backlog < 0) /\ CanPut(buffer)
  BY <1>1, <1>2, <1>4 DEF CanPut, Spared
<1>5. CASE ~(backlog < 0) /\ ~CanPut(buffer)
  <2>1. Len(buffer) = backlog /\ backlog > 1
    BY <1>1, <1>5 DEF Limited, CanPut
  <2>2. backlog - backlog \div 2 \in 0..backlog /\ backlog - backlog \div 2 < backlog
    BY <1>1, <2>1
  <2>3. Spared = SubSeq(buffer, 1, backlog - backlog \div 2)
    BY <1>5, <2>1 DEF Spared
  <2>4. Len(Spared) = backlog - backlog \div 2
    BY <1>1, <2>1, <2>2, <2>3
  <2>5. QED
    BY <1>1, <1>2, <2>2, <2>4 DEF CanPut
<1>6. QED
  BY <1>3, <1>4, <1>5

LEMMA AcceptLimited ==
  ASSUME IInv, Limited, NEW length \in Lengths, Accept(length)
  PROVE  Limited'
<1> DEFINE msg == [index |-> accepted + 1, length |-> length]
           queued == Put(Spared, msg)
<1>1. /\ TypeOK /\ accepted \in Nat /\ accepted' = accepted + 1 /\ backlog' = backlog
      /\ msg \in Message /\ msg.index = accepted + 1
  BY SenderConstants DEF IInv, TypeOK, Accept, Message
<1>2. /\ \A i \in 1..accepted : i \in 1..accepted' /\ i # accepted'
      /\ accepted' \in 1..accepted'
  BY <1>1
<1>3. CASE AllWritten
  <2>1. UNCHANGED <<buffer, dropped>>
    BY <1>3 DEF Accept
  <2>2. QED
    BY <1>1, <1>2, <2>1 DEF Limited, NewestKept
<1>4. CASE ~AllWritten
  <2>1. /\ buffer' = queued
        /\ dropped' = dropped \cup ((IndicesOf(buffer) \cup {msg.index}) \ IndicesOf(queued))
    BY <1>4 DEF Accept
  <2>2. /\ queued = Append(Spared, msg) /\ Spared \in Seq(Message)
        /\ backlog < 0 \/ Len(Spared) + 1 <= backlog
    BY <1>1, SparedHasRoom DEF Put
  <2>3. /\ Len(Spared) \in 0..Len(buffer) /\ Len(buffer) \in Nat
        /\ \A k \in 1..Len(Spared) : Spared[k] = buffer[k]
    BY <1>1, SparedPrefix DEF TypeOK
  <2> HIDE DEF msg
  <2>4. /\ Len(queued) = Len(Spared) + 1 /\ queued[Len(Spared) + 1] = msg
        /\ \A k \in 1..Len(Spared) : queued[k] = Spared[k]
    BY <1>1, <2>2
  <2>5. \A k \in 1..Len(queued) : k \in 1..Len(Spared) \/ k = Len(Spared) + 1
    BY <2>3, <2>4
  <2>6. Len(Spared) + 1 \in 1..Len(queued) /\ \A k \in 1..Len(Spared) : k \in 1..Len(buffer)
    BY <2>3, <2>4
  <2> HIDE DEF queued
  <2>7. msg.index \in IndicesOf(queued)
    BY <2>4, <2>6 DEF IndicesOf
  <2>8. \A k \in 1..Len(queued) : queued[k].index \in 1..accepted'
    BY <1>1, <1>2, <2>3, <2>4, <2>5, <2>6 DEF Limited
  <2>9. IndicesOf(buffer) \subseteq 1..accepted
    BY DEF Limited, IndicesOf
  <2>10. dropped' \subseteq 1..accepted
    BY <2>1, <2>7, <2>9 DEF Limited
  <2>11. backlog < 0 \/ Len(queued) <= backlog
    BY <2>2, <2>4
  <2>12. QED
    BY <1>1, <1>2, <2>1, <2>8, <2>10, <2>11 DEF Limited, NewestKept
<1>5. QED
  BY <1>3, <1>4

LEMMA PickLimited ==
  ASSUME IInv, Limited, PickNext
  PROVE  Limited'
<1>1. /\ buffer \in Seq(Message) /\ backlog \in Int
      /\ UNCHANGED <<backlog, accepted, dropped>>
  BY DEF PickNext, IInv, TypeOK, history
<1>2. CASE buffer # <<>> /\ buffer' = Tail(buffer)
  <2>1. /\ Len(buffer') = Len(buffer) - 1 /\ Len(buffer) \in Nat
        /\ \A k \in 1..Len(buffer') : buffer'[k] = buffer[k + 1]
    BY <1>1, <1>2
  <2>2. \A k \in 1..Len(buffer') : k + 1 \in 1..Len(buffer)
    BY <2>1
  <2>3. backlog' < 0 \/ (backlog' > 1 /\ Len(buffer') <= backlog')
    BY <1>1, <2>1 DEF Limited
  <2>4. QED
    BY <1>1, <2>1, <2>2, <2>3 DEF Limited, NewestKept
<1>3. CASE buffer' = buffer
  BY <1>1, <1>3 DEF Limited, NewestKept
<1>4. QED
  BY <1>2, <1>3 DEF PickNext

(* A queue limited to one message cannot give up what is older.              *)
Roomy == Backlogs = {} /\ ~Disposes /\ NormalizeBacklog(Backlog) # 1

LEMMA InitiallyLimited == Roomy /\ Init => Limited
<1> SUFFICES ASSUME Roomy, Init PROVE Limited
  OBVIOUS
<1>1. /\ buffer = <<>> /\ backlog = NormalizeBacklog(Backlog)
      /\ accepted = 0 /\ dropped = {}
  BY DEF Init
<1>2. backlog < 0 \/ backlog > 1
  BY <1>1, SenderConstants DEF Roomy, NormalizeBacklog, DefaultBacklog, Unlimited
<1>3. Len(buffer) = 0 /\ 1..Len(buffer) = {}
  BY <1>1
<1>4. backlog \in Int
  BY <1>1, SenderConstants DEF NormalizeBacklog, DefaultBacklog, Unlimited
<1>5. backlog < 0 \/ (backlog > 1 /\ Len(buffer) <= backlog)
  BY <1>2, <1>3, <1>4
<1>6. QED
  BY <1>1, <1>3, <1>5 DEF Limited, NewestKept

LEMMA StaysLimited == ASSUME Roomy, IInv, Limited, [Next]_vars PROVE Limited'
<1>1. CASE UNCHANGED <<buffer, backlog, accepted, dropped>>
  BY <1>1 DEF Limited, NewestKept
<1>2. CASE MainLoop \/ WriteFixed \/ WriteData \/ PingFill
  BY <1>1, <1>2 DEF MainLoop, WriteCallback, WriteCallbackHup, RunInvoke, WriteFixed,
                    WriteData, WriteFailed, PingFill, object, history
<1>3. CASE PickNext
  BY <1>3, PickLimited
<1>4. CASE \E t \in Threads, length \in Lengths : ThreadSend(t, length)
  BY <1>4, AcceptLimited DEF ThreadSend
<1>5. CASE \E length \in Lengths : MainSend(length)
  BY <1>5, AcceptLimited DEF MainSend
<1>6. CASE PingCheck \/ Close \/ PeerClose \/ \E n \in 1..PipeCapacity : PeerRead(n)
  BY <1>1, <1>6 DEF PingCheck, Close, PeerClose, PeerRead, object, history
<1>7. CASE UNCHANGED vars
  BY <1>1, <1>7 DEF vars, object, history
<1>8. ~Dispose /\ Backlogs = {}
  BY DEF Dispose, Roomy
<1>9. QED
  BY <1>2, <1>3, <1>4, <1>5, <1>6, <1>7, <1>8 DEF Next, SenderNext, Writing

(* Without a new limit or a disposal, and unless the limit is one, the       *)
(* message a full queue gives up is never the newest one, whatever threads   *)
(* call dbus_log_sender_send: the index of the next message tells the client *)
(* what it has missed.                                                       *)
THEOREM NewestIsKept == Roomy => (Spec => []NewestKept)
<1> SUFFICES ASSUME Roomy PROVE Spec => []NewestKept
  OBVIOUS
<1>1. Init => Limited
  BY InitiallyLimited
<1>2. IInv /\ Limited /\ [Next]_vars => Limited'
  BY StaysLimited
<1>3. Limited => NewestKept
  BY DEF Limited
<1>4. QED
  BY <1>1, <1>2, <1>3, Invariance, PTL DEF Spec
=============================================================================
