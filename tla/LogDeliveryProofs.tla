-------------------------- MODULE LogDeliveryProofs --------------------------
(***************************************************************************)
(* LogDelivery keeps its promise: a client which was told that the stream  *)
(* has ended can account for every message.  The proof needs to know what  *)
(* the newest message is at any time, and that the first one which arrives *)
(* is the first one which was posted.                                      *)
(***************************************************************************)
EXTENDS LogDelivery, TLAPS

DTypeOK ==
  /\ posted \in Nat /\ missed \in Int
  /\ queue \in Seq(Nat) /\ arrived \in Seq(Nat)
  /\ phase \in {"open", "ended", "broken"}

(* The newest message is the last one on its way, or the last one which has  *)
(* arrived.                                                                  *)
NewestIsLast ==
  /\ queue # <<>> => queue[Len(queue)] = posted
  /\ queue = <<>> /\ arrived # <<>> => arrived[Len(arrived)] = posted
  /\ queue = <<>> /\ arrived = <<>> => posted = 0

(* What the client knows of is everything up to the last message it has got. *)
KnownUpToLast ==
  /\ arrived # <<>> => arrived[Len(arrived)] = Len(arrived) + missed
  /\ arrived = <<>> => missed = 0 /\ (queue # <<>> => queue[1] = 1)

DInv ==
  /\ DTypeOK
  /\ phase = "open" => NewestIsLast /\ KnownUpToLast
  /\ Accounted

LEMMA GapAddsUp ==
  ASSUME NEW m \in Int, NEW last \in Int, NEW count \in Int, NEW before \in Int,
         last = count + before
  PROVE  m = (count + 1) + (before + (m - last - 1))
  OBVIOUS

LEMMA InitHolds == DeliveryInit => DInv
  BY DEF DeliveryInit, DInv, DTypeOK, NewestIsLast, KnownUpToLast, Accounted

LEMMA PostStep == ASSUME DInv, Post PROVE DInv'
<1> USE DEF DInv, DTypeOK
<1>1. CASE phase = "broken" /\ UNCHANGED queue
  BY <1>1 DEF Post, Accounted
<1>2. CASE phase = "open" /\ ~UNCHANGED queue
  <2>1. PICK kept \in 0..Len(queue) :
          /\ queue # <<>> => kept > 0
          /\ queue' = Append(SubSeq(queue, 1, kept), posted + 1)
    BY <1>2 DEF Post
  <2> DEFINE old == SubSeq(queue, 1, kept)
  <2>2. /\ old \in Seq(Nat) /\ Len(old) = kept
        /\ kept > 0 => old[1] = queue[1]
    BY <2>1
  <2>3. /\ queue' \in Seq(Nat) /\ Len(queue') = kept + 1
        /\ queue'[kept + 1] = posted + 1
        /\ kept > 0 => queue'[1] = queue[1]
    <3>1. queue' = Append(old, posted + 1)
      BY <2>1
    <3>2. QED
      BY <2>2, <3>1
  <2>4. posted' = posted + 1 /\ UNCHANGED <<arrived, missed, phase>>
    BY DEF Post
  <2>5. NewestIsLast'
    <3>1. queue' # <<>> /\ queue'[Len(queue')] = posted'
      BY <2>3, <2>4
    <3>2. QED
      BY <3>1 DEF NewestIsLast
  <2>6. KnownUpToLast'
    BY <1>2, <2>1, <2>3, <2>4 DEF NewestIsLast, KnownUpToLast
  <2>7. QED
    BY <1>2, <2>3, <2>4, <2>5, <2>6 DEF Accounted
<1>3. CASE phase = "open" /\ UNCHANGED queue
  <2>1. FALSE
    <3>1. PICK kept \in 0..Len(queue) :
            /\ queue # <<>> => kept > 0
            /\ queue' = Append(SubSeq(queue, 1, kept), posted + 1)
      BY <1>3 DEF Post
    <3>2. queue'[Len(queue')] = posted + 1 /\ Len(queue') > 0
      BY <3>1
    <3>3. QED
      BY <1>3, <3>2 DEF NewestIsLast
  <2>2. QED
    BY <2>1
<1>4. QED
  BY <1>1, <1>2, <1>3 DEF Post

LEMMA ArriveStep == ASSUME DInv, Arrive PROVE DInv'
<1> USE DEF DInv, DTypeOK
<1>1. /\ phase = "open" /\ queue # <<>> /\ UNCHANGED posted
      /\ Len(queue) > 0 /\ Head(queue) = queue[1] /\ queue[1] \in Nat
  BY DEF Arrive
<1>2. /\ arrived' \in Seq(Nat) /\ arrived' # <<>>
      /\ Len(arrived') = Len(arrived) + 1
      /\ arrived'[Len(arrived')] = queue[1]
  BY <1>1 DEF Arrive
<1>3. Gap(queue[1]) \in Int /\ missed' = missed + Gap(queue[1])
  BY <1>1 DEF Arrive, Gap
<1>4. arrived'[Len(arrived')] = Len(arrived') + missed'
  <2>1. CASE arrived = <<>>
    BY <1>1, <1>2, <1>3, <2>1 DEF KnownUpToLast, Gap
  <2>2. CASE arrived # <<>>
    <3> DEFINE last == arrived[Len(arrived)]
               gap == queue[1] - last - 1
    <3>1. Gap(queue[1]) = gap
      BY <2>2 DEF Gap
    <3>2. last = Len(arrived) + missed /\ Len(arrived) \in Int /\ missed \in Int
      BY <1>1, <2>2 DEF KnownUpToLast
    <3>3. queue[1] \in Int /\ last \in Int
      BY <1>1, <3>2
    <3>4. queue[1] = (Len(arrived) + 1) + (missed + gap)
      <4> HIDE DEF DInv, DTypeOK, last
      <4>1. QED
        BY <3>2, <3>3, GapAddsUp
    <3>5. QED
      BY <1>2, <1>3, <3>1, <3>4
  <2>3. QED
    BY <2>1, <2>2
<1>5. CASE phase' = "open" /\ queue' = Tail(queue)
  <2>1. /\ queue' \in Seq(Nat) /\ Len(queue') = Len(queue) - 1
        /\ queue' # <<>> => queue'[Len(queue')] = queue[Len(queue)]
        /\ queue' = <<>> => Len(queue) = 1
    <3>1. /\ queue' \in Seq(Nat) /\ Len(queue') = Len(queue) - 1
          /\ \A i \in 1..Len(queue) - 1 : queue'[i] = queue[i + 1]
      BY <1>1, <1>5
    <3>2. ASSUME queue' # <<>> PROVE queue'[Len(queue')] = queue[Len(queue)]
      <4>1. Len(queue') \in 1..Len(queue) - 1
        BY <3>1, <3>2
      <4>2. QED
        BY <3>1, <4>1
    <3>3. QED
      BY <1>1, <3>1, <3>2
  <2>2. NewestIsLast'
    BY <1>1, <1>2, <2>1 DEF NewestIsLast
  <2>3. QED
    BY <1>1, <1>2, <1>3, <1>4, <1>5, <2>1, <2>2 DEF KnownUpToLast, Accounted
<1>6. CASE phase' = "broken" /\ queue' = <<>>
  BY <1>1, <1>2, <1>3, <1>6 DEF Accounted
<1>7. QED
  BY <1>5, <1>6 DEF Arrive

LEMMA EndStep == ASSUME DInv, End PROVE DInv'
  BY DEF End, DInv, DTypeOK, NewestIsLast, KnownUpToLast, Accounted

LEMMA BreakStep == ASSUME DInv, Break PROVE DInv'
  BY DEF Break, DInv, DTypeOK, Accounted

(* Whatever is given up on the way, a client which is told that the stream   *)
(* has ended has got, or was told to have missed, every message (the check   *)
(* test_queue_receiver_closed does in test/test_logger/test_logger.c).       *)
THEOREM DeliveryAccounts == DeliverySpec => []Accounted
<1>1. DInv /\ [DeliveryNext]_dvars => DInv'
  <2> SUFFICES ASSUME DInv, [DeliveryNext]_dvars PROVE DInv'
    OBVIOUS
  <2>1. CASE DeliveryNext
    BY <2>1, PostStep, ArriveStep, EndStep, BreakStep DEF DeliveryNext
  <2>2. CASE UNCHANGED dvars
    BY <2>2 DEF dvars, DInv, DTypeOK, NewestIsLast, KnownUpToLast, Accounted, Gap
  <2>3. QED
    BY <2>1, <2>2
<1>2. DInv => Accounted
  BY DEF DInv
<1>3. QED
  BY InitHolds, <1>1, <1>2, PTL DEF DeliverySpec
=============================================================================
