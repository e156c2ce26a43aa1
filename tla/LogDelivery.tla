---------------------------- MODULE LogDelivery ----------------------------
(***************************************************************************)
(* What a log stream promises to the client, whatever packets, pipes and   *)
(* queues are in between.  Messages are numbered from 1.  They arrive in   *)
(* order; some of those on their way may be given up when a newer one is   *)
(* posted, but never the oldest one on its way and never the newest one.   *)
(* The client is told how many it has missed whenever it gets the next     *)
(* one.  The stream ends when everything has arrived, or it breaks.        *)
(***************************************************************************)
EXTENDS Integers, Sequences

VARIABLES
  posted,     (* Number of messages posted, also the newest one.            *)
  queue,      (* Messages on their way.                                     *)
  arrived,    (* Messages the client has got, in this order.                *)
  missed,     (* How many messages the client was told it has missed.       *)
  phase       (* "open", "ended" or "broken".                               *)

dvars == <<posted, queue, arrived, missed, phase>>

DeliveryInit ==
  /\ posted = 0 /\ queue = <<>> /\ arrived = <<>> /\ missed = 0
  /\ phase = "open"

Post ==
  /\ phase # "ended"
  /\ posted' = posted + 1
  /\ \/ /\ phase = "broken"
        /\ UNCHANGED queue
     \/ /\ phase = "open"
        /\ \E kept \in 0..Len(queue) :
             /\ queue # <<>> => kept > 0
             /\ queue' = Append(SubSeq(queue, 1, kept), posted + 1)
  /\ UNCHANGED <<arrived, missed, phase>>

(* How many messages before m the client has missed. It does not know about  *)
(* messages posted before the first one it has got.                          *)
Gap(m) == IF arrived = <<>> THEN 0 ELSE m - arrived[Len(arrived)] - 1

(* The client may leave at once when it gets a message.                      *)
Arrive ==
  /\ phase = "open" /\ queue # <<>>
  /\ arrived' = Append(arrived, Head(queue))
  /\ missed' = missed + Gap(Head(queue))
  /\ \/ phase' = "open" /\ queue' = Tail(queue)
     \/ phase' = "broken" /\ queue' = <<>>
  /\ UNCHANGED posted

End ==
  /\ phase = "open" /\ queue = <<>>
  /\ phase' = "ended"
  /\ UNCHANGED <<posted, queue, arrived, missed>>

Break ==
  /\ phase = "open"
  /\ phase' = "broken" /\ queue' = <<>>
  /\ UNCHANGED <<posted, arrived, missed>>

DeliveryNext == Post \/ Arrive \/ End \/ Break

DeliverySpec == DeliveryInit /\ [][DeliveryNext]_dvars

-----------------------------------------------------------------------------
(* A client which was told that the stream has ended can account for all     *)
(* messages: those it has got and those it was told it has missed.           *)
Accounted == phase = "ended" => posted = Len(arrived) + missed
=============================================================================
