----------------------------- MODULE LogStream -----------------------------
(***************************************************************************)
(* A log sender and a log receiver, connected by a pipe: what travels from *)
(* an application that logs to one client, once the client has got the     *)
(* descriptor from LogOpen.  The receiver replaces the simple reader at    *)
(* the other end of LogSender's pipe.                                      *)
(***************************************************************************)
EXTENDS LogSender

CONSTANTS Modulus, StartIndex, MaxPaused, SkipReactions, MessageReactions

VARIABLES opened, paused, read_watch, partial, message_received,
          last_message_index, reporting, delivered, skipped, farewell

R == INSTANCE LogReceiver WITH eof <- ~io

ASSUME StreamConstants == R!ReceiverConstants

receiver == <<opened, paused, read_watch, partial, message_received,
              last_message_index, reporting, delivered, skipped, farewell>>
svars == <<vars, receiver>>

StreamInit == Init /\ R!Init

SenderStep == SenderNext /\ UNCHANGED receiver

(* Closing the receiver closes the client's descriptor of the pipe           *)
(* (dbus_log_receiver_new was told to, do_close is TRUE).                    *)
ReceiverDoes(action) ==
  /\ action
  /\ readers' = IF opened' THEN readers ELSE readers \ {"client"}
  /\ UNCHANGED <<object, main, invokes, history>>

ReceiverStep == ReceiverDoes(R!Next)

StreamNext == SenderStep \/ ReceiverStep

StreamSpec == StreamInit /\ [][StreamNext]_svars

(* Both main loops run their callbacks, and an application which has paused  *)
(* the receiver resumes it some time.                                        *)
FairStream ==
  /\ StreamSpec
  /\ WF_svars(MainLoop /\ UNCHANGED receiver)
  /\ WF_svars(Writing /\ UNCHANGED receiver)
  /\ SF_svars(ReceiverDoes(R!Callback))
  /\ WF_svars(ReceiverDoes(R!Resume))

-----------------------------------------------------------------------------
(* Properties                                                                *)

(* When the receiver gets Bye, each message the sender had accepted since    *)
(* the pipe was created has either been delivered or reported as skipped     *)
(* (the check test_queue_receiver_closed does in test/test_logger).          *)
Accounting == farewell => accepted = Len(delivered) + skipped

(* Messages the receiver has taken from the pipe, also the one whose MESSAGE *)
(* is still to be emitted.                                                   *)
Taken == delivered \o reporting

(* Nothing is taken from the pipe to be reported while the receiver is       *)
(* paused or closed: pauses nest, and handlers pause, resume and close. All  *)
(* that is reported then is the message of a callback whose SKIP handlers    *)
(* have paused or closed the receiver, and this message is not left out.     *)
NothingTakenWhilePaused ==
  [][~(opened /\ paused = 0) =>
       /\ UNCHANGED <<skipped, farewell>>
       /\ \/ UNCHANGED <<delivered, reporting>>
          \/ delivered' = delivered \o reporting /\ reporting' = <<>>]_svars

-----------------------------------------------------------------------------
(* The stream implements LogDelivery                                         *)

(* Bye is the last packet on the wire, those before it are messages.         *)
MessagesOnWire ==
  IF wire # <<>> /\ wire[Len(wire)].type = "BYE" THEN Len(wire) - 1 ELSE Len(wire)

(* Messages on the wire which the receiver has not taken yet.                *)
Undelivered ==
  [k \in 1..MessagesOnWire - Len(Taken) |-> wire[Len(Taken) + k].msg.index]

(* Messages which were accepted and have not been given up or taken.         *)
InFlight ==
  Undelivered
    \o (IF packet.type = "MESSAGE" /\ written < packet.size
        THEN <<current.index>> ELSE <<>>)
    \o [i \in 1..Len(buffer) |-> buffer[i].index]

Phase == IF farewell THEN "ended" ELSE IF opened THEN "open" ELSE "broken"

(* A client which has left gets nothing any more.                            *)
Queue == IF Phase = "broken" THEN <<>> ELSE InFlight

D == INSTANCE LogDelivery WITH
       posted <- accepted, arrived <- Taken, missed <- skipped, phase <- Phase,
       queue <- Queue

(* The stream keeps the promise of LogDelivery.                              *)
ImplementsDelivery == D!DeliverySpec

(* Every accepted message is eventually delivered, or reported as skipped,   *)
(* or given up by a full queue, unless the client closes its receiver.       *)
EventuallyDelivered ==
  \A i \in 1..MaxMessages :
    accepted >= i ~>
      (~opened \/ i \in dropped \/ \E k \in 1..Len(delivered) : delivered[k] = i)

(* When the sender is closed, the client eventually gets Bye and lets go of  *)
(* its end, and then the sender lets go of its own: both ends shut down.     *)
EventuallyShut == done ~> (~io /\ ~opened)
=============================================================================
