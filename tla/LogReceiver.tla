---------------------------- MODULE LogReceiver ----------------------------
(***************************************************************************)
(* One DBusLogReceiver (client/src/dbuslog_receiver.c): the reading end of *)
(* the pipe.  It puts packets together from whatever reads return, reports *)
(* messages and the number of those that were skipped, and closes itself   *)
(* at Bye or when the pipe breaks.  All of it runs on the main thread of   *)
(* the client; the application may pause, resume or close the receiver,    *)
(* from the handlers of its signals, too.                                  *)
(*                                                                         *)
(* A read callback is one step: a unit which arrives between its reads may *)
(* as well be taken to arrive before the callback.  A message takes two:   *)
(* MESSAGE is emitted after the handlers of SKIP have returned, whatever   *)
(* these have done to the receiver.                                        *)
(***************************************************************************)
EXTENDS LogProtocol

CONSTANTS
  Modulus,          (* Message indices are counted modulo this (2^32).      *)
  StartIndex,       (* Index of the first message the sender accepts.       *)
  MaxPaused,        (* Bound on nested pauses.                              *)
  SkipReactions,    (* What the handlers of SKIP may do with the receiver.  *)
  MessageReactions  (* The same for handlers of MESSAGE.                    *)

Reactions == {"none", "pause", "resume", "close"}

ReceiverConstants ==
  /\ Modulus \in Nat \ {0} /\ StartIndex \in 0..Modulus - 1 /\ MaxPaused \in Nat
  /\ SkipReactions \subseteq Reactions /\ MessageReactions \subseteq Reactions

VARIABLES
  pipe,       (* Units in the pipe.                                         *)
  eof,        (* The writing end has been closed; only the sender does it.  *)
  opened,     (* io is set.                                                 *)
  paused,     (* How many times the receiver is paused.                     *)
  read_watch, (* read_watch_id is not zero.                                 *)
  partial,    (* Units of the packet being read, packet_read is its length. *)
  message_received,
  last_message_index,
  reporting,  (* The message whose SKIP is over and whose MESSAGE is not.   *)
  delivered,  (* History: messages reported by MESSAGE.                     *)
  skipped,    (* History: total reported by SKIP.                           *)
  farewell    (* History: Bye has been received.                            *)

state == <<opened, paused, read_watch>>
parsing == <<partial, message_received, last_message_index>>
reported == <<delivered, skipped, farewell>>

-----------------------------------------------------------------------------
(* Packet framing: the type is known when the header is there, and tells how *)
(* long the fixed part is.                                                   *)
FixedPart(header) ==
  IF header.packet.type \in {"PING", "BYE"} THEN HeaderSize ELSE MaxFixedPart

(* How many units the packet takes, judging by what is already there.        *)
Wanted(units) ==
  IF Len(units) < HeaderSize THEN HeaderSize
  ELSE LET header == units[HeaderSize]
       IN  IF header.packet.size > FixedPart(header) THEN header.packet.size
                                                     ELSE FixedPart(header)

Available == partial \o pipe

(* The message, found in the last unit of the fixed part of its packet.      *)
ParsedMessage == Available[MaxFixedPart].packet.msg
ParsedIndex   == (ParsedMessage.index + StartIndex - 1) % Modulus

(* (mutant) The last message is expected once more.                          *)
ExpectedAgain == last_message_index

(* dbus_log_receiver_read computes in 32-bit unsigned integers.              *)
Expected == (last_message_index + 1) % Modulus
SkippedNow ==
  IF ~message_received THEN 0
  ELSE IF ParsedIndex > Expected THEN ParsedIndex - Expected
                                 ELSE Expected - ParsedIndex

-----------------------------------------------------------------------------
(* (mutant) Pausing does not remove the watch.                               *)
SilenceWatching(pauses, closing) ==
  /\ paused' = paused + pauses
  /\ opened' = (opened /\ ~closing)
  /\ read_watch' = (read_watch /\ ~closing)

(* dbus_log_receiver_pause and dbus_log_receiver_close, called by the        *)
(* application or by handlers: the watch is removed by both.                 *)
Silence(pauses, closing) ==
  /\ paused' = paused + pauses
  /\ opened' = (opened /\ ~closing)
  /\ read_watch' = FALSE
Closed == Silence(0, TRUE)

(* (mutant) The watch is not added again.                                    *)
ResumedUnwatched ==
  /\ paused > 0
  /\ paused' = paused - 1
  /\ UNCHANGED <<opened, read_watch>>

(* dbus_log_receiver_resume                                                  *)
Resumed ==
  /\ paused > 0
  /\ paused' = paused - 1
  /\ read_watch' = (paused' = 0 /\ opened)
  /\ UNCHANGED opened

(* What the handlers of a signal do.                                         *)
React(reaction) ==
  \/ reaction = "none" /\ UNCHANGED state
  \/ reaction = "pause" /\ Silence(1, FALSE)
  \/ reaction = "resume" /\ Resumed
  \/ reaction = "close" /\ Closed

(* A part of a packet was read and the receiver has to wait. If the reading  *)
(* stopped where one of the parts ends the last read got nothing, and closes *)
(* the receiver if the pipe is broken.                                       *)
Wait ==
  /\ Len(Available) < Wanted(Available)
  /\ pipe' = <<>>
  /\ IF eof /\ Len(Available) \in {HeaderSize, MaxFixedPart}
     THEN Closed /\ partial' = <<>>
     ELSE UNCHANGED state /\ partial' = Available
  /\ UNCHANGED <<message_received, last_message_index, reporting, reported>>

(* The rest of the pipe after a complete packet.                             *)
Complete(types) ==
  /\ Len(Available) >= Wanted(Available)
  /\ Available[HeaderSize].packet.type \in types
  /\ pipe' = SubSeq(Available, Wanted(Available) + 1, Len(Available))
  /\ partial' = <<>>

(* A message is there: SKIP is emitted if there is a gap before it, and its  *)
(* handlers may pause or close the receiver, which goes on all the same.     *)
ReadMessage ==
  /\ Complete({"MESSAGE"})
  /\ skipped' = skipped + SkippedNow
  /\ \E reaction \in IF SkippedNow > 0 THEN SkipReactions ELSE {"none"} : React(reaction)
  /\ message_received' = TRUE /\ last_message_index' = ParsedIndex
  /\ reporting' = <<ParsedMessage.index>>
  /\ UNCHANGED <<delivered, farewell>>

(* (mutant) The message is given up if the receiver was closed meanwhile.    *)
ReportIfOpen ==
  /\ reporting # <<>>
  /\ delivered' = IF opened THEN delivered \o reporting ELSE delivered
  /\ reporting' = <<>>
  /\ \E reaction \in MessageReactions : React(reaction)
  /\ UNCHANGED <<pipe, parsing, skipped, farewell>>

(* The rest of the callback: MESSAGE is emitted.                             *)
ReportMessage ==
  /\ reporting # <<>>
  /\ delivered' = delivered \o reporting
  /\ reporting' = <<>>
  /\ \E reaction \in MessageReactions : React(reaction)
  /\ UNCHANGED <<pipe, parsing, skipped, farewell>>

(* Pings and packets of unknown types are ignored.                           *)
ReadOther ==
  /\ Complete({"PING", "NONE"})
  /\ UNCHANGED <<state, message_received, last_message_index, reporting, reported>>

ReadBye ==
  /\ Complete({"BYE"})
  /\ Closed
  /\ farewell' = TRUE
  /\ UNCHANGED <<message_received, last_message_index, reporting, delivered, skipped>>

(* dbus_log_receiver_read_callback with G_IO_IN                              *)
ReadCallback ==
  /\ reporting = <<>> /\ read_watch /\ pipe # <<>>
  /\ Wait \/ ReadMessage \/ ReadOther \/ ReadBye

(* dbus_log_receiver_read_callback without it                                *)
HupCallback ==
  /\ reporting = <<>> /\ read_watch /\ pipe = <<>> /\ eof
  /\ Closed /\ partial' = <<>>
  /\ UNCHANGED <<pipe, message_received, last_message_index, reporting, reported>>

-----------------------------------------------------------------------------
(* Calls the application makes outside of the handlers                       *)

Pause ==
  /\ reporting = <<>> /\ paused < MaxPaused
  /\ Silence(1, FALSE)
  /\ UNCHANGED <<pipe, parsing, reporting, reported>>

Resume ==
  /\ reporting = <<>>
  /\ Resumed
  /\ UNCHANGED <<pipe, parsing, reporting, reported>>

CloseReceiver ==
  /\ reporting = <<>> /\ opened
  /\ Closed /\ partial' = <<>>
  /\ UNCHANGED <<pipe, message_received, last_message_index, reporting, reported>>

(* dbus_log_receiver_new                                                     *)
Init ==
  /\ opened = TRUE /\ paused = 0 /\ read_watch = TRUE
  /\ partial = <<>> /\ message_received = FALSE /\ last_message_index = 0
  /\ reporting = <<>> /\ delivered = <<>> /\ skipped = 0 /\ farewell = FALSE

Callback == ReadCallback \/ ReportMessage \/ HupCallback
Next == Callback \/ Pause \/ Resume \/ CloseReceiver

TypeOK ==
  /\ opened \in BOOLEAN /\ paused \in Nat /\ read_watch \in BOOLEAN
  /\ partial \in Seq(Unit)
  /\ message_received \in BOOLEAN /\ last_message_index \in 0..Modulus - 1
  /\ reporting \in Seq(Nat) /\ Len(reporting) <= 1
  /\ delivered \in Seq(Nat) /\ skipped \in Nat /\ farewell \in BOOLEAN
=============================================================================
