---------------------------- MODULE LogProtocol ----------------------------
(***************************************************************************)
(* The packets a log sender and a log receiver exchange over the pipe      *)
(* (common/include/dbuslog_protocol.h).  A pipe carries units, each of     *)
(* them standing for one or more bytes of a packet which are written and   *)
(* read together.  The sizes are kept in units, so that a packet may be    *)
(* cut in its header, between its parts and in its data.                   *)
(***************************************************************************)
EXTENDS Integers, Sequences

CONSTANTS
  HeaderSize,    (* DBUSLOG_PACKET_HEADER_SIZE, in units.                   *)
  PrefixSize     (* DBUSLOG_MESSAGE_PREFIX_SIZE, in units.                  *)

ASSUME ProtocolConstants ==
  HeaderSize \in Nat \ {0} /\ PrefixSize \in Nat \ {0}

(* A log message: its index, and the length of its text in units.            *)
Message == [index : Nat, length : Nat]
NoMsg   == [index |-> 0, length |-> 0]

(* DBUSLOG_PACKET_MAX_FIXED_PART                                             *)
MaxFixedPart == HeaderSize + PrefixSize

PacketType == {"PING", "MESSAGE", "BYE", "NONE"}
Packet     == [type : PacketType, size : Nat, fixed : Nat, msg : Message]

(* dbus_log_sender_fill_header: a packet with a payload of the given size.   *)
Header(type, msg, payload) ==
  LET size == HeaderSize + payload
  IN  [type |-> type, size |-> size, msg |-> msg,
       fixed |-> IF size < MaxFixedPart THEN size ELSE MaxFixedPart]

MessagePacket(msg) == Header("MESSAGE", msg, PrefixSize + msg.length)
PingPacket == Header("PING", NoMsg, 0)
ByePacket  == Header("BYE", NoMsg, 0)
NoPacket   == [type |-> "NONE", size |-> 0, fixed |-> 0, msg |-> NoMsg]

(* A unit knows its packet and its place there. Garbage stands for what      *)
(* reading out of the bounds of a message puts into the pipe.                *)
Unit    == [packet : Packet, offset : Nat]
Garbage == [packet |-> NoPacket, offset |-> 0]
Units(p, from, n) == [i \in 1..n |-> [packet |-> p, offset |-> from + i - 1]]
=============================================================================
