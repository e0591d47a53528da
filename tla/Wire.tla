-------------------------------- MODULE Wire --------------------------------
(***************************************************************************)
(* The messages the Nintendo 64 and the PC exchange through the            *)
(* SummerCart 64, as far as the link tells them apart.                     *)
(*                                                                         *)
(* A message carries the magic word that opens it in the cartridge buffer  *)
(* (payload/usb_internal.h), the datatype that the cartridge puts in the   *)
(* packet header (payload/usb.h) and, as a history value the code does not *)
(* send, the number of the call it belongs to.  The text of a message is   *)
(* left out; its length too (module Wire's messages fit one USB transfer). *)
(***************************************************************************)
EXTENDS Naturals

CONSTANTS
  LastWord,   (* index of the last 32-bit word of a message in the buffer  *)
  Levels      (* the levels the library passes to cln_abi_display_message  *)

ASSUME LastWordAssumption == LastWord \in Nat \ {0}
ASSUME LevelsAssumption == Levels \subseteq Nat

(* Word 0 is the magic, word 1 the length, the others the text.            *)
Words == 0 .. LastWord

MESSAGE_DEBUG     == 192
NETWORK_POST      == 196
REQUEST_USER_INFO == 197

(* The datatypes on which the host answers; it only prints the others.     *)
Answered == {NETWORK_POST, REQUEST_USER_INFO}

N64_TO_PC == "N64_TO_PC"
PC_TO_N64 == "PC_TO_N64"

Message == [magic : {N64_TO_PC, PC_TO_N64, "NONE"}, type : Nat, id : Nat]

(* No message: an idle register, or buffer words without a known magic.    *)
NoMessage == [magic |-> "NONE", type |-> 0, id |-> 0]

Request(type, id) == [magic |-> N64_TO_PC, type |-> type, id |-> id]

ReplyTo(request) ==
  [magic |-> PC_TO_N64, type |-> request.type, id |-> request.id]

(* What a receive leaves behind: the request it was for, and the set of    *)
(* messages the words it read came from.  A whole answer has one source.   *)
Result   == [req : Message, src : SUBSET Message]
NoResult == [req |-> NoMessage, src |-> {}]
=============================================================================
