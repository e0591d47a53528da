----------------------------- MODULE SummerCart -----------------------------
(***************************************************************************)
(* The SummerCart 64 as payload/usb_summercart.c and host/main.c use it.   *)
(* The firmware is not in the repository: this module is external.         *)
(*                                                                         *)
(* The N64 and the PC share one buffer, SC64_BRAM.  A word of it is        *)
(* represented by the message whose transfer wrote it last.  Writing the   *)
(* command 'M' to SC64_REG_SCR makes the cartridge fetch the buffer and    *)
(* send it to the PC as one packet; the command 'M' of the USB protocol    *)
(* makes it store the PC's message in the buffer, in order, magic first.   *)
(***************************************************************************)
EXTENDS Wire, Sequences

CONSTANT BusyCovers     (* what CMD_BUSY stays up for, besides a command   *)

(* "send":  until the buffer of a USB_WRITE has been sent;                 *)
(* "reply": while a message from the PC is being stored.                   *)
ASSUME BusyAssumption == BusyCovers \subseteq {"send", "reply"}

VARIABLES
  bram,     (* SC64_BRAM, by word                                          *)
  cmd,      (* the message the USB_WRITE command in the registers is for   *)
  out,      (* the transfer to the PC: message, next word, sources so far  *)
  inb,      (* the transfer from the PC: message, next word                *)
  toHost,   (* packets on their way to the PC                              *)
  toCart    (* messages the PC has written to the USB endpoint             *)

cartVars == <<bram, cmd, out, inb, toHost, toCart>>

OutIdle == [msg |-> NoMessage, next |-> 0, src |-> {}]
InIdle  == [msg |-> NoMessage, next |-> 0]

Packet == [type : Nat, src : SUBSET Message]

CartTypeOK ==
  /\ bram \in [Words -> Message]
  /\ cmd \in Message
  /\ out \in [msg : Message, next : Words, src : SUBSET Message]
  /\ inb \in [msg : Message, next : Words]
  /\ toHost \in Seq(Packet)
  /\ toCart \in Seq(Message)

(* The buffer starts with anything, a message of an earlier run included.  *)
CartInit ==
  /\ \E m \in {NoMessage, [NoMessage EXCEPT !.magic = PC_TO_N64]} :
       bram = [w \in Words |-> m]
  /\ cmd = NoMessage
  /\ out = OutIdle
  /\ inb = InIdle
  /\ toHost = << >>
  /\ toCart = << >>

(* A faulty ScrBusy: up until the command is taken, not until it is done.  *)
ScrBusyTaken == cmd # NoMessage

(* SC64_SCR_CMD_BUSY as the N64 reads it.                                  *)
ScrBusy ==
  \/ cmd # NoMessage
  \/ "send" \in BusyCovers  /\ out.msg # NoMessage
  \/ "reply" \in BusyCovers /\ inb.msg # NoMessage

(* The cartridge takes the USB_WRITE command out of its registers.         *)
AcceptCommand ==
  /\ cmd # NoMessage
  /\ out = OutIdle
  /\ out' = [msg |-> cmd, next |-> 0, src |-> {}]
  /\ cmd' = NoMessage
  /\ UNCHANGED <<bram, inb, toHost, toCart>>

FetchWord ==
  /\ out.msg # NoMessage
  /\ out.next < LastWord
  /\ out' = [msg  |-> out.msg,
             next |-> out.next + 1,
             src  |-> out.src \cup {bram[out.next]}]
  /\ UNCHANGED <<bram, cmd, inb, toHost, toCart>>

(* The last word completes the packet; its header has the datatype that    *)
(* was in SC64_REG_DATA_1.                                                 *)
SendPacket ==
  /\ out.msg # NoMessage
  /\ out.next = LastWord
  /\ toHost' = Append(toHost, [type |-> out.msg.type,
                               src  |-> out.src \cup {bram[LastWord]}])
  /\ out' = OutIdle
  /\ UNCHANGED <<bram, cmd, inb, toCart>>

AcceptReply ==
  /\ toCart # << >>
  /\ inb = InIdle
  /\ inb' = [msg |-> Head(toCart), next |-> 0]
  /\ toCart' = Tail(toCart)
  /\ UNCHANGED <<bram, cmd, out, toHost>>

StoreWord ==
  /\ inb.msg # NoMessage
  /\ bram' = [bram EXCEPT ![inb.next] = inb.msg]
  /\ inb' = IF inb.next = LastWord
            THEN InIdle
            ELSE [msg |-> inb.msg, next |-> inb.next + 1]
  /\ UNCHANGED <<cmd, out, toHost, toCart>>

CartStep ==
  AcceptCommand \/ FetchWord \/ SendPacket \/ AcceptReply \/ StoreWord
=============================================================================
