----------------------------- MODULE UsbDriver ------------------------------
(***************************************************************************)
(* The USB side of the payload: the calls of its ABI that talk to the PC   *)
(* (payload/main.c), and the SummerCart 64 driver they run on              *)
(* (payload/usb_summercart.c), one action per access to a cartridge        *)
(* register or buffer word that the PC or the cartridge can race with.     *)
(*                                                                         *)
(* The N64 has one thread here: a call blocks the game until it returns,   *)
(* and cln_abi_thread runs tasks at once, so one call is active at a time. *)
(***************************************************************************)
EXTENDS SummerCart

CONSTANT MaxCalls     (* bound on the calls the library makes              *)
ASSUME MaxCallsAssumption == MaxCalls \in Nat

VARIABLES
  drv,      (* where the driver is                                         *)
  widx,     (* the loop counter of cl64_bram_write and cl64_bram_read      *)
  cur,      (* the message of the call in progress                         *)
  then,     (* what that call does after its transmit                      *)
  got,      (* the sources of the words read so far                        *)
  last,     (* the result of the last receive                              *)
  calls     (* history: calls made since power on, the ids of messages     *)

drvVars == <<drv, widx, cur, then, got, last, calls>>

DrvStates == {"idle", "twait", "twrite", "tstart", "poll", "rwait", "rread"}

DrvTypeOK ==
  /\ drv \in DrvStates
  /\ widx \in Words
  /\ cur \in Message
  /\ then \in {"return", "receive"}
  /\ got \in SUBSET Message
  /\ last \in Result
  /\ calls \in 0 .. MaxCalls

DrvInit ==
  /\ drv = "idle"
  /\ widx = 0
  /\ cur = NoMessage
  /\ then = "return"
  /\ got = {}
  /\ last = NoResult
  /\ calls = 0

-----------------------------------------------------------------------------
(* The calls of the ABI.  Each transmits; the last two then receive.       *)

BeginCall(type, next) ==
  /\ drv = "idle"
  /\ calls < MaxCalls
  /\ calls' = calls + 1
  /\ cur' = Request(type, calls + 1)
  /\ then' = next
  /\ drv' = "twait"
  /\ widx' = 0
  /\ got' = {}
  /\ UNCHANGED last
  /\ UNCHANGED cartVars

DisplayMessage(level) == BeginCall(MESSAGE_DEBUG + level, "return")
(* A faulty UserDataCall: the request without the receive.                 *)
UserDataCallForgets == BeginCall(REQUEST_USER_INFO, "return")

PostCall              == BeginCall(NETWORK_POST, "receive")
UserDataCall          == BeginCall(REQUEST_USER_INFO, "receive")

Call == (\E level \in Levels : DisplayMessage(level)) \/ PostCall \/ UserDataCall

-----------------------------------------------------------------------------
(* cl64_summercart_transmit                                                *)

(* Faulty forms of TransmitWait: without the wait, and with one for a      *)
(* buffer that holds no message of the PC.                                 *)
TransmitAtOnce ==
  /\ drv = "twait"
  /\ drv' = "twrite"
  /\ UNCHANGED <<widx, cur, then, got, last, calls>>
  /\ UNCHANGED cartVars

TransmitWaitEmpty ==
  /\ drv = "twait"
  /\ ~ScrBusy
  /\ bram[0].magic # PC_TO_N64
  /\ drv' = "twrite"
  /\ UNCHANGED <<widx, cur, then, got, last, calls>>
  /\ UNCHANGED cartVars

TransmitWait ==
  /\ drv = "twait"
  /\ ~ScrBusy
  /\ drv' = "twrite"
  /\ UNCHANGED <<widx, cur, then, got, last, calls>>
  /\ UNCHANGED cartVars

(* A faulty BramWrite: one word too many.                                  *)
BramWriteLong ==
  /\ drv = "twrite"
  /\ bram' = [w \in Words |-> IF w = widx THEN cur ELSE bram[w]]
  /\ IF widx <= LastWord
     THEN widx' = widx + 1 /\ drv' = drv
     ELSE widx' = 0 /\ drv' = "tstart"
  /\ UNCHANGED <<cur, then, got, last, calls>>
  /\ UNCHANGED <<cmd, out, inb, toHost, toCart>>

BramWrite ==
  /\ drv = "twrite"
  /\ bram' = [bram EXCEPT ![widx] = cur]
  /\ IF widx < LastWord
     THEN widx' = widx + 1 /\ drv' = drv
     ELSE widx' = 0 /\ drv' = "tstart"
  /\ UNCHANGED <<cur, then, got, last, calls>>
  /\ UNCHANGED <<cmd, out, inb, toHost, toCart>>

(* The command and its operands.  A command written while the cartridge    *)
(* holds one that it has not taken yet replaces it.                        *)
StartTransmission ==
  /\ drv = "tstart"
  /\ cmd' = cur
  /\ IF then = "receive"
     THEN drv' = "poll" /\ UNCHANGED <<cur, then>>
     ELSE drv' = "idle" /\ cur' = NoMessage /\ then' = "return"
  /\ UNCHANGED <<widx, got, last, calls>>
  /\ UNCHANGED <<bram, out, inb, toHost, toCart>>

-----------------------------------------------------------------------------
(* cl64_summercart_receive                                                 *)

(* The loop over cl64_bram_is_empty sees the magic of a PC message.        *)
ReceivePoll ==
  /\ drv = "poll"
  /\ bram[0].magic = PC_TO_N64
  /\ drv' = "rwait"
  /\ UNCHANGED <<widx, cur, then, got, last, calls>>
  /\ UNCHANGED cartVars

(* A faulty ReceiveWait: the magic alone is enough.                        *)
ReceiveAtOnce ==
  /\ drv = "rwait"
  /\ drv' = "rread"
  /\ UNCHANGED <<widx, cur, then, got, last, calls>>
  /\ UNCHANGED cartVars

ReceiveWait ==
  /\ drv = "rwait"
  /\ ~ScrBusy
  /\ drv' = "rread"
  /\ UNCHANGED <<widx, cur, then, got, last, calls>>
  /\ UNCHANGED cartVars

(* The receive returns to the call, which uses whatever is in its buffer:  *)
(* the error that cl64_usb_receive may return is not looked at.            *)
ReturnWith(sources) ==
  /\ last' = [req |-> cur, src |-> sources]
  /\ drv' = "idle"
  /\ cur' = NoMessage
  /\ then' = "return"
  /\ widx' = 0
  /\ got' = {}

BramRead ==
  /\ drv = "rread"
  /\ \/ /\ widx = 0
        /\ bram[0].magic # PC_TO_N64
        /\ ReturnWith({})
     \/ /\ widx # 0 \/ bram[0].magic = PC_TO_N64
        /\ widx = LastWord
        /\ ReturnWith(got \cup {bram[widx]})
     \/ /\ widx # 0 \/ bram[0].magic = PC_TO_N64
        /\ widx < LastWord
        /\ got' = got \cup {bram[widx]}
        /\ widx' = widx + 1
        /\ UNCHANGED <<drv, cur, then, last>>
  /\ UNCHANGED calls
  /\ UNCHANGED cartVars

DriverStep ==
  TransmitWait \/ BramWrite \/ StartTransmission \/ ReceivePoll \/ ReceiveWait
    \/ BramRead
=============================================================================
