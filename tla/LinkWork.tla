------------------------------ MODULE LinkWork ------------------------------
(***************************************************************************)
(* Why the calls of Link come to an end: the answer that a receive polls   *)
(* for is always still to come, and there is a bound on the steps that are *)
(* left, which each step of the driver, the cartridge and the PC lowers.   *)
(***************************************************************************)
EXTENDS LinkInv

(* A request is in the registers, in a transfer or a packet to the PC, or  *)
(* the PC works on it;                                                     *)
RequestThere ==
  \/ cmd.type \in Answered
  \/ out.msg.type \in Answered
  \/ \E i \in 1 .. Len(toHost) : toHost[i].type \in Answered
  \/ hpc \in {"post", "sleep", "reply"}

(* or an answer is on its way to the buffer, or in it.                     *)
AnswerThere ==
  \/ toCart # << >>
  \/ inb.msg # NoMessage /\ inb.next = 0
  \/ Heard

(* The guards of the steps that the driver, the cartridge and the PC       *)
(* program owe.                                                            *)
DriverMoves ==
  \/ drv \in {"twait", "rwait"} /\ ~ScrBusy
  \/ drv \in {"twrite", "tstart", "rread"}
  \/ drv = "poll" /\ Heard

CartMoves ==
  \/ cmd # NoMessage /\ out = OutIdle
  \/ out.msg # NoMessage
  \/ toCart # << >> /\ inb = InIdle
  \/ inb.msg # NoMessage

HostMoves ==
  \/ hpc \in {"down", "sleep", "reply"}
  \/ hpc = "read" /\ toHost # << >>
  \/ hpc = "post" /\ nxt \in 0 .. BodyChunks + 1

(* As long as nothing but timeouts fails, a call in progress never waits   *)
(* for something that nobody will do: at any moment of a receive a request *)
(* or an answer is there, and in any call somebody has a step to take.     *)
(* Resets of the console, which leave requests and answers behind at any   *)
(* place, do not change that, until an answer left behind is stored over a *)
(* post on its way to the PC.                                              *)
NeverStuck ==
  Faults \subseteq {"transient"} /\ ~mixed =>
    /\ drv = "poll" => RequestThere \/ AnswerThere
    /\ drv # "idle" => DriverMoves \/ CartMoves \/ HostMoves

-----------------------------------------------------------------------------
(* The steps that are left, at most: for a message to the N64,             *)
StoreWork   == LastWord + 1
AnswerWork  == 1 + StoreWork
(* for an attempt of a post that has come to chunk n,                      *)
AttemptWork(n) == (BodyChunks + 1 - n) + 2 + AnswerWork
(* for a packet to the PC and the answer to it,                            *)
PacketWork  == 1 + AttemptWork(0)
FetchWork   == LastWord + 1 + PacketWork
CommandWork == 1 + FetchWork
(* and for the driver, from each of its loops on.                          *)
ReadWork    == LastWord + 1
PollWork    == 2 + ReadWork
StartWork   == 1 + CommandWork + PollWork
WriteWork   == LastWord + 1 + StartWork

DriverWork ==
  CASE drv = "idle"   -> 0
    [] drv = "twait"  -> 1 + WriteWork
    [] drv = "twrite" -> WriteWork - widx
    [] drv = "tstart" -> StartWork
    [] drv = "poll"   -> PollWork
    [] drv = "rwait"  -> 1 + ReadWork
    [] drv = "rread"  -> ReadWork - widx

HostWork ==
  CASE hpc = "down"  -> 1
    [] hpc = "read"  -> 0
    [] hpc = "post"  -> AttemptWork(nxt)
    [] hpc = "sleep" -> 1 + AttemptWork(0)
    [] hpc = "reply" -> 1 + AnswerWork

CmdWork == IF cmd = NoMessage THEN 0 ELSE CommandWork
OutWork == IF out.msg = NoMessage THEN 0 ELSE FetchWork - out.next
InWork  == IF inb.msg = NoMessage THEN 0 ELSE StoreWork - inb.next

SendWork  == CmdWork + OutWork
ReplyWork == Len(toCart) * AnswerWork + InWork

Work == DriverWork + SendWork + Len(toHost) * PacketWork + HostWork + ReplyWork

(* Only a call, a timeout of libcurl and a stop of the PC program give the *)
(* system more to do: each other step of driver, cartridge and PC is one   *)
(* of the Work that is left, so between them there are no more than that.  *)
(* (A reset drops what the driver had to do.)                              *)
StepsRunOut ==
  [][\/ Work' < Work
     \/ calls' # calls \/ resets' # resets
     \/ hpc' # hpc /\ hpc' \in {"sleep", "down"}]_vars
=============================================================================
