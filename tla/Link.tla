-------------------------------- MODULE Link --------------------------------
(***************************************************************************)
(* The payload's USB driver, the cartridge and the PC program together,    *)
(* and the console's reset button, which restarts the first and leaves the *)
(* other two as they are.                                                  *)
(***************************************************************************)
EXTENDS UsbDriver, Host, FiniteSets

CONSTANT MaxResets     (* bound on presses of the reset button             *)
ASSUME MaxResetsAssumption == MaxResets \in Nat

VARIABLES
  resets,    (* history: resets so far                                     *)
  orphans    (* history: the requests that a reset left without an answer  *)

linkVars == <<resets, orphans>>
vars     == <<cartVars, drvVars, hostVars, linkVars>>

Init ==
  /\ CartInit
  /\ DrvInit
  /\ HostInit
  /\ resets = 0
  /\ orphans = {}

(* The payload starts afresh, wherever it was.  A request that has been    *)
(* sent and not answered stays on its way.                                 *)
Reset ==
  /\ resets < MaxResets
  /\ resets' = resets + 1
  /\ orphans' = orphans \cup (IF drv = "poll" THEN {cur} ELSE {})
  /\ drv' = "idle"
  /\ widx' = 0
  /\ cur' = NoMessage
  /\ then' = "return"
  /\ got' = {}
  /\ last' = NoResult
  /\ UNCHANGED calls
  /\ UNCHANGED cartVars
  /\ UNCHANGED hostVars

LibraryCalls == Call /\ UNCHANGED <<hostVars, linkVars>>
DriverRuns   == DriverStep /\ UNCHANGED <<hostVars, linkVars>>
CartRuns     == CartStep /\ UNCHANGED <<drvVars, hostVars, linkVars>>
HostRuns     == HostStep /\ UNCHANGED <<drvVars, linkVars>>

Next == LibraryCalls \/ DriverRuns \/ CartRuns \/ HostRuns \/ Reset

Spec == Init /\ [][Next]_vars

(***************************************************************************)
(* Fairness.  The payload runs without preemption until its call returns,  *)
(* so each of its steps is taken when it stays possible; the cartridge     *)
(* moves data in hardware; the PC program is a process of a fair scheduler.*)
(* A server that answers again and again is heard through in some attempt, *)
(* whatever the timeouts: strong fairness on the steps of an attempt.      *)
(* Nobody owes an answer to a post that is not one whole message.          *)
(* Nobody owes the system a call, a reset or a failure.                    *)
(***************************************************************************)
Fairness ==
  /\ WF_vars(DriverRuns)
  /\ WF_vars(CartRuns /\ AcceptCommand)
  /\ WF_vars(CartRuns /\ (FetchWord \/ SendPacket))
  /\ WF_vars(CartRuns /\ AcceptReply)
  /\ WF_vars(CartRuns /\ StoreWord)
  /\ WF_vars(HostRuns /\ (HostStart \/ HostRead \/ Retry \/ AuxWrite))
  /\ SF_vars(HostRuns /\ ServerHandles /\ ~Garbled(hpkt))
  /\ \A k \in 1 .. BodyChunks :
       SF_vars(HostRuns /\ WriteCallback /\ nxt = k /\ ~Garbled(hpkt))
  /\ SF_vars(HostRuns /\ CurlOk /\ ~Garbled(hpkt))

FairSpec == Spec /\ Fairness

-----------------------------------------------------------------------------
(* The variables keep their types.                                         *)
TypeOK ==
  /\ CartTypeOK
  /\ DrvTypeOK
  /\ HostTypeOK
  /\ resets \in 0 .. MaxResets
  /\ orphans \in SUBSET Message

(* Every word that cl64_usb_receive hands to its caller belongs to the     *)
(* PC's answer to the request of that same call: no answer to another      *)
(* request, no mix of two messages, no leftover of the buffer, no response *)
(* of two HTTP attempts run together.  A reset while a request is          *)
(* unanswered voids this: its answer may still come.                       *)
RepliesMatch ==
  orphans = {} /\ last.req # NoMessage => last.src = {ReplyTo(last.req)}

(* When cln_abi_network_post hands a response to the library's callback,   *)
(* the server has handled that request.                                    *)
ServedBeforeReturn ==
  orphans = {} /\ last.req.type = NETWORK_POST => last.req \in served

(* Every packet on its way to the PC is one message of the payload, whole, *)
(* under its own datatype: cl64_summercart_wait keeps the next call from   *)
(* writing over the buffer while the cartridge still sends it.             *)
RequestsWhole ==
  orphans = {} => \A i \in DOMAIN toHost :
              \E m \in toHost[i].src : toHost[i] = [type |-> m.type, src |-> {m}]

(* The PC sends the N64 nothing it did not ask for: with no receive in     *)
(* progress, the PC has no answer in hand and none is on the USB endpoint; *)
(* and none is being stored in the buffer that the next call writes and    *)
(* polls, unless a reset has caught a message of the PC there.             *)
NothingUnasked ==
  orphans = {} /\ then = "return" => /\ toCart = << >>
                                     /\ hpc \in {"down", "read"}
                                     /\ resets = 0 => inb = InIdle

(* While a transfer to the PC reads the buffer, neither the payload nor a  *)
(* message from the PC writes it.                                          *)
NoWriteUnderSend ==
  [][orphans = {} /\ out.msg # NoMessage /\ bram' # bram => out'.msg # out.msg]_vars

(* Once cl64_summercart_receive has waited "for the USB transfer to        *)
(* complete", no transfer from the PC is under way.                        *)
TransferComplete == orphans = {} /\ drv = "rread" => inb = InIdle

(* The PC works on one request at a time and answers it once: there are    *)
(* never more answers on their way, or about to be, than one and one for   *)
(* each request that a reset has orphaned.  So a reset costs the runs      *)
(* after it no more wrong answers than the requests it interrupted.        *)
AnswersBounded ==
  Len(toCart) + Cardinality({inb.msg} \ {NoMessage})
    + Cardinality({hpc} \cap {"post", "sleep", "reply"})
    <= 1 + Cardinality(orphans)

(* The server is given a post again only by the loop of network_post, after*)
(* a timeout: the PC never finds a post a second time that has been handled*)
(* before, through resets of the device and restarts of the PC program.    *)
PostedOnce ==
  [][orphans = {} /\ hpc = "read" /\ hpc' = "post"
       => Content(hpkt') \notin served]_vars

-----------------------------------------------------------------------------
(* The abstract remote procedure call, with the active receive for its     *)
(* pending request.                                                        *)
R == INSTANCE Rpc WITH pending <- IF then = "receive" THEN cur ELSE NoMessage

(* The link implements the abstract call, as long as no reset has left a   *)
(* request unanswered.                                                     *)
ImplementsRpc == R!Init /\ [][orphans' = {} => R!Next]_(R!vars)

(* The same with its liveness, in runs without a reset: the server handles *)
(* every post and every call returns.                                      *)
ImplementsFairRpc == ImplementsRpc /\ ([](resets = 0) => R!Fairness)

(* A call that polls the buffer for its answer gets it and returns, unless *)
(* an answer that a reset left behind has been stored over a post: what    *)
(* the PC then posts is no URL, and may stay without an answer.            *)
ReceiveReturns == drv = "poll" ~> drv = "idle" \/ mixed

(* cl64_summercart_transmit gets past its wait and returns.                *)
TransmitReturns == drv = "twait" ~> drv \in {"idle", "poll"}
=============================================================================
