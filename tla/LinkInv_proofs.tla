--------------------------- MODULE LinkInv_proofs ---------------------------
(***************************************************************************)
(* The variables of Link keep their types, and the invariant of LinkInv is *)
(* inductive.  One lemma per action.                                       *)
(***************************************************************************)
EXTENDS LinkInv, TLAPS

(* The shapes of the values that the variables take.                       *)
LEMMA MessageFacts ==
  /\ NoMessage \in Message
  /\ \A type, id \in Nat : Request(type, id) \in Message
  /\ \A m \in Message : ReplyTo(m) \in Message
  /\ \A m \in Message : m.type \in Nat /\ m.id \in Nat
BY DEF NoMessage, Message, Request, ReplyTo, N64_TO_PC, PC_TO_N64

(* What the PC program sends is a message.                                 *)
LEMMA AnswerType ==
  ASSUME NEW packet \in Packet, NEW body
  PROVE  AnswerOf(packet, body) \in Message
<1>1. Content(packet) \in Message
  BY MessageFacts DEF Content, Packet
<1>2. packet.type \in Nat
  BY DEF Packet
<1> QED
  BY <1>1, <1>2, MessageFacts DEF AnswerOf, Message, PC_TO_N64

LEMMA TypeInit == Init => TypeOK
<1> SUFFICES ASSUME Init PROVE TypeOK
  OBVIOUS
<1> USE LastWordAssumption, MessageFacts, MaxCallsAssumption, MaxResetsAssumption,
        HostAssumption
<1>1. CartTypeOK
  BY DEF Init, CartInit, CartTypeOK, OutIdle, InIdle, Words, NoMessage, Message, PC_TO_N64
<1>2. DrvTypeOK
  BY DEF Init, DrvInit, DrvTypeOK, DrvStates, Words, NoResult, Result
<1>3. HostTypeOK
  <2>1. mixed \in BOOLEAN
    BY DEF Init, HostInit
  <2>2. << >> \in Seq(1 .. BodyChunks)
    OBVIOUS
  <2> QED
    BY <2>1, <2>2 DEF Init, HostInit, HostTypeOK, HostStates, NoPacket, Packet
<1> QED
  BY <1>1, <1>2, <1>3 DEF Init, TypeOK

LEMMA CallType ==
  ASSUME CartTypeOK, DrvTypeOK, Call
  PROVE  CartTypeOK' /\ DrvTypeOK'
<1> USE LevelsAssumption, LastWordAssumption, MaxCallsAssumption, MessageFacts
<1>1. PICK type \in Nat, next \in {"return", "receive"} : BeginCall(type, next)
  BY DEF Call, DisplayMessage, PostCall, UserDataCall, MESSAGE_DEBUG, NETWORK_POST,
         REQUEST_USER_INFO
<1>2. cartVars' = cartVars
  BY <1>1 DEF BeginCall
<1>3. CartTypeOK'
  BY <1>2 DEF CartTypeOK, cartVars
<1>4. calls + 1 \in 0 .. MaxCalls
  BY <1>1 DEF BeginCall, DrvTypeOK
<1>5. Request(type, calls + 1) \in Message
  BY <1>4
<1> QED
  BY <1>1, <1>3, <1>4, <1>5 DEF BeginCall, DrvTypeOK, DrvStates, Words

LEMMA DriverType ==
  ASSUME CartTypeOK, DrvTypeOK, DriverStep
  PROVE  CartTypeOK' /\ DrvTypeOK'
<1> USE LastWordAssumption, MessageFacts DEF DrvTypeOK, DrvStates, Words
<1>1. CASE TransmitWait
  BY <1>1 DEF TransmitWait, CartTypeOK, cartVars
<1>2. CASE BramWrite
  BY <1>2 DEF BramWrite, CartTypeOK
<1>3. CASE StartTransmission
  BY <1>3 DEF StartTransmission, CartTypeOK
<1>4. CASE ReceivePoll
  BY <1>4 DEF ReceivePoll, CartTypeOK, cartVars
<1>5. CASE ReceiveWait
  BY <1>5 DEF ReceiveWait, CartTypeOK, cartVars
<1>6. CASE BramRead
  <2>1. CartTypeOK'
    BY <1>6 DEF BramRead, CartTypeOK, cartVars
  <2>2. bram[widx] \in Message
    BY DEF CartTypeOK
  <2>3. ASSUME NEW sources \in SUBSET Message, ReturnWith(sources), UNCHANGED calls
        PROVE  DrvTypeOK'
    BY <2>3 DEF ReturnWith, Result
  <2> QED
    BY <1>6, <2>1, <2>2, <2>3 DEF BramRead
<1> QED
  BY <1>1, <1>2, <1>3, <1>4, <1>5, <1>6 DEF DriverStep

LEMMA CartType ==
  ASSUME CartTypeOK, CartStep
  PROVE  CartTypeOK'
<1> USE LastWordAssumption, MessageFacts DEF CartTypeOK, Words, OutIdle, InIdle
<1>1. CASE AcceptCommand
  BY <1>1 DEF AcceptCommand
<1>2. CASE FetchWord
  BY <1>2 DEF FetchWord
<1>3. CASE SendPacket
  <2>1. out.msg.type \in Nat /\ out.src \cup {bram[LastWord]} \in SUBSET Message
    OBVIOUS
  <2>2. [type |-> out.msg.type, src |-> out.src \cup {bram[LastWord]}] \in Packet
    BY <2>1 DEF Packet
  <2> QED
    BY <1>3, <2>2 DEF SendPacket
<1>4. CASE AcceptReply
  <2>1. Head(toCart) \in Message /\ Tail(toCart) \in Seq(Message)
    BY <1>4 DEF AcceptReply
  <2> QED
    BY <1>4, <2>1 DEF AcceptReply
<1>5. CASE StoreWord
  BY <1>5 DEF StoreWord
<1> QED
  BY <1>1, <1>2, <1>3, <1>4, <1>5 DEF CartStep

LEMMA HostType ==
  ASSUME CartTypeOK, HostTypeOK, HostStep
  PROVE  CartTypeOK' /\ HostTypeOK'
<1> USE HostAssumption, MessageFacts DEF HostTypeOK, HostStates
<1>0. Body \in Seq(1 .. BodyChunks) /\ NoPacket \in Packet
  BY DEF Body, NoPacket, Packet
<1>1. CASE HostStart
  <2>1. toHost' \in Seq(Packet) /\ toCart' \in Seq(Message)
    <3>1. << >> \in Seq(Packet) /\ << >> \in Seq(Message)
      OBVIOUS
    <3>2. toHost' \in {toHost, << >>} /\ toCart' \in {toCart, << >>}
      BY <1>1 DEF HostStart
    <3> QED
      BY <3>1, <3>2 DEF CartTypeOK
  <2> QED
    BY <1>1, <2>1 DEF HostStart, CartTypeOK
<1>2. CASE HostRead
  <2>1. Head(toHost) \in Packet /\ Tail(toHost) \in Seq(Packet)
    BY <1>2 DEF HostRead, CartTypeOK
  <2>2. CartTypeOK'
    BY <1>2, <2>1 DEF HostRead, CartTypeOK
  <2>3. hpc' \in HostStates /\ hpkt' \in Packet /\ response' \in Seq(1 .. BodyChunks)
    <3>1. << >> \in Seq(1 .. BodyChunks)
      OBVIOUS
    <3> QED
      BY <1>0, <1>2, <2>1, <3>1 DEF HostRead
  <2> QED
    BY <1>2, <2>2, <2>3 DEF HostRead
<1>3. CASE ServerHandles
  <2>1. Content(hpkt) \in Message
    BY DEF Content, Packet
  <2> QED
    BY <1>3, <2>1 DEF ServerHandles, CartTypeOK, cartVars
<1>4. CASE WriteCallback
  BY <1>4 DEF WriteCallback, CartTypeOK, cartVars
<1>5. CASE CurlOk
  BY <1>5 DEF CurlOk, CartTypeOK, cartVars
<1>6. CASE CurlTransient
  BY <1>6 DEF CurlTransient, CartTypeOK, cartVars
<1>7. CASE Retry
  BY <1>7 DEF Retry, CartTypeOK, cartVars
<1>8. CASE CurlFail
  BY <1>0, <1>8 DEF CurlFail, BackToRead, CartTypeOK, cartVars
<1>9. CASE AuxWrite
  <2>1. AnswerOf(hpkt, response) \in Message
    BY AnswerType
  <2> QED
    BY <1>0, <1>9, <2>1 DEF AuxWrite, BackToRead, CartTypeOK
<1>10. CASE AuxWriteFails
  BY <1>0, <1>10 DEF AuxWriteFails, BackToRead, CartTypeOK, cartVars
<1>11. CASE HostCrash
  BY <1>0, <1>11 DEF HostCrash, CartTypeOK, cartVars
<1> QED
  BY <1>1, <1>2, <1>3, <1>4, <1>5, <1>6, <1>7, <1>8, <1>9, <1>10, <1>11
     DEF HostStep, HostProgress, HostFault

LEMMA TypeStep == TypeOK /\ [Next]_vars => TypeOK'
<1> SUFFICES ASSUME TypeOK, [Next]_vars PROVE TypeOK'
  OBVIOUS
<1> USE DEF TypeOK
<1>1. CASE LibraryCalls
  BY <1>1, CallType DEF LibraryCalls, hostVars, linkVars, HostTypeOK
<1>2. CASE DriverRuns
  BY <1>2, DriverType DEF DriverRuns, hostVars, linkVars, HostTypeOK
<1>3. CASE CartRuns
  BY <1>3, CartType DEF CartRuns, drvVars, hostVars, linkVars, HostTypeOK, DrvTypeOK
<1>4. CASE HostRuns
  BY <1>4, HostType DEF HostRuns, drvVars, linkVars, DrvTypeOK
<1>5. CASE Reset
  BY <1>5, MaxResetsAssumption, LastWordAssumption, MessageFacts
     DEF Reset, cartVars, hostVars, CartTypeOK, HostTypeOK, DrvTypeOK, DrvStates,
         Words, NoResult, Result
<1>6. CASE UNCHANGED vars
  BY <1>6 DEF vars, cartVars, drvVars, hostVars, linkVars, CartTypeOK, DrvTypeOK,
              HostTypeOK
<1> QED
  BY <1>1, <1>2, <1>3, <1>4, <1>5, <1>6 DEF Next

(* The variables of the driver, the cartridge and the PC program keep      *)
(* their types: indices stay in the buffer, nothing but messages is sent.  *)
THEOREM TypeCorrect == Spec => []TypeOK
BY TypeInit, TypeStep, PTL DEF Spec

-----------------------------------------------------------------------------
(* Facts about messages that the steps use.                                *)
LEMMA Magic ==
  /\ NoMessage.type \notin Answered
  /\ NoMessage.magic # N64_TO_PC /\ NoMessage.magic # PC_TO_N64
  /\ N64_TO_PC # PC_TO_N64
  /\ \A m : ReplyTo(m).magic = PC_TO_N64 /\ ReplyTo(m) # NoMessage
BY DEF NoMessage, Answered, ReplyTo, N64_TO_PC, PC_TO_N64, NETWORK_POST,
   REQUEST_USER_INFO

(* The packets after one more has been sent.                               *)
LEMMA Appended ==
  ASSUME NEW S, NEW s \in Seq(S), NEW e
  PROVE  /\ Len(Append(s, e)) = Len(s) + 1
         /\ \A i \in 1 .. Len(s) : Append(s, e)[i] = s[i]
         /\ Append(s, e)[Len(s) + 1] = e
OBVIOUS

(* A packet that is one message has that message for its content.          *)
LEMMA ContentOf == \A m : Content(PacketOf(m)) = m
BY DEF Content, PacketOf

(* The packets after the first has been taken.                             *)
LEMMA Taken ==
  ASSUME NEW S, NEW s \in Seq(S), s # << >>
  PROVE  /\ Len(s) \in Nat \ {0}
         /\ Len(Tail(s)) = Len(s) - 1
         /\ \A i \in 1 .. Len(s) - 1 : Tail(s)[i] = s[i + 1]
         /\ Head(s) = s[1]
OBVIOUS

(* The response after one more chunk.                                      *)
LEMMA Counted ==
  ASSUME NEW n \in Nat \ {0}
  PROVE  Append([k \in 1 .. n - 1 |-> k], n) = [k \in 1 .. n + 1 - 1 |-> k]
OBVIOUS

(* The invariant holds at power on.                                        *)
LEMMA InvInit == Init => CleanInv /\ WholeInv
<1> SUFFICES ASSUME Init PROVE CleanInv /\ WholeInv
  OBVIOUS
<1> USE Magic DEF Init, CartInit, DrvInit, HostInit, OutIdle, InIdle
<1>1. CallInv
  BY DEF CallInv
<1>2. WriteInv /\ SendInv /\ PipeInv
  BY DEF WriteInv, SendInv, PipeInv, NoRequest
<1>3. HostInv /\ ReplyInv
  BY DEF HostInv, HostIdle, ReplyInv
<1>4. ReceiveInv
  BY DEF ReceiveInv
<1>5. ResultInv
  BY DEF ResultInv, NoResult
<1>6. WholeInv
  BY DEF WholeInv
<1> QED
  BY <1>1, <1>2, <1>3, <1>4, <1>5, <1>6 DEF CleanInv

-----------------------------------------------------------------------------
(* The driver.                                                             *)

(* A call begins while no answer is on its way.                            *)
LEMMA BeginCallInv ==
  ASSUME CleanInv, NEW type \in Nat, NEW next,
         BeginCall(type, next), UNCHANGED <<hostVars, linkVars>>,
         next = "receive" <=> type \in Answered
  PROVE  CleanInv'
<1> USE Magic DEF BeginCall, cartVars, hostVars
<1>0. cur' # NoMessage /\ cur'.magic = N64_TO_PC /\ cur'.type = type
  BY DEF Request
<1>1. CallInv'
  BY <1>0 DEF CallInv
<1>2. WriteInv'
  BY DEF CleanInv, WriteInv, NoRequest
<1>3. SendInv'
  BY DEF CleanInv, SendInv, Filled, NoReply
<1>4. PipeInv'
  BY DEF CleanInv, PipeInv
<1>5. HostInv'
  BY DEF CleanInv, HostInv, HostIdle
<1>6. ReplyInv'
  BY DEF CleanInv, ReplyInv, SendIdle, HostIdle
<1>7. ReceiveInv'
  BY DEF ReceiveInv
<1>8. ResultInv'
  BY DEF CleanInv, ResultInv, Handled
<1> QED
  BY <1>1, <1>2, <1>3, <1>4, <1>5, <1>6, <1>7, <1>8 DEF CleanInv

(* CMD_BUSY is down only when no command waits and nothing comes.          *)
LEMMA NotBusy ==
  ASSUME CleanInv, Assumed, ~ScrBusy
  PROVE  cmd = NoMessage /\ inb = InIdle
BY DEF CleanInv, ReplyInv, Assumed, ScrBusy

(* The wait ends only when nothing comes into the buffer.                  *)
LEMMA TransmitWaitInv ==
  ASSUME CleanInv, Assumed, TransmitWait, UNCHANGED <<hostVars, linkVars>>
  PROVE  CleanInv'
<1> USE DEF TransmitWait, cartVars, hostVars, Words, CleanInv
<1>0. cmd = NoMessage /\ NoReply
  BY NotBusy DEF ReplyInv, NoReply
<1>1. CallInv'
  BY DEF CallInv
<1>2. WriteInv'
  BY <1>0 DEF WriteInv, ReceiveInv, NoReply, NoRequest
<1>3. SendInv'
  BY <1>0, Magic DEF SendInv, NoReply
<1>4. PipeInv'
  BY DEF PipeInv
<1>5. HostInv'
  BY DEF HostInv, HostIdle
<1>6. ReplyInv'
  BY <1>0 DEF NoReply, ReplyInv, InIdle
<1>7. ReceiveInv'
  BY DEF ReceiveInv
<1>8. ResultInv'
  BY DEF ResultInv, Handled
<1> QED
  BY <1>1, <1>2, <1>3, <1>4, <1>5, <1>6, <1>7, <1>8

(* One more word of the buffer is the message of the call.                 *)
LEMMA BramWriteInv ==
  ASSUME TypeOK, CleanInv, BramWrite, UNCHANGED <<hostVars, linkVars>>
  PROVE  CleanInv'
<1> USE LastWordAssumption DEF BramWrite, hostVars, Words, CleanInv, TypeOK,
        DrvTypeOK
<1>1. CallInv'
  BY DEF CallInv
<1>2. WriteInv'
  <2>1. NoReply /\ NoRequest
    BY DEF WriteInv
  <2>2. bram' = [bram EXCEPT ![widx] = cur] /\ bram \in [Words -> Message]
    BY DEF CartTypeOK
  <2>3. \A w \in Words : w < widx => bram[w] = cur
    BY DEF WriteInv
  <2>4. \A w \in Words : w <= widx => bram'[w] = cur'
    BY <2>2, <2>3
  <2>5. drv' = "twrite" => \A w \in Words : w < widx' => bram'[w] = cur'
    BY <2>4
  <2>6. drv' = "tstart" => Filled(cur)'
    BY <2>4 DEF Filled
  <2> QED
    BY <2>1, <2>5, <2>6 DEF WriteInv, NoReply, NoRequest
<1>3. SendInv'
  BY DEF SendInv, NoReply
<1>4. PipeInv'
  BY DEF PipeInv
<1>5. HostInv'
  BY DEF HostInv, HostIdle
<1>6. ReplyInv'
  BY DEF ReplyInv
<1>7. ReceiveInv'
  BY DEF ReceiveInv
<1>8. ResultInv'
  BY DEF ResultInv, Handled
<1> QED
  BY <1>1, <1>2, <1>3, <1>4, <1>5, <1>6, <1>7, <1>8

(* The buffer is the message whole when the command is written.            *)
LEMMA StartTransmissionInv ==
  ASSUME CleanInv, StartTransmission, UNCHANGED <<hostVars, linkVars>>
  PROVE  CleanInv'
<1> USE Magic, LastWordAssumption DEF StartTransmission, hostVars, Words,
        CleanInv
<1>1. CallInv'
  BY DEF CallInv
<1>2. WriteInv'
  BY DEF WriteInv, NoRequest
<1>3. SendInv'
  <2>1. NoReply' /\ NoRequest' /\ Filled(cur)' = Filled(cur)' /\ HostIdle'
    BY DEF WriteInv, NoReply, NoRequest, HostInv, HostIdle
  <2>2. cmd' = cur /\ Filled(cmd)'
    BY DEF WriteInv, Filled
  <2>3. /\ then = "receive" <=> cur.type \in Answered
        /\ IF then = "receive" THEN drv' = "poll" /\ cur' = cur ELSE drv' = "idle"
    BY DEF CallInv
  <2>4. out' = out /\ out.msg.type \notin Answered /\ (out.msg = NoMessage => out = OutIdle)
    BY DEF SendInv
  <2> QED
    BY <2>1, <2>2, <2>3, <2>4 DEF SendInv, OutIdle
<1>4. PipeInv'
  BY DEF PipeInv
<1>5. HostInv'
  BY DEF HostInv, HostIdle
<1>6. ReplyInv'
  BY DEF ReplyInv
<1>7. ReceiveInv'
  <2>1. bram[0].magic = N64_TO_PC
    BY DEF CallInv, WriteInv, Filled
  <2>2. (cur' = cur /\ drv' = "poll") \/ drv' = "idle"
    OBVIOUS
  <2> QED
    BY <2>1 DEF ReceiveInv, WriteInv, NoReply, InIdle
<1>8. ResultInv'
  BY DEF ResultInv, Handled
<1> QED
  BY <1>1, <1>2, <1>3, <1>4, <1>5, <1>6, <1>7, <1>8

(* The magic that ends the poll is that of the answer to this call.        *)
LEMMA ReceivePollInv ==
  ASSUME CleanInv, ReceivePoll, UNCHANGED <<hostVars, linkVars>>
  PROVE  CleanInv'
<1> USE Magic DEF ReceivePoll, cartVars, hostVars, CleanInv
<1>1. CallInv'
  BY DEF CallInv
<1>2. WriteInv'
  BY DEF WriteInv, ReceiveInv, NoRequest
<1>3. SendInv'
  BY DEF SendInv, ReceiveInv, SendIdle, OutIdle
<1>4. PipeInv'
  BY DEF PipeInv, ReceiveInv
<1>5. HostInv'
  BY DEF HostInv, ReceiveInv, HostIdle
<1>6. ReplyInv'
  BY DEF ReplyInv, ReceiveInv, HostIdle, SendIdle, Handled
<1>7. ReceiveInv'
  BY DEF ReceiveInv, HostIdle, SendIdle, Handled
<1>8. ResultInv'
  BY DEF ResultInv, Handled
<1> QED
  BY <1>1, <1>2, <1>3, <1>4, <1>5, <1>6, <1>7, <1>8

(* The wait ends only when the answer is all there.                        *)
LEMMA ReceiveWaitInv ==
  ASSUME CleanInv, Assumed, ReceiveWait, UNCHANGED <<hostVars, linkVars>>
  PROVE  CleanInv'
<1> USE DEF ReceiveWait, cartVars, hostVars, CleanInv
<1>0. SendIdle /\ inb = InIdle
  BY NotBusy DEF ReceiveInv
<1>1. CallInv'
  BY DEF CallInv
<1>2. WriteInv'
  BY DEF WriteInv, NoRequest
<1>3. SendInv'
  BY DEF SendInv
<1>4. PipeInv'
  BY DEF PipeInv
<1>5. HostInv'
  BY DEF HostInv, HostIdle
<1>6. ReplyInv'
  BY <1>0 DEF ReplyInv, InIdle
<1>7. ReceiveInv'
  BY <1>0 DEF ReceiveInv, Handled, SendIdle, HostIdle
<1>8. ResultInv'
  BY DEF ResultInv, Handled
<1> QED
  BY <1>1, <1>2, <1>3, <1>4, <1>5, <1>6, <1>7, <1>8

(* A word that is read is of the answer to this call.                      *)
LEMMA BramReadInv ==
  ASSUME TypeOK, CleanInv, BramRead, UNCHANGED <<hostVars, linkVars>>
  PROVE  CleanInv'
<1> USE Magic, LastWordAssumption DEF BramRead, cartVars, hostVars, Words,
        CleanInv, TypeOK, DrvTypeOK
<1>1. CallInv'
  BY DEF CallInv, ReturnWith
<1>2. WriteInv'
  BY DEF WriteInv, ReturnWith, NoRequest
<1>3. SendInv'
  BY DEF SendInv
<1>4. PipeInv'
  BY DEF PipeInv
<1>5. HostInv'
  BY DEF HostInv, HostIdle
<1>6. ReplyInv'
  BY DEF ReplyInv
<1>7. ReceiveInv'
  <2>1. bram[widx] = ReplyTo(cur)
    BY DEF ReceiveInv, InIdle
  <2> QED
    BY <2>1 DEF ReceiveInv, ReturnWith, Handled, SendIdle, HostIdle
<1>8. ResultInv'
  <2>1. bram[widx] = ReplyTo(cur) /\ Handled(cur)
    BY DEF ReceiveInv, InIdle
  <2>2. ASSUME ReturnWith({ReplyTo(cur)}) PROVE ResultInv'
    BY <2>1, <2>2 DEF ReturnWith, ResultInv, Handled
  <2>3. widx = LastWord => got = {ReplyTo(cur)}
    BY DEF ReceiveInv
  <2>4. bram[0].magic = PC_TO_N64
    BY DEF ReceiveInv
  <2> QED
    BY <2>1, <2>2, <2>3, <2>4 DEF ResultInv, Handled
<1> QED
  BY <1>1, <1>2, <1>3, <1>4, <1>5, <1>6, <1>7, <1>8

(* The command moves from the registers into the transfer.                 *)
LEMMA AcceptCommandInv ==
  ASSUME CleanInv, AcceptCommand, UNCHANGED <<drvVars, hostVars, linkVars>>
  PROVE  CleanInv'
<1> USE DEF AcceptCommand, drvVars, hostVars, CleanInv
<1>1. CallInv'
  BY DEF CallInv
<1>2. WriteInv'
  BY DEF WriteInv, NoReply, NoRequest, Filled
<1>3. SendInv'
  BY Magic DEF SendInv, NoReply, NoRequest, HostIdle, Filled
<1>4. PipeInv'
  BY DEF PipeInv, SendIdle
<1>5. HostInv'
  BY DEF HostInv, HostIdle, SendIdle
<1>6. ReplyInv'
  BY DEF ReplyInv, SendIdle
<1>7. ReceiveInv'
  BY DEF ReceiveInv, SendIdle
<1>8. ResultInv'
  BY DEF ResultInv, Handled
<1> QED
  BY <1>1, <1>2, <1>3, <1>4, <1>5, <1>6, <1>7, <1>8

(* A word that is fetched is of the message that is being sent.            *)
LEMMA FetchWordInv ==
  ASSUME TypeOK, CleanInv, FetchWord, UNCHANGED <<drvVars, hostVars, linkVars>>
  PROVE  CleanInv'
<1> USE DEF FetchWord, drvVars, hostVars, CleanInv, TypeOK
<1>1. CallInv'
  BY DEF CallInv
<1>2. WriteInv'
  BY DEF WriteInv, NoReply, NoRequest, Filled
<1>3. SendInv'
  <2>1. out.msg.type \in Answered => bram[out.next] = out.msg
    BY DEF SendInv, Filled, CartTypeOK
  <2> QED
    BY <2>1 DEF SendInv, Filled, NoReply, NoRequest, HostIdle
<1>4. PipeInv'
  BY DEF PipeInv, SendIdle, OutIdle
<1>5. HostInv'
  BY DEF HostInv, HostIdle, SendIdle, OutIdle
<1>6. ReplyInv'
  BY DEF ReplyInv, SendIdle, OutIdle
<1>7. ReceiveInv'
  BY DEF ReceiveInv, SendIdle, OutIdle
<1>8. ResultInv'
  BY DEF ResultInv, Handled
<1> QED
  BY <1>1, <1>2, <1>3, <1>4, <1>5, <1>6, <1>7, <1>8

(* The packet is that message whole, and the last on its way.              *)
LEMMA SendPacketInv ==
  ASSUME TypeOK, CleanInv, SendPacket, UNCHANGED <<drvVars, hostVars, linkVars>>
  PROVE  CleanInv'
<1> USE LastWordAssumption DEF SendPacket, drvVars, hostVars, Words, CleanInv,
        TypeOK
<1>0. PICK packet :
        /\ packet = [type |-> out.msg.type, src |-> out.src \cup {bram[LastWord]}]
        /\ toHost' = Append(toHost, packet)
        /\ Len(toHost) \in Nat /\ Len(toHost') = Len(toHost) + 1
        /\ \A i \in 1 .. Len(toHost) : toHost'[i] = toHost[i]
        /\ toHost'[Len(toHost) + 1] = packet
        /\ \A i \in 1 .. Len(toHost') : i \in 1 .. Len(toHost) \/ i = Len(toHost) + 1
  <2>1. toHost \in Seq(Packet)
    BY DEF CartTypeOK
  <2> QED
    BY <2>1, Appended
<1>1. CallInv'
  BY DEF CallInv
<1>2. WriteInv'
  <2>1. drv # "poll" => out.msg.type \notin Answered /\ NoRequest
    BY DEF WriteInv, SendInv
  <2>2. drv # "poll" => NoRequest'
    BY <2>1, <1>0 DEF NoRequest
  <2> QED
    BY <2>2 DEF WriteInv, NoReply, Filled
<1>3. SendInv'
  <2>1. cmd.type \in Answered => packet.type \notin Answered /\ NoRequest
    BY <1>0, Magic DEF SendInv
  <2>2. cmd.type \in Answered => NoRequest'
    BY <1>0, <2>1 DEF NoRequest
  <2> QED
    BY <2>2, Magic DEF SendInv, OutIdle, NoReply, HostIdle, Filled
<1>4. PipeInv'
  <2>1. \A i \in 1 .. Len(toHost) : toHost[i].type \notin Answered
    BY DEF PipeInv, SendIdle, OutIdle
  <2>2. CASE out.msg.type \notin Answered
    BY <1>0, <2>1, <2>2 DEF PipeInv
  <2>3. CASE out.msg.type \in Answered
    <3>1. /\ drv = "poll" /\ out.msg = cur /\ HostIdle /\ Filled(cur)
          /\ cmd = NoMessage /\ out.src \subseteq {cur}
      BY <2>3 DEF SendInv
    <3>2. packet = PacketOf(cur)
      <4>1. bram[LastWord] = cur
        BY <3>1 DEF Filled
      <4>2. out.src \cup {bram[LastWord]} = {cur}
        BY <3>1, <4>1
      <4> QED
        BY <1>0, <3>1, <4>2 DEF PacketOf
    <3>3. SendIdle' /\ HostIdle' /\ NoReply'
      BY <3>1 DEF SendInv, SendIdle, HostIdle, NoReply
    <3> QED
      BY <1>0, <2>1, <3>1, <3>2, <3>3 DEF PipeInv
  <2> QED
    BY <2>2, <2>3
<1>5. HostInv'
  BY DEF HostInv, HostIdle, SendIdle, OutIdle
<1>6. ReplyInv'
  BY DEF ReplyInv, SendInv, NoReply, InIdle
<1>7. ReceiveInv'
  BY DEF ReceiveInv, SendIdle, OutIdle
<1>8. ResultInv'
  BY DEF ResultInv, Handled
<1> QED
  BY <1>1, <1>2, <1>3, <1>4, <1>5, <1>6, <1>7, <1>8

(* The answer moves from the endpoint into the transfer.                   *)
LEMMA AcceptReplyInv ==
  ASSUME CleanInv, AcceptReply, UNCHANGED <<drvVars, hostVars, linkVars>>
  PROVE  CleanInv'
<1> USE Magic, LastWordAssumption DEF AcceptReply, drvVars, hostVars, Words,
        CleanInv
<1>1. CallInv'
  BY DEF CallInv
<1>2. WriteInv'
  BY DEF WriteInv, NoReply, NoRequest
<1>3. SendInv'
  BY DEF SendInv, NoReply
<1>4. PipeInv'
  BY DEF PipeInv, NoReply
<1>5. HostInv'
  BY DEF HostInv, HostIdle, NoReply
<1>6. ReplyInv'
  <2>1. toCart = <<ReplyTo(cur)>>
    BY DEF ReplyInv
  <2>2. toCart' = << >>
    BY <2>1
  <2> QED
    BY <2>1, <2>2 DEF ReplyInv, SendIdle, HostIdle, Handled
<1>7. ReceiveInv'
  BY DEF ReceiveInv
<1>8. ResultInv'
  BY DEF ResultInv, Handled
<1> QED
  BY <1>1, <1>2, <1>3, <1>4, <1>5, <1>6, <1>7, <1>8

(* The words below the next one to be stored are the answer's.             *)
LEMMA StoreWordInv ==
  ASSUME TypeOK, CleanInv, StoreWord, UNCHANGED <<drvVars, hostVars, linkVars>>
  PROVE  CleanInv'
<1> USE Magic DEF StoreWord, drvVars, hostVars, Words, CleanInv, TypeOK
<1>1. CallInv'
  BY DEF CallInv
<1>2. WriteInv'
  BY DEF WriteInv, NoReply, NoRequest, InIdle
<1>3. SendInv'
  BY DEF SendInv, NoReply, InIdle
<1>4. PipeInv'
  BY DEF PipeInv, ReplyInv
<1>5. HostInv'
  BY DEF HostInv, ReplyInv, HostIdle
<1>6. ReplyInv'
  BY DEF ReplyInv, SendIdle, HostIdle, Handled, InIdle
<1>7. ReceiveInv'
  <2>1. bram' = [bram EXCEPT ![inb.next] = inb.msg] /\ bram \in [Words -> Message]
    BY DEF CartTypeOK
  <2>2. toCart = << >> /\ SendIdle /\ toHost = << >> /\ HostIdle
    BY DEF ReplyInv
  <2>3. drv # "rread"
    BY DEF ReplyInv
  <2>4. CASE drv \in {"poll", "rwait"}
    <3>1. inb.msg = ReplyTo(cur) /\ Handled(cur)
      BY <2>4 DEF ReplyInv
    <3>2. \A w \in Words : w < inb.next => bram[w] = ReplyTo(cur)
      BY <2>4 DEF ReceiveInv
    <3>3. inb.next \in Words
      BY DEF CartTypeOK
    <3>4. \A w \in Words : w <= inb.next => bram'[w] = ReplyTo(cur)
      BY <2>1, <3>1, <3>2, <3>3
    <3>5. /\ inb'.msg # NoMessage => inb'.next = inb.next + 1
          /\ inb'.msg = NoMessage => inb.next = LastWord
      BY DEF InIdle
    <3>6. \A w \in Words :
            inb'.msg = NoMessage \/ w < inb'.next => bram'[w] = ReplyTo(cur)
      BY <3>3, <3>4
    <3> QED
      BY <2>2, <2>3, <3>3, <3>5, <3>6 DEF ReceiveInv, Handled, SendIdle,
         HostIdle
  <2>5. CASE drv \notin {"poll", "rwait"}
    BY <2>3, <2>5 DEF ReceiveInv
  <2> QED
    BY <2>4, <2>5
<1>8. ResultInv'
  BY DEF ResultInv, Handled
<1> QED
  BY <1>1, <1>2, <1>3, <1>4, <1>5, <1>6, <1>7, <1>8

(* A reset of the device drops packets or leaves them.                     *)
LEMMA HostStartInv ==
  ASSUME CleanInv, HostStart, UNCHANGED <<drvVars, linkVars>>
  PROVE  CleanInv'
<1> USE DEF drvVars, CleanInv
<1>0. /\ toHost' = toHost \/ toHost' = << >>
      /\ toCart' = toCart \/ toCart' = << >>
      /\ hpc = "down" /\ hpc' = "read"
      /\ UNCHANGED <<hpkt, nxt, response, served, bram, cmd, out, inb>>
  BY DEF HostStart
<1>1. CallInv'
  BY DEF CallInv
<1>2. NoReply => NoReply'
  BY <1>0 DEF NoReply
<1>3. NoRequest => NoRequest'
  BY <1>0 DEF NoRequest
<1>4. WriteInv'
  BY <1>0, <1>2, <1>3 DEF WriteInv, Filled
<1>5. SendInv'
  BY <1>0, <1>2, <1>3 DEF SendInv, HostIdle, Filled
<1>6. PipeInv'
  <2>1. CASE toHost' = toHost
    BY <1>0, <1>2, <2>1 DEF PipeInv, SendIdle, HostIdle
  <2>2. CASE toHost' = << >>
    BY <2>2 DEF PipeInv
  <2> QED
    BY <1>0, <2>1, <2>2
<1>7. HostInv'
  BY <1>0 DEF HostInv, HostIdle
<1>8. ReplyInv'
  BY <1>0 DEF ReplyInv, HostIdle, SendIdle, Handled
<1>9. ReceiveInv'
  BY <1>0 DEF ReceiveInv, HostIdle, SendIdle, Handled
<1>10. ResultInv'
  BY <1>0 DEF ResultInv, Handled
<1> QED
  BY <1>1, <1>4, <1>5, <1>6, <1>7, <1>8, <1>9, <1>10

(* A request that is read was the last packet on its way.                  *)
LEMMA HostReadInv ==
  ASSUME TypeOK, CleanInv, HostRead, UNCHANGED <<drvVars, linkVars>>
  PROVE  CleanInv'
<1> USE Magic DEF HostRead, drvVars, CleanInv, TypeOK, DrvTypeOK
<1>0. /\ toHost \in Seq(Packet)
      /\ Len(toHost) \in Nat \ {0}
      /\ Len(toHost') = Len(toHost) - 1
      /\ \A i \in 1 .. Len(toHost) - 1 : toHost'[i] = toHost[i + 1]
      /\ Head(toHost) = toHost[1]
  BY DEF CartTypeOK
<1>1. CASE toHost[1].type \notin Answered
  <2>1. UNCHANGED <<hpc, hpkt, response>>
    BY <1>1 DEF Answered
  <2>2. \A i \in 1 .. Len(toHost') :
          i + 1 \in 1 .. Len(toHost) /\ toHost'[i] = toHost[i + 1]
    BY <1>0
  <2>3. NoRequest => NoRequest'
    BY DEF NoRequest
  <2>4. toHost # << >> /\ hpc = "read"
    OBVIOUS
  <2>5. PipeInv'
    <3>1. /\ SendIdle' = SendIdle /\ HostIdle' = HostIdle
          /\ NoReply' = NoReply /\ cur' = cur
      BY <2>1 DEF SendIdle, HostIdle, NoReply
    <3> QED
      BY <3>1 DEF PipeInv
  <2>6. WriteInv'
    BY <2>3 DEF WriteInv, SendIdle, NoReply, Filled
  <2>7. SendInv'
    BY <2>1, <2>3 DEF SendInv, NoReply, Filled, HostIdle
  <2>8. HostInv'
    BY <2>1 DEF HostInv, HostIdle
  <2>9. ReplyInv'
    BY DEF ReplyInv
  <2>10. ReceiveInv'
    BY DEF ReceiveInv
  <2>11. CallInv' /\ ResultInv'
    BY DEF CallInv, ResultInv, Handled
  <2> QED
    BY <2>5, <2>6, <2>7, <2>8, <2>9, <2>10, <2>11
<1>2. CASE toHost[1].type \in Answered
  <2>0. /\ Len(toHost) = 1 /\ toHost[1] = PacketOf(cur)
        /\ SendIdle /\ NoReply /\ HostIdle /\ drv = "poll"
    <3>1. 1 \in 1 .. Len(toHost)
      BY <1>0
    <3> QED
      BY <1>2, <3>1 DEF PipeInv
  <2>1. /\ toHost' = << >> /\ toHost[1] = PacketOf(cur)
        /\ SendIdle /\ NoReply /\ HostIdle /\ drv = "poll"
    BY <1>0, <2>0
  <2>2. hpc' \in {"post", "reply"} /\ hpkt' = PacketOf(cur)
    BY <1>2, <2>1
  <2>3. HostInv'
    <3>1. nxt = 0
      BY DEF HostInv
    <3>2. hpc' = "post" => hpkt'.type = NETWORK_POST /\ response' = << >>
      BY <2>1
    <3>3. hpc' = "reply" => hpkt'.type # NETWORK_POST /\ response' = Body
      BY DEF NETWORK_POST, REQUEST_USER_INFO
    <3> QED
      BY <2>1, <2>2, <3>3 DEF HostInv, SendIdle, NoReply, PacketOf, Handled
  <2>4. WriteInv' /\ PipeInv'
    BY <2>1 DEF WriteInv, PipeInv
  <2>5. SendInv'
    BY <2>1 DEF SendInv, SendIdle, OutIdle
  <2>6. ReplyInv'
    BY DEF ReplyInv
  <2>7. ReceiveInv'
    BY DEF ReceiveInv
  <2>8. CallInv' /\ ResultInv'
    BY DEF CallInv, ResultInv, Handled
  <2> QED
    BY <2>3, <2>4, <2>5, <2>6, <2>7, <2>8
<1> QED
  BY <1>1, <1>2

(* The server handles the request of the call in progress.                 *)
LEMMA ServerHandlesInv ==
  ASSUME CleanInv, ServerHandles, UNCHANGED <<drvVars, linkVars>>
  PROVE  CleanInv'
<1> USE DEF ServerHandles, cartVars, drvVars, CleanInv
<1>1. CallInv'
  BY DEF CallInv
<1>2. WriteInv'
  BY DEF WriteInv, SendIdle, NoReply, NoRequest, Filled
<1>3. SendInv'
  BY DEF SendInv, NoReply, HostIdle, Filled
<1>4. PipeInv'
  BY DEF PipeInv, HostIdle
<1>5. HostInv'
  <2>1. hpkt = PacketOf(cur) /\ hpkt.type = NETWORK_POST /\ response = << >>
    BY DEF HostInv, HostIdle
  <2>2. Content(hpkt) = cur
    BY <2>1, ContentOf
  <2>3. [k \in 1 .. 1 - 1 |-> k] = << >>
    OBVIOUS
  <2> QED
    BY <2>2 DEF HostInv, HostIdle, SendIdle, NoReply
<1>6. ReplyInv'
  BY DEF ReplyInv, HostIdle
<1>7. ReceiveInv'
  BY DEF ReceiveInv, HostIdle
<1>8. ResultInv'
  BY DEF ResultInv, Handled
<1> QED
  BY <1>1, <1>2, <1>3, <1>4, <1>5, <1>6, <1>7, <1>8

(* The response has the chunks of this attempt up to the next one.         *)
LEMMA WriteCallbackInv ==
  ASSUME CleanInv, WriteCallback, UNCHANGED <<drvVars, linkVars>>
  PROVE  CleanInv'
<1> USE DEF WriteCallback, cartVars, drvVars, CleanInv
<1>1. CallInv'
  BY DEF CallInv
<1>2. WriteInv'
  BY DEF WriteInv, SendIdle, NoReply, NoRequest, Filled
<1>3. SendInv'
  BY DEF SendInv, NoReply, HostIdle, Filled
<1>4. PipeInv'
  BY DEF PipeInv, HostIdle
<1>5. HostInv'
  <2>1. nxt > 0 /\ response = [k \in 1 .. nxt - 1 |-> k] /\ cur \in served
    BY DEF HostInv
  <2>2. response' = [k \in 1 .. nxt' - 1 |-> k]
    BY <2>1
  <2> QED
    BY <2>2 DEF HostInv, HostIdle, SendIdle, NoReply
<1>6. ReplyInv'
  BY DEF ReplyInv, HostIdle
<1>7. ReceiveInv'
  BY DEF ReceiveInv, HostIdle
<1>8. ResultInv'
  BY DEF ResultInv, Handled
<1> QED
  BY <1>1, <1>2, <1>3, <1>4, <1>5, <1>6, <1>7, <1>8

(* The response is whole when libcurl says so.                             *)
LEMMA CurlOkInv ==
  ASSUME CleanInv, CurlOk, UNCHANGED <<drvVars, linkVars>>
  PROVE  CleanInv'
<1> USE DEF CurlOk, cartVars, drvVars, CleanInv
<1>1. CallInv'
  BY DEF CallInv
<1>2. WriteInv'
  BY DEF WriteInv, SendIdle, NoReply, NoRequest, Filled
<1>3. SendInv'
  BY DEF SendInv, NoReply, HostIdle, Filled
<1>4. PipeInv'
  BY DEF PipeInv, HostIdle
<1>5. HostInv'
  <2>1. nxt > 0 /\ response = [k \in 1 .. nxt - 1 |-> k] /\ cur \in served
    BY HostAssumption DEF HostInv
  <2>2. response = Body
    BY <2>1, HostAssumption DEF Body
  <2> QED
    BY <2>1, <2>2 DEF HostInv, SendIdle, NoReply, Handled
<1>6. ReplyInv'
  BY DEF ReplyInv, HostIdle
<1>7. ReceiveInv'
  BY DEF ReceiveInv, HostIdle
<1>8. ResultInv'
  BY DEF ResultInv, Handled
<1> QED
  BY <1>1, <1>2, <1>3, <1>4, <1>5, <1>6, <1>7, <1>8

(* A timeout changes nothing but where the program is.                     *)
LEMMA CurlTransientInv ==
  ASSUME CleanInv, CurlTransient, UNCHANGED <<drvVars, linkVars>>
  PROVE  CleanInv'
<1> USE DEF CurlTransient, cartVars, drvVars, CleanInv
<1>1. CallInv'
  BY DEF CallInv
<1>2. WriteInv'
  BY DEF WriteInv, SendIdle, NoReply, NoRequest, Filled
<1>3. SendInv'
  BY DEF SendInv, NoReply, HostIdle, Filled
<1>4. PipeInv'
  BY DEF PipeInv, HostIdle
<1>5. HostInv'
  BY DEF HostInv, HostIdle, SendIdle, NoReply
<1>6. ReplyInv'
  BY DEF ReplyInv, HostIdle
<1>7. ReceiveInv'
  BY DEF ReceiveInv, HostIdle
<1>8. ResultInv'
  BY DEF ResultInv, Handled
<1> QED
  BY <1>1, <1>2, <1>3, <1>4, <1>5, <1>6, <1>7, <1>8

(* A retry starts with an empty response.                                  *)
LEMMA RetryInv ==
  ASSUME CleanInv, Retry, UNCHANGED <<drvVars, linkVars>>
  PROVE  CleanInv'
<1> USE DEF Retry, cartVars, drvVars, CleanInv
<1>1. CallInv'
  BY DEF CallInv
<1>2. WriteInv'
  BY DEF WriteInv, SendIdle, NoReply, NoRequest, Filled
<1>3. SendInv'
  BY DEF SendInv, NoReply, HostIdle, Filled
<1>4. PipeInv'
  BY DEF PipeInv, HostIdle
<1>5. HostInv'
  BY DEF HostInv, HostIdle, SendIdle, NoReply
<1>6. ReplyInv'
  BY DEF ReplyInv, HostIdle
<1>7. ReceiveInv'
  BY DEF ReceiveInv, HostIdle
<1>8. ResultInv'
  BY DEF ResultInv, Handled
<1> QED
  BY <1>1, <1>2, <1>3, <1>4, <1>5, <1>6, <1>7, <1>8

(* A post that has failed leaves nothing behind.                           *)
LEMMA CurlFailInv ==
  ASSUME CleanInv, CurlFail, UNCHANGED <<drvVars, linkVars>>
  PROVE  CleanInv'
<1> USE DEF CurlFail, cartVars, drvVars, CleanInv
<1>1. CallInv'
  BY DEF CallInv
<1>2. WriteInv'
  BY DEF WriteInv, SendIdle, NoReply, NoRequest, Filled
<1>3. SendInv'
  BY DEF SendInv, NoReply, HostIdle, Filled
<1>4. PipeInv'
  BY DEF PipeInv, HostIdle
<1>5. HostInv'
  BY DEF BackToRead, HostInv, HostIdle
<1>6. ReplyInv'
  BY DEF ReplyInv, HostIdle
<1>7. ReceiveInv'
  BY DEF ReceiveInv, HostIdle
<1>8. ResultInv'
  BY DEF BackToRead, ResultInv, Handled
<1> QED
  BY <1>1, <1>2, <1>3, <1>4, <1>5, <1>6, <1>7, <1>8

(* What is sent is the answer to the call in progress, alone.              *)
LEMMA AuxWriteInv ==
  ASSUME CleanInv, AuxWrite, UNCHANGED <<drvVars, linkVars>>
  PROVE  CleanInv'
<1> USE DEF AuxWrite, drvVars, CleanInv
<1>1. CallInv'
  BY DEF CallInv
<1>2. WriteInv'
  BY DEF WriteInv, HostInv, HostIdle
<1>3. SendInv'
  BY DEF SendInv, HostInv, SendIdle, HostIdle, OutIdle
<1>4. PipeInv'
  BY DEF PipeInv, HostIdle
<1>5. HostInv'
  BY DEF BackToRead, HostInv, HostIdle
<1>6. ReplyInv'
  <2>1. hpkt = PacketOf(cur) /\ response = Body /\ Handled(cur) /\ drv = "poll"
    BY DEF HostInv, HostIdle
  <2>2. AnswerOf(hpkt, response) = ReplyTo(cur)
    BY <2>1, ContentOf DEF AnswerOf, PacketOf
  <2>3. SendIdle /\ toHost = << >> /\ NoReply
    BY DEF HostInv, HostIdle
  <2>4. toCart' = <<ReplyTo(cur)>>
    BY <2>2, <2>3 DEF NoReply
  <2> QED
    BY <2>1, <2>3, <2>4 DEF ReplyInv, BackToRead, SendIdle, HostIdle, Handled
<1>7. ReceiveInv'
  BY DEF ReceiveInv, HostIdle
<1>8. ResultInv'
  BY DEF BackToRead, ResultInv, Handled
<1> QED
  BY <1>1, <1>2, <1>3, <1>4, <1>5, <1>6, <1>7, <1>8

(* An answer that is not sent leaves nothing behind.                       *)
LEMMA AuxWriteFailsInv ==
  ASSUME CleanInv, AuxWriteFails, UNCHANGED <<drvVars, linkVars>>
  PROVE  CleanInv'
<1> USE DEF AuxWriteFails, cartVars, drvVars, CleanInv
<1>1. CallInv'
  BY DEF CallInv
<1>2. WriteInv'
  BY DEF WriteInv, SendIdle, NoReply, NoRequest, Filled
<1>3. SendInv'
  BY DEF SendInv, NoReply, HostIdle, Filled
<1>4. PipeInv'
  BY DEF PipeInv, HostIdle
<1>5. HostInv'
  BY DEF BackToRead, HostInv, HostIdle
<1>6. ReplyInv'
  BY DEF ReplyInv, HostIdle
<1>7. ReceiveInv'
  BY DEF ReceiveInv, HostIdle
<1>8. ResultInv'
  BY DEF BackToRead, ResultInv, Handled
<1> QED
  BY <1>1, <1>2, <1>3, <1>4, <1>5, <1>6, <1>7, <1>8

(* A program that stops leaves nothing behind.                             *)
LEMMA HostCrashInv ==
  ASSUME CleanInv, HostCrash, UNCHANGED <<drvVars, linkVars>>
  PROVE  CleanInv'
<1> USE DEF HostCrash, cartVars, drvVars, CleanInv
<1>1. CallInv'
  BY DEF CallInv
<1>2. WriteInv'
  BY DEF WriteInv, SendIdle, NoReply, NoRequest, Filled
<1>3. SendInv'
  BY DEF SendInv, NoReply, NoRequest, HostIdle, Filled
<1>4. PipeInv'
  BY DEF CallInv, PipeInv, SendIdle, NoReply, HostIdle
<1>5. HostInv'
  BY DEF HostInv, HostIdle
<1>6. ReplyInv'
  BY DEF ReplyInv, HostIdle, SendIdle, Handled
<1>7. ReceiveInv'
  BY DEF ReceiveInv, HostIdle, SendIdle, Handled
<1>8. ResultInv'
  BY DEF ResultInv, Handled
<1> QED
  BY <1>1, <1>2, <1>3, <1>4, <1>5, <1>6, <1>7, <1>8

(* A reset that does not interrupt a poll leaves no request unanswered.    *)
LEMMA ResetInv ==
  ASSUME CleanInv, Reset, drv # "poll"
  PROVE  CleanInv'
<1> USE Magic DEF Reset, cartVars, hostVars, CleanInv
<1>1. CallInv'
  BY DEF CallInv
<1>2. WriteInv' /\ PipeInv'
  BY DEF WriteInv, PipeInv, NoRequest
<1>3. SendInv'
  BY DEF SendInv, Filled, NoReply
<1>4. HostInv' /\ ReplyInv'
  BY DEF HostInv, ReplyInv, HostIdle, SendIdle
<1>5. ReceiveInv'
  BY DEF ReceiveInv
<1>6. ResultInv'
  BY DEF ResultInv, NoResult
<1> QED
  BY <1>1, <1>2, <1>3, <1>4, <1>5, <1>6

(* If CMD_BUSY covers transfers to the PC, the buffer stays what it is     *)
(* until it has been sent.                                                 *)
LEMMA WholeStep ==
  ASSUME TypeOK, CleanInv, WholeInv, [Next]_vars
  PROVE  WholeInv'
<1> SUFFICES ASSUME "send" \in BusyCovers
             PROVE  /\ (drv \in {"twrite", "tstart"} => SendIdle)'
                    /\ (cmd # NoMessage => out = OutIdle /\ Filled(cmd))'
                    /\ (out.msg # NoMessage =>
                          cmd = NoMessage /\ Filled(out.msg) /\ out.src \subseteq {out.msg})'
                    /\ (\A i \in 1 .. Len(toHost) :
                          \E m \in toHost[i].src : toHost[i] = PacketOf(m))'
  BY DEF WholeInv
<1>0. /\ drv \in {"twrite", "tstart"} => SendIdle
      /\ cmd # NoMessage => out = OutIdle /\ Filled(cmd)
      /\ out.msg # NoMessage =>
           cmd = NoMessage /\ Filled(out.msg) /\ out.src \subseteq {out.msg}
      /\ \A i \in 1 .. Len(toHost) : \E m \in toHost[i].src : toHost[i] = PacketOf(m)
  BY DEF WholeInv
<1>1. toHost \in Seq(Packet) /\ bram \in [Words -> Message] /\ out.next \in Words
      /\ LastWord \in Words
  BY LastWordAssumption DEF TypeOK, CartTypeOK, Words
<1>2. CASE LibraryCalls \/ Reset \/ UNCHANGED vars
  <2>1. drv' \in {"twait", "idle", drv} /\ UNCHANGED cartVars
    BY <1>2 DEF LibraryCalls, Call, DisplayMessage, PostCall, UserDataCall, BeginCall, Reset,
       vars, drvVars
  <2> QED
    BY <1>0, <2>1 DEF cartVars, SendIdle, Filled
<1>3. CASE DriverRuns
  <2>1. CASE TransmitWait
    BY <1>0, <2>1 DEF TransmitWait, ScrBusy, cartVars, CleanInv, SendInv, SendIdle, Filled
  <2>2. CASE BramWrite
    BY <1>0, <2>2 DEF BramWrite, SendIdle, OutIdle
  <2>3. CASE StartTransmission
    BY <1>0, <2>3 DEF StartTransmission, SendIdle, OutIdle, CleanInv, WriteInv, Filled
  <2>4. CASE ReceivePoll \/ ReceiveWait \/ BramRead
    BY <1>0, <2>4 DEF ReceivePoll, ReceiveWait, BramRead, ReturnWith, cartVars, SendIdle, Filled
  <2> QED
    BY <1>3, <2>1, <2>2, <2>3, <2>4 DEF DriverRuns, DriverStep
<1>4. CASE CartRuns
  <2>0. UNCHANGED drvVars
    BY <1>4 DEF CartRuns
  <2>1. CASE AcceptCommand
    BY <1>0, <2>0, <2>1 DEF AcceptCommand, drvVars, SendIdle, Filled
  <2>2. CASE FetchWord
    BY <1>0, <1>1, <2>0, <2>2 DEF FetchWord, drvVars, SendIdle, OutIdle, Filled
  <2>3. CASE SendPacket
    <3>1. PICK m : m = out.msg
      OBVIOUS
    <3>2. out.src \cup {bram[LastWord]} = {m}
      BY <1>0, <1>1, <2>3, <3>1 DEF SendPacket, Filled
    <3>3. toHost' = Append(toHost, PacketOf(m)) /\ m \in PacketOf(m).src
      BY <2>3, <3>1, <3>2 DEF SendPacket, PacketOf
    <3>4. /\ Len(toHost) \in Nat /\ Len(toHost') = Len(toHost) + 1
          /\ \A i \in 1 .. Len(toHost) : toHost'[i] = toHost[i]
          /\ toHost'[Len(toHost) + 1] = PacketOf(m)
      BY <1>1, <3>3, Appended
    <3>5. ASSUME NEW i \in 1 .. Len(toHost')
          PROVE  \E p \in toHost'[i].src : toHost'[i] = PacketOf(p)
      <4>1. i \in 1 .. Len(toHost) \/ i = Len(toHost) + 1
        BY <3>4
      <4> QED
        BY <1>0, <3>3, <3>4, <4>1
    <3>6. cmd' = NoMessage /\ out' = OutIdle
      BY <1>0, <2>3 DEF SendPacket
    <3> QED
      BY <3>5, <3>6 DEF SendIdle, OutIdle
  <2>4. CASE AcceptReply
    BY <1>0, <2>0, <2>4 DEF AcceptReply, drvVars, SendIdle, Filled
  <2>5. CASE StoreWord
    BY <1>0, <2>0, <2>5 DEF StoreWord, drvVars, CleanInv, ReplyInv, SendIdle, OutIdle
  <2> QED
    BY <1>4, <2>1, <2>2, <2>3, <2>4, <2>5 DEF CartRuns, CartStep
<1>5. CASE HostRuns
  <2>1. UNCHANGED <<drv, bram, cmd, out>>
    BY <1>5 DEF HostRuns, drvVars, HostStep, HostProgress, HostFault, HostStart, HostRead,
       ServerHandles, WriteCallback, CurlOk, CurlTransient, Retry, CurlFail, AuxWrite,
       AuxWriteFails, HostCrash, cartVars
  <2>2. toHost' \in {toHost, << >>} \/ (toHost # << >> /\ toHost' = Tail(toHost))
    BY <1>5 DEF HostRuns, HostStep, HostProgress, HostFault, HostStart, HostRead,
       ServerHandles, WriteCallback, CurlOk, CurlTransient, Retry, CurlFail, AuxWrite,
       AuxWriteFails, HostCrash, cartVars
  <2>3. ASSUME NEW i \in 1 .. Len(toHost')
        PROVE  \E k \in 1 .. Len(toHost) : toHost'[i] = toHost[k]
    <3>1. CASE toHost' = toHost
      BY <2>3, <3>1
    <3>2. CASE toHost' = << >>
      BY <2>3, <3>2
    <3>3. CASE toHost # << >> /\ toHost' = Tail(toHost)
      <4>1. /\ Len(toHost) \in Nat \ {0} /\ Len(toHost') = Len(toHost) - 1
            /\ \A k \in 1 .. Len(toHost) - 1 : toHost'[k] = toHost[k + 1]
        BY <1>1, <3>3, Taken
      <4>2. i \in 1 .. Len(toHost) - 1 /\ i + 1 \in 1 .. Len(toHost)
        BY <2>3, <4>1
      <4> QED
        BY <4>1, <4>2
    <3> QED
      BY <2>2, <3>1, <3>2, <3>3
  <2>4. \A i \in 1 .. Len(toHost') : \E p \in toHost'[i].src : toHost'[i] = PacketOf(p)
    BY <1>0, <2>3
  <2> QED
    BY <1>0, <2>1, <2>4 DEF SendIdle, Filled
<1> QED
  BY <1>2, <1>3, <1>4, <1>5 DEF Next

-----------------------------------------------------------------------------
(* All steps together.                                                     *)
LEMMA InvStep ==
  ASSUME Assumed, TypeOK, IInv, [Next]_vars
  PROVE  IInv'
<1> SUFFICES ASSUME orphans' = {} PROVE CleanInv' /\ WholeInv'
  BY DEF IInv
<1>0. orphans = {} /\ CleanInv /\ WholeInv
  BY DEF IInv, Next, vars, linkVars, LibraryCalls, DriverRuns, CartRuns,
     HostRuns, Reset
<1> SUFFICES CleanInv'
  BY <1>0, WholeStep
<1>1. CASE LibraryCalls
  <2>1. ASSUME NEW level \in Levels, DisplayMessage(level) PROVE CleanInv'
    <3>1. MESSAGE_DEBUG + level \in Nat /\ MESSAGE_DEBUG + level \notin Answered
      BY DEF Assumed, LevelsKnown, MESSAGE_DEBUG, Answered, NETWORK_POST, REQUEST_USER_INFO
    <3> QED
      BY <1>0, <1>1, <2>1, <3>1, BeginCallInv DEF LibraryCalls, DisplayMessage
  <2>2. {NETWORK_POST, REQUEST_USER_INFO} \subseteq Nat \cap Answered
    BY DEF Answered, NETWORK_POST, REQUEST_USER_INFO
  <2>3. PostCall => CleanInv'
    BY <1>0, <1>1, <2>2, BeginCallInv DEF LibraryCalls, PostCall
  <2>4. UserDataCall => CleanInv'
    BY <1>0, <1>1, <2>2, BeginCallInv DEF LibraryCalls, UserDataCall
  <2> QED
    BY <1>1, <2>1, <2>3, <2>4 DEF LibraryCalls, Call
<1>2. CASE DriverRuns
  BY <1>0, <1>2, TransmitWaitInv, BramWriteInv, StartTransmissionInv,
     ReceivePollInv, ReceiveWaitInv, BramReadInv DEF DriverRuns, DriverStep
<1>3. CASE CartRuns
  BY <1>0, <1>3, AcceptCommandInv, FetchWordInv, SendPacketInv,
     AcceptReplyInv, StoreWordInv DEF CartRuns, CartStep
<1>4. CASE HostRuns
  BY <1>0, <1>4, HostStartInv, HostReadInv, ServerHandlesInv,
     WriteCallbackInv, CurlOkInv, CurlTransientInv, RetryInv, CurlFailInv,
     AuxWriteInv, AuxWriteFailsInv, HostCrashInv DEF HostRuns, HostStep,
     HostProgress, HostFault
<1>5. CASE Reset
  <2>1. drv # "poll"
    BY <1>5 DEF Reset
  <2> QED
    BY <1>0, <1>5, <2>1, ResetInv
<1>6. CASE UNCHANGED vars
  <2> USE <1>6 DEF vars, cartVars, drvVars, hostVars, linkVars
  <2>1. CallInv' /\ ResultInv' /\ ReceiveInv'
    BY <1>0 DEF CleanInv, CallInv, ResultInv, ReceiveInv, Handled, SendIdle,
       HostIdle
  <2>2. WriteInv' /\ SendInv' /\ PipeInv'
    BY <1>0 DEF CleanInv, WriteInv, SendInv, PipeInv, SendIdle, NoReply,
       NoRequest, Filled, HostIdle
  <2>3. HostInv' /\ ReplyInv'
    BY <1>0 DEF CleanInv, HostInv, ReplyInv, SendIdle, NoReply, HostIdle,
       Handled
  <2> QED
    BY <2>1, <2>2, <2>3 DEF CleanInv
<1> QED
  BY <1>1, <1>2, <1>3, <1>4, <1>5, <1>6 DEF Next

(* The invariant of LinkInv holds in every state: CMD_BUSY, as the driver  *)
(* waits for it, keeps request and answer out of each other's way.         *)
THEOREM InvCorrect ==
  ASSUME Assumed
  PROVE  Spec => []IInv
<1>1. Init => IInv
  BY InvInit DEF IInv
<1>2. TypeOK /\ IInv /\ [Next]_vars => IInv'
  BY InvStep
<1> QED
  BY <1>1, <1>2, TypeCorrect, PTL DEF Spec

-----------------------------------------------------------------------------
(* The words that cl64_usb_receive returns are the PC's answer to the      *)
(* request of the same call, whatever the interleaving, the timeouts, the  *)
(* retries and the failures before it.                                     *)
THEOREM RepliesMatchCorrect ==
  ASSUME Assumed
  PROVE  Spec => []RepliesMatch
<1>1. IInv => RepliesMatch
  BY DEF IInv, CleanInv, ResultInv, RepliesMatch
<1> QED
  BY <1>1, InvCorrect, PTL

(* A post that returns has been handled by the server.                     *)
THEOREM ServedCorrect ==
  ASSUME Assumed
  PROVE  Spec => []ServedBeforeReturn
<1>1. IInv => ServedBeforeReturn
  BY Magic DEF IInv, CleanInv, ResultInv, ServedBeforeReturn, Handled,
     Answered
<1> QED
  BY <1>1, InvCorrect, PTL

(* The packets on their way to the PC are whole messages.                  *)
THEOREM RequestsWholeCorrect ==
  ASSUME Assumed, "send" \in BusyCovers
  PROVE  Spec => []RequestsWhole
<1>1. TypeOK /\ IInv => RequestsWhole
  <2>1. ASSUME toHost \in Seq(Packet) PROVE DOMAIN toHost = 1 .. Len(toHost)
    BY <2>1
  <2> QED
    BY <2>1 DEF IInv, WholeInv, PacketOf, RequestsWhole, TypeOK,
       CartTypeOK
<1> QED
  BY <1>1, InvCorrect, TypeCorrect, PTL

(* Without a reset the buffer is at rest whenever no receive is active.    *)
RestInv == resets = 0 /\ then = "return" => orphans = {} /\ inb = InIdle

LEMMA RestStep ==
  ASSUME Assumed, TypeOK, IInv, RestInv, resets = 0 => orphans = {}, [Next]_vars
  PROVE  RestInv' /\ (resets' = 0 => orphans' = {})
<1> SUFFICES ASSUME resets' = 0
             PROVE  orphans' = {} /\ (then' = "return" => inb' = InIdle)
  BY DEF RestInv
<1>1. ~Reset /\ resets = 0 /\ orphans' = orphans
  BY DEF Next, vars, linkVars, LibraryCalls, DriverRuns, CartRuns, HostRuns, Reset, TypeOK
<1>2. orphans = {} /\ CleanInv
  BY <1>1 DEF IInv
<1> SUFFICES ASSUME then' = "return" PROVE inb' = InIdle
  BY <1>1, <1>2
<1>3. CASE LibraryCalls
  <2>1. drv = "idle" /\ UNCHANGED inb
    BY <1>3 DEF LibraryCalls, Call, DisplayMessage, PostCall, UserDataCall, BeginCall, cartVars
  <2>2. then = "return"
    BY <1>2, <2>1, Magic DEF CleanInv, CallInv, TypeOK, DrvTypeOK
  <2> QED
    BY <1>1, <2>1, <2>2 DEF RestInv
<1>4. CASE DriverRuns
  <2>1. UNCHANGED inb
    BY <1>4 DEF DriverRuns, DriverStep, TransmitWait, BramWrite, StartTransmission,
       ReceivePoll, ReceiveWait, BramRead, cartVars
  <2>2. CASE BramRead
    BY <1>2, <2>1, <2>2 DEF BramRead, CleanInv, ReceiveInv
  <2>3. CASE ~BramRead
    <3>1. then = "return"
      BY <1>4, <2>3 DEF DriverRuns, DriverStep, TransmitWait, BramWrite, StartTransmission,
         ReceivePoll, ReceiveWait, TypeOK, DrvTypeOK
    <3> QED
      BY <1>1, <2>1, <3>1 DEF RestInv
  <2> QED
    BY <2>2, <2>3
<1>5. CASE CartRuns
  <2>1. then = "return" /\ drv # "poll"
    BY <1>2, <1>5 DEF CartRuns, drvVars, CleanInv, CallInv
  <2>2. inb = InIdle /\ toCart = << >>
    BY <1>1, <1>2, <2>1 DEF RestInv, CleanInv, ReplyInv
  <2>3. ~AcceptReply /\ ~StoreWord
    BY <2>2 DEF AcceptReply, StoreWord, InIdle
  <2> QED
    BY <1>5, <2>2, <2>3 DEF CartRuns, CartStep, AcceptCommand, FetchWord, SendPacket
<1>6. CASE HostRuns
  <2>1. UNCHANGED <<then, inb>>
    BY <1>6 DEF HostRuns, drvVars, HostStep, HostProgress, HostFault, HostStart, HostRead,
       ServerHandles, WriteCallback, CurlOk, CurlTransient, Retry, CurlFail, AuxWrite,
       AuxWriteFails, HostCrash, cartVars
  <2> QED
    BY <1>1, <2>1 DEF RestInv
<1>7. CASE UNCHANGED vars
  BY <1>1, <1>7 DEF vars, drvVars, cartVars, RestInv
<1> QED
  BY <1>1, <1>3, <1>4, <1>5, <1>6, <1>7 DEF Next

(* Outside a receive, no answer is with the PC or on the USB endpoint; and *)
(* without a reset none is being stored in the buffer either.              *)
THEOREM NothingUnaskedCorrect ==
  ASSUME Assumed
  PROVE  Spec => []NothingUnasked
<1>1. Init => RestInv /\ (resets = 0 => orphans = {})
  BY DEF Init, CartInit, RestInv
<1>2. TypeOK /\ IInv /\ RestInv /\ (resets = 0 => orphans = {}) /\ [Next]_vars =>
        RestInv' /\ (resets = 0 => orphans = {})'
  BY RestStep
<1>3. IInv /\ RestInv => NothingUnasked
  BY DEF IInv, CleanInv, CallInv, HostInv, HostIdle, ReplyInv, RestInv, NothingUnasked
<1> QED
  BY <1>1, <1>2, <1>3, InvCorrect, TypeCorrect, PTL DEF Spec

(* No message from the PC is being stored while a receive reads its words. *)
THEOREM TransferCompleteCorrect ==
  ASSUME Assumed
  PROVE  Spec => []TransferComplete
<1>1. IInv => TransferComplete
  BY DEF IInv, CleanInv, ReceiveInv, TransferComplete
<1> QED
  BY <1>1, InvCorrect, PTL
=============================================================================
