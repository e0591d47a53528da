-------------------------- MODULE LinkWork_proofs ---------------------------
(***************************************************************************)
(* Theorems about LinkWork: a call in progress never waits for something   *)
(* that nobody will do, and the work that is left runs out.  They need     *)
(* nothing of CMD_BUSY.                                                    *)
(***************************************************************************)
EXTENDS LinkWork, LinkRpc_proofs

(* A register of the cartridge without a message is idle.                  *)
OutInv == out.msg = NoMessage => out = OutIdle

(* What a receive waits for is there, unless something fails for good;     *)
(* a post that the PC works on is then one whole message.                  *)
PollInv ==
  Faults \subseteq {"transient"} /\ ~mixed =>
    /\ drv = "poll" => RequestThere \/ AnswerThere
    /\ hpc \in {"post", "sleep"} => ~Garbled(hpkt)

(* Each transfer to the PC ends with the cartridge's state for it cleared. *)
LEMMA OutStep ==
  ASSUME OutInv, [Next]_vars
  PROVE  OutInv'
<1>1. ASSUME UNCHANGED out PROVE OutInv'
  BY <1>1 DEF OutInv, OutIdle
<1>2. CASE CartRuns
  BY <1>1, <1>2 DEF CartRuns, CartStep, AcceptCommand, FetchWord, SendPacket, AcceptReply,
     StoreWord, OutInv, OutIdle
<1>3. CASE ~CartRuns
  BY <1>1, <1>3 DEF Next, LibraryCalls, Call, DisplayMessage, PostCall, UserDataCall, BeginCall,
     DriverRuns, DriverStep, TransmitWait, BramWrite, StartTransmission, ReceivePoll,
     ReceiveWait, BramRead, HostRuns, HostStep, HostProgress, HostFault, HostStart, HostRead,
     ServerHandles, WriteCallback, CurlOk, CurlTransient, Retry, CurlFail, AuxWrite,
     AuxWriteFails, HostCrash, Reset, cartVars, vars
<1> QED
  BY <1>2, <1>3

(* The cartridge passes on what a receive waits for.                       *)
LEMMA CartKeeps ==
  ASSUME TypeOK, OwnInv, OutInv, CartRuns, RequestThere \/ AnswerThere
  PROVE  (RequestThere \/ AnswerThere)'
<1>0. /\ toHost \in Seq(Packet) /\ toCart \in Seq(Message) /\ UNCHANGED hpc
      /\ LastWord \in Nat \ {0} /\ inb.next \in 0 .. LastWord
      /\ bram \in [0 .. LastWord -> Message]
  BY LastWordAssumption DEF TypeOK, CartTypeOK, Words, CartRuns, hostVars
<1>1. CASE AcceptCommand
  BY <1>0, <1>1, Magic DEF AcceptCommand, OutIdle, RequestThere, AnswerThere, Heard
<1>2. CASE FetchWord
  BY <1>0, <1>2 DEF FetchWord, RequestThere, AnswerThere, Heard
<1>3. CASE SendPacket
  <2>. PICK packet : packet = [type |-> out.msg.type, src  |-> out.src \cup {bram[LastWord]}]
    OBVIOUS
  <2>1. /\ toHost' = Append(toHost, packet)
        /\ UNCHANGED <<cmd, toCart, inb, bram>>
    BY <1>3 DEF SendPacket
  <2>2. /\ Len(toHost) \in Nat /\ Len(toHost') = Len(toHost) + 1
        /\ \A i \in 1 .. Len(toHost) : toHost'[i] = toHost[i]
        /\ toHost'[Len(toHost) + 1] = packet
    BY <1>0, <2>1, Appended
  <2>3. CASE out.msg.type \in Answered
    <3>1. Len(toHost) + 1 \in 1 .. Len(toHost') /\ packet.type \in Answered
      BY <2>2, <2>3
    <3> QED
      BY <2>2, <3>1 DEF RequestThere
  <2>4. CASE \E i \in 1 .. Len(toHost) : toHost[i].type \in Answered
    <3>1. PICK i \in 1 .. Len(toHost) : toHost[i].type \in Answered
      BY <2>4
    <3>2. i \in 1 .. Len(toHost') /\ toHost'[i].type \in Answered
      BY <2>2, <3>1
    <3> QED
      BY <3>2 DEF RequestThere
  <2>5. CASE cmd.type \in Answered \/ hpc \in {"post", "sleep", "reply"} \/ AnswerThere
    BY <1>0, <2>1, <2>5 DEF RequestThere, AnswerThere, Heard
  <2> QED
    BY <2>3, <2>4, <2>5 DEF RequestThere
<1>4. CASE AcceptReply
  <2>1. 1 \in 1 .. Len(toCart) /\ Head(toCart) = toCart[1]
    BY <1>0, <1>4, Taken DEF AcceptReply
  <2>2. Head(toCart) # NoMessage
    BY <2>1, Magic DEF OwnInv
  <2>3. inb'.msg # NoMessage /\ inb'.next = 0
    BY <1>4, <2>2 DEF AcceptReply
  <2> QED
    BY <2>3 DEF AnswerThere
<1>5. CASE StoreWord
  <2>1. /\ inb.msg # NoMessage /\ bram' = [bram EXCEPT ![inb.next] = inb.msg]
        /\ UNCHANGED <<cmd, out, toHost, toCart>>
    BY <1>5 DEF StoreWord
  <2>2. CASE inb.next = 0
    <3>1. bram'[0] = inb.msg /\ inb.msg.magic = PC_TO_N64
      BY <1>0, <2>1, <2>2 DEF OwnInv
    <3> QED
      BY <3>1 DEF AnswerThere, Heard
  <2>3. CASE inb.next # 0
    <3>1. bram'[0] = bram[0]
      BY <1>0, <2>1, <2>3
    <3> QED
      BY <1>0, <2>1, <2>3, <3>1 DEF RequestThere, AnswerThere, Heard
  <2> QED
    BY <2>2, <2>3
<1> QED
  BY <1>1, <1>2, <1>3, <1>4, <1>5 DEF CartRuns, CartStep

(* The PC makes an answer of a request, if only timeouts fail.             *)
LEMMA HostKeeps ==
  ASSUME TypeOK, Faults \subseteq {"transient"}, HostRuns, RequestThere \/ AnswerThere,
         hpc = "post" => ~Garbled(hpkt)
  PROVE  (RequestThere \/ AnswerThere)'
<1>0. /\ toHost \in Seq(Packet) /\ toCart \in Seq(Message)
      /\ "flush" \notin Faults /\ "curl" \notin Faults /\ "usb" \notin Faults
      /\ "crash" \notin Faults
  BY DEF TypeOK, CartTypeOK
<1>1. CASE HostStart
  BY <1>0, <1>1 DEF HostStart, RequestThere, AnswerThere, Heard
<1>2. CASE HostRead
  <2>1. /\ toHost # << >> /\ toHost' = Tail(toHost) /\ hpc = "read"
        /\ Head(toHost).type \in Answered => hpc' \in {"post", "reply"}
        /\ UNCHANGED <<cmd, out, toCart, inb, bram>>
    BY <1>2 DEF HostRead, Answered
  <2>2. /\ Len(toHost) \in Nat \ {0} /\ Len(toHost') = Len(toHost) - 1
        /\ \A i \in 1 .. Len(toHost) - 1 : toHost'[i] = toHost[i + 1]
        /\ Head(toHost) = toHost[1]
    BY <1>0, <2>1, Taken
  <2>3. CASE \E i \in 1 .. Len(toHost) : toHost[i].type \in Answered
    <3>1. PICK i \in 1 .. Len(toHost) : toHost[i].type \in Answered
      BY <2>3
    <3>2. CASE i = 1
      BY <2>1, <2>2, <3>1, <3>2 DEF RequestThere
    <3>3. CASE i # 1
      <4>1. i - 1 \in 1 .. Len(toHost) - 1 /\ i = (i - 1) + 1
        BY <2>2, <3>3
      <4>2. toHost'[i - 1] = toHost[i]
        BY <2>2, <4>1
      <4>3. i - 1 \in 1 .. Len(toHost') /\ toHost'[i - 1].type \in Answered
        BY <2>2, <3>1, <4>1, <4>2
      <4> QED
        BY <4>3 DEF RequestThere
    <3> QED
      BY <3>2, <3>3
  <2>4. CASE cmd.type \in Answered \/ out.msg.type \in Answered \/ AnswerThere
    BY <2>1, <2>4 DEF RequestThere, AnswerThere, Heard
  <2> QED
    BY <2>1, <2>3, <2>4 DEF RequestThere
<1>3. CASE ServerHandles \/ WriteCallback \/ CurlOk \/ CurlTransient \/ Retry
  BY <1>3 DEF ServerHandles, WriteCallback, CurlOk, CurlTransient, Retry, RequestThere
<1>4. CASE AuxWrite
  <2>1. Len(toCart) \in Nat /\ Len(toCart') = Len(toCart) + 1
    BY <1>0, <1>4, Appended DEF AuxWrite
  <2>2. toCart' # << >>
    BY <2>1
  <2> QED
    BY <2>2 DEF AnswerThere
<1>5. CASE CurlFail \/ AuxWriteFails \/ HostCrash
  BY <1>0, <1>5 DEF CurlFail, AuxWriteFails, HostCrash
<1> QED
  BY <1>1, <1>2, <1>3, <1>4, <1>5 DEF HostRuns, HostStep, HostProgress, HostFault

(* A post comes to network_post from the endpoint, and stays the same.     *)
LEMMA PostStep ==
  ASSUME hpc \in {"post", "sleep"} => ~Garbled(hpkt), [Next]_vars, ~mixed',
         hpc' \in {"post", "sleep"}
  PROVE  ~Garbled(hpkt')
<1>1. CASE HostRuns /\ HostRead
  <2>1. hpc = "read" /\ hpkt' = Head(toHost) /\ ~Garbled(Head(toHost))
    BY <1>1 DEF HostRead
  <2> QED
    BY <2>1
<1>2. CASE ~(HostRuns /\ HostRead)
  <2>1. hpc \in {"post", "sleep"} /\ UNCHANGED hpkt
    BY <1>2 DEF Next, vars, LibraryCalls, DriverRuns, CartRuns, HostRuns, Reset, hostVars,
       HostStep, HostProgress, HostFault, HostStart, ServerHandles, WriteCallback, CurlOk,
       CurlTransient, Retry, CurlFail, AuxWrite, AuxWriteFails, HostCrash, BackToRead
  <2> QED
    BY <2>1
<1> QED
  BY <1>1, <1>2

(* That a post was mixed is not forgotten.                                 *)
LEMMA MixedStays == [Next]_vars => (mixed \in BOOLEAN /\ ~mixed' => ~mixed)
BY DEF Next, vars, LibraryCalls, DriverRuns, CartRuns, HostRuns, Reset, hostVars, HostStep,
   HostProgress, HostFault, HostStart, HostRead, ServerHandles, WriteCallback, CurlOk,
   CurlTransient, Retry, CurlFail, AuxWrite, AuxWriteFails, HostCrash, BackToRead

(* A receive begins with its request in the registers.                     *)
LEMMA PollStep ==
  ASSUME TypeOK, OwnInv, OutInv, PollInv, [Next]_vars
  PROVE  PollInv'
<1> SUFFICES ASSUME Faults \subseteq {"transient"}, ~mixed'
             PROVE  /\ drv' = "poll" => (RequestThere \/ AnswerThere)'
                    /\ hpc' \in {"post", "sleep"} => ~Garbled(hpkt')
  BY DEF PollInv, Garbled, Content
<1>0. /\ drv = "poll" => RequestThere \/ AnswerThere
      /\ hpc \in {"post", "sleep"} => ~Garbled(hpkt)
  BY MixedStays DEF PollInv, TypeOK, HostTypeOK
<1> SUFFICES ASSUME drv' = "poll" PROVE (RequestThere \/ AnswerThere)'
  BY <1>0, PostStep
<1>1. ASSUME drv = "poll" PROVE RequestThere \/ AnswerThere
  BY <1>0, <1>1
<1>2. CASE LibraryCalls \/ Reset
  BY <1>2 DEF LibraryCalls, Call, DisplayMessage, PostCall, UserDataCall, BeginCall, Reset
<1>3. CASE DriverRuns
  <2>1. StartTransmission
    BY <1>3 DEF DriverRuns, DriverStep, TransmitWait, BramWrite, StartTransmission,
       ReceivePoll, ReceiveWait, BramRead, ReturnWith
  <2>2. cmd'.type \in Answered
    BY <2>1 DEF StartTransmission, OwnInv
  <2> QED
    BY <2>2 DEF RequestThere
<1>4. CASE CartRuns
  BY <1>1, <1>4, CartKeeps DEF CartRuns, drvVars
<1>5. CASE HostRuns
  BY <1>0, <1>1, <1>5, HostKeeps DEF HostRuns, drvVars
<1>6. CASE UNCHANGED vars
  BY <1>1, <1>6 DEF vars, cartVars, drvVars, hostVars, RequestThere, AnswerThere, Heard
<1> QED
  BY <1>2, <1>3, <1>4, <1>5, <1>6 DEF Next

(* A call in progress, and what it waits for, have somebody to move them.  *)
LEMMA SomebodyMoves ==
  ASSUME TypeOK, OwnInv, OutInv, drv # "idle", drv = "poll" => RequestThere \/ AnswerThere
  PROVE  DriverMoves \/ CartMoves \/ HostMoves
<1>1. cmd # NoMessage \/ out.msg # NoMessage \/ inb.msg # NoMessage => CartMoves
  BY DEF CartMoves, OutInv
<1>2. ScrBusy => CartMoves
  BY <1>1 DEF ScrBusy
<1>3. CASE drv # "poll"
  BY <1>2, <1>3 DEF DriverMoves, TypeOK, DrvTypeOK, DrvStates
<1>4. CASE drv = "poll" /\ RequestThere
  <2>1. cmd.type \in Answered \/ out.msg.type \in Answered => CartMoves
    BY <1>1, Magic
  <2>2. toHost # << >> \/ hpc \in {"post", "sleep", "reply"} => HostMoves
    BY DEF HostMoves, TypeOK, HostTypeOK, HostStates
  <2>3. (\E i \in 1 .. Len(toHost) : toHost[i].type \in Answered) => toHost # << >>
    OBVIOUS
  <2> QED
    BY <1>4, <2>1, <2>2, <2>3 DEF RequestThere
<1>5. CASE drv = "poll" /\ AnswerThere
  <2>1. toCart # << >> => CartMoves
    BY <1>1 DEF CartMoves, OwnInv
  <2> QED
    BY <1>1, <1>5, <2>1 DEF AnswerThere, DriverMoves
<1> QED
  BY <1>3, <1>4, <1>5

(* As long as nothing but timeouts fails, no call in progress waits for    *)
(* something that nobody will do, through resets at any moment: until an   *)
(* answer that a reset left behind is stored over a post.                  *)
THEOREM NeverStuckCorrect ==
  ASSUME LevelsKnown
  PROVE  Spec => []NeverStuck
<1>1. Init => OutInv /\ PollInv
  BY DEF Init, CartInit, DrvInit, HostInit, OutInv, PollInv
<1>2. TypeOK /\ OwnInv /\ OutInv /\ PollInv /\ [Next]_vars => OutInv' /\ PollInv'
  BY OutStep, PollStep
<1>3. TypeOK /\ OwnInv /\ OutInv /\ PollInv => NeverStuck
  BY SomebodyMoves DEF PollInv, NeverStuck
<1> QED
  BY <1>1, <1>2, <1>3, OwnCorrect, TypeCorrect, PTL DEF Spec

-----------------------------------------------------------------------------
(* What an attempt of a post costs, from each of its chunks on.            *)
LEMMA Attempts ==
  ASSUME NEW n \in 0 .. BodyChunks + 1
  PROVE  /\ AttemptWork(n) \in Nat
         /\ AttemptWork(n) = (BodyChunks + 1 - n) + LastWord + 4
BY LastWordAssumption, HostAssumption DEF AttemptWork, AnswerWork, StoreWork

(* The costs, from the driver's loops on to those of the PC.               *)
LEMMA Costs ==
  /\ LastWord \in Nat \ {0} /\ BodyChunks \in Nat
  /\ StoreWork = LastWord + 1 /\ AnswerWork = LastWord + 2 /\ ReadWork = LastWord + 1
  /\ PollWork = LastWord + 3
  /\ PacketWork \in Nat
  /\ FetchWork = LastWord + 1 + PacketWork
  /\ CommandWork = FetchWork + 1
  /\ StartWork = CommandWork + LastWord + 4
  /\ WriteWork = LastWord + 1 + StartWork
<1>1. LastWord \in Nat \ {0} /\ BodyChunks \in Nat
  BY LastWordAssumption, HostAssumption
<1>2. /\ StoreWork = LastWord + 1 /\ AnswerWork = LastWord + 2 /\ ReadWork = LastWord + 1
      /\ PollWork = LastWord + 3
  BY <1>1 DEF StoreWork, AnswerWork, ReadWork, PollWork
<1>3. 0 \in 0 .. BodyChunks + 1
  BY <1>1
<1>4. PacketWork \in Nat
  BY <1>3, Attempts DEF PacketWork
<1>5. FetchWork = LastWord + 1 + PacketWork /\ CommandWork = FetchWork + 1
  BY <1>1, <1>4 DEF FetchWork, CommandWork
<1>6. StartWork = CommandWork + LastWord + 4
  BY <1>1, <1>2, <1>4, <1>5 DEF StartWork
<1> QED
  BY <1>1, <1>2, <1>3, <1>4, <1>5, <1>6 DEF WriteWork

(* Arithmetic that the steps need.                                         *)
LEMMA Times ==
  ASSUME NEW n \in Nat, NEW k \in Nat
  PROVE  (n + 1) * k = n * k + k /\ n * k \in Nat
OBVIOUS

LEMMA Less ==
  ASSUME NEW a \in Nat, NEW b \in Nat, NEW c \in Nat, a < b
  PROVE  a + c < b + c /\ c + a < c + b
OBVIOUS

(* The work that is left is a natural number, and so are its parts.        *)
PartsNat ==
  /\ DriverWork \in Nat /\ SendWork \in Nat /\ HostWork \in Nat /\ ReplyWork \in Nat
  /\ CmdWork \in Nat /\ OutWork \in Nat /\ InWork \in Nat
  /\ Len(toHost) * PacketWork \in Nat /\ Len(toCart) * AnswerWork \in Nat

LEMMA Parts == TypeOK => PartsNat
<1> SUFFICES ASSUME TypeOK PROVE PartsNat
  OBVIOUS
<1>1. DriverWork \in Nat
  BY Costs DEF TypeOK, DrvTypeOK, DrvStates, Words, DriverWork
<1>2. out.next \in 0 .. LastWord /\ inb.next \in 0 .. LastWord
  BY DEF TypeOK, CartTypeOK, Words
<1>3. CmdWork \in Nat /\ OutWork \in Nat /\ InWork \in Nat
  BY <1>2, Costs DEF CmdWork, OutWork, InWork
<1>4. SendWork \in Nat
  BY <1>3 DEF SendWork
<1>5. HostWork \in Nat
  <2>1. nxt \in 0 .. BodyChunks + 1 /\ hpc \in HostStates /\ 0 \in 0 .. BodyChunks + 1
    BY HostAssumption DEF TypeOK, HostTypeOK
  <2>2. AttemptWork(nxt) \in Nat /\ AttemptWork(0) \in Nat /\ AnswerWork \in Nat
    BY <2>1, Attempts, Costs
  <2> QED
    BY <2>1, <2>2 DEF HostStates, HostWork
<1>6. Len(toCart) \in Nat /\ Len(toHost) \in Nat
  BY DEF TypeOK, CartTypeOK
<1>7. AnswerWork \in Nat /\ PacketWork \in Nat
  BY Costs
<1>8. Len(toCart) * AnswerWork \in Nat /\ Len(toHost) * PacketWork \in Nat
  BY <1>6, <1>7, Times
<1>9. ReplyWork \in Nat
  <2>1. PICK q \in Nat : q = Len(toCart) * AnswerWork
    BY <1>8
  <2> QED
    BY <1>3, <2>1 DEF ReplyWork
<1> QED
  BY <1>1, <1>3, <1>4, <1>5, <1>8, <1>9 DEF PartsNat

(* The same after a step.                                                  *)
LEMMA PartsNext == TypeOK' => PartsNat'
BY Parts, PTL

(* Work after a step is less when the parts that the step changes add up   *)
(* to less.                                                                *)
LEMMA Lowered ==
  ASSUME TypeOK, TypeOK',
         \/ /\ UNCHANGED <<HostWork, ReplyWork, Len(toHost) * PacketWork>>
            /\ DriverWork' + SendWork' < DriverWork + SendWork
         \/ /\ UNCHANGED <<DriverWork, HostWork, ReplyWork>>
            /\ SendWork' + (Len(toHost) * PacketWork)' < SendWork + Len(toHost) * PacketWork
         \/ /\ UNCHANGED <<DriverWork, SendWork, ReplyWork>>
            /\ (Len(toHost) * PacketWork)' + HostWork' < Len(toHost) * PacketWork + HostWork
         \/ /\ UNCHANGED <<DriverWork, SendWork, Len(toHost) * PacketWork>>
            /\ HostWork' + ReplyWork' < HostWork + ReplyWork
  PROVE  Work' < Work
<1>1. PICK d, s, p, h, r \in Nat :
        /\ d = DriverWork /\ s = SendWork /\ p = Len(toHost) * PacketWork
        /\ h = HostWork /\ r = ReplyWork
  BY Parts DEF PartsNat
<1>2. PICK dn, sn, pn, hn, rn \in Nat :
        /\ dn = DriverWork' /\ sn = SendWork' /\ pn = (Len(toHost) * PacketWork)'
        /\ hn = HostWork' /\ rn = ReplyWork'
  BY PartsNext DEF PartsNat
<1>3. Work = d + s + p + h + r /\ Work' = dn + sn + pn + hn + rn
  BY <1>1, <1>2 DEF Work
<1>4. \/ hn = h /\ rn = r /\ pn = p /\ dn + sn < d + s
      \/ dn = d /\ hn = h /\ rn = r /\ sn + pn < s + p
      \/ dn = d /\ sn = s /\ rn = r /\ pn + hn < p + h
      \/ dn = d /\ sn = s /\ pn = p /\ hn + rn < h + r
  BY <1>1, <1>2
<1>5. dn + sn + pn + hn + rn < d + s + p + h + r
  BY <1>4
<1> QED
  BY <1>3, <1>5

(* In particular, fewer answers on their way to the N64.                   *)
LEMMA RepliesLowered ==
  ASSUME TypeOK, TypeOK', ReplyWork' < ReplyWork,
         UNCHANGED <<DriverWork, HostWork, SendWork, Len(toHost) * PacketWork>>
  PROVE  Work' < Work
<1>1. HostWork' + ReplyWork' < HostWork + ReplyWork
  BY Parts, PartsNext, Less DEF PartsNat
<1> QED
  BY <1>1, Lowered

(* The driver.                                                             *)
LEMMA DriverWorks ==
  ASSUME TypeOK, TypeOK', DriverRuns
  PROVE  Work' < Work
<1>0. PartsNat /\ PartsNat'
  BY Parts, PartsNext
<1>1. /\ UNCHANGED <<HostWork, ReplyWork, Len(toHost) * PacketWork>>
      /\ UNCHANGED OutWork
  BY DEF DriverRuns, hostVars, HostWork, ReplyWork, OutWork, InWork, DriverStep, TransmitWait,
     BramWrite, StartTransmission, ReceivePoll, ReceiveWait, BramRead, cartVars
<1>2. widx \in 0 .. LastWord
  BY DEF TypeOK, DrvTypeOK, Words
<1>3. ASSUME UNCHANGED cmd, DriverWork' < DriverWork PROVE Work' < Work
  <2>1. SendWork' = SendWork
    BY <1>1, <1>3 DEF SendWork, CmdWork
  <2>2. DriverWork' + SendWork' < DriverWork + SendWork
    BY <1>0, <1>3, <2>1, Less DEF PartsNat
  <2> QED
    BY <1>1, <2>2, Lowered
<1>4. CASE TransmitWait
  <2>1. DriverWork' < DriverWork /\ UNCHANGED cmd
    BY <1>2, <1>4, Costs DEF TransmitWait, DriverWork, cartVars
  <2> QED
    BY <1>3, <2>1
<1>5. CASE BramWrite
  <2>1. DriverWork' < DriverWork /\ UNCHANGED cmd
    BY <1>2, <1>5, Costs DEF BramWrite, DriverWork
  <2> QED
    BY <1>3, <2>1
<1>6. CASE StartTransmission
  <2>1. DriverWork = StartWork /\ DriverWork' \in {0, PollWork}
    BY <1>6 DEF StartTransmission, DriverWork
  <2>2. PICK o, c, n \in Nat : o = OutWork /\ c = CmdWork /\ n = CmdWork'
    BY <1>0 DEF PartsNat
  <2>3. PICK k \in Nat : k = CommandWork /\ n <= k
    BY <2>2, Costs DEF CmdWork
  <2>4. PICK d, e \in Nat : d = DriverWork /\ e = DriverWork' /\ e + k < d
    BY <2>1, <2>3, Costs
  <2>5. e + (n + o) < d + (c + o)
    <3>1. n <= k /\ e + k < d
      BY <2>3, <2>4
    <3> QED
      BY <3>1
  <2>6. SendWork = c + o /\ SendWork' = n + o
    BY <1>1, <2>2 DEF SendWork
  <2> QED
    BY <1>1, <2>4, <2>5, <2>6, Lowered
<1>7. CASE ReceivePoll \/ ReceiveWait
  <2>1. DriverWork' < DriverWork /\ UNCHANGED cmd
    BY <1>2, <1>7, Costs DEF ReceivePoll, ReceiveWait, DriverWork, cartVars
  <2> QED
    BY <1>3, <2>1
<1>8. CASE BramRead
  <2>1. DriverWork' < DriverWork /\ UNCHANGED cmd
    BY <1>2, <1>8, Costs DEF BramRead, ReturnWith, DriverWork, cartVars
  <2> QED
    BY <1>3, <2>1
<1> QED
  BY <1>4, <1>5, <1>6, <1>7, <1>8 DEF DriverRuns, DriverStep

(* The cartridge.                                                          *)
LEMMA CartWorks ==
  ASSUME TypeOK, TypeOK', CartRuns
  PROVE  Work' < Work
<1>0. PartsNat /\ PartsNat'
  BY Parts, PartsNext
<1>1. UNCHANGED <<DriverWork, HostWork>>
  BY DEF CartRuns, drvVars, hostVars, DriverWork, HostWork
<1>2. /\ out.next \in 0 .. LastWord /\ inb.next \in 0 .. LastWord
      /\ toHost \in Seq(Packet) /\ toCart \in Seq(Message)
  BY DEF TypeOK, CartTypeOK, Words
<1>3. PICK p \in Nat : p = Len(toHost) * PacketWork
  BY <1>0 DEF PartsNat
<1>4. ASSUME SendWork' < SendWork, UNCHANGED <<ReplyWork, toHost>> PROVE Work' < Work
  <2>1. SendWork' + p < SendWork + p
    BY <1>0, <1>4, Less DEF PartsNat
  <2>2. (Len(toHost) * PacketWork)' = p
    BY <1>3, <1>4
  <2> QED
    BY <1>1, <1>3, <1>4, <2>1, <2>2, Lowered
<1>5. CASE AcceptCommand
  <2>1. UNCHANGED <<ReplyWork, toHost>>
    BY <1>5 DEF AcceptCommand, ReplyWork, InWork
  <2>2. CmdWork = CommandWork /\ OutWork = 0 /\ CmdWork' = 0 /\ OutWork' = FetchWork
    BY <1>2, <1>5, Costs DEF AcceptCommand, CmdWork, OutWork, OutIdle
  <2>3. PICK f \in Nat : f = FetchWork /\ CommandWork = f + 1
    BY Costs
  <2>4. SendWork = (f + 1) + 0 /\ SendWork' = 0 + f
    BY <2>2, <2>3 DEF SendWork
  <2>5. SendWork' < SendWork
    BY <2>4
  <2> QED
    BY <1>4, <2>1, <2>5
<1>6. CASE FetchWord
  <2>1. UNCHANGED <<ReplyWork, toHost, CmdWork>>
    BY <1>6 DEF FetchWord, ReplyWork, InWork, CmdWork
  <2>2. OutWork = FetchWork - out.next /\ OutWork' = FetchWork - (out.next + 1)
    BY <1>6 DEF FetchWord, OutWork
  <2>3. OutWork' < OutWork
    BY <1>2, <2>2, Costs
  <2>4. SendWork' < SendWork
    BY <1>0, <2>1, <2>3, Less DEF SendWork, PartsNat
  <2> QED
    BY <1>4, <2>1, <2>4
<1>7. CASE SendPacket
  <2>1. UNCHANGED <<ReplyWork, CmdWork>>
    BY <1>7 DEF SendPacket, ReplyWork, InWork, CmdWork
  <2>2. OutWork = FetchWork - LastWord /\ OutWork' = 0
    BY <1>7 DEF SendPacket, OutWork, OutIdle
  <2>3. PICK k \in Nat : k = PacketWork /\ OutWork = k + 1
    BY <2>2, Costs
  <2>4. Len(toHost') = Len(toHost) + 1 /\ Len(toHost) \in Nat
    BY <1>2, <1>7, Appended DEF SendPacket
  <2>5. (Len(toHost) * PacketWork)' = p + k
    BY <1>3, <2>3, <2>4, Times
  <2>6. PICK c \in Nat : c = CmdWork
    BY <1>0 DEF PartsNat
  <2>7. SendWork' = c + 0 /\ SendWork = c + (k + 1)
    BY <2>1, <2>2, <2>3, <2>6 DEF SendWork
  <2>8. SendWork' + (p + k) < SendWork + p
    BY <2>7
  <2> QED
    BY <1>1, <1>3, <2>1, <2>5, <2>8, Lowered
<1>8. CASE AcceptReply
  <2>1. UNCHANGED <<SendWork, Len(toHost) * PacketWork>>
    BY <1>8 DEF AcceptReply, SendWork, CmdWork, OutWork
  <2>2. PICK i \in Nat : i = InWork'
    BY <1>0 DEF PartsNat
  <2>3. InWork = 0 /\ inb'.next = 0
    BY <1>8 DEF AcceptReply, InWork, InIdle
  <2>4. PICK w \in Nat : w = AnswerWork /\ i < w
    BY <2>2, <2>3, Costs DEF InWork
  <2>5. PICK n \in Nat : n = Len(toCart') /\ Len(toCart) = n + 1
    <3>1. Len(toCart) \in Nat \ {0} /\ Len(toCart') = Len(toCart) - 1
      BY <1>2, <1>8, Taken DEF AcceptReply
    <3> QED
      BY <3>1
  <2>6. n * w \in Nat /\ (n + 1) * w = n * w + w
    BY Times
  <2>7. PICK q \in Nat : q = n * w /\ (n + 1) * w = q + w
    BY <2>6
  <2>8. ReplyWork = (q + w) + 0 /\ ReplyWork' = q + i
    BY <2>2, <2>3, <2>4, <2>5, <2>7 DEF ReplyWork
  <2>9. ReplyWork' < ReplyWork
    BY <2>4, <2>8
  <2> QED
    BY <1>1, <2>1, <2>9, RepliesLowered
<1>9. CASE StoreWord
  <2>1. UNCHANGED <<SendWork, Len(toHost) * PacketWork, Len(toCart) * AnswerWork>>
    BY <1>9 DEF StoreWord, SendWork, CmdWork, OutWork
  <2>2. InWork = StoreWork - inb.next
    BY <1>9 DEF StoreWord, InWork
  <2>3. (InWork' = 0 /\ inb.next = LastWord) \/ InWork' = StoreWork - (inb.next + 1)
    BY <1>9 DEF StoreWord, InWork, InIdle
  <2>4. InWork' < InWork
    BY <1>2, <2>2, <2>3, Costs
  <2>5. ReplyWork' < ReplyWork
    BY <1>0, <2>1, <2>4, Less DEF ReplyWork, PartsNat
  <2> QED
    BY <1>1, <2>1, <2>5, RepliesLowered
<1> QED
  BY <1>5, <1>6, <1>7, <1>8, <1>9 DEF CartRuns, CartStep

(* The PC program.                                                         *)
LEMMA HostWorks ==
  ASSUME TypeOK, TypeOK', HostRuns, hpc' # hpc => hpc' \notin {"sleep", "down"}
  PROVE  Work' < Work
<1>0. PartsNat /\ PartsNat'
  BY Parts, PartsNext
<1>1. UNCHANGED <<DriverWork, SendWork, InWork>>
  BY DEF HostRuns, drvVars, DriverWork, SendWork, CmdWork, OutWork, InWork, HostStep,
     HostProgress, HostFault, HostStart, HostRead, ServerHandles, WriteCallback, CurlOk,
     CurlTransient, Retry, CurlFail, AuxWrite, AuxWriteFails, HostCrash, cartVars
<1>2. /\ nxt \in 0 .. BodyChunks + 1 /\ 0 \in 0 .. BodyChunks + 1 /\ BodyChunks \in Nat
      /\ toHost \in Seq(Packet) /\ toCart \in Seq(Message)
  BY HostAssumption DEF TypeOK, CartTypeOK, HostTypeOK
<1>3. /\ AttemptWork(nxt) \in Nat
      /\ AttemptWork(nxt) = (BodyChunks + 1 - nxt) + LastWord + 4
      /\ AttemptWork(0) \in Nat
      /\ AttemptWork(0) = BodyChunks + 1 + LastWord + 4
  BY <1>2, Attempts, LastWordAssumption
<1>4. PICK p, r \in Nat : p = Len(toHost) * PacketWork /\ r = ReplyWork
  BY <1>0 DEF PartsNat
<1>5. ASSUME HostWork' < HostWork, UNCHANGED <<toHost, toCart>> PROVE Work' < Work
  <2>1. UNCHANGED <<ReplyWork, Len(toHost) * PacketWork>>
    BY <1>1, <1>5 DEF ReplyWork
  <2>2. HostWork' + r < HostWork + r
    BY <1>0, <1>4, <1>5, Less DEF PartsNat
  <2> QED
    BY <1>1, <1>4, <2>1, <2>2, Lowered
<1>6. CASE HostStart
  <2>1. HostWork = 1 /\ HostWork' = 0
    BY <1>6 DEF HostStart, HostWork
  <2>2. (Len(toHost) * PacketWork)' <= p
    <3>1. CASE toHost' = toHost
      BY <1>4, <3>1
    <3>2. CASE toHost' = << >>
      <4>1. Len(toHost') = 0 /\ PacketWork \in Nat
        BY <3>2, Costs
      <4>2. 0 * PacketWork = 0
        BY <4>1
      <4> QED
        BY <1>4, <4>1, <4>2
    <3> QED
      BY <1>6, <3>1, <3>2 DEF HostStart
  <2>3. PICK q \in Nat : q = (Len(toHost) * PacketWork)' /\ q <= p
    BY <1>0, <2>2 DEF PartsNat
  <2>4. ReplyWork' <= r
    <3>1. CASE toCart' = toCart
      BY <1>0, <1>1, <1>4, <3>1 DEF ReplyWork, PartsNat
    <3>2. CASE toCart' = << >>
      <4>1. Len(toCart') = 0 /\ AnswerWork \in Nat
        BY <3>2, Costs
      <4>2. 0 * AnswerWork = 0
        BY <4>1
      <4>3. PICK a, i \in Nat : a = Len(toCart) * AnswerWork /\ i = InWork
        BY <1>0 DEF PartsNat
      <4>4. ReplyWork' = 0 + i /\ r = a + i
        BY <1>1, <1>4, <4>1, <4>2, <4>3 DEF ReplyWork
      <4> QED
        BY <4>4
    <3> QED
      BY <1>6, <3>1, <3>2 DEF HostStart
  <2>5. PICK n \in Nat : n = ReplyWork' /\ n <= r
    BY <1>0, <2>4 DEF PartsNat
  <2>6. PICK d, s \in Nat : d = DriverWork /\ s = SendWork
    BY <1>0 DEF PartsNat
  <2>7. Work = d + s + p + 1 + r /\ Work' = d + s + q + 0 + n
    BY <1>1, <1>4, <2>1, <2>3, <2>5, <2>6 DEF Work
  <2> QED
    BY <2>3, <2>5, <2>7
<1>7. CASE HostRead
  <2>1. hpc = "read" /\ hpc' \in {"read", "post", "reply"} /\ toHost' = Tail(toHost)
        /\ UNCHANGED <<nxt, toCart>>
    BY <1>7 DEF HostRead
  <2>2. PICK n \in Nat : n = Len(toHost') /\ Len(toHost) = n + 1
    <3>1. Len(toHost) \in Nat \ {0} /\ Len(toHost') = Len(toHost) - 1
      BY <1>2, <1>7, Taken DEF HostRead
    <3> QED
      BY <3>1
  <2>3. PICK w \in Nat : w = PacketWork
    BY Costs
  <2>4. n * w \in Nat /\ (n + 1) * w = n * w + w
    BY Times
  <2>5. PICK q \in Nat : q = n * w /\ (n + 1) * w = q + w
    BY <2>4
  <2>6. HostWork = 0 /\ HostWork' \in {0, AttemptWork(nxt), 1 + AnswerWork}
    BY <2>1 DEF HostWork
  <2>7. w = 1 + AttemptWork(0)
    BY <2>3 DEF PacketWork
  <2>8. HostWork' \in Nat /\ HostWork' < w
    BY <1>2, <1>3, <2>6, <2>7, Costs
  <2>9. PICK h \in Nat : h = HostWork' /\ h < w
    BY <2>8
  <2>10. q + h < (q + w) + 0
    <3>1. h < w
      BY <2>9
    <3> QED
      BY <3>1
  <2> QED
    BY <1>1, <2>1, <2>2, <2>3, <2>5, <2>6, <2>9, <2>10, Lowered DEF ReplyWork
<1>8. CASE ServerHandles \/ WriteCallback
  <2>1. nxt + 1 \in 0 .. BodyChunks + 1 /\ nxt' = nxt + 1 /\ hpc = "post" /\ hpc' = "post"
        /\ UNCHANGED <<toHost, toCart>>
    BY <1>2, <1>8 DEF ServerHandles, WriteCallback, cartVars
  <2>2. AttemptWork(nxt + 1) = (BodyChunks + 1 - (nxt + 1)) + LastWord + 4
    BY <2>1, Attempts
  <2>3. AttemptWork(nxt + 1) < AttemptWork(nxt)
    BY <1>2, <1>3, <2>2, LastWordAssumption
  <2>4. HostWork' = AttemptWork(nxt + 1) /\ HostWork = AttemptWork(nxt)
    BY <2>1 DEF HostWork
  <2> QED
    BY <1>5, <2>1, <2>3, <2>4
<1>9. CASE CurlOk
  <2>1. hpc = "post" /\ hpc' = "reply" /\ nxt = BodyChunks + 1 /\ UNCHANGED <<toHost, toCart>>
    BY <1>9 DEF CurlOk, cartVars
  <2>2. HostWork = AttemptWork(nxt) /\ HostWork' = 1 + AnswerWork
    BY <2>1 DEF HostWork
  <2>3. AttemptWork(nxt) = LastWord + 4
    BY <1>2, <1>3, <2>1, LastWordAssumption
  <2> QED
    BY <1>5, <2>1, <2>2, <2>3, Costs
<1>10. CASE Retry
  <2>1. hpc = "sleep" /\ hpc' = "post" /\ nxt' = 0 /\ UNCHANGED <<toHost, toCart>>
    BY <1>10 DEF Retry, cartVars
  <2>2. HostWork = 1 + AttemptWork(0) /\ HostWork' = AttemptWork(0)
    BY <2>1 DEF HostWork
  <2> QED
    BY <1>3, <1>5, <2>1, <2>2
<1>11. CASE CurlFail \/ AuxWriteFails
  <2>1. hpc \in {"post", "reply"} /\ hpc' = "read" /\ UNCHANGED <<toHost, toCart>>
    BY <1>11 DEF CurlFail, AuxWriteFails, BackToRead, cartVars
  <2>2. HostWork' = 0 /\ HostWork \in {AttemptWork(nxt), 1 + AnswerWork}
    BY <2>1 DEF HostWork
  <2>3. HostWork > 0
    BY <1>2, <1>3, <2>2, Costs
  <2> QED
    BY <1>0, <1>5, <2>1, <2>2, <2>3 DEF PartsNat
<1>12. CASE AuxWrite
  <2>1. hpc = "reply" /\ hpc' = "read" /\ UNCHANGED toHost
        /\ Len(toCart') = Len(toCart) + 1 /\ Len(toCart) \in Nat
    BY <1>2, <1>12, Appended DEF AuxWrite, BackToRead
  <2>2. PICK w, i \in Nat : w = AnswerWork /\ i = InWork
    BY <1>0, Costs DEF PartsNat
  <2>3. (Len(toCart) + 1) * w = Len(toCart) * w + w /\ Len(toCart) * w \in Nat
    BY <2>1, Times
  <2>4. PICK q \in Nat : q = Len(toCart) * w /\ (Len(toCart) + 1) * w = q + w
    BY <2>3
  <2>5. ReplyWork = q + i /\ ReplyWork' = (q + w) + i
    BY <1>1, <2>1, <2>2, <2>4 DEF ReplyWork
  <2>6. HostWork = 1 + w /\ HostWork' = 0
    BY <2>1, <2>2 DEF HostWork
  <2>7. 0 + ((q + w) + i) < (1 + w) + (q + i)
    OBVIOUS
  <2>8. HostWork' + ReplyWork' < HostWork + ReplyWork
    BY <2>5, <2>6, <2>7
  <2> QED
    BY <1>1, <2>1, <2>8, Lowered
<1>13. CASE CurlTransient \/ HostCrash
  BY <1>13 DEF CurlTransient, HostCrash
<1> QED
  BY <1>6, <1>7, <1>8, <1>9, <1>10, <1>11, <1>12, <1>13 DEF HostRuns, HostStep, HostProgress,
     HostFault

(* Each step of the driver, the cartridge and the PC program is one of the *)
(* steps that are left, but for a timeout of libcurl and a stop of the PC  *)
(* program: between calls, timeouts, stops and resets the system takes no  *)
(* more steps than Work, for every length of a message and of a response.  *)
THEOREM StepsRunOutCorrect == Spec => [](Work \in Nat) /\ StepsRunOut
<1>0. TypeOK => Work \in Nat
  <2> SUFFICES ASSUME TypeOK PROVE Work \in Nat
    OBVIOUS
  <2>1. PICK d, s, p, h, r \in Nat :
          /\ d = DriverWork /\ s = SendWork /\ p = Len(toHost) * PacketWork
          /\ h = HostWork /\ r = ReplyWork
    BY Parts DEF PartsNat
  <2>2. Work = d + s + p + h + r
    BY <2>1 DEF Work
  <2> QED
    BY <2>2
<1>1. ASSUME TypeOK, TypeOK', [Next]_vars
      PROVE  \/ Work' < Work
             \/ calls' # calls \/ resets' # resets
             \/ hpc' # hpc /\ hpc' \in {"sleep", "down"}
             \/ UNCHANGED vars
  <2>1. CASE LibraryCalls
    <3>1. calls' = calls + 1 /\ calls \in Nat
      BY <1>1, <2>1, MaxCallsAssumption DEF LibraryCalls, Call, DisplayMessage, PostCall,
         UserDataCall, BeginCall, TypeOK, DrvTypeOK
    <3> QED
      BY <3>1
  <2>2. CASE DriverRuns
    BY <1>1, <2>2, DriverWorks
  <2>3. CASE CartRuns
    BY <1>1, <2>3, CartWorks
  <2>4. CASE HostRuns
    BY <1>1, <2>4, HostWorks
  <2>5. CASE Reset
    <3>1. resets' = resets + 1 /\ resets \in Nat
      BY <1>1, <2>5, MaxResetsAssumption DEF Reset, TypeOK
    <3> QED
      BY <3>1
  <2> QED
    BY <1>1, <2>1, <2>2, <2>3, <2>4, <2>5 DEF Next
<1>2. TypeOK /\ TypeOK' /\ [Next]_vars =>
        [\/ Work' < Work
         \/ calls' # calls \/ resets' # resets
         \/ hpc' # hpc /\ hpc' \in {"sleep", "down"}]_vars
  BY <1>1
<1> QED
  BY <1>0, <1>2, TypeCorrect, TypeStep, PTL DEF Spec, StepsRunOut
=============================================================================
