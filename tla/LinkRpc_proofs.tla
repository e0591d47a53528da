--------------------------- MODULE LinkRpc_proofs ---------------------------
(***************************************************************************)
(* The link implements the abstract remote procedure call of module Rpc:   *)
(* each step of the link is a step of Rpc, or changes nothing Rpc sees.    *)
(* Then what the abstract call does not say: how many answers there may be *)
(* after resets, and that a post reaches the server's door once.           *)
(***************************************************************************)
EXTENDS LinkInv_proofs, FiniteSetTheorems

(* Rpc and the link speak of the same messages.                            *)
LEMMA SameMessages ==
  /\ R!NoMessage = NoMessage
  /\ R!NoResult = NoResult
  /\ R!NETWORK_POST = NETWORK_POST
  /\ R!Answered = Answered
  /\ \A type, id : R!Request(type, id) = Request(type, id)
  /\ \A m : R!ReplyTo(m) = ReplyTo(m)
BY DEF R!NoMessage, NoMessage, R!NoResult, NoResult, R!NETWORK_POST, NETWORK_POST,
       R!REQUEST_USER_INFO, REQUEST_USER_INFO, R!Answered, Answered, R!Request, Request,
       R!ReplyTo, ReplyTo, R!N64_TO_PC, N64_TO_PC, R!PC_TO_N64, PC_TO_N64

(* A call begins: Rpc asks, or tells.                                      *)
LEMMA CallRefines ==
  ASSUME TypeOK, IInv, orphans = {}, LibraryCalls
  PROVE  R!Next
<1>1. PICK type, next :
        /\ BeginCall(type, next)
        /\ \/ next = "return"
           \/ next = "receive" /\ type \in Answered
  BY DEF LibraryCalls, Call, DisplayMessage, PostCall, UserDataCall, Answered
<1>2. drv = "idle" /\ then = "return"
  BY <1>1, Magic DEF BeginCall, IInv, CleanInv, CallInv, TypeOK, DrvTypeOK
<1>3. UNCHANGED <<served, last>> /\ calls' = calls + 1 /\ calls < MaxCalls
  BY <1>1 DEF BeginCall, LibraryCalls, hostVars
<1>4. CASE next = "return"
  BY <1>1, <1>2, <1>3, <1>4, SameMessages DEF BeginCall, R!Next, R!Tell
<1>5. CASE next = "receive" /\ type \in Answered
  BY <1>1, <1>2, <1>3, <1>5, SameMessages DEF BeginCall, R!Next, R!Ask
<1> QED
  BY <1>1, <1>4, <1>5

(* The driver's steps are internal, but for the last read of a receive.    *)
LEMMA DriverRefines ==
  ASSUME TypeOK, IInv, orphans = {}, DriverRuns
  PROVE  R!Next \/ UNCHANGED R!vars
<1> USE SameMessages DEF DriverRuns, hostVars, R!vars
<1>0. CleanInv
  BY DEF IInv
<1>1. CASE TransmitWait \/ BramWrite \/ ReceivePoll \/ ReceiveWait
  BY <1>1 DEF TransmitWait, BramWrite, ReceivePoll, ReceiveWait
<1>2. CASE StartTransmission
  BY <1>2 DEF StartTransmission
<1>3. CASE BramRead
  <2>1. then = "receive" /\ Handled(cur) /\ bram[widx] = ReplyTo(cur)
        /\ bram[0].magic = PC_TO_N64 /\ cur # NoMessage
    BY <1>0, <1>3, Magic, LastWordAssumption
       DEF CleanInv, CallInv, ReceiveInv, BramRead, TypeOK, DrvTypeOK, Words, InIdle
  <2>2. CASE widx = LastWord
    <3>1. got \cup {bram[widx]} = {ReplyTo(cur)}
      BY <1>0, <1>3, <2>1 DEF CleanInv, ReceiveInv, BramRead, TypeOK, DrvTypeOK, Words
    <3>2. ReturnWith({ReplyTo(cur)}) /\ UNCHANGED calls
      BY <1>3, <2>1, <2>2, <3>1, LastWordAssumption DEF BramRead
    <3>3. R!Return
      BY <2>1, <3>2 DEF R!Return, ReturnWith, Handled
    <3> QED
      BY <3>3 DEF R!Next
  <2>3. CASE widx # LastWord
    BY <1>3, <2>1, <2>3 DEF BramRead
  <2> QED
    BY <2>2, <2>3
<1> QED
  BY <1>1, <1>2, <1>3 DEF DriverStep

(* Of the PC program, Rpc sees that the server handles the pending post.   *)
LEMMA HostRefines ==
  ASSUME IInv, orphans = {}, HostRuns
  PROVE  R!Next \/ UNCHANGED R!vars
<1> USE SameMessages DEF HostRuns, drvVars, R!vars
<1>1. CASE ServerHandles
  <2>1. hpkt = PacketOf(cur) /\ hpkt.type = NETWORK_POST /\ drv = "poll"
    BY <1>1 DEF IInv, CleanInv, HostInv, HostIdle, ServerHandles
  <2>2. then = "receive" /\ cur # NoMessage
    BY <2>1 DEF IInv, CleanInv, CallInv
  <2>3. cur.type = NETWORK_POST
    BY <2>1 DEF PacketOf
  <2>4. served' = served \cup {cur}
    BY <1>1, <2>1, ContentOf DEF ServerHandles
  <2>5. R!Serve
    BY <2>2, <2>3, <2>4 DEF R!Serve
  <2> QED
    BY <2>5 DEF R!Next
<1>2. CASE ~ServerHandles
  <2>1. served' = served
    BY <1>2 DEF HostStep, HostProgress, HostFault, HostStart, HostRead, WriteCallback,
         CurlOk, CurlTransient, Retry, BackToRead, CurlFail, AuxWrite, AuxWriteFails,
         HostCrash
  <2> QED
    BY <2>1
<1> QED
  BY <1>1, <1>2

LEMMA StepRefines ==
  ASSUME Assumed, TypeOK, IInv, [Next]_vars
  PROVE  [orphans' = {} => R!Next]_(R!vars)
<1> SUFFICES ASSUME orphans' = {} PROVE R!Next \/ UNCHANGED R!vars
  OBVIOUS
<1>0. orphans = {}
  BY DEF Next, vars, linkVars, LibraryCalls, DriverRuns, CartRuns, HostRuns, Reset
<1>1. CASE LibraryCalls
  BY <1>0, <1>1, CallRefines
<1>2. CASE DriverRuns
  BY <1>0, <1>2, DriverRefines
<1>3. CASE CartRuns
  BY <1>3 DEF CartRuns, drvVars, hostVars, R!vars
<1>4. CASE HostRuns
  BY <1>0, <1>4, HostRefines
<1>5. CASE Reset
  BY <1>5, SameMessages DEF Reset, hostVars, R!Next, R!Abandon
<1>6. CASE UNCHANGED vars
  BY <1>6 DEF vars, drvVars, hostVars, R!vars
<1> QED
  BY <1>1, <1>2, <1>3, <1>4, <1>5, <1>6 DEF Next

(* The link implements the abstract remote procedure call, as long as no   *)
(* reset has left a request unanswered: a call that asks is handled by the *)
(* PC and returns the answer to that call, whole.                          *)
THEOREM RpcCorrect ==
  ASSUME Assumed
  PROVE  Spec => ImplementsRpc
<1>1. Init => R!Init
  BY SameMessages DEF Init, DrvInit, HostInit, R!Init
<1>2. TypeOK /\ IInv /\ [Next]_vars => [orphans' = {} => R!Next]_(R!vars)
  BY StepRefines
<1> QED
  BY <1>1, <1>2, InvCorrect, TypeCorrect, PTL DEF Spec, ImplementsRpc

(* While a transfer to the PC reads the buffer, nothing writes it.         *)
THEOREM NoWriteCorrect ==
  ASSUME Assumed, "send" \in BusyCovers
  PROVE  Spec => NoWriteUnderSend
<1>1. ASSUME IInv, [Next]_vars, orphans = {}, out.msg # NoMessage
      PROVE  UNCHANGED bram
  <2>1. drv # "twrite" /\ inb.msg = NoMessage
    BY <1>1 DEF IInv, CleanInv, WholeInv, ReplyInv, SendIdle, OutIdle
  <2>2. ~BramWrite /\ ~StoreWord
    BY <2>1 DEF BramWrite, StoreWord
  <2>3. UNCHANGED cartVars => UNCHANGED bram
    BY DEF cartVars
  <2>4. LibraryCalls \/ Reset \/ UNCHANGED vars => UNCHANGED bram
    BY <2>3 DEF LibraryCalls, Call, DisplayMessage, PostCall, UserDataCall, BeginCall, Reset, vars
  <2>5. DriverRuns => UNCHANGED bram
    BY <2>2, <2>3 DEF DriverRuns, DriverStep, TransmitWait, StartTransmission, ReceivePoll,
         ReceiveWait, BramRead
  <2>6. CartRuns => UNCHANGED bram
    BY <2>2 DEF CartRuns, CartStep, AcceptCommand, FetchWord, SendPacket, AcceptReply
  <2>7. HostRuns => UNCHANGED bram
    BY <2>3 DEF HostRuns, HostStep, HostProgress, HostFault, HostStart, HostRead, ServerHandles,
         WriteCallback, CurlOk, CurlTransient, Retry, CurlFail, AuxWrite, AuxWriteFails, HostCrash
  <2> QED
    BY <1>1, <2>4, <2>5, <2>6, <2>7 DEF Next
<1>2. IInv /\ [Next]_vars =>
        [orphans = {} /\ out.msg # NoMessage /\ bram' # bram => out'.msg # out.msg]_vars
  BY <1>1
<1> QED
  BY <1>2, InvCorrect, PTL DEF Spec, NoWriteUnderSend

-----------------------------------------------------------------------------
(* Answers, through resets.                                                *)

One(b) == IF b THEN 1 ELSE 0

(* The messages in the cartridge and the packets on the endpoint that ask  *)
(* the PC for an answer,                                                   *)
Asking(m)    == One(m.type \in Answered)
AskingIn(s)  == {i \in 1 .. Len(s) : s[i].type \in Answered}
Requests     == Asking(cmd) + Asking(out.msg) + Cardinality(AskingIn(toHost))
(* the one that the PC works on,                                           *)
Working      == One(hpc \in {"post", "sleep", "reply"})
(* and these with the answers on their way: to the first word of the       *)
(* buffer, or to its last.                                                 *)
Unread       == Requests + Working + Len(toCart) + One(inb.msg # NoMessage /\ inb.next = 0)
Open         == Requests + Working + Len(toCart) + One(inb.msg # NoMessage)

(* Each call that polls may add an answer, and takes one that is there; a  *)
(* reset makes an orphan of a request instead.                             *)
CountInv ==
  /\ drv # "poll" => Unread <= Cardinality(orphans)
  /\ drv = "tstart" \/ (drv = "twrite" /\ widx > 0) =>
       Unread + One(Heard) <= Cardinality(orphans)
  /\ drv \in {"twrite", "tstart"} => Open <= Cardinality(orphans)
  /\ drv = "poll" => /\ Unread + One(Heard) <= 1 + Cardinality(orphans)
                     /\ Open <= 1 + Cardinality(orphans)

(* The call in progress is the latest; the messages of the PC have its     *)
(* magic.                                                                  *)
OwnInv ==
  /\ IsFiniteSet(orphans)
  /\ \A m \in orphans : m.id <= calls
  /\ drv # "idle" => /\ cur.magic = N64_TO_PC /\ cur.id = calls
                     /\ \A m \in orphans : m.id < calls
  /\ drv = "twait" => widx = 0
  /\ then = "receive" <=> cur.type \in Answered
  /\ \A i \in 1 .. Len(toCart) : toCart[i].magic = PC_TO_N64
  /\ inb.msg = NoMessage => inb = InIdle
  /\ inb.msg # NoMessage => inb.msg.magic = PC_TO_N64

-----------------------------------------------------------------------------
(* Of the packets on the endpoint, how many ask: finitely many, one more   *)
(* with a packet that asks, one less without it.                           *)
LEMMA AskingInFinite ==
  ASSUME NEW s \in Seq(Packet)
  PROVE  IsFiniteSet(AskingIn(s)) /\ Cardinality(AskingIn(s)) \in Nat
<1>1. Len(s) \in Nat
  OBVIOUS
<1>2. IsFiniteSet(1 .. Len(s))
  BY <1>1, FS_Interval
<1>3. AskingIn(s) \in SUBSET (1 .. Len(s))
  BY DEF AskingIn
<1>4. IsFiniteSet(AskingIn(s))
  BY <1>2, <1>3, FS_Subset
<1> QED
  BY <1>4, FS_CardinalityType

LEMMA AskingAppend ==
  ASSUME NEW s \in Seq(Packet), NEW e \in Packet
  PROVE  Cardinality(AskingIn(Append(s, e))) = Cardinality(AskingIn(s)) + Asking(e)
<1> DEFINE t == Append(s, e)
           A == AskingIn(s)
<1>1. Len(s) \in Nat /\ Len(t) = Len(s) + 1 /\ t[Len(s) + 1] = e
  OBVIOUS
<1>2. \A i \in 1 .. Len(s) : t[i] = s[i]
  OBVIOUS
<1> HIDE DEF t
<1>3. Len(s) + 1 \notin A
  BY <1>1 DEF AskingIn
<1>4. IsFiniteSet(A) /\ Cardinality(A) \in Nat
  BY AskingInFinite
<1>5. CASE e.type \in Answered
  <2>1. AskingIn(t) = A \cup {Len(s) + 1}
    BY <1>1, <1>2, <1>5 DEF AskingIn
  <2>2. Cardinality(A \cup {Len(s) + 1}) = Cardinality(A) + 1
    <3> HIDE DEF A
    <3> QED
      BY <1>3, <1>4, FS_AddElement
  <2>3. Asking(e) = 1
    BY <1>5 DEF Asking, One
  <2> QED
    BY <2>1, <2>2, <2>3 DEF t
<1>6. CASE e.type \notin Answered
  <2>1. AskingIn(t) = A
    BY <1>1, <1>2, <1>6 DEF AskingIn
  <2>2. Asking(e) = 0
    BY <1>6 DEF Asking, One
  <2> QED
    BY <1>4, <2>1, <2>2 DEF t
<1> QED
  BY <1>5, <1>6

LEMMA AskingTail ==
  ASSUME NEW s \in Seq(Packet), s # << >>
  PROVE  Cardinality(AskingIn(Tail(s))) + Asking(Head(s)) <= Cardinality(AskingIn(s))
<1> DEFINE t == Tail(s)
           A == AskingIn(s)
           B == AskingIn(t)
           f == [i \in B |-> i + 1]
<1>1. /\ Len(s) \in Nat \ {0} /\ Len(t) = Len(s) - 1
      /\ \A i \in 1 .. Len(s) - 1 : t[i] = s[i + 1]
      /\ Head(s) = s[1]
  BY Taken
<1>2. t \in Seq(Packet)
  OBVIOUS
<1> HIDE DEF t
<1>3. IsFiniteSet(A) /\ Cardinality(A) \in Nat
  BY AskingInFinite
<1>4. IsFiniteSet(B) /\ Cardinality(B) \in Nat
  BY <1>2, AskingInFinite
<1>5. ASSUME NEW i \in B PROVE i \in Int /\ i + 1 \in A \ {1}
  <2>1. i \in 1 .. Len(s) - 1 /\ t[i].type \in Answered
    BY <1>1 DEF AskingIn
  <2>2. i + 1 \in 1 .. Len(s) /\ i + 1 # 1
    BY <1>1, <2>1
  <2>3. s[i + 1].type \in Answered
    BY <1>1, <2>1
  <2> QED
    BY <2>1, <2>2, <2>3 DEF AskingIn
<1>6. f \in Injection(B, A \ {1})
  <2>1. f \in [B -> A \ {1}]
    BY <1>5
  <2>2. \A a, b \in B : f[a] = f[b] => a = b
    BY <1>5
  <2> HIDE DEF f
  <2> QED
    BY <2>1, <2>2 DEF Injection, IsInjective
<1>7. /\ IsFiniteSet(A \ {1})
      /\ Cardinality(A \ {1}) = IF 1 \in A THEN Cardinality(A) - 1 ELSE Cardinality(A)
  <2> HIDE DEF A
  <2> QED
    BY <1>3, FS_RemoveElement
<1>8. Cardinality(B) <= Cardinality(A \ {1})
  <2> HIDE DEF A, B, f
  <2> QED
    BY <1>6, <1>7, FS_Injection
<1>9. 1 \in A <=> Head(s).type \in Answered
  BY <1>1 DEF AskingIn
<1>10. Asking(Head(s)) = IF 1 \in A THEN 1 ELSE 0
  BY <1>9 DEF Asking, One
<1> HIDE DEF A, B
<1>11. Cardinality(B) + Asking(Head(s)) <= Cardinality(A)
  BY <1>3, <1>4, <1>7, <1>8, <1>10
<1> QED
  BY <1>11 DEF A, B, t

LEMMA Ones == \A b : One(b) \in {0, 1} /\ (One(b) = 1 <=> b) /\ (One(b) = 0 <=> ~b)
BY DEF One

LEMMA Numbers ==
  ASSUME TypeOK, OwnInv
  PROVE  /\ Requests \in Nat /\ Working \in Nat /\ Len(toCart) \in Nat
         /\ Unread \in Nat /\ Open \in Nat
         /\ Open = Unread + One(inb.msg # NoMessage /\ inb.next # 0)
         /\ Cardinality(orphans) \in Nat
<1>1. Cardinality(AskingIn(toHost)) \in Nat
  BY AskingInFinite DEF TypeOK, CartTypeOK
<1>2. Asking(cmd) \in Nat /\ Asking(out.msg) \in Nat /\ Working \in Nat
  BY Ones DEF Asking, Working
<1>3. Len(toCart) \in Nat
  BY DEF TypeOK, CartTypeOK
<1>4. Cardinality(orphans) \in Nat
  BY FS_CardinalityType DEF OwnInv
<1>5. Requests \in Nat
  BY <1>1, <1>2 DEF Requests
<1>6. /\ One(inb.msg # NoMessage) \in Nat
      /\ One(inb.msg # NoMessage /\ inb.next = 0) \in Nat
      /\ One(inb.msg # NoMessage /\ inb.next # 0) \in Nat
      /\ One(inb.msg # NoMessage) = One(inb.msg # NoMessage /\ inb.next = 0)
                                      + One(inb.msg # NoMessage /\ inb.next # 0)
  BY DEF One
<1>7. PICK rest \in Nat : rest = Requests + Working + Len(toCart)
  BY <1>2, <1>3, <1>5
<1>8. PICK first, later \in Nat :
        /\ first = One(inb.msg # NoMessage /\ inb.next = 0)
        /\ later = One(inb.msg # NoMessage /\ inb.next # 0)
        /\ One(inb.msg # NoMessage) = first + later
  BY <1>6
<1>9. Unread = rest + first /\ Open = rest + (first + later)
  BY <1>7, <1>8 DEF Unread, Open
<1>10. Unread \in Nat /\ Open \in Nat /\ Open = Unread + later
  BY <1>9
<1> QED
  BY <1>2, <1>3, <1>4, <1>5, <1>8, <1>10

(* While the driver rests, nothing is lost by fewer answers.               *)
LEMMA Fewer ==
  ASSUME TypeOK, OwnInv, CountInv, UNCHANGED <<drv, widx, orphans>>, Heard' <=> Heard,
         Unread' \in Int, Open' \in Int, Unread' <= Unread, Open' <= Open
  PROVE  CountInv'
<1>1. One(Heard) = One(Heard') /\ One(Heard) \in Nat
  BY DEF One
<1>2. Unread \in Nat /\ Open \in Nat /\ Cardinality(orphans) \in Nat
  BY Numbers
<1>3. One(Heard)' = One(Heard')
  OBVIOUS
<1> QED
  BY <1>1, <1>2, <1>3 DEF CountInv

(* The cartridge passes requests and answers on, and stores answers.       *)
LEMMA CartCount ==
  ASSUME TypeOK, OwnInv, CountInv, CartStep, UNCHANGED <<drvVars, hostVars, linkVars>>
  PROVE  CountInv'
<1> DEFINE asking == Cardinality(AskingIn(toHost))
<1>0. UNCHANGED <<drv, widx, orphans>> /\ Working' = Working
  BY DEF drvVars, hostVars, linkVars, Working
<1>1. /\ Unread \in Nat /\ Open \in Nat /\ Working \in Nat /\ Len(toCart) \in Nat
      /\ Requests \in Nat
  BY Numbers
<1>2. asking \in Nat /\ Asking(cmd) \in Nat /\ Asking(out.msg) \in Nat
  BY AskingInFinite, Ones DEF TypeOK, CartTypeOK, Asking
<1>3. ASSUME Requests' \in Int, Requests' <= Requests, UNCHANGED <<toCart, inb, bram>> PROVE CountInv'
  <2>1. /\ Unread' = Requests' + Working + Len(toCart) + One(inb.msg # NoMessage /\ inb.next = 0)
        /\ Open' = Requests' + Working + Len(toCart) + One(inb.msg # NoMessage)
    BY <1>0, <1>3 DEF Unread, Open
  <2>2. Unread' \in Int /\ Open' \in Int /\ Unread' <= Unread /\ Open' <= Open
    <3>1. PICK a, b \in Nat : /\ a = One(inb.msg # NoMessage /\ inb.next = 0)
                              /\ b = One(inb.msg # NoMessage)
      BY Ones
    <3>2. PICK working, answers \in Nat : working = Working /\ answers = Len(toCart)
      BY <1>1
    <3>3. PICK old \in Nat : old = Requests
      BY <1>1
    <3>4. PICK new \in Int : new = Requests' /\ new <= old
      BY <1>3, <3>3
    <3>5. Unread' = new + working + answers + a /\ Open' = new + working + answers + b
      BY <2>1, <3>1, <3>2, <3>4
    <3>6. Unread = old + working + answers + a /\ Open = old + working + answers + b
      BY <3>1, <3>2, <3>3 DEF Unread, Open
    <3>7. ASSUME NEW c \in Nat
          PROVE  new + working + answers + c \in Int
                 /\ new + working + answers + c <= old + working + answers + c
      <4>1. new <= old
        BY <3>4
      <4> QED
        BY <4>1
    <3> QED
      BY <3>5, <3>6, <3>7
  <2>3. Heard' <=> Heard
    BY <1>3 DEF Heard
  <2> QED
    BY <1>0, <2>2, <2>3, Fewer
<1>4. CASE AcceptCommand
  <2>1. /\ Asking(out.msg) = 0 /\ Asking(cmd') = 0 /\ Asking(out'.msg) = Asking(cmd)
        /\ UNCHANGED <<toHost, toCart, inb, bram>>
    BY <1>4, Magic DEF AcceptCommand, OutIdle, Asking, One
  <2>2. Requests' = Asking(cmd') + Asking(out'.msg) + asking
    BY <2>1 DEF Requests
  <2>3. Requests' = Requests
    BY <1>2, <2>1, <2>2 DEF Requests
  <2> QED
    BY <1>1, <1>3, <2>1, <2>3
<1>5. CASE FetchWord
  <2>1. Requests' = Requests /\ UNCHANGED <<toCart, inb, bram>>
    BY <1>5 DEF FetchWord, Requests
  <2> QED
    BY <1>1, <1>3, <2>1
<1>6. CASE SendPacket
  <2>. PICK packet : packet = [type |-> out.msg.type, src  |-> out.src \cup {bram[LastWord]}]
    OBVIOUS
  <2>1. packet \in Packet /\ Asking(packet) = Asking(out.msg)
    <3>1. bram[LastWord] \in Message /\ out.src \in SUBSET Message /\ out.msg \in Message
      BY LastWordAssumption DEF TypeOK, CartTypeOK, Words
    <3>2. out.msg.type \in Nat
      BY <3>1, MessageFacts
    <3> QED
      BY <3>1, <3>2 DEF Packet, Asking
  <2>2. /\ Asking(out'.msg) = 0 /\ toHost' = Append(toHost, packet)
        /\ UNCHANGED <<cmd, toCart, inb, bram>>
    BY <1>6, Magic DEF SendPacket, OutIdle, Asking, One
  <2>3. Cardinality(AskingIn(toHost')) = asking + Asking(out.msg)
    BY <2>1, <2>2, AskingAppend DEF TypeOK, CartTypeOK
  <2>4. Requests' = Asking(cmd) + Asking(out'.msg) + Cardinality(AskingIn(toHost'))
    BY <2>2 DEF Requests
  <2>5. Requests' = Requests
    BY <1>2, <2>2, <2>3, <2>4 DEF Requests
  <2> QED
    BY <1>1, <1>3, <2>2, <2>5
<1>7. CASE AcceptReply
  <2>1. /\ inb = InIdle /\ inb' = [msg |-> Head(toCart), next |-> 0]
        /\ toCart # << >> /\ toCart' = Tail(toCart)
        /\ UNCHANGED <<cmd, out, toHost, bram>>
    BY <1>7 DEF AcceptReply
  <2>2. toCart \in Seq(Message)
    BY DEF TypeOK, CartTypeOK
  <2>3. /\ Len(toCart) \in Nat \ {0} /\ Len(toCart') = Len(toCart) - 1
        /\ Head(toCart) = toCart[1]
    BY <2>1, <2>2, Taken
  <2>4. Head(toCart) # NoMessage
    <3>1. 1 \in 1 .. Len(toCart)
      BY <2>3
    <3>2. toCart[1].magic = PC_TO_N64
      BY <3>1 DEF OwnInv
    <3> QED
      BY <2>3, <3>2, Magic
  <2>5. /\ One(inb.msg # NoMessage) = 0 /\ One(inb.msg # NoMessage /\ inb.next = 0) = 0
        /\ One(inb'.msg # NoMessage) = 1 /\ One(inb'.msg # NoMessage /\ inb'.next = 0) = 1
    BY <2>1, <2>4 DEF InIdle, One
  <2>6. Requests' = Requests
    BY <2>1 DEF Requests
  <2>7. /\ Unread' = Requests + Working + Len(toCart') + 1
        /\ Open' = Requests + Working + Len(toCart') + 1
    BY <1>0, <2>5, <2>6 DEF Unread, Open
  <2>8. Unread' = Unread /\ Open' = Open
    BY <1>1, <2>3, <2>5, <2>7 DEF Unread, Open
  <2>9. Heard' <=> Heard
    BY <2>1 DEF Heard
  <2> QED
    BY <1>0, <1>1, <2>8, <2>9, Fewer
<1>8. CASE StoreWord
  <2>0. /\ inb.msg # NoMessage /\ bram' = [bram EXCEPT ![inb.next] = inb.msg]
        /\ inb' = IF inb.next = LastWord THEN InIdle
                  ELSE [msg |-> inb.msg, next |-> inb.next + 1]
        /\ UNCHANGED <<cmd, out, toHost, toCart>>
    BY <1>8 DEF StoreWord
  <2>1. inb.next \in 0 .. LastWord /\ LastWord \in Nat \ {0} /\ bram \in [0 .. LastWord -> Message]
    BY LastWordAssumption DEF TypeOK, CartTypeOK, Words
  <2>2. Requests' = Requests
    BY <2>0 DEF Requests
  <2>3. /\ Unread' = Requests + Working + Len(toCart) + One(inb'.msg # NoMessage /\ inb'.next = 0)
        /\ Open' = Requests + Working + Len(toCart) + One(inb'.msg # NoMessage)
    BY <1>0, <2>0, <2>2 DEF Unread, Open
  <2>4. CASE inb.next = 0
    <3>1. inb' = [msg |-> inb.msg, next |-> 1]
      BY <2>0, <2>1, <2>4
    <3>2. /\ One(inb'.msg # NoMessage) = 1 /\ One(inb.msg # NoMessage) = 1
          /\ One(inb'.msg # NoMessage /\ inb'.next = 0) = 0
          /\ One(inb.msg # NoMessage /\ inb.next = 0) = 1
      BY <2>0, <2>4, <3>1 DEF One
    <3>3. Unread' + 1 = Unread /\ Open' = Open
      BY <1>1, <2>3, <3>2 DEF Unread, Open
    <3>4. Heard'
      <4>1. bram'[0] = inb.msg
        BY <2>0, <2>1, <2>4
      <4>2. inb.msg.magic = PC_TO_N64
        BY <2>0 DEF OwnInv
      <4> QED
        BY <4>1, <4>2 DEF Heard
    <3>5. One(Heard') = 1 /\ One(Heard)' = 1 /\ One(Heard) \in Nat
      BY <3>4 DEF One
    <3>6. Cardinality(orphans) \in Nat
      BY Numbers
    <3>7. Unread' \in Int
      BY <1>1, <2>3, <3>2
    <3>8. PICK n \in Int : n = Unread'
      BY <3>7
    <3>9. Unread = n + 1
      BY <3>3, <3>8
    <3>10. drv # "poll" => n + 1 <= Cardinality(orphans)
      BY <3>9 DEF CountInv
    <3>11. drv = "poll" => n + 1 <= 1 + Cardinality(orphans)
      BY <1>1, <3>5, <3>6, <3>9 DEF CountInv
    <3> QED
      BY <1>0, <3>3, <3>5, <3>6, <3>8, <3>10, <3>11 DEF CountInv
  <2>5. CASE inb.next # 0
    <3>1. /\ One(inb'.msg # NoMessage /\ inb'.next = 0) = 0
          /\ One(inb.msg # NoMessage /\ inb.next = 0) = 0
      BY <2>0, <2>1, <2>5, Magic DEF One, InIdle
    <3>2. One(inb.msg # NoMessage) = 1 /\ One(inb'.msg # NoMessage) \in {0, 1}
      BY <2>0 DEF One
    <3>3. Unread' = Unread /\ Open' <= Open /\ Open' \in Int
      BY <1>1, <2>3, <3>1, <3>2 DEF Unread, Open
    <3>4. bram'[0] = bram[0]
      BY <2>0, <2>1, <2>5
    <3>5. Heard' <=> Heard
      BY <3>4 DEF Heard
    <3> QED
      BY <1>0, <1>1, <3>3, <3>5, Fewer
  <2> QED
    BY <2>4, <2>5
<1> QED
  BY <1>4, <1>5, <1>6, <1>7, <1>8 DEF CartStep

(* The PC program makes one answer of one request, or none.                *)
LEMMA HostCount ==
  ASSUME TypeOK, OwnInv, CountInv, HostStep, UNCHANGED <<drvVars, linkVars>>
  PROVE  CountInv'
<1> DEFINE asking == Cardinality(AskingIn(toHost))
<1>1. /\ Unread \in Nat /\ Open \in Nat /\ Working \in Nat /\ Len(toCart) \in Nat
      /\ Requests \in Nat
  BY Numbers
<1>2. asking \in Nat /\ Asking(cmd) \in Nat /\ Asking(out.msg) \in Nat
  BY AskingInFinite, Ones DEF TypeOK, CartTypeOK, Asking
<1>3. ASSUME Requests' \in Int, Working' \in Int, Len(toCart') \in Int,
             Requests' + Working' + Len(toCart') <= Requests + Working + Len(toCart),
             UNCHANGED <<inb, bram>>
      PROVE  CountInv'
  <2>1. /\ Unread' = Requests' + Working' + Len(toCart')
                       + One(inb.msg # NoMessage /\ inb.next = 0)
        /\ Open' = Requests' + Working' + Len(toCart') + One(inb.msg # NoMessage)
    BY <1>3 DEF Unread, Open
  <2>2. Unread' \in Int /\ Open' \in Int /\ Unread' <= Unread /\ Open' <= Open
    <3>1. PICK a \in Nat : a = One(inb.msg # NoMessage /\ inb.next = 0)
      BY Ones
    <3>2. PICK b \in Nat : b = One(inb.msg # NoMessage)
      BY Ones
    <3>3. PICK old \in Nat : old = Requests + Working + Len(toCart)
      BY <1>1
    <3>4. PICK new \in Int : new = Requests' + Working' + Len(toCart')
      BY <1>3
    <3>5. new <= old
      BY <1>3, <3>3, <3>4
    <3>6. Unread = old + a /\ Open = old + b
      BY <3>1, <3>2, <3>3 DEF Unread, Open
    <3>7. Unread' = new + a /\ Open' = new + b
      BY <2>1, <3>1, <3>2, <3>4
    <3> QED
      BY <3>5, <3>6, <3>7
  <2>3. Heard' <=> Heard
    BY <1>3 DEF Heard
  <2> QED
    BY <2>2, <2>3, Fewer DEF drvVars, linkVars
<1>4. ASSUME UNCHANGED cartVars, Working' \in Int, Working' <= Working PROVE CountInv'
  <2>1. Requests' = Requests /\ UNCHANGED <<toCart, inb, bram>>
    BY <1>4 DEF cartVars, Requests
  <2> QED
    BY <1>1, <1>3, <1>4, <2>1
<1>5. CASE HostStart
  <2>1. toHost' = toHost \/ toHost' = << >>
    BY <1>5 DEF HostStart
  <2>2. Cardinality(AskingIn(toHost')) \in Nat /\ Cardinality(AskingIn(toHost')) <= asking
    <3>1. CASE toHost' = toHost
      BY <1>2, <3>1
    <3>2. CASE toHost' = << >>
      <4>1. AskingIn(<< >>) = {}
        BY DEF AskingIn
      <4>2. Cardinality({}) = 0
        BY FS_EmptySet
      <4> QED
        BY <1>2, <3>2, <4>1, <4>2
    <3> QED
      BY <2>1, <3>1, <3>2
  <2>3. UNCHANGED <<cmd, out, inb, bram>> /\ Working = 0 /\ Working' = 0
    BY <1>5 DEF HostStart, Working, One
  <2>4. Requests' = Asking(cmd) + Asking(out.msg) + Cardinality(AskingIn(toHost'))
    BY <2>3 DEF Requests
  <2>5. Requests' \in Int /\ Requests' <= Requests
    BY <1>2, <2>2, <2>4 DEF Requests
  <2>6. Len(toCart') \in Int /\ Len(toCart') <= Len(toCart)
    <3>1. toCart' = toCart \/ toCart' = << >>
      BY <1>5 DEF HostStart
    <3>2. toCart' = << >> => Len(toCart') = 0
      OBVIOUS
    <3> QED
      BY <1>1, <3>1, <3>2
  <2> QED
    BY <1>1, <1>3, <2>3, <2>5, <2>6
<1>6. CASE HostRead
  <2>1. /\ toHost # << >> /\ toHost' = Tail(toHost) /\ hpc = "read"
        /\ UNCHANGED <<cmd, out, toCart, inb, bram>>
    BY <1>6 DEF HostRead
  <2>2. toHost \in Seq(Packet) /\ toHost' \in Seq(Packet)
    BY <2>1 DEF TypeOK, CartTypeOK
  <2>3. Cardinality(AskingIn(toHost')) + Asking(Head(toHost)) <= asking
    BY <2>1, <2>2, AskingTail
  <2>4. Cardinality(AskingIn(toHost')) \in Nat
    BY <2>2, AskingInFinite
  <2>5. Working = 0 /\ Working' = Asking(Head(toHost))
    BY <1>6, <2>1 DEF HostRead, Working, One, Asking, Answered
  <2>6. Requests' = Asking(cmd) + Asking(out.msg) + Cardinality(AskingIn(toHost'))
    BY <2>1 DEF Requests
  <2>7. Asking(Head(toHost)) \in Nat
    BY Ones DEF Asking
  <2>8. Requests' \in Int /\ Requests' + Working' <= Requests
    BY <1>2, <2>3, <2>4, <2>5, <2>6, <2>7 DEF Requests
  <2> QED
    BY <1>1, <1>3, <2>1, <2>5, <2>7, <2>8
<1>7. CASE ServerHandles \/ WriteCallback \/ CurlOk \/ CurlTransient \/ Retry
  BY <1>1, <1>4, <1>7 DEF ServerHandles, WriteCallback, CurlOk, CurlTransient, Retry, Working
<1>8. CASE CurlFail \/ AuxWriteFails \/ HostCrash
  <2>1. UNCHANGED cartVars /\ Working' = 0
    BY <1>8 DEF CurlFail, AuxWriteFails, HostCrash, BackToRead, Working, One
  <2> QED
    BY <1>1, <1>4, <2>1
<1>9. CASE AuxWrite
  <2>1. Working = 1 /\ Working' = 0
    BY <1>9 DEF AuxWrite, BackToRead, Working, One
  <2>2. Len(toCart') = Len(toCart) + 1
    BY <1>9, Appended DEF AuxWrite, TypeOK, CartTypeOK
  <2>3. Requests' = Requests /\ UNCHANGED <<inb, bram>>
    BY <1>9 DEF AuxWrite, Requests
  <2> QED
    BY <1>1, <1>3, <2>1, <2>2, <2>3
<1> QED
  BY <1>5, <1>6, <1>7, <1>8, <1>9 DEF HostStep, HostProgress, HostFault

(* The driver adds a request when it starts to poll, after its wait has    *)
(* let an answer that was being stored go by.                              *)
LEMMA DriverCount ==
  ASSUME Assumed, TypeOK, OwnInv, CountInv, DriverStep, UNCHANGED <<hostVars, linkVars>>
  PROVE  CountInv'
<1> DEFINE asking == Cardinality(AskingIn(toHost))
<1>0. Working' = Working /\ UNCHANGED orphans
  BY DEF hostVars, linkVars, Working
<1>1. /\ Unread \in Nat /\ Open \in Nat /\ Working \in Nat /\ Len(toCart) \in Nat
      /\ Requests \in Nat /\ Cardinality(orphans) \in Nat
      /\ Open = Unread + One(inb.msg # NoMessage /\ inb.next # 0)
  BY Numbers
<1>2. asking \in Nat /\ Asking(cmd) \in Nat /\ Asking(out.msg) \in Nat
  BY AskingInFinite, Ones DEF TypeOK, CartTypeOK, Asking
<1>3. One(Heard) \in Nat
  BY Ones
<1>4. ASSUME UNCHANGED <<cmd, out, toHost, toCart, inb>> PROVE Unread' = Unread /\ Open' = Open
  BY <1>0, <1>4 DEF Unread, Open, Requests
<1>5. ASSUME UNCHANGED cartVars, drv # "poll", drv' \in {"rwait", "rread", "idle"}
      PROVE  CountInv'
  <2>1. Unread' = Unread
    BY <1>4, <1>5 DEF cartVars
  <2> QED
    BY <1>0, <1>5, <2>1 DEF CountInv
<1>6. CASE TransmitWait
  <2>1. inb.msg = NoMessage
    BY <1>6 DEF TransmitWait, ScrBusy, Assumed
  <2>2. Open = Unread
    BY <1>1, <2>1 DEF One
  <2>3. Unread' = Unread /\ Open' = Open
    BY <1>4, <1>6 DEF TransmitWait, cartVars
  <2>4. drv # "poll" /\ drv' = "twrite" /\ widx' = 0
    BY <1>6 DEF TransmitWait, OwnInv
  <2> QED
    BY <1>0, <2>2, <2>3, <2>4 DEF CountInv
<1>7. CASE BramWrite
  <2>1. Unread' = Unread /\ Open' = Open
    BY <1>4, <1>7 DEF BramWrite
  <2>2. widx \in 0 .. LastWord /\ bram \in [0 .. LastWord -> Message] /\ LastWord \in Nat
    BY LastWordAssumption DEF TypeOK, CartTypeOK, DrvTypeOK, Words
  <2>3. drv = "twrite" /\ drv' \in {"twrite", "tstart"}
    BY <1>7 DEF BramWrite
  <2>4. Heard' => Heard /\ widx > 0
    <3>1. bram' = [bram EXCEPT ![widx] = cur]
      BY <1>7 DEF BramWrite
    <3>2. cur.magic = N64_TO_PC
      BY <2>3 DEF OwnInv
    <3>3. widx = 0 => bram'[0] = cur
      BY <2>2, <3>1
    <3>4. widx # 0 => bram'[0] = bram[0]
      BY <2>2, <3>1
    <3> QED
      BY <2>2, <3>2, <3>3, <3>4, Magic DEF Heard
  <2>5. PICK h \in Nat : h = One(Heard')
    BY Ones
  <2>6. Unread + h <= Cardinality(orphans)
    <3>1. CASE Heard'
      <4>1. h = One(Heard) /\ widx > 0
        BY <2>4, <2>5, <3>1 DEF One
      <4> QED
        BY <2>3, <4>1 DEF CountInv
    <3>2. CASE ~Heard'
      <4>1. h = 0
        BY <2>5, <3>2 DEF One
      <4> QED
        BY <1>1, <2>3, <4>1 DEF CountInv
    <3> QED
      BY <3>1, <3>2
  <2>7. One(Heard)' = One(Heard')
    OBVIOUS
  <2> QED
    BY <1>0, <2>1, <2>3, <2>5, <2>6, <2>7 DEF CountInv
<1>8. CASE StartTransmission
  <2>1. /\ drv = "tstart" /\ cmd' = cur
        /\ drv' = IF then = "receive" THEN "poll" ELSE "idle"
        /\ UNCHANGED <<bram, out, inb, toHost, toCart>>
    BY <1>8 DEF StartTransmission
  <2>2. Asking(cmd') = IF then = "receive" THEN 1 ELSE 0
    BY <2>1 DEF OwnInv, Asking, One
  <2>3. PICK more \in Nat : more = Asking(cmd') /\ (then # "receive" => more = 0) /\ more <= 1
    BY <2>2
  <2>4. PICK rest \in Nat : rest = Asking(out.msg) + asking
    BY <1>2
  <2>5. Requests = Asking(cmd) + rest /\ Requests' = more + rest
    BY <1>2, <2>1, <2>3, <2>4 DEF Requests
  <2>6. Requests' \in Nat /\ Requests' <= Requests + more
    BY <1>2, <2>3, <2>4, <2>5
  <2>7. PICK a \in Nat : a = One(inb.msg # NoMessage /\ inb.next = 0)
    BY Ones
  <2>8. PICK b \in Nat : b = One(inb.msg # NoMessage)
    BY Ones
  <2>9. PICK r \in Nat : r = Requests'
    BY <2>6
  <2>10. PICK others \in Nat : others = Working + Len(toCart)
    BY <1>1
  <2>11. PICK q \in Nat : q = Requests /\ r <= q + more
    BY <1>1, <2>6, <2>9
  <2>12. /\ Unread' \in Nat /\ Open' \in Nat
         /\ Unread' <= Unread + more /\ Open' <= Open + more
    <3>1. Unread' = r + others + a /\ Open' = r + others + b
      <4>1. Working' = Working /\ UNCHANGED <<toCart, inb>>
        BY <1>0, <2>1
      <4>2. /\ Unread' = r + Working + Len(toCart) + a
            /\ Open' = r + Working + Len(toCart) + b
        BY <2>7, <2>8, <2>9, <4>1 DEF Unread, Open
      <4> QED
        BY <1>1, <2>10, <4>2
    <3>2. Unread = q + others + a /\ Open = q + others + b
      <4>1. /\ Unread = q + Working + Len(toCart) + a
            /\ Open = q + Working + Len(toCart) + b
        BY <2>7, <2>8, <2>11 DEF Unread, Open
      <4> QED
        BY <1>1, <2>10, <4>1
    <3> QED
      BY <2>3, <2>11, <3>1, <3>2
  <2>13. Unread + One(Heard) <= Cardinality(orphans) /\ Open <= Cardinality(orphans)
    BY <2>1 DEF CountInv
  <2>14. One(Heard)' = One(Heard)
    BY <2>1 DEF Heard
  <2>15. CASE then = "receive"
    <3>1. PICK c \in Nat : c = Cardinality(orphans)
      BY <1>1
    <3>2. PICK h \in Nat : h = One(Heard)
      BY <1>3
    <3>3. PICK unread, open, unreadNew, openNew \in Nat :
            unread = Unread /\ open = Open /\ unreadNew = Unread' /\ openNew = Open'
      BY <1>1, <2>12
    <3>4. unread + h <= c /\ open <= c /\ unreadNew <= unread + more /\ openNew <= open + more
      BY <2>12, <2>13, <3>1, <3>2, <3>3
    <3>5. unreadNew + h <= 1 + c /\ openNew <= 1 + c
      BY <2>3, <3>4
    <3> QED
      BY <1>0, <2>1, <2>14, <2>15, <3>1, <3>2, <3>3, <3>5 DEF CountInv
  <2>16. CASE then # "receive"
    <3>1. Unread' <= Cardinality(orphans)
      BY <1>1, <1>3, <2>3, <2>12, <2>13, <2>16
    <3> QED
      BY <1>0, <2>1, <2>16, <3>1 DEF CountInv
  <2> QED
    BY <2>15, <2>16
<1>9. CASE ReceivePoll
  <2>1. drv = "poll" /\ drv' = "rwait" /\ One(Heard) = 1
    BY <1>9 DEF ReceivePoll, Heard, One
  <2>2. Unread' = Unread
    BY <1>4, <1>9 DEF ReceivePoll, cartVars
  <2>3. Unread <= Cardinality(orphans)
    BY <1>1, <2>1 DEF CountInv
  <2> QED
    BY <1>0, <2>1, <2>2, <2>3 DEF CountInv
<1>10. CASE ReceiveWait
  BY <1>5, <1>10 DEF ReceiveWait
<1>11. CASE BramRead
  BY <1>5, <1>11 DEF BramRead, ReturnWith
<1> QED
  BY <1>6, <1>7, <1>8, <1>9, <1>10, <1>11 DEF DriverStep

(* A reset of a call that polls makes its request one of the orphans.      *)
LEMMA CountStep ==
  ASSUME Assumed, TypeOK, OwnInv, CountInv, [Next]_vars
  PROVE  CountInv'
<1>1. ASSUME UNCHANGED <<cartVars, hostVars>> PROVE Unread' = Unread /\ Open' = Open
  BY <1>1 DEF cartVars, hostVars, Unread, Open, Requests, Working
<1>2. CASE LibraryCalls
  <2>1. drv = "idle" /\ drv' = "twait" /\ UNCHANGED <<cartVars, hostVars, orphans>>
    BY <1>2 DEF LibraryCalls, Call, DisplayMessage, PostCall, UserDataCall, BeginCall, linkVars
  <2> QED
    BY <1>1, <2>1 DEF CountInv
<1>3. CASE DriverRuns
  BY <1>3, DriverCount DEF DriverRuns
<1>4. CASE CartRuns
  BY <1>4, CartCount DEF CartRuns
<1>5. CASE HostRuns
  BY <1>5, HostCount DEF HostRuns
<1>6. CASE Reset
  <2>1. /\ drv' = "idle" /\ UNCHANGED <<cartVars, hostVars>>
        /\ orphans' = orphans \cup (IF drv = "poll" THEN {cur} ELSE {})
    BY <1>6 DEF Reset
  <2>2. Unread' = Unread /\ Unread \in Nat /\ Cardinality(orphans) \in Nat
    BY <1>1, <2>1, Numbers
  <2>3. CASE drv = "poll"
    <3>1. cur \notin orphans
      <4>1. cur.id = calls /\ \A m \in orphans : m.id < calls
        BY <2>3 DEF OwnInv
      <4>2. calls \in Nat
        BY MaxCallsAssumption DEF TypeOK, DrvTypeOK
      <4> QED
        BY <4>1, <4>2
    <3>2. Cardinality(orphans') = Cardinality(orphans) + 1
      <4>1. IsFiniteSet(orphans)
        BY DEF OwnInv
      <4>2. orphans' = orphans \cup {cur}
        BY <2>1, <2>3
      <4> QED
        BY <3>1, <4>1, <4>2, FS_AddElement
    <3>3. Unread <= 1 + Cardinality(orphans)
      BY <2>2, <2>3, Ones DEF CountInv
    <3>4. PICK c \in Nat : c = Cardinality(orphans')
      BY <2>2, <3>2
    <3>5. Unread' <= c
      BY <2>2, <3>2, <3>3, <3>4
    <3> QED
      BY <2>1, <3>4, <3>5 DEF CountInv
  <2>4. CASE drv # "poll"
    <3>1. orphans' = orphans
      BY <2>1, <2>4
    <3> QED
      BY <2>1, <2>2, <2>4, <3>1 DEF CountInv
  <2> QED
    BY <2>3, <2>4
<1>7. CASE UNCHANGED vars
  <2>1. UNCHANGED <<cartVars, hostVars, drv, widx, orphans>>
    BY <1>7 DEF vars, drvVars, linkVars
  <2>2. Unread' = Unread /\ Open' = Open /\ Unread \in Int /\ Open \in Int
    BY <1>1, <2>1, Numbers
  <2>3. Heard' <=> Heard
    BY <2>1 DEF cartVars, Heard
  <2>4. Unread' <= Unread /\ Open' <= Open /\ Unread' \in Int /\ Open' \in Int
    BY <2>2
  <2> QED
    BY <2>1, <2>3, <2>4, Fewer
<1> QED
  BY <1>2, <1>3, <1>4, <1>5, <1>6, <1>7 DEF Next

LEMMA OwnStep ==
  ASSUME LevelsKnown, TypeOK, OwnInv, [Next]_vars
  PROVE  OwnInv'
<1> USE Magic
<1>0. calls \in Nat /\ toCart \in Seq(Message)
  BY MaxCallsAssumption DEF TypeOK, DrvTypeOK, CartTypeOK
<1>1. CASE LibraryCalls
  <2>1. ASSUME NEW type \in Nat, NEW next, BeginCall(type, next),
               next = "receive" <=> type \in Answered
        PROVE  OwnInv'
    <3>1. /\ drv = "idle" /\ drv' = "twait" /\ widx' = 0
          /\ cur' = Request(type, calls + 1) /\ then' = next /\ calls' = calls + 1
      BY <2>1 DEF BeginCall
    <3>2. UNCHANGED <<orphans, toCart, inb>>
      BY <1>1, <2>1 DEF LibraryCalls, linkVars, BeginCall, cartVars
    <3>3. \A m \in orphans : m.id \in Nat /\ m.id < calls + 1
      BY <1>0, MessageFacts DEF OwnInv, TypeOK
    <3> QED
      BY <1>0, <2>1, <3>1, <3>2, <3>3 DEF OwnInv, Request, InIdle
  <2>2. ASSUME NEW level \in Levels, DisplayMessage(level) PROVE OwnInv'
    <3>1. MESSAGE_DEBUG + level \in Nat /\ MESSAGE_DEBUG + level \notin Answered
      BY DEF LevelsKnown, MESSAGE_DEBUG, Answered, NETWORK_POST, REQUEST_USER_INFO
    <3> QED
      BY <2>1, <2>2, <3>1 DEF DisplayMessage
  <2>3. NETWORK_POST \in Nat \cap Answered /\ REQUEST_USER_INFO \in Nat \cap Answered
    BY DEF Answered, NETWORK_POST, REQUEST_USER_INFO
  <2> QED
    BY <1>1, <2>1, <2>2, <2>3 DEF LibraryCalls, Call, PostCall, UserDataCall
<1>2. CASE DriverRuns
  <2>1. UNCHANGED <<orphans, toCart, inb, calls>>
    BY <1>2 DEF DriverRuns, linkVars, DriverStep, TransmitWait, BramWrite, StartTransmission,
       ReceivePoll, ReceiveWait, BramRead, ReturnWith, cartVars
  <2>2. drv # "idle" /\ drv' # "twait"
    BY <1>2 DEF DriverRuns, DriverStep, TransmitWait, BramWrite, StartTransmission,
       ReceivePoll, ReceiveWait, BramRead, ReturnWith
  <2>3. UNCHANGED <<cur, then>> \/ (drv' = "idle" /\ cur' = NoMessage /\ then' = "return")
    BY <1>2 DEF DriverRuns, DriverStep, TransmitWait, BramWrite, StartTransmission,
       ReceivePoll, ReceiveWait, BramRead, ReturnWith
  <2> QED
    BY <2>1, <2>2, <2>3 DEF OwnInv, InIdle, Answered, NETWORK_POST, REQUEST_USER_INFO
<1>3. CASE CartRuns
  <2>1. UNCHANGED <<orphans, calls, drv, widx, cur, then>>
    BY <1>3 DEF CartRuns, drvVars, linkVars
  <2>2. /\ \A i \in 1 .. Len(toCart') : toCart'[i].magic = PC_TO_N64
        /\ inb'.msg = NoMessage => inb' = InIdle
        /\ inb'.msg # NoMessage => inb'.msg.magic = PC_TO_N64
    <3>1. CASE AcceptCommand \/ FetchWord \/ SendPacket
      BY <3>1 DEF AcceptCommand, FetchWord, SendPacket, OwnInv
    <3>2. CASE AcceptReply
      <4>1. /\ toCart # << >> /\ toCart' = Tail(toCart)
            /\ inb' = [msg |-> Head(toCart), next |-> 0]
        BY <3>2 DEF AcceptReply
      <4>2. /\ Len(toCart) \in Nat \ {0} /\ Len(toCart') = Len(toCart) - 1
            /\ \A i \in 1 .. Len(toCart) - 1 : toCart'[i] = toCart[i + 1]
            /\ Head(toCart) = toCart[1]
        BY <1>0, <4>1, Taken
      <4>3. \A i \in 1 .. Len(toCart) : toCart[i].magic = PC_TO_N64
        BY DEF OwnInv
      <4>4. ASSUME NEW i \in 1 .. Len(toCart') PROVE toCart'[i].magic = PC_TO_N64
        <5>1. i \in 1 .. Len(toCart) - 1 /\ i + 1 \in 1 .. Len(toCart)
          BY <4>2
        <5> QED
          BY <4>2, <4>3, <5>1
      <4>5. toCart[1].magic = PC_TO_N64
        <5>1. 1 \in 1 .. Len(toCart)
          BY <4>2
        <5> QED
          BY <4>3, <5>1
      <4> QED
        BY <4>1, <4>2, <4>4, <4>5
    <3>3. CASE StoreWord
      BY <3>3 DEF StoreWord, OwnInv, InIdle
    <3> QED
      BY <1>3, <3>1, <3>2, <3>3 DEF CartRuns, CartStep
  <2> QED
    BY <2>1, <2>2 DEF OwnInv, InIdle, Answered, NETWORK_POST, REQUEST_USER_INFO
<1>4. CASE HostRuns
  <2>1. UNCHANGED <<orphans, calls, drv, widx, cur, then>>
    BY <1>4 DEF HostRuns, drvVars, linkVars
  <2>2. UNCHANGED inb
    BY <1>4 DEF HostRuns, HostStep, HostProgress, HostFault, HostStart, HostRead, ServerHandles,
       WriteCallback, CurlOk, CurlTransient, Retry, CurlFail, AuxWrite, AuxWriteFails,
       HostCrash, cartVars
  <2>3. \/ toCart' \in {toCart, << >>}
        \/ \E m : toCart' = Append(toCart, m) /\ m.magic = PC_TO_N64
    <3>1. AnswerOf(hpkt, response).magic = PC_TO_N64
      BY DEF AnswerOf, ReplyTo
    <3> QED
      BY <1>4, <3>1 DEF HostRuns, HostStep, HostProgress, HostFault, HostStart, HostRead,
         ServerHandles, WriteCallback, CurlOk, CurlTransient, Retry, CurlFail, AuxWrite,
         AuxWriteFails, HostCrash, cartVars
  <2>4. \A i \in 1 .. Len(toCart') : toCart'[i].magic = PC_TO_N64
    <3>1. CASE toCart' \in {toCart, << >>}
      BY <3>1 DEF OwnInv
    <3>2. ASSUME NEW m, toCart' = Append(toCart, m), m.magic = PC_TO_N64
          PROVE  \A i \in 1 .. Len(toCart') : toCart'[i].magic = PC_TO_N64
      <4>1. /\ Len(toCart') = Len(toCart) + 1
            /\ \A i \in 1 .. Len(toCart) : toCart'[i] = toCart[i]
            /\ toCart'[Len(toCart) + 1] = m
        BY <1>0, <3>2, Appended
      <4>2. ASSUME NEW i \in 1 .. Len(toCart') PROVE toCart'[i].magic = PC_TO_N64
        <5>1. i \in 1 .. Len(toCart) \/ i = Len(toCart) + 1
          BY <1>0, <4>1
        <5> QED
          BY <3>2, <4>1, <5>1 DEF OwnInv
      <4> QED
        BY <4>2
    <3> QED
      BY <2>3, <3>1, <3>2
  <2> QED
    BY <2>1, <2>2, <2>4 DEF OwnInv, InIdle, Answered, NETWORK_POST, REQUEST_USER_INFO
<1>5. CASE Reset
  <2>1. /\ drv' = "idle" /\ cur' = NoMessage /\ then' = "return"
        /\ orphans' = orphans \cup (IF drv = "poll" THEN {cur} ELSE {})
        /\ UNCHANGED <<calls, toCart, inb>>
    BY <1>5 DEF Reset, cartVars
  <2>2. IsFiniteSet(orphans')
    <3>1. CASE drv = "poll"
      <4>1. orphans' = orphans \cup {cur} /\ IsFiniteSet(orphans)
        BY <2>1, <3>1 DEF OwnInv
      <4> QED
        BY <4>1, FS_AddElement
    <3>2. CASE drv # "poll"
      BY <2>1, <3>2 DEF OwnInv
    <3> QED
      BY <3>1, <3>2
  <2>3. \A m \in orphans' : m.id <= calls
    <3>1. drv = "poll" => cur.id = calls
      BY DEF OwnInv
    <3>2. \A m \in orphans : m.id <= calls
      BY DEF OwnInv
    <3> QED
      BY <1>0, <2>1, <3>1, <3>2
  <2> QED
    BY <2>1, <2>2, <2>3 DEF OwnInv, InIdle, Answered, NETWORK_POST, REQUEST_USER_INFO
<1>6. CASE UNCHANGED vars
  BY <1>6 DEF vars, cartVars, drvVars, linkVars, OwnInv, InIdle, Answered, NETWORK_POST,
     REQUEST_USER_INFO
<1> QED
  BY <1>1, <1>2, <1>3, <1>4, <1>5, <1>6 DEF Next

LEMMA CountInit == Init => OwnInv /\ CountInv
<1> SUFFICES ASSUME Init PROVE OwnInv /\ CountInv
  OBVIOUS
<1>1. IsFiniteSet({}) /\ Cardinality({}) = 0
  BY FS_EmptySet
<1>2. OwnInv
  BY <1>1, Magic DEF Init, DrvInit, CartInit, OwnInv, InIdle
<1>3. AskingIn(<< >>) = {}
  BY DEF AskingIn
<1>4. /\ Asking(cmd) = 0 /\ Asking(out.msg) = 0 /\ Working = 0 /\ Len(toCart) = 0
      /\ One(inb.msg # NoMessage /\ inb.next = 0) = 0
  BY Magic DEF Init, CartInit, HostInit, OutIdle, InIdle, Asking, One, Working
<1>5. Cardinality(AskingIn(toHost)) = 0
  BY <1>1, <1>3 DEF Init, CartInit
<1>6. Unread = 0
  BY <1>4, <1>5 DEF Unread, Requests
<1>7. drv = "idle" /\ Cardinality(orphans) = 0
  BY <1>1 DEF Init, DrvInit
<1>8. CountInv
  BY <1>6, <1>7 DEF CountInv
<1> QED
  BY <1>2, <1>8

LEMMA OwnCorrect ==
  ASSUME LevelsKnown
  PROVE  Spec => []OwnInv
<1>1. TypeOK /\ OwnInv /\ [Next]_vars => OwnInv'
  BY OwnStep
<1> QED
  BY <1>1, CountInit, TypeCorrect, PTL DEF Spec

(* After any number of resets and failures there are never more answers on *)
(* their way, or about to be, than one and one for each request that a     *)
(* reset has orphaned.                                                     *)
THEOREM AnswersBoundedCorrect ==
  ASSUME Assumed
  PROVE  Spec => []AnswersBounded
<1>1. TypeOK /\ OwnInv /\ CountInv => AnswersBounded
  <2> SUFFICES ASSUME TypeOK, OwnInv, CountInv PROVE AnswersBounded
    OBVIOUS
  <2>1. /\ Unread \in Nat /\ Open \in Nat /\ Working \in Nat /\ Len(toCart) \in Nat
        /\ Requests \in Nat /\ Cardinality(orphans) \in Nat
        /\ Open = Unread + One(inb.msg # NoMessage /\ inb.next # 0)
    BY Numbers
  <2>2. Open <= 1 + Cardinality(orphans)
    <3>1. One(inb.msg # NoMessage /\ inb.next # 0) \in {0, 1}
      BY Ones
    <3>2. PICK a \in {0, 1} : Open = Unread + a
      BY <2>1, <3>1
    <3> QED
      BY <2>1, <3>2 DEF CountInv
  <2>3. Cardinality({inb.msg} \ {NoMessage}) = One(inb.msg # NoMessage)
    <3>1. CASE inb.msg = NoMessage
      <4>1. {inb.msg} \ {NoMessage} = {}
        BY <3>1
      <4> QED
        BY <3>1, <4>1, FS_EmptySet DEF One
    <3>2. CASE inb.msg # NoMessage
      <4>1. {inb.msg} \ {NoMessage} = {inb.msg}
        BY <3>2
      <4>2. Cardinality({inb.msg}) = 1
        BY FS_Singleton
      <4> QED
        BY <3>2, <4>1, <4>2 DEF One
    <3> QED
      BY <3>1, <3>2
  <2>4. Cardinality({hpc} \cap {"post", "sleep", "reply"}) = Working
    <3>1. CASE hpc \in {"post", "sleep", "reply"}
      <4>1. {hpc} \cap {"post", "sleep", "reply"} = {hpc}
        BY <3>1
      <4>2. Cardinality({hpc}) = 1
        BY FS_Singleton
      <4> QED
        BY <3>1, <4>1, <4>2 DEF Working, One
    <3>2. CASE hpc \notin {"post", "sleep", "reply"}
      <4>1. {hpc} \cap {"post", "sleep", "reply"} = {}
        BY <3>2
      <4> QED
        BY <3>2, <4>1, FS_EmptySet DEF Working, One
    <3> QED
      BY <3>1, <3>2
  <2>5. PICK held \in Nat : held = One(inb.msg # NoMessage)
    BY Ones
  <2>6. Open = Requests + Working + Len(toCart) + held
    BY <2>5 DEF Open
  <2>7. Len(toCart) + held + Working <= 1 + Cardinality(orphans)
    BY <2>1, <2>2, <2>6
  <2> QED
    BY <2>3, <2>4, <2>5, <2>7 DEF AnswersBounded
<1>2. TypeOK /\ OwnInv /\ CountInv /\ [Next]_vars => OwnInv' /\ CountInv'
  BY CountStep, OwnStep DEF Assumed
<1> QED
  BY <1>1, <1>2, CountInit, TypeCorrect, PTL DEF Spec

-----------------------------------------------------------------------------
(* Posts are new.                                                          *)

(* A request that the server has had is nowhere on its way to the PC.      *)
FreshInv ==
  orphans = {} =>
    /\ \A m \in served : m.id <= calls
    /\ cur # NoMessage /\ cur \in served =>
         /\ drv \in {"poll", "rwait", "rread"}
         /\ cmd.type \notin Answered /\ out.msg.type \notin Answered
         /\ NoRequest

LEMMA FreshStep ==
  ASSUME Assumed, TypeOK, IInv, OwnInv, FreshInv, [Next]_vars
  PROVE  FreshInv'
<1> USE Magic
<1> SUFFICES ASSUME orphans' = {} PROVE FreshInv'
  BY DEF FreshInv
<1>0. orphans = {} /\ CleanInv
  <2>1. orphans \subseteq orphans'
    BY DEF Next, LibraryCalls, DriverRuns, CartRuns, HostRuns, linkVars, Reset, vars
  <2> QED
    BY <2>1 DEF IInv
<1>1. /\ \A m \in served : m.id <= calls
      /\ cur # NoMessage /\ cur \in served =>
           /\ drv \in {"poll", "rwait", "rread"}
           /\ cmd.type \notin Answered /\ out.msg.type \notin Answered
           /\ NoRequest
  BY <1>0 DEF FreshInv
<1>2. calls \in Nat /\ toHost \in Seq(Packet)
  BY MaxCallsAssumption DEF TypeOK, DrvTypeOK, CartTypeOK
<1>3. CASE LibraryCalls
  <2>1. PICK type : cur' = Request(type, calls + 1) /\ calls' = calls + 1
    BY <1>3 DEF LibraryCalls, Call, DisplayMessage, PostCall, UserDataCall, BeginCall
  <2>2. UNCHANGED served
    BY <1>3 DEF LibraryCalls, hostVars
  <2>3. \A m \in served : m.id \in Nat /\ m.id < calls + 1
    BY <1>1, <1>2, MessageFacts DEF TypeOK, HostTypeOK
  <2>4. cur' \notin served'
    <3>1. cur'.id = calls + 1
      BY <2>1 DEF Request
    <3> QED
      BY <1>2, <2>2, <2>3, <3>1
  <2>5. \A m \in served' : m.id <= calls'
    BY <1>2, <2>1, <2>2, <2>3
  <2> QED
    BY <2>4, <2>5 DEF FreshInv
<1>4. CASE DriverRuns
  <2>1. UNCHANGED <<served, calls, out, toHost>>
    BY <1>4 DEF DriverRuns, hostVars, DriverStep, TransmitWait, BramWrite, StartTransmission,
       ReceivePoll, ReceiveWait, BramRead, ReturnWith, cartVars
  <2>2. \/ drv \in {"twait", "twrite", "tstart"} /\ cur' \in {cur, NoMessage} /\ drv # "idle"
        \/ cur' = NoMessage
        \/ drv' \in {"rwait", "rread"} /\ UNCHANGED <<cmd, cur>>
    BY <1>4 DEF DriverRuns, DriverStep, TransmitWait, BramWrite, StartTransmission,
       ReceivePoll, ReceiveWait, BramRead, ReturnWith, cartVars
  <2> QED
    BY <1>1, <2>1, <2>2 DEF FreshInv, NoRequest, Answered, NETWORK_POST, REQUEST_USER_INFO,
       NoMessage
<1>5. CASE CartRuns
  <2>1. UNCHANGED <<served, calls, cur, drv>>
    BY <1>5 DEF CartRuns, hostVars, drvVars
  <2>2. ASSUME cmd.type \notin Answered, out.msg.type \notin Answered, NoRequest
        PROVE  cmd'.type \notin Answered /\ out'.msg.type \notin Answered /\ NoRequest'
    <3>1. CASE AcceptCommand
      BY <2>2, <3>1 DEF AcceptCommand, NoRequest
    <3>2. CASE FetchWord
      BY <2>2, <3>2 DEF FetchWord, NoRequest
    <3>3. CASE SendPacket
      <4>. PICK p : p = [type |-> out.msg.type, src  |-> out.src \cup {bram[LastWord]}]
        OBVIOUS
      <4>1. toHost' = Append(toHost, p) /\ out' = OutIdle /\ UNCHANGED cmd
        BY <3>3 DEF SendPacket
      <4>2. p.type \notin Answered
        BY <2>2
      <4>3. NoRequest'
        <5> SUFFICES ASSUME NEW i \in 1 .. Len(toHost') PROVE toHost'[i].type \notin Answered
          BY DEF NoRequest, Answered, NETWORK_POST, REQUEST_USER_INFO
        <5>1. /\ Len(toHost') = Len(toHost) + 1
              /\ \A k \in 1 .. Len(toHost) : toHost'[k] = toHost[k]
              /\ toHost'[Len(toHost) + 1] = p
          BY <1>2, <4>1, Appended
        <5>2. i \in 1 .. Len(toHost) \/ i = Len(toHost) + 1
          BY <1>2, <5>1
        <5> QED
          BY <2>2, <4>2, <5>1, <5>2 DEF NoRequest
      <4> QED
        BY <2>2, <4>1, <4>3 DEF OutIdle
    <3>4. CASE AcceptReply \/ StoreWord
      BY <2>2, <3>4 DEF AcceptReply, StoreWord, NoRequest
    <3> QED
      BY <1>5, <3>1, <3>2, <3>3, <3>4 DEF CartRuns, CartStep
  <2> QED
    BY <1>1, <2>1, <2>2 DEF FreshInv, Answered, NETWORK_POST, REQUEST_USER_INFO, NoMessage
<1>6. CASE HostRuns
  <2>1. UNCHANGED <<calls, cur, drv, cmd, out>>
    BY <1>6 DEF HostRuns, drvVars, HostStep, HostProgress, HostFault, HostStart, HostRead,
       ServerHandles, WriteCallback, CurlOk, CurlTransient, Retry, CurlFail, AuxWrite,
       AuxWriteFails, HostCrash, cartVars
  <2>2. NoRequest => NoRequest'
    <3>1. toHost' \in {toHost, << >>} \/ (toHost # << >> /\ toHost' = Tail(toHost))
      BY <1>6 DEF HostRuns, HostStep, HostProgress, HostFault, HostStart, HostRead,
         ServerHandles, WriteCallback, CurlOk, CurlTransient, Retry, CurlFail, AuxWrite,
         AuxWriteFails, HostCrash, cartVars
    <3>2. CASE toHost' \in {toHost, << >>}
      BY <3>2 DEF NoRequest, Answered, NETWORK_POST, REQUEST_USER_INFO
    <3>3. CASE toHost # << >> /\ toHost' = Tail(toHost)
      <4>1. /\ Len(toHost) \in Nat \ {0} /\ Len(toHost') = Len(toHost) - 1
            /\ \A i \in 1 .. Len(toHost) - 1 : toHost'[i] = toHost[i + 1]
        BY <1>2, <3>3, Taken
      <4>2. ASSUME NoRequest, NEW i \in 1 .. Len(toHost') PROVE toHost'[i].type \notin Answered
        <5>1. i \in 1 .. Len(toHost) - 1 /\ i + 1 \in 1 .. Len(toHost)
          BY <4>1
        <5> QED
          BY <4>1, <4>2, <5>1 DEF NoRequest
      <4> QED
        BY <4>2 DEF NoRequest, Answered, NETWORK_POST, REQUEST_USER_INFO
    <3> QED
      BY <3>1, <3>2, <3>3
  <2>3. CASE ServerHandles
    <3>1. /\ drv = "poll" /\ hpkt = PacketOf(cur) /\ SendIdle /\ toHost = << >>
      BY <1>0, <2>3 DEF ServerHandles, CleanInv, HostInv, HostIdle
    <3>2. served' = served \cup {cur} /\ UNCHANGED toHost
      BY <2>3, <3>1, ContentOf DEF ServerHandles, cartVars
    <3>3. cur.id = calls
      BY <3>1 DEF OwnInv
    <3>4. \A m \in served' : m.id <= calls
      BY <1>1, <1>2, <3>2, <3>3
    <3>5. cmd.type \notin Answered /\ out.msg.type \notin Answered /\ NoRequest
      BY <3>1 DEF SendIdle, OutIdle, NoRequest
    <3> QED
      BY <2>1, <2>2, <3>1, <3>4, <3>5 DEF FreshInv, Answered, NETWORK_POST, REQUEST_USER_INFO
  <2>4. CASE ~ServerHandles
    <3>1. UNCHANGED served
      BY <1>6, <2>4 DEF HostRuns, HostStep, HostProgress, HostFault, HostStart, HostRead,
         WriteCallback, CurlOk, CurlTransient, Retry, CurlFail, AuxWrite, AuxWriteFails,
         HostCrash, BackToRead
    <3> QED
      BY <1>1, <2>1, <2>2, <3>1 DEF FreshInv, Answered, NETWORK_POST, REQUEST_USER_INFO,
         NoMessage
  <2> QED
    BY <2>3, <2>4
<1>7. CASE Reset
  BY <1>1, <1>7 DEF Reset, hostVars, FreshInv
<1>8. CASE UNCHANGED vars
  BY <1>1, <1>8 DEF vars, cartVars, drvVars, hostVars, FreshInv, NoRequest, Answered,
     NETWORK_POST, REQUEST_USER_INFO, NoMessage
<1> QED
  BY <1>3, <1>4, <1>5, <1>6, <1>7, <1>8 DEF Next

(* The PC never finds a post a second time that the server has handled     *)
(* before, as long as no reset has left a request unanswered: the server is*)
(* given a post again only by the loop of network_post.                    *)
THEOREM PostedOnceCorrect ==
  ASSUME Assumed
  PROVE  Spec => PostedOnce
<1>1. Init => FreshInv
  BY DEF Init, HostInit, DrvInit, FreshInv
<1>2. TypeOK /\ IInv /\ OwnInv /\ FreshInv /\ [Next]_vars => FreshInv'
  BY FreshStep
<1>3. ASSUME TypeOK, IInv, FreshInv, [Next]_vars, orphans = {}, hpc = "read", hpc' = "post"
      PROVE  Content(hpkt') \notin served
  <2>1. HostRead
    BY <1>3 DEF Next, vars, LibraryCalls, DriverRuns, CartRuns, HostRuns, Reset, hostVars,
       HostStep, HostProgress, HostFault, HostStart, ServerHandles, WriteCallback, CurlOk,
       CurlTransient, Retry, CurlFail, AuxWrite, AuxWriteFails, HostCrash, BackToRead
  <2>2. toHost # << >> /\ Head(toHost).type = NETWORK_POST /\ hpkt' = Head(toHost)
    BY <1>3, <2>1 DEF HostRead
  <2>3. Len(toHost) \in Nat \ {0} /\ Head(toHost) = toHost[1]
    BY <1>3, <2>2, Taken DEF TypeOK, CartTypeOK
  <2>4. 1 \in 1 .. Len(toHost) /\ toHost[1].type \in Answered
    BY <2>2, <2>3 DEF Answered
  <2>5. drv = "poll" /\ toHost[1] = PacketOf(cur)
    BY <1>3, <2>4 DEF IInv, CleanInv, PipeInv
  <2>6. Content(hpkt') = cur
    BY <2>2, <2>3, <2>5, ContentOf
  <2>7. cur # NoMessage
    BY <1>3, <2>5 DEF IInv, CleanInv, CallInv
  <2>8. ~NoRequest
    BY <2>4 DEF NoRequest
  <2> QED
    BY <1>3, <2>6, <2>7, <2>8 DEF FreshInv
<1>4. TypeOK /\ IInv /\ FreshInv /\ [Next]_vars =>
        [orphans = {} /\ hpc = "read" /\ hpc' = "post" => Content(hpkt') \notin served]_vars
  BY <1>3
<1>5. Spec => []OwnInv
  BY OwnCorrect DEF Assumed
<1> QED
  BY <1>1, <1>2, <1>4, <1>5, InvCorrect, TypeCorrect, PTL DEF Spec, PostedOnce
=============================================================================
