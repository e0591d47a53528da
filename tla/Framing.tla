------------------------------ MODULE Framing -------------------------------
(***************************************************************************)
(* The lengths of messages, which module Link leaves out: the text that    *)
(* the payload puts into a buffer of 512 bytes, the 20 bytes in front of it*)
(* on the stream to the PC, the reads of 512 bytes in host/main.c, the     *)
(* frame of aux_write, and the copy into the buffer of the caller.         *)
(*                                                                         *)
(* The stream to the PC is a queue of messages; a read takes bytes from    *)
(* its front.  Writes and reads of the cartridge's buffer do not interleave*)
(* here, and the HTTP request of a call's post succeeds at once: see Link  *)
(* for both.  A post that no call has made may do anything.                *)
(***************************************************************************)
EXTENDS Wire, Sequences, FiniteSets, FiniteSetsExt

CONSTANTS
  MaxCalls,      (* bound on the calls the library makes                   *)
  TextSizes,     (* sizes of the texts it passes, the final zero included  *)
  AnswerSizes,   (* sizes of the server's responses, with their zero       *)
  Configs,       (* the contents of login.txt: sizes of its four values    *)
  Merges         (* TRUE if one read of the PC may return the bytes of     *)
                 (* more than one message, FALSE if not, or both to        *)
                 (* explore either (external: the USB bridge)              *)

Config == [username : 0 .. 255, password : 0 .. 255, token_clint : 0 .. 255,
           language : 0 .. 15]

-----------------------------------------------------------------------------
(* The buffers.                                                            *)

(* send_buffer of a post and buffer of a message: snprintf cuts the text.  *)
SEND_BUFFER == 512

(* recv_buffer of a post, and the buffer of cln_abi_user_data.             *)
RecvRoom(request) == IF request.type = NETWORK_POST THEN 512 ELSE 256

(* In front of a text: "PKTU" and a length, the datatype and a length (4   *)
(* bytes), the magic and the length.  The datatype is the ninth byte.      *)
HEADER == 20

(* A faulty ReadRoom: the buffer of main as large as a text, no more.      *)
ReadRoomSmall == 512 - 2 - HEADER

(* A read of main: the USB bridge puts two bytes of its own in front.      *)
ReadRoom == 512 - 2

(* A read has the datatype in it if it returns more bytes than these.      *)
TO_DATATYPE == 8

(* cmd_packet_t.data, less the magic and the length.                       *)
REPLY_TEXT == 496 - 8

(* The answer to REQUEST_USER_INFO: the password if there is one.          *)
UserInfoSize(c) ==
  IF c.password = 0
  THEN 46 + c.username + c.token_clint + c.language + 1
  ELSE 43 + c.username + c.password + c.language + 1

(* cl64_get_user_config succeeds.                                          *)
Accepted(c) == c.username > 0 /\ (c.password > 0 \/ c.token_clint > 0)

(* memcpy in aux_write has no bound: larger answers are outside the model. *)
ASSUME FramingAssumption ==
  /\ MaxCalls \in Nat
  /\ TextSizes \subseteq Nat \ {0}
  /\ AnswerSizes \subseteq 1 .. REPLY_TEXT
  /\ Configs \subseteq Config
  /\ \A c \in Configs : UserInfoSize(c) <= REPLY_TEXT
  /\ Merges \subseteq BOOLEAN

VARIABLES
  pending,   (* the request that cl64_usb_receive polls for, or NoMessage  *)
  calls,     (* history: calls made so far, the ids of messages            *)
  stream,    (* messages on their way to the PC                            *)
  off,       (* bytes of the first of them that the PC has read already    *)
  hpc,       (* where the PC program is                                    *)
  hreq,      (* the request it works on, its size, how much is in buffer,  *)
             (* and whether curl has read past the end of the buffer       *)
  config,    (* cl64_user_config                                           *)
  merges,    (* how the USB bridge is, one of Merges                       *)
  reply,     (* the PC's message in the cartridge's buffer, or NoReply     *)
  recv,      (* the last receive                                           *)
  served,    (* history: the posts that the server has had                 *)
  long,      (* history: a text has gone out of which a second read of the *)
             (* PC gets more bytes than TO_DATATYPE                        *)
  misread    (* history: the PC has worked on what is no request           *)

fixed == <<config, merges>>
vars == <<pending, calls, stream, off, hpc, hreq, fixed, reply, recv, served,
          long, misread>>
hostVars == <<off, hpc, hreq, fixed, served, misread>>

NoReply == [msg |-> NoMessage, size |-> 0]
NoWork  == [msg |-> NoMessage, size |-> 0, got |-> 0, past |-> FALSE]
NoRecv  == [req |-> NoMessage, msg |-> NoMessage, size |-> 0, written |-> 0]

TypeOK ==
  /\ pending \in Message
  /\ calls \in 0 .. MaxCalls
  /\ stream \in Seq([msg : Message, size : TextSizes \cup {0},
                      sent : 0 .. SEND_BUFFER])
  /\ off \in Nat
  /\ hpc \in {"down", "read", "post", "reply"}
  /\ hreq \in [msg : Message, size : TextSizes \cup {0}, got : Nat,
               past : BOOLEAN]
  /\ config \in Configs
  /\ merges \in Merges
  /\ reply \in [msg : Message, size : 0 .. REPLY_TEXT]
  /\ recv \in [req : Message, msg : Message, size : Nat, written : Nat]
  /\ served \in SUBSET Message
  /\ long \in BOOLEAN
  /\ misread \in BOOLEAN

Init ==
  /\ pending = NoMessage
  /\ calls = 0
  /\ stream = << >>
  /\ off = 0
  /\ hpc = "down"
  /\ hreq = NoWork
  /\ config \in Configs
  /\ merges \in Merges
  /\ reply = NoReply
  /\ recv = NoRecv
  /\ served = {}
  /\ long = FALSE
  /\ misread = FALSE

-----------------------------------------------------------------------------
(* The payload.                                                            *)

(* The bytes of a text that do not fit into the first read of the PC.      *)
Rest(sent) == HEADER + sent - ReadRoom

(* sent bytes go out for a text of that size; what was in the cartridge's  *)
(* buffer is gone.                                                         *)
Send(type, size, sent) ==
  /\ pending = NoMessage
  /\ calls < MaxCalls
  /\ calls' = calls + 1
  /\ stream' = Append(stream, [msg  |-> Request(type, calls + 1),
                               size |-> size, sent |-> sent])
  /\ long' = (long \/ Rest(sent) > TO_DATATYPE)
  /\ reply' = NoReply
  /\ UNCHANGED <<hostVars, recv>>

(* A faulty Transmit: snprintf without the size of the buffer.             *)
TransmitUncut(type, size) == Send(type, size, size)

(* A text goes out cut to the buffer.                                      *)
Transmit(type, size) == Send(type, size, Min({size, SEND_BUFFER}))

DisplayMessage ==
  \E level \in Levels, size \in TextSizes :
    Transmit(MESSAGE_DEBUG + level, size) /\ UNCHANGED pending

PostCall ==
  \E size \in TextSizes :
    /\ Transmit(NETWORK_POST, size)
    /\ pending' = Request(NETWORK_POST, calls + 1)

UserDataCall ==
  /\ Transmit(REQUEST_USER_INFO, 0)
  /\ pending' = Request(REQUEST_USER_INFO, calls + 1)

(* cl64_bram_write and cl64_bram_read move whole words.                    *)
Padded(size) == 4 * ((size + 3) \div 4)

(* A faulty Copied: the length in the cartridge's buffer alone counts.     *)
CopiedAll(room, size) == Padded(size)

(* What cl64_bram_read writes into the caller's buffer.                    *)
Copied(room, size) == Padded(Min({room, size}))

Receive ==
  /\ pending # NoMessage
  /\ reply.msg.magic = PC_TO_N64
  /\ recv' = [req     |-> pending,
              msg     |-> reply.msg,
              size    |-> reply.size,
              written |-> Copied(RecvRoom(pending), reply.size)]
  /\ pending' = NoMessage
  /\ UNCHANGED <<hostVars, calls, stream, reply, long>>

-----------------------------------------------------------------------------
(* The stream to the PC.                                                   *)

(* The bytes from the front of the stream to the end of its k-th message.  *)
Upto(k) ==
  LET bytes[i \in 0 .. k] ==
        IF i = 0 THEN 0 ELSE bytes[i - 1] + HEADER + stream[i].sent
  IN  bytes[k] - off

(* The number of bytes that a read may return.                             *)
ReadSizes ==
  {Min({ReadRoom, Upto(k)}) : k \in IF merges THEN DOMAIN stream ELSE {1}}

(* A faulty Consume: in the next message as far as in this one.            *)
ConsumeNoReset(n) ==
  LET k == Cardinality({i \in DOMAIN stream : Upto(i) <= n})
  IN  /\ stream' = SubSeq(stream, k + 1, Len(stream))
      /\ off' = IF k = 0 THEN off + n ELSE off

(* n bytes are gone from the stream.                                       *)
Consume(n) ==
  LET read == {k \in DOMAIN stream : Upto(k) <= n}
      k    == Cardinality(read)
  IN  /\ stream' = SubSeq(stream, k + 1, Len(stream))
      /\ off' = IF k = 0 THEN off + n ELSE n - Upto(k)

-----------------------------------------------------------------------------
(* The PC program.                                                         *)

HostStart ==
  /\ hpc = "down"
  /\ Accepted(config)
  /\ hpc' = "read"
  /\ UNCHANGED <<pending, calls, stream, off, hreq, fixed, reply, recv,
                 served, long, misread>>

(* What a datatype calls for, with a text of which got bytes are there.    *)
Dispatch(msg, size, got) ==
  IF msg.type \in Answered
  THEN /\ hreq' = [NoWork EXCEPT !.msg = msg, !.size = size, !.got = got]
       /\ hpc' = IF msg.type = NETWORK_POST THEN "post" ELSE "reply"
  ELSE UNCHANGED <<hreq, hpc>>

(* What the PC takes for a message that nobody has sent.                   *)
Stray(type) == [NoMessage EXCEPT !.type = type]

(* A read that starts with a message: of the texts of others that follow in*)
(* it nothing is looked at.                                                *)
ReadMessage(n) ==
  LET first == Head(stream)
  IN  /\ off = 0
      /\ Dispatch(first.msg, first.size, Min({first.sent, n - HEADER}))
      /\ UNCHANGED misread

(* A faulty ReadRest: the length of the read is not looked at, so that what*)
(* the last one has left in the buffer may count.                          *)
ReadRestAny(n) ==
  /\ off > 0
  /\ \E byte \in Answered \cup {MESSAGE_DEBUG} :
       /\ Dispatch(Stray(byte), 0, 0)
       /\ misread' = (misread \/ byte \in Answered)

(* One that starts inside a message: its ninth byte, a character, a length *)
(* or whatever it is, counts as a datatype.                                *)
ReadRest(n) ==
  /\ off > 0
  /\ n > TO_DATATYPE
  /\ \E byte \in Answered \cup {MESSAGE_DEBUG} :
       /\ Dispatch(Stray(byte), 0, 0)
       /\ misread' = (misread \/ byte \in Answered)

(* One that is too short for a datatype.                                   *)
ReadShort(n) ==
  /\ off > 0
  /\ n <= TO_DATATYPE
  /\ UNCHANGED <<hreq, hpc, misread>>

(* A faulty HostRead: a post is answered before the server has it.         *)
HostReadAnswers ==
  /\ hpc = "read"
  /\ stream # << >>
  /\ \E n \in ReadSizes :
       /\ Consume(n)
       /\ IF off = 0 /\ Head(stream).msg.type \in Answered
          THEN /\ hreq' = [NoWork EXCEPT !.msg = Head(stream).msg]
               /\ hpc' = "reply"
          ELSE UNCHANGED <<hreq, hpc>>
  /\ UNCHANGED <<pending, calls, fixed, reply, recv, served, long, misread>>

HostRead ==
  /\ hpc = "read"
  /\ stream # << >>
  /\ \E n \in ReadSizes :
       Consume(n) /\ (ReadMessage(n) \/ ReadRest(n) \/ ReadShort(n))
  /\ UNCHANGED <<pending, calls, fixed, reply, recv, served, long>>

(* The server handles the post of a call: the text up to the first zero.   *)
(* One that was cut has none, and curl reads on behind main's buffer until *)
(* it finds one there: what the server gets then is undefined.             *)
ServerHandles ==
  /\ hpc = "post"
  /\ hreq.msg.magic = N64_TO_PC
  /\ served' = served \cup {hreq.msg}
  /\ hpc' = "reply"
  /\ \E past \in IF hreq.got < hreq.size THEN BOOLEAN ELSE {FALSE} :
       hreq' = [hreq EXCEPT !.past = past]
  /\ UNCHANGED <<pending, calls, stream, off, fixed, reply, recv, long,
                 misread>>

(* A post that no call has made: curl gives up, or gets a response, or     *)
(* tries for ever, and nobody owes a step.                                 *)
StrayPost ==
  /\ hpc = "post"
  /\ hreq.msg.magic # N64_TO_PC
  /\ hpc' \in {"read", "reply"}
  /\ UNCHANGED <<pending, calls, stream, off, hreq, fixed, reply, recv,
                 served, long, misread>>

AuxWrite ==
  /\ hpc = "reply"
  /\ \E size \in IF hreq.msg.type = NETWORK_POST
                 THEN AnswerSizes ELSE {UserInfoSize(config)} :
       reply' = [msg |-> ReplyTo(hreq.msg), size |-> size]
  /\ hpc' = "read"
  /\ hreq' = NoWork
  /\ UNCHANGED <<pending, calls, stream, off, fixed, recv, served, long,
                 misread>>

Next == DisplayMessage \/ PostCall \/ UserDataCall \/ Receive
          \/ HostStart \/ HostRead \/ ServerHandles \/ StrayPost
          \/ AuxWrite

Spec == Init /\ [][Next]_vars

(* The payload polls for ever, and the PC program is a process of a fair   *)
(* scheduler that finds login.txt in order; nobody owes a call.            *)
FairSpec ==
  /\ Spec
  /\ WF_vars(Receive)
  /\ WF_vars(HostStart) /\ WF_vars(HostRead)
  /\ WF_vars(ServerHandles) /\ WF_vars(AuxWrite)

-----------------------------------------------------------------------------
(* The text of a post that the PC has in its buffer for curl is the        *)
(* library's, with its zero, if it has no more than 490 bytes; of a longer *)
(* one it is the first 490 bytes, without a zero, and only then does curl  *)
(* read past the buffer.  Nothing is in it of a message that came with it. *)
TextsArrive ==
  /\ hpc = "post" => hreq.got = Min({hreq.size, 490})
  /\ hreq.past => hreq.size > 490

(* Whole words are moved, but never past a buffer: not what cl64_bram_write*)
(* takes of a text, and not what cl64_bram_read gives the caller, whatever *)
(* the size of the answer.                                                 *)
WordsFit ==
  /\ \A i \in DOMAIN stream : Padded(stream[i].sent) <= SEND_BUFFER
  /\ recv.written <= RecvRoom(recv.req)

(* The user's data fit the 256 bytes on the N64.                           *)
ConfigFits ==
  config.username + config.language
    + (IF config.password = 0 THEN config.token_clint + 3 ELSE config.password)
    <= 212

(* The PC works only on requests that a call has made, unless reads merge  *)
(* messages or a text has more than 498 bytes: then a byte of it may be    *)
(* taken for a datatype.                                                   *)
DispatchTrue == misread => merges \/ long

(* The request of a call is never lost, as long as a read returns one      *)
(* message and no byte is taken for a datatype: it is on the stream with   *)
(* its datatype still to be dispatched on, or the PC works on it, or its   *)
(* answer is in the cartridge's buffer, also when messages before it are   *)
(* too long for one read.                                                  *)
RequestKept ==
  pending # NoMessage /\ ~merges /\ ~misread =>
    \/ \E i \in DOMAIN stream :
         (i > 1 \/ off = 0) /\ stream[i].msg = pending
    \/ hpc \in {"post", "reply"} /\ hreq.msg = pending
    \/ reply.msg = ReplyTo(pending)

(* A call that waits for an answer gets it and returns, as long as a read  *)
(* returns one message, no byte of a text is taken for a datatype and, as  *)
(* assumed here, the HTTP request succeeds.                                *)
CallReturns ==
  pending # NoMessage /\ Accepted(config) /\ ~merges
    ~> pending = NoMessage \/ misread

(* The abstract call of module Rpc: an answer is whole if no byte of it is *)
(* missing.                                                                *)
R == INSTANCE Rpc WITH
       last <- [req |-> recv.req,
                src |-> IF recv.req = NoMessage THEN {}
                        ELSE IF recv.size <= RecvRoom(recv.req) THEN {recv.msg}
                        ELSE {recv.msg, NoMessage}]

(* With a login.txt that fits, the payload and the PC implement the        *)
(* abstract call, to the last byte of the answer, until a byte is taken for*)
(* a datatype.  Reads may merge: a request may then be lost, but gets no   *)
(* answer that is another's.                                               *)
ImplementsRpc ==
  R!Init /\ [][ConfigFits /\ ~misread' => R!Next]_(R!vars)
=============================================================================
