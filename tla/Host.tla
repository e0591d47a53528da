-------------------------------- MODULE Host --------------------------------
(***************************************************************************)
(* The PC program, host/main.c: a loop that reads a packet from the USB    *)
(* endpoint, dispatches on its datatype, and for a network post performs   *)
(* an HTTP request through libcurl and writes the response back.           *)
(*                                                                         *)
(* A response is the sequence of the chunks that write_callback appended;  *)
(* the server's whole answer is Body.                                      *)
(***************************************************************************)
EXTENDS SummerCart

CONSTANTS
  BodyChunks,   (* chunks libcurl delivers of one response                 *)
  Faults        (* the failures this instance meets: see FaultKinds        *)

(* "transient": libcurl times out or cannot reach the server;              *)
(* "curl":      any other libcurl error;                                   *)
(* "usb":       a bulk transfer to the cartridge fails;                    *)
(* "crash":     the program stops and is started again;                    *)
(* "flush":     the reset of the device when it starts drops packets.      *)
(* A post that is not one whole message (Garbled) may meet the first two   *)
(* in every instance: the text that curl takes for a URL is no URL, or     *)
(* names a server that does not exist.                                     *)
FaultKinds == {"transient", "curl", "usb", "crash", "flush"}

ASSUME HostAssumption == BodyChunks \in Nat /\ Faults \subseteq FaultKinds

VARIABLES
  hpc,        (* where the program is                                      *)
  hpkt,       (* the packet in its buffer                                  *)
  nxt,        (* the attempt: 0 before the server has the request, then    *)
              (* the number of the chunk that comes next                   *)
  response,   (* the chunks in the response buffer                         *)
  served,     (* history: requests the server has handled                  *)
  mixed       (* history: a post came that is not one whole message        *)

hostVars == <<hpc, hpkt, nxt, response, served, mixed>>

HostStates == {"down", "read", "post", "sleep", "reply"}

NoPacket == [type |-> 0, src |-> {}]

Body == [k \in 1 .. BodyChunks |-> k]

HostTypeOK ==
  /\ hpc \in HostStates
  /\ hpkt \in Packet
  /\ nxt \in 0 .. BodyChunks + 1
  /\ response \in Seq(1 .. BodyChunks)
  /\ served \in SUBSET Message
  /\ mixed \in BOOLEAN

HostInit ==
  /\ hpc = "down"
  /\ hpkt = NoPacket
  /\ nxt = 0
  /\ response = << >>
  /\ served = {}
  /\ mixed = FALSE

(* The message that the packet's bytes are, if they are one message.       *)
Content(packet) ==
  IF \E m \in packet.src : packet.src = {m}
  THEN CHOOSE m \in packet.src : packet.src = {m}
  ELSE NoMessage

(* A post whose bytes are no post, or no one post: the text that its       *)
(* network_post parses is in part an answer that was stored over it.       *)
Garbled(packet) ==
  /\ packet.type = NETWORK_POST
  /\ \/ Content(packet).magic # N64_TO_PC
     \/ Content(packet).type # NETWORK_POST

(* What aux_write sends: the response to the message in the buffer, if it  *)
(* holds one whole response, and else the same frame with other bytes.     *)
AnswerOf(packet, body) ==
  IF body = Body /\ Content(packet).type = packet.type
  THEN ReplyTo(Content(packet))
  ELSE [magic |-> PC_TO_N64, type |-> packet.type, id |-> 0]

-----------------------------------------------------------------------------
(* libusb_reset_device may drop what is on its way, in either direction.   *)
HostStart ==
  /\ hpc = "down"
  /\ hpc' = "read"
  /\ toHost' \in {toHost} \cup (IF "flush" \in Faults THEN {<< >>} ELSE {})
  /\ toCart' \in {toCart} \cup (IF "flush" \in Faults THEN {<< >>} ELSE {})
  /\ UNCHANGED <<hpkt, nxt, response, served, mixed>>
  /\ UNCHANGED <<bram, cmd, out, inb>>

(* Faulty forms of HostRead: a packet is dispatched on again when the next *)
(* read fails; the user's data is not sent back.                           *)
HostReadAgain ==
  /\ hpc = "read"
  /\ toHost # << >>
  /\ toHost' \in {toHost, Tail(toHost)}
  /\ IF Head(toHost).type \in Answered
     THEN /\ hpc' = IF Head(toHost).type = NETWORK_POST THEN "post" ELSE "reply"
          /\ hpkt' = Head(toHost)
          /\ response' = IF hpc' = "post" THEN << >> ELSE Body
     ELSE UNCHANGED <<hpc, hpkt, response>>
  /\ mixed' = (mixed \/ Garbled(Head(toHost)))
  /\ UNCHANGED <<nxt, served>>
  /\ UNCHANGED <<bram, cmd, out, inb, toCart>>

HostReadNoUserInfo ==
  /\ hpc = "read"
  /\ toHost # << >>
  /\ toHost' = Tail(toHost)
  /\ IF Head(toHost).type = NETWORK_POST
     THEN hpc' = "post" /\ hpkt' = Head(toHost) /\ response' = << >>
     ELSE UNCHANGED <<hpc, hpkt, response>>
  /\ mixed' = (mixed \/ Garbled(Head(toHost)))
  /\ UNCHANGED <<nxt, served>>
  /\ UNCHANGED <<bram, cmd, out, inb, toCart>>

(* One turn of the loop of main: read a packet and dispatch on its type.   *)
HostRead ==
  /\ hpc = "read"
  /\ toHost # << >>
  /\ toHost' = Tail(toHost)
  /\ \/ /\ Head(toHost).type = NETWORK_POST
        /\ hpc' = "post"
        /\ hpkt' = Head(toHost)
        /\ response' = << >>
     \/ /\ Head(toHost).type = REQUEST_USER_INFO
        /\ hpc' = "reply"
        /\ hpkt' = Head(toHost)
        /\ response' = Body
     \/ /\ Head(toHost).type \notin Answered
        /\ UNCHANGED <<hpc, hpkt, response>>
  /\ mixed' = (mixed \/ Garbled(Head(toHost)))
  /\ UNCHANGED <<nxt, served>>
  /\ UNCHANGED <<bram, cmd, out, inb, toCart>>

(* curl_easy_perform, step by step: the server handles the request, and    *)
(* libcurl calls write_callback for each chunk of the response.  (A garbled*)
(* post may find a server too: whose, and what it answers, nobody knows.)  *)
ServerHandles ==
  /\ hpc = "post"
  /\ nxt = 0
  /\ served' = served \cup {Content(hpkt)}
  /\ nxt' = 1
  /\ UNCHANGED <<hpc, hpkt, response, mixed>>
  /\ UNCHANGED cartVars

WriteCallback ==
  /\ hpc = "post"
  /\ nxt \in 1 .. BodyChunks
  /\ response' = Append(response, nxt)
  /\ nxt' = nxt + 1
  /\ UNCHANGED <<hpc, hpkt, served, mixed>>
  /\ UNCHANGED cartVars

(* A faulty CurlOk: a response that is cut short passes for a whole one.   *)
CurlOkEarly ==
  /\ hpc = "post"
  /\ nxt > 0
  /\ hpc' = "reply"
  /\ nxt' = 0
  /\ UNCHANGED <<hpkt, response, served, mixed>>
  /\ UNCHANGED cartVars

CurlOk ==
  /\ hpc = "post"
  /\ nxt = BodyChunks + 1
  /\ hpc' = "reply"
  /\ nxt' = 0
  /\ UNCHANGED <<hpkt, response, served, mixed>>
  /\ UNCHANGED cartVars

(* A faulty CurlTransient: no retry.                                       *)
CurlTransientGivesUp ==
  /\ "transient" \in Faults
  /\ hpc = "post"
  /\ hpc' = "read"
  /\ hpkt' = NoPacket
  /\ nxt' = 0
  /\ response' = << >>
  /\ UNCHANGED <<served, mixed>>
  /\ UNCHANGED cartVars

(* A timeout, before or after the server has handled the request; or       *)
(* COULDNT_RESOLVE_HOST, which a URL that names no server gets every time. *)
CurlTransient ==
  /\ "transient" \in Faults \/ Garbled(hpkt)
  /\ hpc = "post"
  /\ hpc' = "sleep"
  /\ UNCHANGED <<hpkt, nxt, response, served, mixed>>
  /\ UNCHANGED cartVars

(* A faulty Retry: the response keeps the chunks of the last attempt.      *)
RetryAppends ==
  /\ hpc = "sleep"
  /\ hpc' = "post"
  /\ nxt' = 0
  /\ UNCHANGED <<hpkt, response, served, mixed>>
  /\ UNCHANGED cartVars

Retry ==
  /\ hpc = "sleep"
  /\ hpc' = "post"
  /\ nxt' = 0
  /\ response' = << >>
  /\ UNCHANGED <<hpkt, served, mixed>>
  /\ UNCHANGED cartVars

(* Back to the loop of main; the locals of the case are gone.              *)
BackToRead ==
  /\ hpc' = "read"
  /\ hpkt' = NoPacket
  /\ nxt' = 0
  /\ response' = << >>
  /\ UNCHANGED <<served, mixed>>

(* Any other error, a malformed URL for one, ends network_post without a   *)
(* word to the N64.                                                        *)
CurlFail ==
  /\ "curl" \in Faults \/ Garbled(hpkt)
  /\ hpc = "post"
  /\ BackToRead
  /\ UNCHANGED cartVars

AuxWrite ==
  /\ hpc = "reply"
  /\ toCart' = Append(toCart, AnswerOf(hpkt, response))
  /\ BackToRead
  /\ UNCHANGED <<bram, cmd, out, inb, toHost>>

(* aux_write returns an error, which both of its callers ignore.  (Part of *)
(* a transfer is taken for none: what the cartridge does with part of a    *)
(* command is not in the repository.)                                      *)
AuxWriteFails ==
  /\ "usb" \in Faults
  /\ hpc = "reply"
  /\ BackToRead
  /\ UNCHANGED cartVars

HostCrash ==
  /\ "crash" \in Faults
  /\ hpc # "down"
  /\ hpc' = "down"
  /\ hpkt' = NoPacket
  /\ nxt' = 0
  /\ response' = << >>
  /\ UNCHANGED <<served, mixed>>
  /\ UNCHANGED cartVars

HostProgress == HostStart \/ HostRead \/ ServerHandles \/ WriteCallback
                  \/ CurlOk \/ Retry \/ AuxWrite
HostFault    == CurlTransient \/ CurlFail \/ AuxWriteFails \/ HostCrash
HostStep     == HostProgress \/ HostFault
=============================================================================
