------------------------------ MODULE LinkInv -------------------------------
(***************************************************************************)
(* The inductive invariant behind the safety properties of Link: at any    *)
(* time the request of the call in progress, or the answer to it, is in    *)
(* one place only, and nothing that could be taken for it is anywhere.     *)
(***************************************************************************)
EXTENDS Link

PacketOf(m) == [type |-> m.type, src |-> {m}]

Filled(m) == \A w \in Words : bram[w] = m

(* The first word of the buffer is the magic that the driver polls for.    *)
Heard == bram[0].magic = PC_TO_N64

(* Nothing is on its way between the cartridge and the PC,                 *)
SendIdle  == cmd = NoMessage /\ out = OutIdle      (* from the N64,        *)
NoReply   == toCart = << >> /\ inb = InIdle        (* to the N64,          *)
HostIdle  == hpc \in {"down", "read"}              (* in the PC program,   *)
NoRequest == \A i \in 1 .. Len(toHost) :           (* on the USB endpoint, *)
               toHost[i].type \notin Answered
(* as far as requests and answers go.                                      *)

(* The server has handled the request, if it is a post.                    *)
Handled(m) == m.type = NETWORK_POST => m \in served

(* The call in progress and what it does after its transmit.               *)
CallInv ==
  /\ drv = "idle" <=> cur = NoMessage
  /\ cur # NoMessage => cur.magic = N64_TO_PC
  /\ then = "receive" <=> cur.type \in Answered
  /\ drv \in {"poll", "rwait", "rread"} => then = "receive"

(* The driver writes the buffer, and has written it, while nothing comes.  *)
WriteInv ==
  /\ drv \in {"twrite", "tstart"} => NoReply
  /\ drv = "twrite" => \A w \in Words : w < widx => bram[w] = cur
  /\ drv = "tstart" => Filled(cur)
  /\ drv # "poll" => NoRequest

(* A transfer to the PC, about to start or under way; that of a request is *)
(* the only one.                                                           *)
SendInv ==
  /\ out.msg = NoMessage => out = OutIdle
  /\ \A m \in {cmd, out.msg} :
       /\ m # NoMessage => NoReply /\ drv \notin {"rwait", "rread"}
       /\ m.type \in Answered => /\ drv = "poll"
                                 /\ m = cur
                                 /\ NoRequest
                                 /\ HostIdle
                                 /\ Filled(m)
  /\ drv = "poll" /\ cmd # NoMessage => cmd = cur
  /\ out.msg.type \in Answered => cmd = NoMessage /\ out.src \subseteq {out.msg}

(* A request among the packets on their way to the PC is the last of them. *)
PipeInv ==
  \A i \in 1 .. Len(toHost) :
    toHost[i].type \in Answered => /\ i = Len(toHost)
                                   /\ drv = "poll"
                                   /\ toHost[i] = PacketOf(cur)
                                   /\ SendIdle
                                   /\ HostIdle
                                   /\ NoReply

(* The PC program at work on the request.                                  *)
HostInv ==
  /\ HostIdle => nxt = 0
  /\ ~HostIdle =>
    /\ drv = "poll"
    /\ hpkt = PacketOf(cur)
    /\ SendIdle /\ toHost = << >> /\ NoReply
    /\ hpc = "post" =>
         /\ hpkt.type = NETWORK_POST
         /\ nxt > 0 => cur \in served
         /\ nxt = 0 => response = << >>
         /\ nxt > 0 => response = [k \in 1 .. nxt - 1 |-> k]
    /\ hpc = "sleep" => hpkt.type = NETWORK_POST
    /\ hpc = "reply" => response = Body /\ Handled(cur)

(* The answer on its way from the PC into the buffer.                      *)
ReplyInv ==
  /\ inb.msg = NoMessage => inb = InIdle
  /\ toCart # << >> => /\ drv = "poll"
                       /\ toCart = <<ReplyTo(cur)>>
                       /\ Handled(cur)
                       /\ inb = InIdle
                       /\ SendIdle /\ toHost = << >> /\ HostIdle
  /\ inb.msg # NoMessage => /\ toCart = << >>
                            /\ drv \in {"idle", "twait", "poll", "rwait"}
                            /\ drv \in {"poll", "rwait"} =>
                                 inb.msg = ReplyTo(cur) /\ Handled(cur)
                            /\ SendIdle /\ toHost = << >> /\ HostIdle

(* What the driver sees in the buffer while it receives.                   *)
ReceiveInv ==
  /\ drv \in {"rwait", "rread"} \/ (drv = "poll" /\ bram[0].magic = PC_TO_N64) =>
       /\ Handled(cur)
       /\ toCart = << >> /\ SendIdle /\ toHost = << >> /\ HostIdle
       /\ inb.msg # NoMessage => inb.next > 0
       /\ \A w \in Words : inb.msg = NoMessage \/ w < inb.next => bram[w] = ReplyTo(cur)
  /\ drv \in {"poll", "rwait"} /\ inb.msg # NoMessage =>
       \A w \in Words : w < inb.next => bram[w] = ReplyTo(cur)
  /\ drv = "rread" => /\ inb = InIdle
                      /\ widx = 0 => got = {}
                      /\ widx > 0 => got = {ReplyTo(cur)}
  /\ drv \notin {"twrite", "rread"} => widx = 0
  /\ drv # "rread" => got = {}

(* What the last receive has left.                                         *)
ResultInv ==
  last.req # NoMessage => last.src = {ReplyTo(last.req)} /\ Handled(last.req)

(* The invariant of the calls that no reset has left unanswered.           *)
CleanInv ==
  CallInv /\ WriteInv /\ SendInv /\ PipeInv /\ HostInv /\ ReplyInv /\ ReceiveInv
    /\ ResultInv

(* If CMD_BUSY covers transfers to the PC, one is never written over.      *)
WholeInv ==
  "send" \in BusyCovers =>
    /\ drv \in {"twrite", "tstart"} => SendIdle
    /\ cmd # NoMessage => out = OutIdle /\ Filled(cmd)
    /\ out.msg # NoMessage =>
         cmd = NoMessage /\ Filled(out.msg) /\ out.src \subseteq {out.msg}
    /\ \A i \in 1 .. Len(toHost) : \E m \in toHost[i].src : toHost[i] = PacketOf(m)

IInv == orphans = {} => CleanInv /\ WholeInv

(* What the invariant needs of the constants: CMD_BUSY covers messages from*)
(* the PC, and the library knows four levels of messages.                  *)
LevelsKnown == Levels \subseteq 0 .. 3
Assumed     == "reply" \in BusyCovers /\ LevelsKnown
=============================================================================
