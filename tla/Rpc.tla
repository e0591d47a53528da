-------------------------------- MODULE Rpc ---------------------------------
(***************************************************************************)
(* What the link promises the library: a call that expects an answer       *)
(* (a network post, a request for the user's data) is handled by the PC    *)
(* and returns the answer to that very call, whole.  No cartridge, no      *)
(* buffer, no packets.                                                     *)
(***************************************************************************)
EXTENDS Wire

CONSTANT MaxCalls

VARIABLES
  pending,   (* the request in progress, or NoMessage                      *)
  served,    (* the posts the server has handled                           *)
  last,      (* the request and the answer of the last return              *)
  calls      (* calls made so far, messages without an answer included     *)

vars == <<pending, served, last, calls>>

Init ==
  /\ pending = NoMessage
  /\ served = {}
  /\ last = NoResult
  /\ calls = 0

(* A message that expects no answer uses up a number.                      *)
Tell ==
  /\ pending = NoMessage
  /\ calls < MaxCalls
  /\ calls' = calls + 1
  /\ UNCHANGED <<pending, served, last>>

Ask ==
  /\ pending = NoMessage
  /\ calls < MaxCalls
  /\ calls' = calls + 1
  /\ \E type \in Answered : pending' = Request(type, calls + 1)
  /\ UNCHANGED <<served, last>>

(* The server handles a post once or, after a timeout, more than once.     *)
Serve ==
  /\ pending # NoMessage
  /\ pending.type = NETWORK_POST
  /\ served' = served \cup {pending}
  /\ UNCHANGED <<pending, last, calls>>

Return ==
  /\ pending # NoMessage
  /\ pending.type = NETWORK_POST => pending \in served
  /\ last' = [req |-> pending, src |-> {ReplyTo(pending)}]
  /\ pending' = NoMessage
  /\ UNCHANGED <<served, calls>>

(* The console is reset before the answer is there.                        *)
Abandon ==
  /\ pending' = NoMessage
  /\ last' = NoResult
  /\ UNCHANGED <<served, calls>>

Next == Tell \/ Ask \/ Serve \/ Return \/ Abandon

Spec == Init /\ [][Next]_vars

(* An answer that can come does come.                                      *)
Fairness == WF_vars(Serve) /\ WF_vars(Return)
=============================================================================
