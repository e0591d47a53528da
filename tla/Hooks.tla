------------------------------- MODULE Hooks --------------------------------
(***************************************************************************)
(* The standard streams and the clock of payload/system.c: newlib's read,  *)
(* write and gettimeofday call functions that clients have hooked.  One    *)
(* thread, so every call is one action.                                    *)
(*                                                                         *)
(* A client has a table of functions, for some of the streams and perhaps  *)
(* for the time.  The functions are external, and a client that is not     *)
(* hooked may be gone from memory, its functions with it.                  *)
(***************************************************************************)
EXTENDS Bss

CONSTANTS
  Clients,
  Functions,     (* the addresses of their functions                       *)
  NoFunction,
  Table          (* those of each client, NoFunction where it has none     *)

Streams == {"stdin_read", "stdout_write", "stderr_write"}
Hooks   == Streams \cup {"time"}

(* Clients may share functions.                                            *)
ASSUME TableAssumption ==
  /\ NoFunction \notin Functions
  /\ Table \in [Clients -> [Hooks -> Functions \cup {NoFunction}]]

VARIABLES
  stdio_hooks,   (* the function of each stream, or NoFunction             *)
  time_hook,     (* the function of the clock, or NoFunction               *)
  hooked         (* history: the clients whose last call for the streams,  *)
                 (* or for the clock, was to hook                          *)

hookVars == <<stdio_hooks, time_hook, hooked>>

HooksTypeOK ==
  /\ stdio_hooks \in [Streams -> Functions \cup {NoFunction}]
  /\ time_hook \in Functions \cup {NoFunction}
  /\ hooked \in [Hooks -> SUBSET Clients]

(* The hooks are in .bss: empty if it is zero, or what a run before left.  *)
Left == IF BssCleared THEN {NoFunction} ELSE Functions \cup {NoFunction}

HooksInit ==
  /\ stdio_hooks \in [Streams -> Left]
  /\ time_hook \in Left
  /\ hooked = [h \in Hooks |-> {}]

-----------------------------------------------------------------------------
(* A table has no function for a stream: the stream keeps what it has.     *)
hook_stdio_calls(c) ==
  /\ stdio_hooks' = [s \in Streams |->
       IF Table[c][s] = NoFunction THEN stdio_hooks[s] ELSE Table[c][s]]
  /\ hooked' = [h \in Hooks |->
       IF h \in Streams THEN hooked[h] \cup {c} ELSE hooked[h]]
  /\ UNCHANGED time_hook

(* Faulty forms of unhook_stdio_calls: all the streams are wiped; only     *)
(* those that the table has a function for stay.                           *)
UnhookWipes(c) ==
  /\ stdio_hooks' = [s \in Streams |-> NoFunction]
  /\ hooked' = [h \in Hooks |->
       IF h \in Streams THEN hooked[h] \ {c} ELSE hooked[h]]
  /\ UNCHANGED time_hook

UnhookInputOnly(c) ==
  /\ stdio_hooks' = [stdio_hooks EXCEPT !["stdin_read"] =
       IF Table[c]["stdin_read"] = @ THEN NoFunction ELSE @]
  /\ hooked' = [h \in Hooks |->
       IF h \in Streams THEN hooked[h] \ {c} ELSE hooked[h]]
  /\ UNCHANGED time_hook

unhook_stdio_calls(c) ==
  /\ stdio_hooks' = [s \in Streams |->
       IF Table[c][s] = stdio_hooks[s] THEN NoFunction ELSE stdio_hooks[s]]
  /\ hooked' = [h \in Hooks |->
       IF h \in Streams THEN hooked[h] \ {c} ELSE hooked[h]]
  /\ UNCHANGED time_hook

(* (a time function that is NULL is refused)                               *)
hook_time_call(c) ==
  /\ Table[c]["time"] # NoFunction
  /\ time_hook' = Table[c]["time"]
  /\ hooked' = [hooked EXCEPT !["time"] = @ \cup {c}]
  /\ UNCHANGED stdio_hooks

unhook_time_call(c) ==
  /\ time_hook' = IF time_hook = Table[c]["time"] THEN NoFunction ELSE time_hook
  /\ hooked' = [hooked EXCEPT !["time"] = @ \ {c}]
  /\ UNCHANGED stdio_hooks

HooksNext ==
  \E c \in Clients :
    \/ hook_stdio_calls(c)
    \/ unhook_stdio_calls(c)
    \/ hook_time_call(c)
    \/ unhook_time_call(c)

HooksSpec == HooksInit /\ [][HooksNext]_hookVars

-----------------------------------------------------------------------------
(* The functions that newlib's calls reach: one, or none and then the call *)
(* returns -1.  read and write of other file numbers are in FileTable.     *)
stdio_read(fileno) ==
  {stdio_hooks[s] : s \in {r \in {"stdin_read"} : fileno = 0}} \ {NoFunction}

Written(fileno) == {s \in {"stdout_write"} : fileno = 1}
                     \cup {s \in {"stderr_write"} : fileno = 2}

stdio_write(fileno) == {stdio_hooks[s] : s \in Written(fileno)} \ {NoFunction}

gettimeofday == {time_hook} \ {NoFunction}

-----------------------------------------------------------------------------
(* The functions for h of the clients that are hooked.                     *)
OfHooked(h) == {Table[c][h] : c \in hooked[h]}

(* Whatever clients hooked and unhooked before, and in whatever order, a   *)
(* call of newlib reaches only a function that a client which is hooked    *)
(* now has for it: none of a client that may be gone, and no other stream. *)
CallsReachHooked ==
  /\ stdio_read(0) \subseteq OfHooked("stdin_read")
  /\ stdio_write(1) \subseteq OfHooked("stdout_write")
  /\ stdio_write(2) \subseteq OfHooked("stderr_write")
  /\ stdio_read(1) \cup stdio_read(2) \cup stdio_write(0) = {}
  /\ gettimeofday \subseteq OfHooked("time")

(* What a hook holds.                                                      *)
Installed(h) == IF h = "time" THEN time_hook ELSE stdio_hooks[h]

(* A client that is served stays so until one that has the same function   *)
(* for the stream unhooks, itself or one that shares it, or one that has   *)
(* another function for the stream hooks: nobody else's unhooking takes it,*)
(* and hooking never leaves the stream without a function.                 *)
ServedUntilUnhook ==
  [][\A h \in Hooks : \A c \in hooked[h] :
       Installed(h) = Table[c][h] /\ Table[c][h] # NoFunction =>
         \/ Installed(h)' = Installed(h)
         \/ \E d \in hooked[h]' :
              Installed(h)' = Table[d][h] /\ Table[d][h] # NoFunction
         \/ \E d \in Clients :
              /\ Table[d][h] = Table[c][h]
              /\ unhook_stdio_calls(d) \/ unhook_time_call(d)]_hookVars
=============================================================================
