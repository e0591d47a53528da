---------------------------- MODULE System_proofs ---------------------------
(***************************************************************************)
(* What holds of the heap (Heap) and of the hooks of the standard streams and*)
(* the clock (Hooks), for every value of the constants.                    *)
(***************************************************************************)
EXTENDS Heap, Hooks, TLAPS

-----------------------------------------------------------------------------
(* The heap.                                                               *)

(* Nothing is given before the first call, and never the address 0, so the *)
(* break does not come back to the 0 that stands for "not set".            *)
HeapInv ==
  /\ HeapTypeOK
  /\ MemoryOnce
  /\ heap_end = 0 => \A a \in Addresses : given[a] = 0
  /\ 0 \in Addresses => given[0] = 0

LEMMA HeapTypes == /\ HEAP_START_ADDR \in Nat \ {0} /\ CLN_STACK \in Nat \ {0}
                   /\ STACK_SIZE \in Nat \ {0} /\ MaxBreak \in Nat \ {0}
                   /\ HEAP_START_ADDR + STACK_SIZE <= CLN_STACK
                   /\ Increments \subseteq Int
  BY HeapAssumption

(* malloc takes what follows the break, or gives back the end of what it   *)
(* has; in both cases what it has then ends at the new break.              *)
LEMMA MallocStep ==
  ASSUME HeapInv, Malloc
  PROVE  HeapInv'
<1> USE HeapTypes DEF HeapInv, HeapTypeOK, Addresses
<1> PICK incr \in Increments :
      /\ \A a \in Break + incr .. Break - 1 : a \in Addresses /\ given[a] > 0
      /\ sbrk(incr)
  BY DEF Malloc
<1> DEFINE start == Break
           top   == Break + incr
<1>1. /\ start \in Nat \ {0} /\ incr \in Int /\ top \in 0 .. MaxBreak
      /\ heap_end' = top /\ sp' = sp
      /\ heap_end # 0 => start = heap_end
  BY DEF sbrk, Break
<1>2. /\ given' \in [Addresses -> Int]
      /\ \A a \in Addresses :
           given'[a] = IF a \in start .. top - 1 THEN given[a] + 1
                       ELSE IF a \in top .. start - 1 THEN given[a] - 1
                       ELSE given[a]
  BY <1>1 DEF sbrk, Take
<1>3. \A a \in Addresses : /\ given[a] \in {0, 1}
                           /\ a >= start => given[a] = 0
                           /\ a \in top .. start - 1 => given[a] = 1
                           /\ given[a] = 1 /\ a + 1 < start => given[a + 1] = 1
  BY <1>1 DEF MemoryOnce, Break
<1>4. top # 0
  BY <1>1, <1>3
<1>5. Break' = top
  BY <1>1, <1>4 DEF Break
<1> HIDE DEF start, top
<1>6. \A a \in Addresses : given'[a] = IF a \in start .. top - 1 THEN 1
                                       ELSE IF a \in top .. start - 1 THEN 0
                                       ELSE given[a]
  BY <1>1, <1>2, <1>3
<1>7. MemoryOnce'
  <2>1. \A a \in Addresses : given'[a] \in {0, 1}
    BY <1>3, <1>6
  <2>2. ASSUME NEW a \in Addresses, given'[a] = 1
        PROVE  a < top /\ (a + 1 < top => given'[a + 1] = 1)
    BY <1>1, <1>3, <1>6, <2>2
  <2> QED
    BY <1>5, <2>1, <2>2 DEF MemoryOnce
<1>8. HeapTypeOK'
  BY <1>1, <1>2, <1>3, <1>6
<1> QED
  BY <1>1, <1>3, <1>4, <1>6, <1>7, <1>8

(* The stack moves without the heap.                                       *)
LEMMA HeapStep ==
  ASSUME HeapInv, [HeapNext]_heapVars
  PROVE  HeapInv'
<1>1. CASE Malloc
  BY <1>1, MallocStep
<1>2. CASE UseStack
  BY <1>2 DEF UseStack, HeapInv, HeapTypeOK, MemoryOnce, Break, Addresses
<1>3. CASE UNCHANGED heapVars
  BY <1>3 DEF heapVars, HeapInv, HeapTypeOK, MemoryOnce, Break, Addresses
<1> QED
  BY <1>1, <1>2, <1>3 DEF HeapNext

(* The inductive invariant of the heap.                                    *)
THEOREM HeapInvCorrect == HeapSpec => []HeapInv
<1>1. HeapInit => HeapInv
  BY HeapTypes DEF HeapInit, HeapInv, HeapTypeOK, MemoryOnce, Addresses
<1>2. HeapInv /\ [HeapNext]_heapVars => HeapInv'
  BY HeapStep
<1> QED
  BY <1>1, <1>2, PTL DEF HeapSpec

(* malloc is given no address twice, and what it has is in one piece.      *)
THEOREM MemoryOnceCorrect == HeapSpec => []MemoryOnce
<1>1. HeapInv => MemoryOnce
  BY DEF HeapInv
<1> QED
  BY <1>1, HeapInvCorrect, PTL

-----------------------------------------------------------------------------
(* The hooks.                                                              *)

(* What a hook holds is the function of a client that is hooked now.       *)
HooksInv ==
  /\ HooksTypeOK
  /\ \A h \in Hooks : Installed(h) # NoFunction => Installed(h) \in OfHooked(h)

(* One step of unhooking and hooking of the streams leaves the clock, and  *)
(* the other way round: the clock is no stream.                            *)
LEMMA TimeIsNoStream ==
  /\ "time" \notin Streams
  /\ Streams \subseteq Hooks
  /\ \A h \in Hooks : h = "time" \/ h \in Streams
BY DEF Streams, Hooks

(* Every hook starts empty.                                                *)
LEMMA InitInv ==
  ASSUME BssCleared
  PROVE  HooksInit => HooksInv
BY TimeIsNoStream DEF Left, HooksInit, HooksInv, HooksTypeOK, Installed

(* hook_stdio_calls installs only functions of the client that hooks.      *)
LEMMA HookKeepsInv ==
  ASSUME HooksInv, NEW c \in Clients, hook_stdio_calls(c)
  PROVE  HooksInv'
<1>1. \A h \in Hooks : Table[c][h] \in Functions \cup {NoFunction}
  BY TableAssumption
<1>2. HooksTypeOK'
  BY <1>1, TimeIsNoStream DEF HooksInv, HooksTypeOK, hook_stdio_calls
<1>3. ASSUME NEW h \in Hooks, Installed(h)' # NoFunction
      PROVE  Installed(h)' \in OfHooked(h)'
  <2>1. CASE h = "time"
    BY <2>1, <1>3, TimeIsNoStream
    DEF HooksInv, HooksTypeOK, hook_stdio_calls, Installed, OfHooked
  <2>2. CASE h # "time" /\ Table[c][h] = NoFunction
    BY <2>2, <1>3, TimeIsNoStream
    DEF HooksInv, HooksTypeOK, hook_stdio_calls, Installed, OfHooked
  <2>3. CASE h # "time" /\ Table[c][h] # NoFunction
    BY <2>3, <1>3, TimeIsNoStream
    DEF HooksInv, HooksTypeOK, hook_stdio_calls, Installed, OfHooked
  <2> QED
    BY <2>1, <2>2, <2>3
<1> QED
  BY <1>2, <1>3 DEF HooksInv

(* What unhook_stdio_calls leaves in place is another client's.            *)
LEMMA UnhookKeepsInv ==
  ASSUME HooksInv, NEW c \in Clients, unhook_stdio_calls(c)
  PROVE  HooksInv'
<1>1. HooksTypeOK'
  BY TimeIsNoStream DEF HooksInv, HooksTypeOK, unhook_stdio_calls
<1>2. ASSUME NEW h \in Hooks, Installed(h)' # NoFunction
      PROVE  Installed(h)' \in OfHooked(h)'
  <2>1. CASE h = "time"
    BY <2>1, <1>2, TimeIsNoStream
    DEF HooksInv, HooksTypeOK, unhook_stdio_calls, Installed, OfHooked
  <2>2. CASE h # "time"
    <3>1. /\ stdio_hooks'[h] = stdio_hooks[h]
          /\ stdio_hooks[h] # Table[c][h]
          /\ hooked'[h] = hooked[h] \ {c}
      BY <2>2, <1>2, TimeIsNoStream
      DEF HooksInv, HooksTypeOK, unhook_stdio_calls, Installed
    <3> QED
      BY <3>1, <2>2, <1>2 DEF HooksInv, Installed, OfHooked
  <2> QED
    BY <2>1, <2>2
<1> QED
  BY <1>1, <1>2 DEF HooksInv

(* The two calls for the clock.                                            *)
LEMMA TimeKeepsInv ==
  ASSUME HooksInv, NEW c \in Clients, hook_time_call(c) \/ unhook_time_call(c)
  PROVE  HooksInv'
<1>1. "time" \in Hooks /\ Table[c]["time"] \in Functions \cup {NoFunction}
  BY TableAssumption DEF Hooks
<1>2. HooksTypeOK'
  BY <1>1 DEF HooksInv, HooksTypeOK, hook_time_call, unhook_time_call
<1>3. ASSUME NEW h \in Hooks, Installed(h)' # NoFunction
      PROVE  Installed(h)' \in OfHooked(h)'
  <2>1. CASE h # "time"
    BY <2>1, <1>3
    DEF HooksInv, HooksTypeOK, hook_time_call, unhook_time_call, Installed, OfHooked
  <2>2. CASE h = "time" /\ hook_time_call(c)
    BY <2>2, <1>1 DEF HooksInv, HooksTypeOK, hook_time_call, Installed, OfHooked
  <2>3. CASE h = "time" /\ unhook_time_call(c)
    BY <2>3, <1>1, <1>3 DEF HooksInv, HooksTypeOK, unhook_time_call, Installed, OfHooked
  <2> QED
    BY <2>1, <2>2, <2>3
<1> QED
  BY <1>2, <1>3 DEF HooksInv

(* The invariant holds through every call.                                 *)
THEOREM HooksInvCorrect ==
  ASSUME BssCleared
  PROVE  HooksSpec => []HooksInv
<1>1. HooksInv /\ [HooksNext]_hookVars => HooksInv'
  <2> SUFFICES ASSUME HooksInv, [HooksNext]_hookVars PROVE HooksInv'
    OBVIOUS
  <2>1. CASE UNCHANGED hookVars
    BY <2>1 DEF HooksInv, HooksTypeOK, hookVars, Installed, OfHooked
  <2>2. CASE HooksNext
    <3>1. PICK c \in Clients : \/ hook_stdio_calls(c)
                               \/ unhook_stdio_calls(c)
                               \/ hook_time_call(c)
                               \/ unhook_time_call(c)
      BY <2>2 DEF HooksNext
    <3> QED
      BY <3>1, HookKeepsInv, UnhookKeepsInv, TimeKeepsInv
  <2> QED
    BY <2>1, <2>2
<1> QED
  BY <1>1, InitInv, PTL DEF HooksSpec

(* Hooks and tables keep their types.                                      *)
THEOREM HooksTypeCorrect ==
  ASSUME BssCleared
  PROVE  HooksSpec => []HooksTypeOK
BY HooksInvCorrect, PTL DEF HooksInv

(* newlib's read, write and gettimeofday call no function of a client that *)
(* has unhooked, after any sequence of hooks and unhooks of any clients.   *)
THEOREM CallsReachHookedCorrect ==
  ASSUME BssCleared
  PROVE  HooksSpec => []CallsReachHooked
<1>1. HooksInv => CallsReachHooked
  <2> SUFFICES ASSUME HooksInv PROVE CallsReachHooked
    OBVIOUS
  <2>1. stdio_read(0) \subseteq OfHooked("stdin_read")
    BY DEF HooksInv, Installed, stdio_read, Hooks, Streams
  <2>2. stdio_write(1) \subseteq OfHooked("stdout_write")
    BY DEF HooksInv, Installed, stdio_write, Written, Hooks, Streams
  <2>3. stdio_write(2) \subseteq OfHooked("stderr_write")
    BY DEF HooksInv, Installed, stdio_write, Written, Hooks, Streams
  <2>4. stdio_read(1) \cup stdio_read(2) \cup stdio_write(0) = {}
    BY DEF stdio_read, stdio_write, Written
  <2>5. gettimeofday \subseteq OfHooked("time")
    BY DEF HooksInv, Installed, gettimeofday, Hooks
  <2> QED
    BY <2>1, <2>2, <2>3, <2>4, <2>5 DEF CallsReachHooked
<1> QED
  BY <1>1, HooksInvCorrect, PTL

(* Only the unhooking of a client with the same function takes one away,   *)
(* and hooking puts another in its place, also when clients share some.    *)
THEOREM ServedUntilUnhookCorrect ==
  ASSUME BssCleared
  PROVE  HooksSpec => ServedUntilUnhook
<1> DEFINE Kept(h, c) ==
       Installed(h) = Table[c][h] /\ Table[c][h] # NoFunction =>
         \/ Installed(h)' = Installed(h)
         \/ \E d \in hooked[h]' :
              Installed(h)' = Table[d][h] /\ Table[d][h] # NoFunction
         \/ \E d \in Clients :
              /\ Table[d][h] = Table[c][h]
              /\ unhook_stdio_calls(d) \/ unhook_time_call(d)
<1>1. HooksInv /\ [HooksNext]_hookVars
        => [\A h \in Hooks : \A c \in hooked[h] : Kept(h, c)]_hookVars
  <2> SUFFICES ASSUME HooksInv, HooksNext, NEW h \in Hooks, NEW c \in hooked[h],
                      Installed(h) = Table[c][h], Table[c][h] # NoFunction,
                      Installed(h)' # Installed(h)
               PROVE  \/ \E d \in hooked[h]' :
                           Installed(h)' = Table[d][h] /\ Table[d][h] # NoFunction
                      \/ \E d \in Clients :
                           /\ Table[d][h] = Table[c][h]
                           /\ unhook_stdio_calls(d) \/ unhook_time_call(d)
    OBVIOUS
  <2>1. PICK d \in Clients : \/ hook_stdio_calls(d)
                             \/ unhook_stdio_calls(d)
                             \/ hook_time_call(d)
                             \/ unhook_time_call(d)
    BY DEF HooksNext
  <2>2. CASE hook_stdio_calls(d)
    BY <2>2, TimeIsNoStream DEF HooksInv, HooksTypeOK, hook_stdio_calls, Installed
  <2>3. CASE unhook_stdio_calls(d)
    <3>1. Table[d][h] = Table[c][h]
      BY <2>3, TimeIsNoStream DEF HooksInv, HooksTypeOK, unhook_stdio_calls, Installed
    <3> QED
      BY <2>3, <3>1
  <2>4. CASE hook_time_call(d)
    BY <2>4, TimeIsNoStream DEF HooksInv, HooksTypeOK, hook_time_call, Installed
  <2>5. CASE unhook_time_call(d)
    <3>1. Table[d][h] = Table[c][h]
      BY <2>5, TimeIsNoStream DEF HooksInv, HooksTypeOK, unhook_time_call, Installed
    <3> QED
      BY <2>5, <3>1
  <2> QED
    BY <2>1, <2>2, <2>3, <2>4, <2>5
<1> QED
  BY <1>1, HooksInvCorrect, PTL DEF HooksSpec, ServedUntilUnhook

=============================================================================
