-------------------------------- MODULE Heap --------------------------------
(***************************************************************************)
(* The memory of the payload while it runs: sbrk of payload/system.c gives *)
(* newlib's malloc, which is external, the memory after the payload's      *)
(* image, upwards; the stack that _start sets up begins at CLN_STACK, in   *)
(* the same memory, and grows downwards.  An address is a unit of memory,  *)
(* counted from the address of the image.                                  *)
(***************************************************************************)
EXTENDS Integers, Bss

CONSTANTS
  HEAP_START_ADDR,  (* the end of the payload's image and of its .bss      *)
  CLN_STACK,        (* where its stack begins                              *)
  STACK_SIZE,       (* the stack that malloc leaves room for               *)
  MaxBreak,         (* bound on the program break                          *)
  Increments        (* what malloc asks sbrk for, or gives back when < 0   *)

ASSUME HeapAssumption ==
  /\ {HEAP_START_ADDR, CLN_STACK, STACK_SIZE, MaxBreak} \subseteq Nat \ {0}
  /\ HEAP_START_ADDR + STACK_SIZE <= CLN_STACK
  /\ Increments \subseteq Int

VARIABLES
  heap_end,   (* __heap_end, 0 before the first call                       *)
  sp,         (* the payload's stack pointer                               *)
  given       (* history: by address, how often malloc has been given it   *)

heapVars == <<heap_end, sp, given>>

Addresses == 0 .. MaxBreak - 1

HeapTypeOK ==
  /\ heap_end \in 0 .. MaxBreak
  /\ sp \in CLN_STACK - STACK_SIZE .. CLN_STACK
  /\ given \in [Addresses -> Nat]

(* __heap_end is in .bss.                                                  *)
HeapInit ==
  /\ heap_end \in IF BssCleared THEN {0} ELSE 0 .. MaxBreak
  /\ sp = CLN_STACK
  /\ given = [a \in Addresses |-> 0]

-----------------------------------------------------------------------------
(* The program break, with what the first call makes of it.                *)
Break == IF heap_end = 0 THEN HEAP_START_ADDR ELSE heap_end

(* malloc takes the incr addresses from start on as its own, or no longer  *)
(* uses those up to start that it gives back.                              *)
Take(start, incr) ==
  given' = [a \in Addresses |->
              IF a \in start .. start + incr - 1 THEN given[a] + 1
              ELSE IF a \in start + incr .. start - 1 THEN given[a] - 1
              ELSE given[a]]

(* A faulty sbrk: the new break is returned for the old one.               *)
SbrkNewBreak(incr) ==
  /\ Break + incr \in 0 .. MaxBreak
  /\ heap_end' = Break + incr
  /\ Take(Break + incr, incr)
  /\ UNCHANGED sp

(* The check against __heap_top is compiled out (#if 0).                   *)
sbrk(incr) ==
  /\ Break + incr \in 0 .. MaxBreak
  /\ heap_end' = Break + incr
  /\ Take(Break, incr)
  /\ UNCHANGED sp

(* malloc gives back only the end of what it has.                          *)
Malloc == \E incr \in Increments :
  /\ \A a \in Break + incr .. Break - 1 : a \in Addresses /\ given[a] > 0
  /\ sbrk(incr)

(* The payload's functions use what stack they need, no more than          *)
(* STACK_SIZE.                                                             *)
UseStack ==
  /\ sp' \in CLN_STACK - STACK_SIZE .. CLN_STACK
  /\ UNCHANGED <<heap_end, given>>

HeapNext == Malloc \/ UseStack

HeapSpec == HeapInit /\ [][HeapNext]_heapVars

-----------------------------------------------------------------------------
(* malloc is given no address twice, and what it has is in one piece that  *)
(* ends at the break: it may extend the block at its end by what comes.    *)
MemoryOnce ==
  /\ \A a \in Addresses : given[a] \in {0, 1}
  /\ \A a \in Addresses :
       given[a] = 1 => a < Break /\ (a + 1 < Break => given[a + 1] = 1)

(* "Any malloc call that tries to allocate data will not allocate within   *)
(* this range", the STACK_SIZE below the start of the stack: malloc has no *)
(* address of the part of it that is in use.                               *)
HeapClearOfStack ==
  \A a \in sp .. CLN_STACK - 1 : a \in Addresses => given[a] = 0
=============================================================================
