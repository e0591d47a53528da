------------------------------ MODULE Injector ------------------------------
(***************************************************************************)
(* The injector, main of injector/main.c: it reads payload.bin from the SD *)
(* card to 0x80400000 and, when the player presses L, calls the payload's  *)
(* entry once.  The payload is external here: modules Entry and Payload.   *)
(*                                                                         *)
(* The processor's caches are external.  fread writes through the data     *)
(* cache or, by DMA, to memory, and the library lets go of the lines there *)
(* before a DMA; a dirty line goes to memory when its place is needed, and *)
(* instructions are fetched through the instruction cache.  Both caches can*)
(* still have lines of what was at that address before.                    *)
(* A block is a line's worth of the image; its contents are its number.    *)
(***************************************************************************)
EXTENDS Naturals

CONSTANT ImageBlocks       (* bound on the size of payload.bin             *)
ASSUME InjectorAssumption == ImageBlocks \in Nat

VARIABLES
  ipc,        (* where main is                                             *)
  file,       (* the size of payload.bin in blocks; 0: no such file        *)
  next,       (* the block that fread reads next                           *)
  dram,       (* memory at 0x80400000                                      *)
  dcache,     (* the dirty lines of the data cache, or Clean               *)
  icache      (* the lines of the instruction cache, or Clean              *)

injectorVars == <<ipc, file, next, dram, dcache, icache>>

Image == 1 .. ImageBlocks

(* What memory held before; and no line for the block.                     *)
Old   == 0
Clean == ImageBlocks + 1

InjectorTypeOK ==
  /\ ipc \in {"open", "read", "writeback", "invalidate", "wait", "jump",
              "reported", "failed"}
  /\ file \in 0 .. ImageBlocks
  /\ next \in 1 .. ImageBlocks + 1
  /\ dram \in [Image -> Image \cup {Old}]
  /\ dcache \in [Image -> Image \cup {Old, Clean}]
  /\ icache \in [Image -> {Old, Clean}]

InjectorInit ==
  /\ ipc = "open"
  /\ file \in 0 .. ImageBlocks
  /\ next = 1
  /\ dram = [b \in Image |-> Old]
  /\ dcache \in [Image -> {Old, Clean}]
  /\ icache \in [Image -> {Old, Clean}]

-----------------------------------------------------------------------------
(* The caches: a dirty line is written back, any line may lose its place.  *)
WriteBack(b) ==
  /\ dcache[b] # Clean
  /\ dram' = [dram EXCEPT ![b] = dcache[b]]
  /\ dcache' = [dcache EXCEPT ![b] = Clean]
  /\ UNCHANGED <<ipc, file, next, icache>>

DropInstructions(b) ==
  /\ icache' = [icache EXCEPT ![b] = Clean]
  /\ UNCHANGED <<ipc, file, next, dram, dcache>>

(* fopen and the size of the file, with their two errors: no file, or an   *)
(* empty one.                                                              *)
OpenFile ==
  /\ ipc = "open"
  /\ ipc' = IF file = 0 THEN "failed" ELSE "read"
  /\ UNCHANGED <<file, next, dram, dcache, icache>>

(* fread, block by block, to its end or to an error of the card.           *)
ReadFile ==
  /\ ipc = "read"
  /\ \/ /\ next <= file
        /\ next' = next + 1
        /\ \/ dcache' = [dcache EXCEPT ![next] = next] /\ dram' = dram
           \/ /\ dcache' = [dcache EXCEPT ![next] = Clean]
              /\ dram' = [dram EXCEPT ![next] = next]
        /\ UNCHANGED ipc
     \/ /\ next <= file
        /\ ipc' = "failed"
        /\ UNCHANGED <<next, dram, dcache>>
     \/ /\ next > file
        /\ ipc' = "writeback"
        /\ UNCHANGED <<next, dram, dcache>>
  /\ UNCHANGED <<file, icache>>

(* data_cache_writeback_invalidate_all                                     *)
WriteBackAll ==
  /\ ipc = "writeback"
  /\ dram' = [b \in Image |-> IF dcache[b] = Clean THEN dram[b] ELSE dcache[b]]
  /\ dcache' = [b \in Image |-> Clean]
  /\ ipc' = "invalidate"
  /\ UNCHANGED <<file, next, icache>>

(* A faulty InvalidateAll: the instruction cache is left as it is.         *)
InvalidateNothing ==
  /\ ipc = "invalidate"
  /\ ipc' = "wait"
  /\ UNCHANGED <<file, next, dram, dcache, icache>>

(* inst_cache_invalidate_all                                               *)
InvalidateAll ==
  /\ ipc = "invalidate"
  /\ icache' = [b \in Image |-> Clean]
  /\ ipc' = "wait"
  /\ UNCHANGED <<file, next, dram, dcache>>

PressL ==
  /\ ipc = "wait"
  /\ ipc' = "jump"
  /\ UNCHANGED <<file, next, dram, dcache, icache>>

CacheStep == \E b \in Image : WriteBack(b) \/ DropInstructions(b)

(* payload_entry(), which returns, and what main prints then.              *)
CallPayload ==
  /\ ipc = "jump"
  /\ ipc' = "reported"
  /\ UNCHANGED <<file, next, dram, dcache, icache>>

InjectorNext == OpenFile \/ ReadFile \/ WriteBackAll \/ InvalidateAll \/ PressL
                  \/ CallPayload \/ CacheStep

InjectorSpec == InjectorInit /\ [][InjectorNext]_injectorVars

-----------------------------------------------------------------------------
(* What the processor fetches as an instruction of a block, and what it    *)
(* loads as data.                                                          *)
Fetched(b) == IF icache[b] = Clean THEN dram[b] ELSE icache[b]
Loaded(b)  == IF dcache[b] = Clean THEN dram[b] ELSE dcache[b]

(* Once main may jump, every instruction and every constant of the image   *)
(* is the one in payload.bin, whatever the caches kept and whenever they   *)
(* let go of it.                                                           *)
ImageInPlace ==
  ipc \in {"wait", "jump", "reported"} =>
    \A b \in 1 .. file : Fetched(b) = b /\ Loaded(b) = b
=============================================================================
