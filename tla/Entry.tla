------------------------------- MODULE Entry --------------------------------
(***************************************************************************)
(* The entry of the payload, _start in payload/main.c: the game jumps to   *)
(* it in the middle of a frame and goes on with the registers it gets back.*)
(* One action is one block of the assembly.                                *)
(*                                                                         *)
(* A register holds a value of the game, named for the register it was in  *)
(* at the entry, or one of the payload's own.  The registers have 64 bits  *)
(* and the code saves words: a value is wide if its upper half is more     *)
(* than the sign of its lower half.  What the compiler puts before and     *)
(* after the assembly is left out: it stores the same registers again.     *)
(***************************************************************************)
EXTENDS Naturals, Sequences

(* In the order of their places on the stack, as they are stored ...       *)
Pushed == <<"at", "v0", "v1", "a0", "a1", "a2", "a3",
            "t0", "t1", "t2", "t3", "t4", "t5", "t6", "t7",
            "s0", "s1", "s2", "s3", "s4", "s5", "s6", "s7",
            "t8", "t9", "gp", "fp", "ra">>

(* A faulty Popped: two places that are swapped.                           *)
PoppedSwapped == [Pushed EXCEPT ![27] = "ra", ![28] = "fp"]

(* ... and as they are loaded.                                             *)
Popped == <<"at", "v0", "v1", "a0", "a1", "a2", "a3",
            "t0", "t1", "t2", "t3", "t4", "t5", "t6", "t7",
            "s0", "s1", "s2", "s3", "s4", "s5", "s6", "s7",
            "t8", "t9", "gp", "fp", "ra">>

General == {Pushed[i] : i \in DOMAIN Pushed} \cup {"sp"}

(* "f0" stands for the floating-point registers that a C function may      *)
(* change, "f20" for those it keeps; k0 and k1 belong to the exceptions.   *)
Registers == General \cup {"hi", "lo", "f0", "f20"}

(* External: what a C function leaves as it was, by the calling convention.*)
CalleeSaved == {"s0", "s1", "s2", "s3", "s4", "s5", "s6", "s7", "gp", "sp", "fp",
                "f20"}

(* External: the four words at the stack pointer belong to the function    *)
(* that is called, for its arguments if it has any.  The frame begins there*)
(* with at, v0, v1 and a0.                                                 *)
Home == 1 .. 4

CONSTANTS
  Clobbers,    (* sets of registers that a run of cln_run may change       *)
  HomeSets,    (* sets of those four words that it may change              *)
  WideSets,    (* sets of registers in which the game has wide values      *)
  MaxFrames    (* bound on the calls of the game                           *)

ASSUME EntryAssumption ==
  /\ Clobbers \subseteq SUBSET (Registers \ CalleeSaved)
  /\ HomeSets \subseteq SUBSET Home
  /\ WideSets \subseteq SUBSET Registers
  /\ MaxFrames \in Nat

VARIABLES
  epc,               (* the block that comes next                          *)
  regs,
  frame,             (* the 28 words on the payload's stack                *)
  cl_stack_backup,
  cl_gp_backup,
  entry,             (* history: the registers at the last entry           *)
  reused,            (* history: the places of the frame that cln_run has  *)
                     (* written since                                      *)
  frames             (* history: entries so far                            *)

entryVars == <<epc, regs, frame, cl_stack_backup, cl_gp_backup, entry, reused,
               frames>>

(* The payload's own values: its stack and global pointer, and any other.  *)
Own(name) == [of |-> name, wide |-> FALSE]
OwnNames  == {"stack", "globals", "other"}

Value == [of : Registers \cup OwnNames, wide : BOOLEAN]

Game(wide) == [r \in Registers |-> [of |-> r, wide |-> r \in wide]]

(* sw and lw: the lower half, and its sign in the upper half.              *)
Word(value) == [value EXCEPT !.wide = FALSE]

Blocks == {"game", "save", "switch", "push", "run", "pop", "restore", "return"}

EntryTypeOK ==
  /\ epc \in Blocks
  /\ regs \in [Registers -> Value]
  /\ frame \in [DOMAIN Pushed -> Value]
  /\ cl_stack_backup \in Value
  /\ cl_gp_backup \in Value
  /\ entry \in [Registers -> Value]
  /\ reused \subseteq Home
  /\ frames \in 0 .. MaxFrames

EntryInit ==
  /\ epc = "game"
  /\ regs = Game({})
  /\ frame = [i \in DOMAIN Pushed |-> Own("other")]
  /\ cl_stack_backup = Own("other")
  /\ cl_gp_backup = Own("other")
  /\ entry = Game({})
  /\ reused = {}
  /\ frames = 0

-----------------------------------------------------------------------------
(* The game has run, and jumps to _start.                                  *)
GameCalls ==
  /\ epc = "game"
  /\ frames < MaxFrames
  /\ \E wide \in WideSets : regs' = Game(wide)
  /\ entry' = regs'
  /\ reused' = {}
  /\ frames' = frames + 1
  /\ epc' = "save"
  /\ UNCHANGED <<frame, cl_stack_backup, cl_gp_backup>>

(* sw to a variable takes two instructions, and "at" for its address.      *)
SaveStackAndGp ==
  /\ epc = "save"
  /\ cl_stack_backup' = Word(regs["sp"])
  /\ cl_gp_backup' = Word(regs["gp"])
  /\ regs' = [regs EXCEPT !["at"] = Own("other")]
  /\ epc' = "switch"
  /\ UNCHANGED <<frame, entry, reused, frames>>

SwitchStack ==
  /\ epc = "switch"
  /\ regs' = [regs EXCEPT !["sp"] = Own("stack"), !["gp"] = Own("globals")]
  /\ epc' = "push"
  /\ UNCHANGED <<frame, cl_stack_backup, cl_gp_backup, entry, reused, frames>>

SaveRegisters ==
  /\ epc = "push"
  /\ frame' = [i \in DOMAIN Pushed |-> Word(regs[Pushed[i]])]
  /\ epc' = "run"
  /\ UNCHANGED <<regs, cl_stack_backup, cl_gp_backup, entry, reused, frames>>

(* cln_run, a C function without parameters: nothing but what the calling  *)
(* convention says is known of the registers and of the frame afterwards.  *)
(* jal itself changes ra.                                                  *)
Run ==
  /\ epc = "run"
  /\ \E changed \in Clobbers :
       regs' = [r \in Registers |->
                  IF r \in changed \cup {"ra"} THEN Own("other") ELSE regs[r]]
  /\ reused' \in HomeSets
  /\ frame' = [i \in DOMAIN Pushed |->
                IF i \in reused' THEN Own("other") ELSE frame[i]]
  /\ epc' = "pop"
  /\ UNCHANGED <<cl_stack_backup, cl_gp_backup, entry, frames>>

RestoreRegisters ==
  /\ epc = "pop"
  /\ regs' = [r \in Registers |->
                IF \E i \in DOMAIN Popped : Popped[i] = r
                THEN frame[CHOOSE i \in DOMAIN Popped : Popped[i] = r]
                ELSE regs[r]]
  /\ epc' = "restore"
  /\ UNCHANGED <<frame, cl_stack_backup, cl_gp_backup, entry, reused, frames>>

(* lw from a variable takes its address in the register it loads.          *)
RestoreStackAndGp ==
  /\ epc = "restore"
  /\ regs' = [regs EXCEPT !["sp"] = cl_stack_backup, !["gp"] = cl_gp_backup]
  /\ epc' = "return"
  /\ UNCHANGED <<frame, cl_stack_backup, cl_gp_backup, entry, reused, frames>>

Return ==
  /\ epc = "return"
  /\ epc' = "game"
  /\ UNCHANGED <<regs, frame, cl_stack_backup, cl_gp_backup, entry, reused, frames>>

EntryNext == GameCalls \/ SaveStackAndGp \/ SwitchStack \/ SaveRegisters \/ Run
          \/ RestoreRegisters \/ RestoreStackAndGp \/ Return

EntrySpec == EntryInit /\ [][EntryNext]_entryVars

-----------------------------------------------------------------------------
(* The registers whose word the frame keeps: all but "at", whose place has *)
(* no word of the game, and those whose place cln_run has made use of.     *)
Kept == General \ ({"at"} \cup {Pushed[i] : i \in reused})

(* The game gets back every general register but "at", k0 and k1, as far   *)
(* as it held a word, and with ra the way back: whatever cln_run does with *)
(* the registers that a C function may change.  If it also uses the words  *)
(* that are its own by the calling convention, then v0, v1 and a0 may be   *)
(* lost, and no other.                                                     *)
GameKeepsRegisters ==
  epc = "return" => \A r \in Kept : regs[r] = Word(entry[r])

(* From the entry to the return, the word that the game had in such a      *)
(* register is still in that register, or it is on the payload's stack or  *)
(* in one of the two variables.                                            *)
NothingLost ==
  epc # "game" =>
    \A r \in Kept :
      Word(entry[r]) \in {frame[i] : i \in DOMAIN frame}
                          \cup {Word(regs[r]), cl_stack_backup, cl_gp_backup}
=============================================================================
