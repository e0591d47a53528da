------------------------------- MODULE PiBus --------------------------------
(***************************************************************************)
(* payload/usb_internal.c: one access to a register of the cartridge.  It  *)
(* goes over the console's peripheral interface, which is external: it     *)
(* does one thing at a time, a DMA of the game or a write of the processor *)
(* that it has posted, and PI_STATUS says that it is busy.  An access that *)
(* finds it busy is undefined: a write may be lost, a read gets anything.  *)
(* The payload is called in the middle of a frame, so a DMA that the game  *)
(* has started may still run.  The code does not mask the interrupts: a    *)
(* handler of the game may start one at any moment, also between the end of*)
(* the wait and the access.  Nothing is promised of an access that such a  *)
(* DMA overtakes; the property is about all the others.                    *)
(***************************************************************************)
EXTENDS Naturals

CONSTANTS
  PiAddresses,     (* registers of the cartridge                           *)
  PiValues,        (* what they can hold                                   *)
  MaxAccesses      (* bound on the accesses of the payload                 *)

ASSUME PiAssumption ==
  /\ PiAddresses \subseteq Nat
  /\ MaxAccesses \in Nat

VARIABLES
  ppc,        (* of cl64_usb_io_read and cl64_usb_io_write                 *)
  op,         (* the access: its kind, register and value                  *)
  dma,        (* a DMA of the game runs                                    *)
  posted,     (* the write that the interface has to do yet, at most one   *)
  cart,       (* the cartridge's registers                                 *)
  value,      (* what the last read returned, at most one, and what is due *)
  latest,     (* history: what each register was given last, by a write of *)
              (* the payload or by the cartridge                           *)
  raced,      (* history: a DMA has started since the wait                 *)
  doubtful,   (* history: the registers whose last write met such a DMA    *)
  accesses    (* history: accesses so far                                  *)

piVars == <<ppc, op, dma, posted, cart, value, latest, raced, doubtful, accesses>>

Access == [kind : {"read", "write"}, pi_address : PiAddresses, value : PiValues]
Write  == [pi_address : PiAddresses, value : PiValues]
Read   == [value : PiValues, due : SUBSET PiValues]

PiTypeOK ==
  /\ ppc \in {"game", "wait", "access"}
  /\ op \in Access
  /\ dma \in BOOLEAN
  /\ posted \in SUBSET Write
  /\ cart \in [PiAddresses -> PiValues]
  /\ value \in SUBSET Read
  /\ latest \in [PiAddresses -> PiValues]
  /\ raced \in BOOLEAN
  /\ doubtful \subseteq PiAddresses
  /\ accesses \in 0 .. MaxAccesses

PiInit ==
  /\ ppc = "game"
  /\ op \in Access
  /\ dma \in BOOLEAN
  /\ posted = {}
  /\ cart \in [PiAddresses -> PiValues]
  /\ value = {}
  /\ latest = cart
  /\ raced = FALSE
  /\ doubtful = {}
  /\ accesses = 0

-----------------------------------------------------------------------------
(* PI_STATUS has DMA busy or IO busy.                                      *)
Busy == dma \/ posted # {}

(* The access that comes now meets a DMA that has started after the wait.  *)
Overtaken == dma /\ raced

(* A call of cl64_usb_io_read or cl64_usb_io_write.                        *)
Begin ==
  /\ ppc = "game"
  /\ accesses < MaxAccesses
  /\ ppc' = "wait"
  /\ op' \in Access
  /\ accesses' = accesses + 1
  /\ raced' = FALSE
  /\ UNCHANGED <<dma, posted, cart, value, latest, doubtful>>

(* A faulty WaitOnIoBusy: it looks for a DMA alone.                        *)
WaitOnDma ==
  /\ ppc = "wait"
  /\ ~dma
  /\ ppc' = "access"
  /\ UNCHANGED <<op, dma, posted, cart, value, latest, raced, doubtful, accesses>>

(* WAIT_ON_IOBUSY: the loop ends when PI_STATUS has neither bit.           *)
WaitOnIoBusy ==
  /\ ppc = "wait"
  /\ ~Busy
  /\ ppc' = "access"
  /\ UNCHANGED <<op, dma, posted, cart, value, latest, raced, doubtful, accesses>>

cl64_usb_io_read ==
  /\ ppc = "access"
  /\ op.kind = "read"
  /\ LET a   == op.pi_address
         due == IF Overtaken \/ a \in doubtful THEN PiValues ELSE {latest[a]}
     IN  \E v \in IF Busy THEN PiValues ELSE {cart[a]} :
           value' = {[value |-> v, due |-> due]}
  /\ ppc' = "game"
  /\ UNCHANGED <<op, dma, posted, cart, latest, raced, doubtful, accesses>>

(* The write is posted: the call returns before it has been done.          *)
cl64_usb_io_write ==
  /\ ppc = "access"
  /\ op.kind = "write"
  /\ \/ posted' = {[pi_address |-> op.pi_address, value |-> op.value]}
     \/ Busy /\ posted' = posted
  /\ latest' = [latest EXCEPT ![op.pi_address] = op.value]
  /\ doubtful' = IF Overtaken THEN doubtful \cup {op.pi_address}
                 ELSE doubtful \ {op.pi_address}
  /\ value' = {}
  /\ ppc' = "game"
  /\ UNCHANGED <<op, dma, cart, raced, accesses>>

-----------------------------------------------------------------------------
(* The interface.                                                          *)
DmaDone ==
  /\ dma
  /\ dma' = FALSE
  /\ UNCHANGED <<ppc, op, posted, cart, value, latest, raced, doubtful, accesses>>

WriteDone ==
  \E w \in posted :
    /\ cart' = [cart EXCEPT ![w.pi_address] = w.value]
    /\ posted' = {}
    /\ UNCHANGED <<ppc, op, dma, value, latest, raced, doubtful, accesses>>

(* The game's code waits for the interface as well before it starts one.   *)
(* It runs between two accesses, and its interrupt handlers at any moment. *)
GameDma ==
  /\ ~Busy
  /\ dma' = TRUE
  /\ raced' = (raced \/ ppc = "access")
  /\ UNCHANGED <<ppc, op, posted, cart, value, latest, doubtful, accesses>>

(* External: the cartridge changes one of its registers, as it does when a *)
(* message or the end of a command comes in; a write that is still posted  *)
(* comes after it.                                                         *)
CartSets ==
  \E a \in PiAddresses, v \in PiValues :
    /\ cart' = [cart EXCEPT ![a] = v]
    /\ latest' = IF \E w \in posted : w.pi_address = a THEN latest
                 ELSE [latest EXCEPT ![a] = v]
    /\ UNCHANGED <<ppc, op, dma, posted, value, raced, doubtful, accesses>>

PiDone == DmaDone \/ WriteDone

PiNext == Begin \/ WaitOnIoBusy \/ cl64_usb_io_read \/ cl64_usb_io_write
          \/ PiDone \/ GameDma \/ CartSets

PiSpec == PiInit /\ [][PiNext]_piVars

-----------------------------------------------------------------------------
(* "Reads a 32-bit register value", "Writes a 32-bit register value": a    *)
(* read returns what the payload wrote to that register last or what the   *)
(* cartridge has made of it since, through writes that are posted and DMAs *)
(* that run; and no write is lost, overtaken by another or done twice.     *)
(* Left out are the accesses that meet a DMA which an interrupt has started*)
(* after the wait, and a register while its last write was one of those.   *)
RegistersTrue ==
  /\ \A r \in value : r.value \in r.due
  /\ \A a \in PiAddresses \ doubtful :
       \/ cart[a] = latest[a]
       \/ [pi_address |-> a, value |-> latest[a]] \in posted
=============================================================================
