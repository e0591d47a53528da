--------------------------- MODULE Machine_proofs ---------------------------
(***************************************************************************)
(* What holds of the payload's contacts with the machine, for every value of*)
(* the constants: the entry from the game (Entry), for every set of registers*)
(* that cln_run may change, every value of the game and any number of frames;*)
(* the image that the injector reads (Injector), of any size; and the accesses*)
(* to the cartridge's registers (PiBus).                                   *)
(***************************************************************************)
EXTENDS Entry, Injector, PiBus, TLAPS

-----------------------------------------------------------------------------
(* The entry.                                                              *)

(* The registers whose word the game gets back by way of the frame; sp and *)
(* gp come back by way of the two variables.                               *)
Framed == General \ {"at", "sp", "gp"}

(* Those of them whose place cln_run has left alone.                       *)
FramedKept == Framed \ {Pushed[i] : i \in reused}

(* Where the game's words are at each block.                               *)
Backups == /\ cl_stack_backup = Word(entry["sp"])
           /\ cl_gp_backup = Word(entry["gp"])

WhereInv ==
  /\ epc = "save" => regs = entry
  /\ epc = "switch" => /\ Backups
                      /\ \A r \in General \ {"at"} : regs[r] = entry[r]
  /\ epc = "push" => /\ Backups
                    /\ \A r \in Framed : regs[r] = entry[r]
  /\ epc \in {"save", "switch", "push", "run"} => reused = {}
  /\ epc \in {"run", "pop"} =>
       /\ Backups
       /\ \A i \in DOMAIN Pushed \ reused :
            Pushed[i] \in Framed => frame[i] = Word(entry[Pushed[i]])
  /\ epc = "restore" => /\ Backups
                       /\ \A r \in FramedKept : regs[r] = Word(entry[r])
  /\ GameKeepsRegisters

EntryInv == EntryTypeOK /\ WhereInv

-----------------------------------------------------------------------------
(* The registers are loaded from the places they were stored to.           *)
LEMMA SamePlaces == Popped = Pushed
  BY DEF Popped, Pushed

LEMMA RegisterNames ==
  /\ General \subseteq Registers
  /\ {Pushed[i] : i \in DOMAIN Pushed} \subseteq Registers
  /\ {"sp", "gp", "at"} \subseteq Registers
<1>1. General \subseteq Registers
  BY DEF Registers
<1>2. Pushed[1] = "at" /\ Pushed[26] = "gp" /\ {1, 26} \subseteq DOMAIN Pushed
  BY DEF Pushed
<1> QED
  BY <1>1, <1>2 DEF General

LEMMA HomePlaces == Home \subseteq DOMAIN Pushed
  BY DEF Home, Pushed

(* A word of a word is that word.                                          *)
LEMMA WordType ==
  ASSUME NEW v \in Value
  PROVE  Word(v) \in Value /\ Word(Word(v)) = Word(v)
  BY DEF Value, Word

LEMMA OwnType == \A name \in OwnNames : Own(name) \in Value
  BY DEF Own, Value

LEMMA GameType == \A wide \in SUBSET Registers : Game(wide) \in [Registers -> Value]
  BY DEF Game, Value

-----------------------------------------------------------------------------
(* The types, block by block.                                              *)
LEMMA TypeStep ==
  ASSUME EntryTypeOK, [EntryNext]_entryVars
  PROVE  EntryTypeOK'
<1> USE EntryAssumption, RegisterNames, OwnType, WordType, HomePlaces
    DEF EntryTypeOK, Blocks, OwnNames
<1>1. CASE GameCalls
  BY <1>1, GameType DEF GameCalls
<1>2. CASE SaveStackAndGp
  BY <1>2 DEF SaveStackAndGp
<1>3. CASE SwitchStack
  BY <1>3 DEF SwitchStack
<1>4. CASE SaveRegisters
  <2>1. \A i \in DOMAIN Pushed : Word(regs[Pushed[i]]) \in Value
    OBVIOUS
  <2> QED
    BY <1>4, <2>1 DEF SaveRegisters
<1>5. CASE Run
  BY <1>5 DEF Run
<1>6. CASE RestoreRegisters
  <2>1. ASSUME NEW r \in Registers, \E i \in DOMAIN Popped : Popped[i] = r
        PROVE  frame[CHOOSE i \in DOMAIN Popped : Popped[i] = r] \in Value
    BY <2>1, SamePlaces
  <2> QED
    BY <1>6, <2>1 DEF RestoreRegisters
<1>7. CASE RestoreStackAndGp
  BY <1>7 DEF RestoreStackAndGp
<1>8. CASE Return
  BY <1>8 DEF Return
<1>9. CASE UNCHANGED entryVars
  BY <1>9 DEF entryVars
<1> QED
  BY <1>1, <1>2, <1>3, <1>4, <1>5, <1>6, <1>7, <1>8, <1>9 DEF EntryNext

-----------------------------------------------------------------------------
(* What each block does to the game's words.                               *)
LEMMA WhereStep ==
  ASSUME EntryTypeOK, WhereInv, [EntryNext]_entryVars
  PROVE  WhereInv'
<1> USE RegisterNames, HomePlaces
    DEF EntryTypeOK, WhereInv, Backups, GameKeepsRegisters, Framed, FramedKept, Kept
<1>1. CASE GameCalls
  BY <1>1 DEF GameCalls
<1>2. CASE SaveStackAndGp
  BY <1>2 DEF SaveStackAndGp
<1>3. CASE SwitchStack
  BY <1>3 DEF SwitchStack
<1>4. CASE SaveRegisters
  BY <1>4 DEF SaveRegisters
<1>5. CASE Run
  BY <1>5 DEF Run
<1>6. CASE RestoreRegisters
  <2>1. ASSUME NEW r \in FramedKept
        PROVE  regs'[r] = Word(entry[r])
    <3>1. \E i \in DOMAIN Pushed : Pushed[i] = r
      BY DEF General
    <3> DEFINE i == CHOOSE i \in DOMAIN Pushed : Pushed[i] = r
    <3>2. i \in DOMAIN Pushed /\ Pushed[i] = r
      BY <3>1
    <3>3. regs'[r] = frame[i]
      BY <1>6, <3>1, SamePlaces DEF RestoreRegisters
    <3> QED
      BY <1>6, <3>2, <3>3 DEF RestoreRegisters
  <2> QED
    BY <1>6, <2>1 DEF RestoreRegisters
<1>7. CASE RestoreStackAndGp
  BY <1>7 DEF RestoreStackAndGp
<1>8. CASE Return
  BY <1>8 DEF Return
<1>9. CASE UNCHANGED entryVars
  BY <1>9 DEF entryVars
<1> QED
  BY <1>1, <1>2, <1>3, <1>4, <1>5, <1>6, <1>7, <1>8, <1>9 DEF EntryNext

(* The inductive invariant of the entry.                                   *)
THEOREM EntryInvCorrect == EntrySpec => []EntryInv
<1>1. EntryInit => EntryInv
  <2> SUFFICES ASSUME EntryInit PROVE EntryInv
    OBVIOUS
  <2>1. EntryTypeOK
    BY OwnType, GameType, EntryAssumption DEF EntryInit, EntryTypeOK, Blocks, OwnNames
  <2>2. WhereInv
    BY DEF EntryInit, WhereInv, GameKeepsRegisters
  <2> QED
    BY <2>1, <2>2 DEF EntryInv
<1>2. EntryInv /\ [EntryNext]_entryVars => EntryInv'
  BY TypeStep, WhereStep DEF EntryInv
<1> QED
  BY <1>1, <1>2, PTL DEF EntrySpec

(* The game gets every general register back but "at", as far as it held a *)
(* word, from every frame; and v0, v1 and a0 unless cln_run has made use of*)
(* their places.                                                           *)
THEOREM GameKeepsRegistersCorrect == EntrySpec => []GameKeepsRegisters
<1>1. EntryInv => GameKeepsRegisters
  BY DEF EntryInv, WhereInv
<1> QED
  BY <1>1, EntryInvCorrect, PTL

(* No such word of the game is lost on the way.                            *)
THEOREM NothingLostCorrect == EntrySpec => []NothingLost
<1>1. EntryInv => NothingLost
  <2> SUFFICES ASSUME EntryInv, epc # "game", NEW r \in Kept
               PROVE  \/ \E i \in DOMAIN frame : frame[i] = Word(entry[r])
                      \/ Word(entry[r]) \in {Word(regs[r]), cl_stack_backup,
                                             cl_gp_backup}
    BY DEF NothingLost
  <2> USE DEF EntryInv, WhereInv, EntryTypeOK, Backups, Framed, FramedKept, Kept
  <2>1. entry[r] \in Value
    BY RegisterNames
  <2>2. CASE epc \in {"save", "switch", "push"}
    BY <2>2
  <2>3. CASE epc \in {"run", "pop"}
    BY <2>3 DEF General
  <2>4. CASE epc \in {"restore", "return"}
    BY <2>1, <2>4, WordType DEF GameKeepsRegisters
  <2> QED
    BY <2>2, <2>3, <2>4 DEF Blocks
<1> QED
  BY <1>1, EntryInvCorrect, PTL

(* The types of the entry's variables.                                     *)
THEOREM EntryTypeCorrect == EntrySpec => []EntryTypeOK
<1>1. EntryInv => EntryTypeOK
  BY DEF EntryInv
<1> QED
  BY <1>1, EntryInvCorrect, PTL

-----------------------------------------------------------------------------
(* The injector.                                                           *)

(* A dirty line of a block that has been read holds it, one of any other   *)
(* is old; every block that has been read is in the data cache or in       *)
(* memory; and how far main is says which of the caches are empty.         *)
ImageInv ==
  /\ InjectorTypeOK
  /\ \A b \in Image : dcache[b] \in {IF b < next THEN b ELSE Old, Clean}
  /\ \A b \in Image : b < next => Loaded(b) = b
  /\ ipc \in {"writeback", "invalidate", "wait", "jump", "reported"} => file < next
  /\ ipc \in {"invalidate", "wait", "jump", "reported"} =>
       \A b \in Image : dcache[b] = Clean
  /\ ipc \in {"wait", "jump", "reported"} => \A b \in Image : icache[b] = Clean

(* Every block that fread delivers, every line that a cache lets go of and *)
(* every operation on all of a cache keeps it.                             *)
LEMMA ImageStep == ImageInv /\ [InjectorNext]_injectorVars => ImageInv'
<1> SUFFICES ASSUME ImageInv, [InjectorNext]_injectorVars PROVE ImageInv'
  OBVIOUS
<1> USE InjectorAssumption DEF Image, Clean, Old
<1>1. ASSUME NEW b \in Image, WriteBack(b) PROVE ImageInv'
  BY <1>1 DEF WriteBack, ImageInv, InjectorTypeOK, Loaded
<1>2. ASSUME NEW b \in Image, DropInstructions(b) PROVE ImageInv'
  BY <1>2 DEF DropInstructions, ImageInv, InjectorTypeOK, Loaded
<1>3. CASE OpenFile
  BY <1>3 DEF OpenFile, ImageInv, InjectorTypeOK, Loaded
<1>4. CASE ReadFile
  <2>1. CASE next <= file /\ next' = next + 1 /\ UNCHANGED <<ipc, file, icache>>
             /\ dcache' = [dcache EXCEPT ![next] = next] /\ dram' = dram
    BY <1>4, <2>1 DEF ReadFile, ImageInv, InjectorTypeOK, Loaded
  <2>2. CASE next <= file /\ next' = next + 1 /\ UNCHANGED <<ipc, file, icache>>
             /\ dram' = [dram EXCEPT ![next] = next]
             /\ dcache' = [dcache EXCEPT ![next] = Clean]
    BY <1>4, <2>2 DEF ReadFile, ImageInv, InjectorTypeOK, Loaded
  <2>3. CASE UNCHANGED <<next, dram, dcache, file, icache>>
             /\ (ipc' = "failed" \/ (next > file /\ ipc' = "writeback"))
    BY <1>4, <2>3 DEF ReadFile, ImageInv, InjectorTypeOK, Loaded
  <2> QED
    BY <1>4, <2>1, <2>2, <2>3 DEF ReadFile
<1>5. CASE WriteBackAll
  BY <1>5 DEF WriteBackAll, ImageInv, InjectorTypeOK, Loaded
<1>6. CASE InvalidateAll
  BY <1>6 DEF InvalidateAll, ImageInv, InjectorTypeOK, Loaded
<1>7. CASE PressL
  BY <1>7 DEF PressL, ImageInv, InjectorTypeOK, Loaded
<1>8. CASE CallPayload
  BY <1>8 DEF CallPayload, ImageInv, InjectorTypeOK, Loaded
<1>9. CASE UNCHANGED injectorVars
  BY <1>9 DEF injectorVars, ImageInv, InjectorTypeOK, Loaded
<1> QED
  BY <1>1, <1>2, <1>3, <1>4, <1>5, <1>6, <1>7, <1>8, <1>9 DEF InjectorNext, CacheStep

LEMMA ImageInvHolds == InjectorSpec => []ImageInv
<1>1. InjectorInit => ImageInv
  BY InjectorAssumption
  DEF InjectorInit, ImageInv, InjectorTypeOK, Image, Clean, Old, Loaded
<1> QED
  BY <1>1, ImageStep, PTL DEF InjectorSpec

(* fread never goes past the end of the image.                             *)
THEOREM InjectorTypeCorrect == InjectorSpec => []InjectorTypeOK
<1>1. ImageInv => InjectorTypeOK
  BY DEF ImageInv
<1> QED
  BY <1>1, ImageInvHolds, PTL

(* When main may jump, every instruction that is fetched and every         *)
(* constant that is loaded is the one in payload.bin, for every size of    *)
(* the image and whatever the two caches held, kept and let go of.         *)
THEOREM ImageInPlaceCorrect == InjectorSpec => []ImageInPlace
<1>1. ImageInv => ImageInPlace
  BY InjectorAssumption
  DEF ImageInv, InjectorTypeOK, ImageInPlace, Image, Fetched, Loaded, Clean
<1> QED
  BY <1>1, ImageInvHolds, PTL

-----------------------------------------------------------------------------
(* An access to a register of the cartridge.                               *)

(* The interface has at most one write to do, the last one; and when an    *)
(* access is made it has none, and no DMA but one that an interrupt started*)
(* after the wait.                                                         *)
PiInv ==
  /\ PiTypeOK
  /\ RegistersTrue
  /\ \A w \in posted : \/ w.pi_address \in doubtful
                       \/ w.value = latest[w.pi_address]
  /\ \A v, w \in posted : v = w
  /\ ppc = "access" => posted = {} /\ (dma => raced)

(* Every step of the payload, of the interface, of the game and of the     *)
(* cartridge keeps it.                                                     *)
LEMMA PiStep == PiInv /\ [PiNext]_piVars => PiInv'
<1> SUFFICES ASSUME PiInv, [PiNext]_piVars PROVE PiInv'
  OBVIOUS
<1>1. CASE Begin
  <2>1. accesses' \in 0 .. MaxAccesses
    BY <1>1, PiAssumption DEF Begin, PiInv, PiTypeOK
  <2>2. PiTypeOK'
    BY <1>1, <2>1, Zenon DEF Begin, PiInv, PiTypeOK
  <2>3. RegistersTrue'
    BY <1>1 DEF Begin, PiInv, RegistersTrue
  <2> QED
    BY <1>1, <2>2, <2>3 DEF Begin, PiInv
<1>2. CASE WaitOnIoBusy
  BY <1>2 DEF WaitOnIoBusy, PiInv, PiTypeOK, RegistersTrue, Busy
<1>3. CASE cl64_usb_io_read
  <2> DEFINE a   == op.pi_address
             due == IF Overtaken \/ a \in doubtful THEN PiValues ELSE {latest[a]}
  <2>1. PICK v \in IF Busy THEN PiValues ELSE {cart[a]} :
               value' = {[value |-> v, due |-> due]}
    BY <1>3 DEF cl64_usb_io_read
  <2>2. /\ ppc' = "game"
        /\ UNCHANGED <<op, dma, posted, cart, latest, raced, doubtful, accesses>>
    BY <1>3 DEF cl64_usb_io_read
  <2>3. a \in PiAddresses
    BY DEF PiInv, PiTypeOK, Access
  <2>4. v \in PiValues /\ due \in SUBSET PiValues
    BY <2>1, <2>3 DEF PiInv, PiTypeOK
  <2>5. v \in due
    <3>1. CASE Overtaken \/ a \in doubtful
      BY <2>4, <3>1
    <3>2. CASE ~Overtaken /\ a \notin doubtful
      <4>1. posted = {} /\ ~Busy
        BY <1>3, <3>2 DEF cl64_usb_io_read, PiInv, Overtaken, Busy
      <4>2. v = cart[a] /\ cart[a] = latest[a]
        BY <2>1, <2>3, <3>2, <4>1 DEF PiInv, RegistersTrue
      <4> QED
        BY <3>2, <4>2
    <3> QED
      BY <3>1, <3>2
  <2>6. PiTypeOK'
    <3> HIDE DEF due
    <3>1. value' \in SUBSET Read
      BY <2>1, <2>4 DEF Read
    <3> QED
      BY <2>2, <3>1 DEF PiInv, PiTypeOK
  <2>7. \A r \in value' : r.value \in r.due
    <3> HIDE DEF due
    <3> QED
      BY <2>1, <2>5
  <2> QED
    BY <2>2, <2>6, <2>7 DEF PiInv, RegistersTrue
<1>4. CASE cl64_usb_io_write
  <2>1. PICK w \in Write : w = [pi_address |-> op.pi_address, value |-> op.value]
    BY DEF PiInv, PiTypeOK, Access, Write
  <2>2. /\ posted' \in {{w}, posted}
        /\ latest' = [latest EXCEPT ![w.pi_address] = w.value]
        /\ value' = {} /\ ppc' = "game" /\ UNCHANGED <<op, dma, cart, raced, accesses>>
    BY <1>4, <2>1 DEF cl64_usb_io_write
  <2>3. posted = {}
    BY <1>4 DEF cl64_usb_io_write, PiInv
  <2>4. \A a \in PiAddresses \ doubtful : cart[a] = latest[a]
    BY <2>3 DEF PiInv, RegistersTrue
  <2>5. /\ w.pi_address \in PiAddresses /\ w.value \in PiValues
        /\ w = [pi_address |-> w.pi_address, value |-> w.value]
    BY <2>1 DEF Write
  <2>6. \/ doubtful' = doubtful \cup {w.pi_address}
        \/ posted' = {w} /\ doubtful' = doubtful \ {w.pi_address}
    BY <1>4, <2>1, <2>3 DEF cl64_usb_io_write, PiInv, Busy, Overtaken
  <2>7. PiTypeOK'
    BY <2>2, <2>3, <2>5, <2>6 DEF PiInv, PiTypeOK
  <2>8. RegistersTrue'
    BY <2>2, <2>4, <2>5, <2>6 DEF PiInv, PiTypeOK, RegistersTrue
  <2> QED
    BY <2>2, <2>3, <2>5, <2>7, <2>8 DEF PiInv, PiTypeOK
<1>5. CASE DmaDone
  BY <1>5 DEF DmaDone, PiInv, PiTypeOK, RegistersTrue
<1>6. CASE WriteDone
  <2>1. PICK w \in posted :
          /\ cart' = [cart EXCEPT ![w.pi_address] = w.value]
          /\ posted' = {}
          /\ UNCHANGED <<ppc, op, dma, value, latest, raced, doubtful, accesses>>
    BY <1>6 DEF WriteDone
  <2>2. w.pi_address \in PiAddresses /\ w.value \in PiValues
    BY DEF PiInv, PiTypeOK, Write
  <2>3. PiTypeOK'
    BY <2>1, <2>2 DEF PiInv, PiTypeOK
  <2>4. ASSUME NEW a \in PiAddresses \ doubtful
        PROVE  cart'[a] = latest[a]
    <3>1. CASE a = w.pi_address
      BY <2>1, <2>2, <3>1 DEF PiInv, PiTypeOK
    <3>2. CASE a # w.pi_address
      <4>1. [pi_address |-> a, value |-> latest[a]] \notin posted
        BY <3>2 DEF PiInv
      <4>2. cart[a] = latest[a]
        BY <4>1 DEF PiInv, RegistersTrue
      <4> QED
        BY <2>1, <3>2, <4>2 DEF PiInv, PiTypeOK
    <3> QED
      BY <3>1, <3>2
  <2>5. RegistersTrue'
    BY <2>1, <2>4 DEF PiInv, RegistersTrue
  <2> QED
    BY <2>1, <2>3, <2>5 DEF PiInv
<1>7. CASE GameDma
  BY <1>7 DEF GameDma, PiInv, PiTypeOK, RegistersTrue, Busy
<1>8. CASE CartSets
  <2>1. PICK a \in PiAddresses, v \in PiValues :
          /\ cart' = [cart EXCEPT ![a] = v]
          /\ latest' = IF \E w \in posted : w.pi_address = a THEN latest
                       ELSE [latest EXCEPT ![a] = v]
          /\ UNCHANGED <<ppc, op, dma, posted, value, raced, doubtful, accesses>>
    BY <1>8 DEF CartSets
  <2>2. PiTypeOK'
    BY <2>1 DEF PiInv, PiTypeOK
  <2>3. CASE \E w \in posted : w.pi_address = a
    <3>1. PICK w \in posted : w.pi_address = a
      BY <2>3
    <3>2. w = [pi_address |-> a, value |-> w.value]
      BY <3>1 DEF PiInv, PiTypeOK, Write
    <3>3. latest' = latest
      BY <2>1, <2>3
    <3> QED
      BY <2>1, <2>2, <3>1, <3>2, <3>3 DEF PiInv, PiTypeOK, RegistersTrue
  <2>4. CASE ~\E w \in posted : w.pi_address = a
    <3>1. latest' = [latest EXCEPT ![a] = v]
      BY <2>1, <2>4
    <3> QED
      BY <2>1, <2>2, <2>4, <3>1 DEF PiInv, PiTypeOK, RegistersTrue
  <2> QED
    BY <2>3, <2>4
<1>9. CASE UNCHANGED piVars
  BY <1>9 DEF piVars, PiInv, PiTypeOK, RegistersTrue
<1> QED
  BY <1>1, <1>2, <1>3, <1>4, <1>5, <1>6, <1>7, <1>8, <1>9 DEF PiNext, PiDone

LEMMA PiInvHolds == PiSpec => []PiInv
<1>1. PiInit => PiInv
  <2> SUFFICES ASSUME PiInit PROVE PiInv
    OBVIOUS
  <2>1. PiTypeOK
    <3>1. accesses \in 0 .. MaxAccesses
      BY PiAssumption DEF PiInit
    <3> QED
      BY <3>1, Zenon DEF PiInit, PiTypeOK
  <2>2. RegistersTrue
    BY DEF PiInit, RegistersTrue
  <2> QED
    BY <2>1, <2>2 DEF PiInit, PiInv
<1> QED
  BY <1>1, PiStep, PTL DEF PiSpec

(* The interface and the registers hold values of the cartridge.           *)
THEOREM PiTypeCorrect == PiSpec => []PiTypeOK
<1>1. PiInv => PiTypeOK
  BY DEF PiInv
<1> QED
  BY <1>1, PiInvHolds, PTL

(* A read returns what the payload or the cartridge put there last, and no *)
(* write is lost, for any registers, values and number of accesses, but for*)
(* those that meet a DMA which an interrupt started after the wait.        *)
THEOREM RegistersTrueCorrect == PiSpec => []RegistersTrue
<1>1. PiInv => RegistersTrue
  BY DEF PiInv
<1> QED
  BY <1>1, PiInvHolds, PTL

=============================================================================
