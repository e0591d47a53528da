------------------------------ MODULE MCParts -------------------------------
(***************************************************************************)
(* Small instances of the parts that share no state with each other or     *)
(* with the link: the entry, the heap, the hooks, the injector, an access  *)
(* to the cartridge, and the calls with a path.  One part is chosen at the *)
(* start and runs alone.  Steps of two such parts commute, and no property *)
(* is about two of them, so this shows the same as all of them together.   *)
(***************************************************************************)
EXTENDS Entry, Heap, Hooks, Injector, PiBus, DirSearch, TLC

CONSTANTS rom, sd     (* two filesystems                                   *)

-----------------------------------------------------------------------------
(* Entry: each register that a C function may change alone, all, none.     *)
MayChange  == Registers \ CalleeSaved
MCClobbers == {{r} : r \in MayChange} \cup {{}, MayChange}
MCHomeSets  == {{}, {2}, Home}
MCWideSets == {{}, {"v0", "s0"}, Registers}

(* Heap: malloc extends the heap by one unit or by three, looks where the  *)
(* break is, or gives back some of the end of the heap.                    *)
MCIncrements == {-2, -1, 0, 1, 3}

(* Hooks: a console with a clock, one that writes both streams with one    *)
(* function, a log for the errors only, and a clock that shares a function *)
(* with another client.                                                    *)
Client(in, out, err, clock) ==
  [stdin_read |-> in, stdout_write |-> out, stderr_write |-> err, time |-> clock]

MCTable == [console |-> Client("in", "out", "err", "clock"),
            screen  |-> Client(NoFunction, "print", "print", NoFunction),
            log     |-> Client(NoFunction, NoFunction, "log", NoFunction),
            rtc     |-> Client(NoFunction, "print", NoFunction, "rtc")]

MCClients   == DOMAIN MCTable
MCFunctions == {MCTable[c][h] : c \in MCClients, h \in Hooks} \ {NoFunction}

(* DirSearch: "rom" is read only; "sd" has what there is.                  *)
MCSupports  == rom :> {"open", "close", "read"} @@ sd :> Ops
MCPathCalls ==
  rom :> {"findfirst", "findnext"} @@
  sd  :> {"findfirst", "findnext", "findnext2", "mkdir", "unlink"}
MCHash(h, i, n) == [bkt |-> 0, pos |-> h]

-----------------------------------------------------------------------------
VARIABLE part         (* the part that runs                                *)

partsVars == <<entryVars, heapVars, hookVars, injectorVars, piVars, dirVars>>

(* A part that does not run has one initial state.                         *)
Idle ==
  /\ part # "heap" => heap_end = 0
  /\ part # "injector" => file = 0 /\ {icache, dcache} = {[b \in Image |-> Clean]}
  /\ part # "pibus" => /\ ~dma
                       /\ op = CHOOSE a \in Access : TRUE
                       /\ cart = CHOOSE c \in [PiAddresses -> PiValues] : TRUE

PartsInit ==
  /\ part \in {"entry", "heap", "hooks", "injector", "pibus", "dirsearch"}
  /\ EntryInit /\ HeapInit /\ HooksInit /\ InjectorInit /\ PiInit /\ DirInit
  /\ Idle

PartsNext ==
  /\ part' = part
  /\ \/ /\ part = "entry"     /\ EntryNext
        /\ UNCHANGED <<heapVars, hookVars, injectorVars, piVars, dirVars>>
     \/ /\ part = "heap"      /\ HeapNext
        /\ UNCHANGED <<entryVars, hookVars, injectorVars, piVars, dirVars>>
     \/ /\ part = "hooks"     /\ HooksNext
        /\ UNCHANGED <<entryVars, heapVars, injectorVars, piVars, dirVars>>
     \/ /\ part = "injector"  /\ InjectorNext
        /\ UNCHANGED <<entryVars, heapVars, hookVars, piVars, dirVars>>
     \/ /\ part = "pibus"     /\ PiNext
        /\ UNCHANGED <<entryVars, heapVars, hookVars, injectorVars, dirVars>>
     \/ /\ part = "dirsearch" /\ DirNext
        /\ UNCHANGED <<entryVars, heapVars, hookVars, injectorVars, piVars>>

PartsSpec == PartsInit /\ [][PartsNext]_<<part, partsVars>>

=============================================================================
