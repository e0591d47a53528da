----------------------------- MODULE FileTable ------------------------------
(***************************************************************************)
(* The file layer of payload/system.c, newlib's system calls for the N64:  *)
(* a table of attached filesystems, a table of open handles that grows by  *)
(* buckets, and file numbers that pack a filesystem index and the place of *)
(* a handle.  It runs on one thread, so every call is one action.          *)
(*                                                                         *)
(* A filesystem is a set of callbacks, given by the operations it supports;*)
(* the callbacks are external: open returns a handle that is not in use,   *)
(* or fails.  Calls rejected for a NULL argument change nothing and are    *)
(* left out.                                                               *)
(***************************************************************************)
EXTENDS Naturals, FiniteSets, FiniteSetsExt, Bss

CONSTANTS
  MAX_FILESYSTEMS, HANDLE_MAX_BUCKETS, HANDLE_BUCKET_SIZE,
  Prefixes,      (* prefixes such as "rom:/", none the start of another    *)
  Filesystems,   (* the callback structures that clients attach            *)
  Supports,      (* the callbacks that each of them has                    *)
  Handles,       (* the addresses that fs->open can return                 *)
  Hash(_, _, _), (* where the search for a slot starts, from the handle,   *)
                 (* the filesystem's index and the number of buckets that  *)
                 (* are searched: a bucket and a position                  *)
  NULL,
  CallocFails,   (* calloc may fail                                        *)
  DetachBusy     (* clients detach filesystems that have open files        *)

Ops == {"open", "close", "stat", "fstat", "lseek", "read", "write",
        "ftruncate", "ioctl"}

(* The widths of the fields of a file number: five bits for the position,  *)
(* six for the bucket, four for the filesystem's index plus one.           *)
ASSUME WidthAssumption ==
  /\ MAX_FILESYSTEMS \in 1 .. 15
  /\ HANDLE_MAX_BUCKETS \in 1 .. 64
  /\ HANDLE_BUCKET_SIZE \in 4 .. 32

ASSUME HashAssumption ==
  \A h \in Handles, i \in 0 .. MAX_FILESYSTEMS - 1, n \in 1 .. HANDLE_MAX_BUCKETS :
    Hash(h, i, n) \in [bkt : Nat, pos : 0 .. HANDLE_BUCKET_SIZE - 1]

(* The mappings, the first bucket and the count of open handles are in     *)
(* .bss.  If it is not zero, the first calls follow what an earlier run    *)
(* left there, and what they do is undefined.                              *)
ASSUME ClearedAssumption == BssCleared

ASSUME ClientAssumption ==
  /\ Supports \in [Filesystems -> SUBSET Ops]
  /\ NULL \notin Prefixes \cup Filesystems \cup Handles
  /\ CallocFails \in BOOLEAN /\ DetachBusy \in BOOLEAN

VARIABLES
  filesystems,            (* prefix and callbacks, by index                *)
  handle_map,             (* the handle in each slot, or NULL              *)
  handle_buckets_count,
  handle_open_count,
  owner,                  (* external: the filesystem a handle is open in  *)
  files                   (* external: what clients hold, see File         *)

tableVars == <<filesystems, handle_map, handle_buckets_count, handle_open_count>>
vars      == <<tableVars, owner, files>>

FsIndexes == 0 .. MAX_FILESYSTEMS - 1
Slots     == (0 .. HANDLE_MAX_BUCKETS - 1) \X (0 .. HANDLE_BUCKET_SIZE - 1)

(* A file number that open returned, and the handle it returned it for.    *)
File == [fileno : Nat, handle : Handles]

Unattached == [prefix |-> NULL, fs |-> NULL]

TypeOK ==
  /\ filesystems \in [FsIndexes -> [prefix : Prefixes \cup {NULL},
                                    fs : Filesystems \cup {NULL}]]
  /\ handle_map \in [Slots -> Handles \cup {NULL}]
  /\ handle_buckets_count \in 1 .. HANDLE_MAX_BUCKETS
  /\ handle_open_count \in Nat
  /\ owner \in [Handles -> Filesystems \cup {NULL}]
  /\ files \in SUBSET File

Init ==
  /\ filesystems = [i \in FsIndexes |-> Unattached]
  /\ handle_map = [s \in Slots |-> NULL]
  /\ handle_buckets_count = 1
  /\ handle_open_count = 0
  /\ owner = [h \in Handles |-> NULL]
  /\ files = {}

-----------------------------------------------------------------------------
(* File numbers.  The fields do not overlap, so | is +.                    *)
(* A faulty FILENO_MAKE: the filesystem's index without the plus one.      *)
FILENO_MAKE_Zero(bkt_idx, bkt_pos, fs_index) ==
  bkt_pos + 32 * bkt_idx + 2048 * fs_index

FILENO_MAKE(bkt_idx, bkt_pos, fs_index) ==
  bkt_pos + 32 * bkt_idx + 2048 * (fs_index + 1)

FILENO_GET_BUCKET_POS(fileno) == fileno % 32

(* A faulty FILENO_GET_BUCKET_IDX: without the mask.                       *)
FILENO_GET_BUCKET_IDX_Unmasked(fileno) == fileno \div 32

FILENO_GET_BUCKET_IDX(fileno) == (fileno \div 32) % 64

(* The index plus one: 0 in a number that FILENO_MAKE did not make.        *)
FILENO_GET_FS_FIELD(fileno) == (fileno \div 2048) % 16

-----------------------------------------------------------------------------
(* Lookups.                                                                *)

Attached(prefix) == {i \in FsIndexes : filesystems[i].prefix = prefix}

(* __get_fs_pointer_by_handle: an index, or none.                          *)
FsByFileno(fileno) ==
  {i \in FsIndexes : /\ i + 1 = FILENO_GET_FS_FIELD(fileno)
                     /\ filesystems[i].fs # NULL}

(* __get_fs_handle: an occupied slot, or none.  Which filesystem the       *)
(* handle in it belongs to is not looked at.                               *)
SlotByFileno(fileno) ==
  {s \in Slots : /\ s = <<FILENO_GET_BUCKET_IDX(fileno),
                          FILENO_GET_BUCKET_POS(fileno)>>
                 /\ s[1] < handle_buckets_count
                 /\ handle_map[s] # NULL}

-----------------------------------------------------------------------------
(* __allocate_fileno                                                       *)

(* A faulty MapIsFull: the table grows only when it is more than full.     *)
MapIsOverfull ==
  /\ handle_buckets_count < HANDLE_MAX_BUCKETS
  /\ handle_open_count > handle_buckets_count * HANDLE_BUCKET_SIZE

MapIsFull ==
  /\ handle_buckets_count < HANDLE_MAX_BUCKETS
  /\ handle_open_count + handle_open_count \div 4
       > handle_buckets_count * HANDLE_BUCKET_SIZE

(* The number of buckets the search goes through.                          *)
BucketsToSearch == handle_buckets_count + (IF MapIsFull THEN 1 ELSE 0)

Start(h, i) == Hash(h, i, BucketsToSearch)

(* The k-th slot that the search for a place for handle h looks at: all of *)
(* a bucket from some position on, then the next bucket from there.        *)
Probe(h, i, k) ==
  <<(Start(h, i).bkt + k \div HANDLE_BUCKET_SIZE) % BucketsToSearch,
    (Start(h, i).pos + k) % HANDLE_BUCKET_SIZE>>

EmptyProbes(h, i) ==
  {k \in 0 .. BucketsToSearch * HANDLE_BUCKET_SIZE - 1 :
     handle_map[Probe(h, i, k)] = NULL}

(* The slot that the handle gets, if there is one.                         *)
SlotFor(h, i) == Probe(h, i, Min(EmptyProbes(h, i)))

-----------------------------------------------------------------------------
(* A call that returns an error, or only reads the table.                  *)
Refused == UNCHANGED vars

(* A faulty attach_filesystem: a prefix may come twice.                    *)
AttachTwice(prefix, fs) ==
  /\ Attached(NULL) # {}
  /\ filesystems' = [filesystems EXCEPT
                       ![Min(Attached(NULL))] = [prefix |-> prefix, fs |-> fs]]
  /\ UNCHANGED <<handle_map, handle_buckets_count, handle_open_count,
                 owner, files>>

attach_filesystem(prefix, fs) ==
  \/ /\ Attached(prefix) # {} \/ Attached(NULL) = {}
     /\ Refused
  \/ /\ Attached(prefix) = {}
     /\ Attached(NULL) # {}
     /\ filesystems' = [filesystems EXCEPT
                          ![Min(Attached(NULL))] = [prefix |-> prefix, fs |-> fs]]
     /\ UNCHANGED <<handle_map, handle_buckets_count, handle_open_count,
                    owner, files>>

(* The mapping that a name leads to, or none.                              *)
Named(prefix) == {i \in Attached(prefix) : i = Min(Attached(prefix))}

(* The files that clients have open in the filesystem at index i.          *)
OpenIn(i) == {f \in files : i \in FsByFileno(f.fileno)}

(* Nothing looks for open files: to detach only an idle filesystem is up   *)
(* to the client.                                                          *)
detach_filesystem(prefix) ==
  \/ Named(prefix) = {} /\ Refused
  \/ \E i \in Named(prefix) :
       /\ DetachBusy \/ OpenIn(i) = {}
       /\ filesystems' = [filesystems EXCEPT ![i] = Unattached]
       /\ UNCHANGED <<handle_map, handle_buckets_count, handle_open_count,
                      owner, files>>

-----------------------------------------------------------------------------
(* open, in the filesystem at index i; h is what fs->open returns.         *)
FreeHandles(i) ==
  IF "open" \in Supports[filesystems[i].fs]
  THEN {h \in Handles : owner[h] = NULL}
  ELSE {}

(* __allocate_fileno fails with ENOMEM or ENFILE, and open returns its -1: *)
(* the handle that fs->open returned is not closed.                        *)
HandleLost(h, i) ==
  /\ (CallocFails /\ MapIsFull) \/ EmptyProbes(h, i) = {}
  /\ owner' = [owner EXCEPT ![h] = filesystems[i].fs]
  /\ UNCHANGED <<tableVars, files>>

(* A faulty Enter: every handle brings a bucket.                           *)
EnterAndGrow(h, i) ==
  /\ handle_map' = [handle_map EXCEPT ![SlotFor(h, i)] = h]
  /\ handle_open_count' = handle_open_count + 1
  /\ handle_buckets_count' = handle_buckets_count + 1
  /\ owner' = [owner EXCEPT ![h] = filesystems[i].fs]
  /\ UNCHANGED filesystems

(* The handle is put into its slot; the table may have grown for it.       *)
Enter(h, i) ==
  /\ handle_map' = [handle_map EXCEPT ![SlotFor(h, i)] = h]
  /\ handle_open_count' = handle_open_count + 1
  /\ handle_buckets_count' = BucketsToSearch
  /\ owner' = [owner EXCEPT ![h] = filesystems[i].fs]
  /\ UNCHANGED filesystems

(* No mapping, no callback, or a callback that fails; or a file number.    *)
open(prefix) ==
  \/ Refused
  \/ \E i \in Named(prefix) : \E h \in FreeHandles(i) :
       \/ HandleLost(h, i)
       \/ /\ EmptyProbes(h, i) # {}
          /\ Enter(h, i)
          /\ files' = files \cup
               {[fileno |-> FILENO_MAKE(SlotFor(h, i)[1], SlotFor(h, i)[2], i),
                 handle |-> h]}

(* A faulty OpenUseClose: the file stays open.                             *)
OpenUse(i) ==
  \E h \in FreeHandles(i) :
    /\ EmptyProbes(h, i) # {}
    /\ Enter(h, i)
    /\ UNCHANGED files

(* open, one operation on the file, close.  Nobody looks at what close     *)
(* returns: without a callback for it the slot stays taken.                *)
OpenUseClose(i) ==
  \E h \in FreeHandles(i) :
    \/ HandleLost(h, i)
    \/ /\ EmptyProbes(h, i) # {}
       /\ IF "close" \in Supports[filesystems[i].fs]
          THEN /\ handle_buckets_count' = BucketsToSearch
               /\ UNCHANGED <<filesystems, handle_map, handle_open_count, owner>>
          ELSE Enter(h, i)
       /\ UNCHANGED files

(* stat falls back on open and fstat when it has no callback of its own.   *)
stat(prefix) ==
  \/ Refused
  \/ \E i \in Named(prefix) :
       "stat" \notin Supports[filesystems[i].fs] /\ OpenUseClose(i)

truncate(prefix) ==
  \/ Refused
  \/ \E i \in Named(prefix) : OpenUseClose(i)

-----------------------------------------------------------------------------
(* The callback that a call with an open file's number reaches, if there   *)
(* is one: of which filesystem, with a handle that is open in which.       *)
Reached(fileno, op) ==
  {[fs |-> filesystems[i].fs, handleOf |-> owner[handle_map[s]]] :
     i \in {j \in FsByFileno(fileno) : op \in Supports[filesystems[j].fs]},
     s \in SlotByFileno(fileno)}

(* The numbers of the standard streams go elsewhere: see module Hooks.     *)
fstat(fileno) == IF fileno < 3 THEN {} ELSE Reached(fileno, "fstat")
read(fileno)  == IF fileno < 3 THEN {} ELSE Reached(fileno, "read")
write(fileno) == IF fileno < 3 THEN {} ELSE Reached(fileno, "write")

lseek(fileno) == Reached(fileno, "lseek")
ioctl(fileno) == Reached(fileno, "ioctl")

(* (a negative length is refused)                                          *)
ftruncate(fileno) == Reached(fileno, "ftruncate")

(* A faulty close: the slot is free again, the count is as before.         *)
CloseUncounted(file) ==
  /\ files' = files \ {file}
  /\ \E i \in FsByFileno(file.fileno), s \in SlotByFileno(file.fileno) :
       /\ handle_map' = [handle_map EXCEPT ![s] = NULL]
       /\ owner' = [owner EXCEPT ![handle_map[s]] = NULL]
       /\ UNCHANGED <<filesystems, handle_buckets_count, handle_open_count>>

(* The client lets go of the file, also when close returns an error for it.*)
close(file) ==
  /\ files' = files \ {file}
  /\ \/ /\ \/ SlotByFileno(file.fileno) = {}
           \/ \A i \in FsByFileno(file.fileno) :
                "close" \notin Supports[filesystems[i].fs]
        /\ UNCHANGED <<tableVars, owner>>
     \/ \E i \in FsByFileno(file.fileno), s \in SlotByFileno(file.fileno) :
          /\ "close" \in Supports[filesystems[i].fs]
          /\ handle_map' = [handle_map EXCEPT ![s] = NULL]
          /\ handle_open_count' = handle_open_count - 1
          /\ owner' = [owner EXCEPT ![handle_map[s]] = NULL]
          /\ UNCHANGED <<filesystems, handle_buckets_count>>

Next ==
  \/ \E prefix \in Prefixes :
       \/ \E fs \in Filesystems : attach_filesystem(prefix, fs)
       \/ detach_filesystem(prefix)
       \/ open(prefix)
       \/ stat(prefix)
       \/ truncate(prefix)
  \/ \E file \in files : close(file)

Spec == Init /\ [][Next]_vars

-----------------------------------------------------------------------------
Occupied == {s \in Slots : handle_map[s] # NULL}

(* The count that decides when the table grows is the number of handles    *)
(* in it, whatever opens, closes and failures came before.                 *)
OpenCountMatches == handle_open_count = Cardinality(Occupied)

(* A file number that a client holds leads to the handle that open got for *)
(* it and to the filesystem that handle is open in, and the numbers of two *)
(* open files differ, through growth of the table and reuse of its slots.  *)
FilesResolve ==
  /\ \A f \in files :
       /\ \E s \in SlotByFileno(f.fileno) : handle_map[s] = f.handle
       /\ \E i \in FsByFileno(f.fileno) : filesystems[i].fs = owner[f.handle]
  /\ \A f, g \in files : f.fileno = g.fileno => f = g

(* The abstract file layer: the mappings in use, and each open file with   *)
(* the mapping that its number leads to.                                   *)
Mounts == {filesystems[i] : i \in FsIndexes} \ {Unattached}

FileAt(f, i) ==
  [fileno |-> f.fileno, handle |-> f.handle, mount |-> filesystems[i]]

Opened == UNION {{FileAt(f, i) : i \in FsByFileno(f.fileno)} : f \in files}

F == INSTANCE Files WITH mounts <- Mounts, opened <- Opened

(* To its clients the file layer is Files: every call has the effect of    *)
(* one on mounts, open files and handles alone, through growth of the      *)
(* table, searches that wrap around, slots and indexes that are reused, and*)
(* fields that share 15 bits.                                              *)
ImplementsFiles == F!Spec

(* A file number is not 0, 1 or 2 (nor 3), the numbers of the standard     *)
(* streams, and fits the 15 bits that newlib has for it.                   *)
FilenoInRange == \A f \in files : f.fileno > 3 /\ f.fileno < 32768

(* Every callback that a client's file number leads to belongs to the      *)
(* filesystem that the handle is open in: "we always know which filesystem *)
(* use to operate on the handle".                                          *)
CallsRightFilesystem ==
  \A f \in files :
    \A c \in fstat(f.fileno) \cup lseek(f.fileno) \cup read(f.fileno)
               \cup write(f.fileno) \cup ftruncate(f.fileno) \cup ioctl(f.fileno) :
      c.fs = c.handleOf

(* A slot is taken only while a client holds a file number for it, unless  *)
(* the filesystem has no close.                                            *)
NoSlotLeak ==
  \A s \in Occupied :
    \/ "close" \notin Supports[owner[handle_map[s]]]
    \/ \E f \in files : s \in SlotByFileno(f.fileno)

(* A handle that a filesystem opened is lost only when calloc fails for a  *)
(* new bucket, or every slot of every bucket that the table may have is    *)
(* taken: the search misses no empty slot, and the table grows in time.    *)
LostOnlyWhenFull ==
  [][(\E h \in Handles : owner[h] = NULL /\ owner'[h] # NULL)
       => \/ handle_map' # handle_map
          \/ CallocFails /\ MapIsFull
          \/ Occupied = Slots]_vars

(* "Allocate whenever the handle map is full at 75%": an open that finds   *)
(* three quarters of the slots taken adds a bucket.                        *)
GrowsAt75 ==
  [][(/\ handle_open_count' > handle_open_count
      /\ handle_buckets_count < HANDLE_MAX_BUCKETS
      /\ 4 * handle_open_count >= 3 * handle_buckets_count * HANDLE_BUCKET_SIZE)
     => handle_buckets_count' > handle_buckets_count]_vars
=============================================================================
