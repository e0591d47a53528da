-------------------------- MODULE FileTable_proofs --------------------------
(***************************************************************************)
(* What holds of the file layer (FileTable) and of the calls with a path   *)
(* (DirSearch) for every number of filesystems, buckets and handles.       *)
(***************************************************************************)
EXTENDS DirSearch, TLAPS, FiniteSetTheorems

-----------------------------------------------------------------------------
(* Numbers and file numbers.                                               *)

(* A set of numbers that is not empty has a least one.                     *)
LEMMA Least ==
  ASSUME NEW S \in SUBSET Nat, S # {}
  PROVE  /\ Min(S) \in S
         /\ \A y \in S : Min(S) <= y
<1>1. PICK x \in S : \A y \in S : <<y, x>> \notin OpToRel(<, Nat)
  BY NatLessThanWellFounded, WFMin
<1>2. \A y \in S : x <= y
  <2> SUFFICES ASSUME NEW y \in S, y < x PROVE FALSE
    OBVIOUS
  <2>1. <<y, x>> \in OpToRel(<, Nat)
    BY Zenon DEF OpToRel
  <2> QED
    BY <1>1, <2>1
<1> QED
  BY <1>2 DEF Min

(* Division with a remainder. *)
LEMMA Division ==
  ASSUME NEW m \in Nat \ {0}, NEW q \in Nat, NEW r \in 0 .. m - 1
  PROVE  (q * m + r) \div m = q /\ (q * m + r) % m = r
OBVIOUS

LEMMA Divided ==
  ASSUME NEW m \in Nat \ {0}, NEW a \in Nat
  PROVE  /\ a \div m \in Nat /\ a % m \in 0 .. m - 1
         /\ a = (a \div m) * m + (a % m)
<1>1. a \div m \in Nat
  OBVIOUS
<1>2. a % m \in 0 .. m - 1
  OBVIOUS
<1>3. a = (a \div m) * m + (a % m)
  OBVIOUS
<1> QED
  BY <1>1, <1>2, <1>3

(* Adding to a number goes round all the remainders.                       *)
LEMMA RoundAll ==
  ASSUME NEW m \in Nat \ {0}, NEW a \in Nat, NEW b \in 0 .. m - 1
  PROVE  \E j \in 0 .. m - 1 : (a + j) % m = b
<1>1. PICK q \in Nat, r \in 0 .. m - 1 : a = q * m + r
  BY Divided
<1>2. CASE r <= b
  <2>1. PICK j \in 0 .. m - 1 : j = b - r
    BY <1>2
  <2>2. a + j = q * m + b
    BY <1>1, <2>1
  <2>3. (a + j) % m = b
    BY <2>2, Division
  <2> QED
    BY <2>3
<1>3. CASE r > b
  <2>1. PICK j \in 0 .. m - 1 : j = b - r + m
    BY <1>3
  <2>2. (q + 1) * m = q * m + m
    OBVIOUS
  <2>3. a + j = (q + 1) * m + b
    BY <1>1, <2>1, <2>2
  <2>4. PICK t \in Nat : t = q + 1
    OBVIOUS
  <2>5. (t * m + b) % m = b
    BY Division
  <2> QED
    BY <2>3, <2>4, <2>5
<1> QED
  BY <1>2, <1>3

(* A multiple does not count for the remainder.                            *)
LEMMA WholeTurns ==
  ASSUME NEW m \in Nat \ {0}, NEW a \in Nat, NEW j \in Nat
  PROVE  (a + j * m) % m = a % m
<1>1. PICK q \in Nat, r \in 0 .. m - 1 : a = q * m + r
  BY Divided
<1>2. (q + j) * m = q * m + j * m
  OBVIOUS
<1>3. j * m \in Nat /\ q * m \in Nat /\ q + j \in Nat
  OBVIOUS
<1>4. a + j * m = (q + j) * m + r
  BY <1>1, <1>2, <1>3
<1>5. PICK t \in Nat : t = q + j
  BY <1>3
<1>6. (t * m + r) % m = r
  BY Division
<1>7. a % m = r
  BY <1>1, Division
<1> QED
  BY <1>4, <1>5, <1>6, <1>7
(* The fields of a file number are read back as they were written, and the *)
(* number is none of the standard streams' and fits in 15 bits.            *)
FilenoOf(n, b, p, i) ==
  /\ FILENO_GET_BUCKET_POS(n) = p
  /\ FILENO_GET_BUCKET_IDX(n) = b
  /\ FILENO_GET_FS_FIELD(n) = i + 1
  /\ n \in Nat
  /\ n > 3 /\ n < 32768

LEMMA Fields ==
  ASSUME NEW b \in 0 .. 63, NEW p \in 0 .. 31, NEW i \in 0 .. 14
  PROVE  FilenoOf(FILENO_MAKE(b, p, i), b, p, i)
<1>1. PICK n : n = p + 32 * b + 2048 * (i + 1)
  OBVIOUS
<1>2. n \in Nat /\ n > 3 /\ n < 32768
  BY <1>1
<1>3. FILENO_GET_BUCKET_POS(n) = p
  BY <1>1 DEF FILENO_GET_BUCKET_POS
<1>4. FILENO_GET_BUCKET_IDX(n) = b
  <2>1. n \div 32 = b + 64 * (i + 1)
    BY <1>1
  <2>2. (b + 64 * (i + 1)) % 64 = b
    OBVIOUS
  <2> QED
    BY <2>1, <2>2, Zenon DEF FILENO_GET_BUCKET_IDX
<1>5. FILENO_GET_FS_FIELD(n) = i + 1
  <2>1. PICK q : q = n \div 2048
    OBVIOUS
  <2>2. q = i + 1
    BY <1>1, <2>1
  <2>3. q % 16 = i + 1
    BY <2>2
  <2> QED
    BY <2>1, <2>3 DEF FILENO_GET_FS_FIELD
<1>6. FILENO_MAKE(b, p, i) = n
  BY <1>1 DEF FILENO_MAKE
<1> QED
  BY <1>2, <1>3, <1>4, <1>5, <1>6 DEF FilenoOf

(* The same for the number of a slot and a filesystem.                     *)
LEMMA SlotFields ==
  ASSUME NEW s \in Slots, NEW i \in FsIndexes
  PROVE  FilenoOf(FILENO_MAKE(s[1], s[2], i), s[1], s[2], i)
<1>1. s[1] \in 0 .. 63 /\ s[2] \in 0 .. 31 /\ i \in 0 .. 14
  BY WidthAssumption DEF Slots, FsIndexes
<1> QED
  BY <1>1, Fields, Zenon

(* Two file numbers are equal only if their slots and filesystems are.     *)
LEMMA FilenosDiffer ==
  ASSUME NEW s \in Slots, NEW t \in Slots, NEW i \in FsIndexes, NEW j \in FsIndexes,
         FILENO_MAKE(s[1], s[2], i) = FILENO_MAKE(t[1], t[2], j)
  PROVE  s = t /\ i = j
<1>1. s[2] = t[2] /\ s[1] = t[1] /\ i + 1 = j + 1
  BY SlotFields DEF FilenoOf
<1>2. i = j
  BY <1>1, WidthAssumption DEF FsIndexes
<1> QED
  BY <1>1, <1>2 DEF Slots

-----------------------------------------------------------------------------
(* Slots.                                                                  *)

(* How many slots there are in the first n buckets.                        *)
LEMMA SlotsOfBuckets ==
  ASSUME NEW n \in Nat
  PROVE  /\ IsFiniteSet((0 .. n - 1) \X (0 .. HANDLE_BUCKET_SIZE - 1))
         /\ Cardinality((0 .. n - 1) \X (0 .. HANDLE_BUCKET_SIZE - 1))
              = n * HANDLE_BUCKET_SIZE
<1>1. HANDLE_BUCKET_SIZE \in Nat \ {0}
  BY WidthAssumption
<1>2. IsFiniteSet(0 .. n - 1) /\ Cardinality(0 .. n - 1) = n
  <2>1. /\ IsFiniteSet(0 .. n - 1)
        /\ Cardinality(0 .. n - 1) = IF 0 > n - 1 THEN 0 ELSE (n - 1) - 0 + 1
    BY FS_Interval
  <2> QED
    BY <2>1
<1>3. /\ IsFiniteSet(0 .. HANDLE_BUCKET_SIZE - 1)
      /\ Cardinality(0 .. HANDLE_BUCKET_SIZE - 1) = HANDLE_BUCKET_SIZE
  <2>1. /\ IsFiniteSet(0 .. HANDLE_BUCKET_SIZE - 1)
        /\ Cardinality(0 .. HANDLE_BUCKET_SIZE - 1)
             = IF 0 > HANDLE_BUCKET_SIZE - 1 THEN 0 ELSE (HANDLE_BUCKET_SIZE - 1) - 0 + 1
    BY <1>1, FS_Interval
  <2> QED
    BY <1>1, <2>1
<1>4. /\ IsFiniteSet((0 .. n - 1) \X (0 .. HANDLE_BUCKET_SIZE - 1))
      /\ Cardinality((0 .. n - 1) \X (0 .. HANDLE_BUCKET_SIZE - 1))
           = Cardinality(0 .. n - 1) * Cardinality(0 .. HANDLE_BUCKET_SIZE - 1)
  BY <1>2, <1>3, FS_Product
<1> QED
  BY <1>2, <1>3, <1>4

LEMMA SlotsFinite == IsFiniteSet(Slots)
<1>1. HANDLE_MAX_BUCKETS \in Nat
  BY WidthAssumption
<1> QED
  BY <1>1, SlotsOfBuckets DEF Slots

(* The search goes through the buckets there are, and perhaps a new one.   *)
LEMMA BucketsInRange ==
  ASSUME TypeOK
  PROVE  /\ BucketsToSearch \in 1 .. HANDLE_MAX_BUCKETS
         /\ handle_buckets_count <= BucketsToSearch
BY WidthAssumption DEF TypeOK, BucketsToSearch, MapIsFull

(* It looks at slots of those buckets only.                                *)
LEMMA ProbeInSlots ==
  ASSUME TypeOK, NEW h \in Handles, NEW i \in FsIndexes, NEW k \in Nat
  PROVE  /\ Probe(h, i, k) \in Slots
         /\ Probe(h, i, k)[1] < BucketsToSearch
<1> DEFINE b == (Start(h, i).bkt + k \div HANDLE_BUCKET_SIZE) % BucketsToSearch
           p == (Start(h, i).pos + k) % HANDLE_BUCKET_SIZE
<1>1. Start(h, i).bkt \in Nat /\ Start(h, i).pos \in Nat
  BY HashAssumption, WidthAssumption, BucketsInRange DEF FsIndexes, Start
<1>2. HANDLE_BUCKET_SIZE \in Nat \ {0} /\ BucketsToSearch \in Nat \ {0}
      /\ BucketsToSearch <= HANDLE_MAX_BUCKETS /\ HANDLE_MAX_BUCKETS \in Nat
  BY WidthAssumption, BucketsInRange
<1>3. k \div HANDLE_BUCKET_SIZE \in Nat
  BY <1>2
<1>4. b \in 0 .. BucketsToSearch - 1
  BY <1>1, <1>2, <1>3
<1>5. p \in 0 .. HANDLE_BUCKET_SIZE - 1
  BY <1>1, <1>2
<1>6. Probe(h, i, k) = <<b, p>>
  BY DEF Probe
<1> HIDE DEF b, p
<1> QED
  BY <1>2, <1>4, <1>5, <1>6 DEF Slots
(* The slot that a handle gets is an empty one.                            *)
LEMMA SlotForIsEmpty ==
  ASSUME TypeOK, NEW h \in Handles, NEW i \in FsIndexes, EmptyProbes(h, i) # {}
  PROVE  /\ SlotFor(h, i) \in Slots
         /\ SlotFor(h, i)[1] < BucketsToSearch
         /\ handle_map[SlotFor(h, i)] = NULL
<1>1. BucketsToSearch * HANDLE_BUCKET_SIZE - 1 \in Int
  BY BucketsInRange, WidthAssumption
<1>2. EmptyProbes(h, i) \in SUBSET Nat
  BY <1>1 DEF EmptyProbes
<1>3. PICK k \in EmptyProbes(h, i) : k = Min(EmptyProbes(h, i))
  BY <1>2, Least
<1>4. k \in Nat /\ handle_map[Probe(h, i, k)] = NULL
  BY <1>2, <1>3 DEF EmptyProbes
<1>5. SlotFor(h, i) = Probe(h, i, k)
  BY <1>3 DEF SlotFor
<1> QED
  BY <1>4, <1>5, ProbeInSlots

-----------------------------------------------------------------------------
(* The invariant of the table.                                             *)

InBuckets == \A s \in Occupied : s[1] < handle_buckets_count

HandleInOneSlot ==
  \A s, t \in Occupied : handle_map[s] = handle_map[t] => s = t

SlotsHoldOpen == \A s \in Occupied : owner[handle_map[s]] # NULL

(* The file number is the one of slot s and the filesystem at index i.     *)
NumberOf(f, s, i) == f.fileno = FILENO_MAKE(s[1], s[2], i)

FilesNumbered ==
  \A f \in files : \E s \in Occupied, i \in FsIndexes :
    NumberOf(f, s, i) /\ handle_map[s] = f.handle

HandleInOneFile == \A f, g \in files : f.handle = g.handle => f = g

MappingsWhole ==
  \A i \in FsIndexes : filesystems[i].prefix = NULL <=> filesystems[i].fs = NULL

TableInv ==
  /\ TypeOK
  /\ OpenCountMatches
  /\ InBuckets
  /\ HandleInOneSlot
  /\ SlotsHoldOpen
  /\ FilesNumbered
  /\ HandleInOneFile
  /\ MappingsWhole

(* And, when clients detach only idle filesystems: the filesystem whose    *)
(* index is in a file number is the one its handle is open in, and a slot  *)
(* is taken for a handle that a client holds.                              *)
FilesMounted ==
  \A f \in files, s \in Slots, i \in FsIndexes :
    NumberOf(f, s, i) => filesystems[i].fs = owner[f.handle]

SlotsHeld ==
  \A s \in Occupied :
    \/ "close" \notin Supports[owner[handle_map[s]]]
    \/ \E f \in files : f.handle = handle_map[s]

IdleInv == FilesMounted /\ SlotsHeld

(* The slot of an open file.                                               *)
LEMMA SlotOfFile ==
  ASSUME TableInv, NEW f \in files, NEW s \in Slots, NEW i \in FsIndexes,
         NumberOf(f, s, i), handle_map[s] = f.handle
  PROVE  /\ SlotByFileno(f.fileno) = {s}
         /\ FsByFileno(f.fileno) = {j \in {i} : filesystems[i].fs # NULL}
         /\ f.fileno > 3 /\ f.fileno < 32768
<1>1. /\ FILENO_GET_BUCKET_IDX(f.fileno) = s[1]
      /\ FILENO_GET_BUCKET_POS(f.fileno) = s[2]
      /\ f.fileno > 3 /\ f.fileno < 32768
  BY SlotFields DEF NumberOf, FilenoOf
<1>2. FILENO_GET_FS_FIELD(f.fileno) = i + 1
  BY SlotFields DEF NumberOf, FilenoOf
<1>3. handle_map[s] # NULL
  BY ClientAssumption DEF TableInv, TypeOK, File
<1>4. s[1] < handle_buckets_count
  BY <1>3 DEF TableInv, InBuckets, Occupied
<1>5. s = <<s[1], s[2]>>
  BY DEF Slots
<1>6. SlotByFileno(f.fileno) = {s}
  BY <1>1, <1>3, <1>4, <1>5 DEF SlotByFileno
<1>7. \A j \in FsIndexes : j + 1 = i + 1 <=> j = i
  BY WidthAssumption DEF FsIndexes
<1>8. FsByFileno(f.fileno) = {j \in {i} : filesystems[i].fs # NULL}
  BY <1>2, <1>7 DEF FsByFileno
<1> QED
  BY <1>1, <1>6, <1>8

-----------------------------------------------------------------------------
(* The steps.                                                              *)

(* At the beginning nothing is attached and nothing is open.               *)
LEMMA InitTable == Init => TableInv /\ IdleInv
<1> SUFFICES ASSUME Init PROVE TableInv /\ IdleInv
  OBVIOUS
<1>1. TypeOK
  BY WidthAssumption DEF Init, TypeOK, Unattached
<1>2. Occupied = {}
  BY DEF Init, Occupied
<1>3. OpenCountMatches
  BY <1>2, FS_EmptySet DEF Init, OpenCountMatches
<1>4. MappingsWhole
  BY DEF Init, MappingsWhole, Unattached
<1> QED
  BY <1>1, <1>2, <1>3, <1>4
  DEF Init, TableInv, IdleInv, InBuckets, HandleInOneSlot, SlotsHoldOpen,
      FilesNumbered, HandleInOneFile, FilesMounted, SlotsHeld

(* A handle that is not open is in no slot, and no client holds it.        *)
LEMMA FreeHandle ==
  ASSUME TableInv, NEW h \in Handles, owner[h] = NULL
  PROVE  /\ \A s \in Occupied : handle_map[s] # h
         /\ \A f \in files : f.handle # h
BY DEF TableInv, SlotsHoldOpen, FilesNumbered

(* A call that changes nothing.                                            *)
LEMMA SameTable ==
  ASSUME UNCHANGED vars
  PROVE  (TableInv => TableInv') /\ (IdleInv => IdleInv')
BY DEF vars, tableVars, TableInv, TypeOK, OpenCountMatches, Occupied, InBuckets,
  HandleInOneSlot, SlotsHoldOpen, FilesNumbered, HandleInOneFile, MappingsWhole,
  NumberOf, IdleInv, FilesMounted, SlotsHeld

(* A handle that fs->open returned and that is lost.                       *)
LEMMA LostStep ==
  ASSUME TableInv, NEW i \in FsIndexes, NEW h \in FreeHandles(i),
         filesystems[i].prefix \in Prefixes, HandleLost(h, i)
  PROVE  TableInv' /\ (IdleInv => IdleInv')
<1>1. h \in Handles /\ owner[h] = NULL
  BY DEF FreeHandles
<1>2. filesystems[i].fs \in Filesystems
  BY ClientAssumption DEF TableInv, TypeOK, MappingsWhole
<1>3. /\ UNCHANGED <<tableVars, files>>
      /\ owner' = [owner EXCEPT ![h] = filesystems[i].fs]
  BY DEF HandleLost
<1>4. TypeOK'
  BY <1>1, <1>2, <1>3 DEF TableInv, TypeOK, tableVars
<1>5. \A g \in Handles : g # h => owner'[g] = owner[g]
  BY <1>3 DEF TableInv, TypeOK
<1>6. Occupied' = Occupied
  BY <1>3 DEF Occupied, tableVars
<1>7. \A s \in Occupied : /\ handle_map[s] \in Handles
                          /\ owner'[handle_map[s]] = owner[handle_map[s]]
  BY <1>1, <1>5, FreeHandle DEF TableInv, TypeOK, Occupied
<1>8. \A f \in files : owner'[f.handle] = owner[f.handle]
  BY <1>1, <1>5, FreeHandle DEF TableInv, TypeOK, File
<1>9. TableInv'
  BY <1>3, <1>4, <1>6, <1>7
  DEF TableInv, OpenCountMatches, InBuckets, HandleInOneSlot, SlotsHoldOpen,
      FilesNumbered, HandleInOneFile, MappingsWhole, NumberOf, tableVars
<1>10. ASSUME IdleInv PROVE IdleInv'
  BY <1>3, <1>6, <1>7, <1>8, <1>10
  DEF IdleInv, FilesMounted, SlotsHeld, NumberOf, tableVars
<1> QED
  BY <1>9, <1>10

(* A handle that is put into its slot, and the file that a client gets for *)
(* it, if it gets one.                                                     *)
LEMMA EnterStep ==
  ASSUME TableInv, NEW i \in FsIndexes, NEW h \in FreeHandles(i),
         filesystems[i].prefix \in Prefixes,
         EmptyProbes(h, i) # {}, Enter(h, i),
         NEW new, files' = files \cup new,
         \A f \in new : f \in File /\ NumberOf(f, SlotFor(h, i), i) /\ f.handle = h,
         \A f, g \in new : f = g
  PROVE  /\ TableInv'
         /\ (/\ IdleInv
             /\ new # {} \/ "close" \notin Supports[filesystems[i].fs])
            => IdleInv'
<1>1. h \in Handles /\ owner[h] = NULL /\ h # NULL
  BY ClientAssumption DEF FreeHandles
<1>2. filesystems[i].fs \in Filesystems /\ filesystems[i].fs # NULL
  BY ClientAssumption DEF TableInv, TypeOK, MappingsWhole
<1>3. PICK s \in Slots : /\ s = SlotFor(h, i)
                         /\ s[1] < BucketsToSearch
                         /\ handle_map[s] = NULL
  BY <1>1, SlotForIsEmpty DEF TableInv
<1>4. /\ handle_map' = [handle_map EXCEPT ![s] = h]
      /\ handle_open_count' = handle_open_count + 1
      /\ handle_buckets_count' = BucketsToSearch
      /\ owner' = [owner EXCEPT ![h] = filesystems[i].fs]
      /\ filesystems' = filesystems
  BY <1>3 DEF Enter
<1>5. handle_map'[s] = h /\ \A t \in Slots : t # s => handle_map'[t] = handle_map[t]
  BY <1>4 DEF TableInv, TypeOK
<1>6. /\ owner'[h] = filesystems[i].fs
      /\ \A g \in Handles : g # h => owner'[g] = owner[g]
  BY <1>1, <1>4 DEF TableInv, TypeOK
<1>7. s \notin Occupied /\ Occupied' = Occupied \cup {s}
  BY <1>1, <1>3, <1>5 DEF Occupied
<1>8. TypeOK'
  BY <1>1, <1>2, <1>4, BucketsInRange DEF TableInv, TypeOK
<1>9. OpenCountMatches'
  <2>2. IsFiniteSet(Occupied)
    BY SlotsFinite, FS_Subset DEF Occupied
  <2>3. Cardinality(Occupied \cup {s}) = Cardinality(Occupied) + 1
    BY <1>7, <2>2, FS_AddElement
  <2> QED
    BY <1>4, <1>7, <2>3 DEF TableInv, OpenCountMatches
<1>10. InBuckets'
  <2> SUFFICES ASSUME NEW t \in Occupied \cup {s} PROVE t[1] < BucketsToSearch
    BY <1>4, <1>7 DEF InBuckets
  <2>1. CASE t = s
    BY <2>1, <1>3
  <2>2. CASE t \in Occupied
    <3>1. t[1] \in Nat /\ t[1] < handle_buckets_count
      BY <2>2, WidthAssumption DEF TableInv, InBuckets, Occupied, Slots
    <3> QED
      BY <3>1, BucketsInRange, WidthAssumption DEF TableInv, TypeOK
  <2> QED
    BY <2>1, <2>2
<1>11. \A t \in Occupied : /\ t # s /\ handle_map'[t] = handle_map[t]
                           /\ handle_map[t] \in Handles /\ handle_map[t] # h
                           /\ owner'[handle_map[t]] = owner[handle_map[t]]
  BY <1>1, <1>5, <1>6, <1>7, FreeHandle DEF TableInv, TypeOK, Occupied
<1>12. HandleInOneSlot'
  BY <1>5, <1>7, <1>11 DEF TableInv, HandleInOneSlot
<1>13. SlotsHoldOpen'
  BY <1>2, <1>5, <1>6, <1>7, <1>11 DEF TableInv, SlotsHoldOpen
<1>14. \A f \in files : f.handle # h /\ owner'[f.handle] = owner[f.handle]
  BY <1>1, <1>6, FreeHandle DEF TableInv, TypeOK, File
<1>15. FilesNumbered'
  <2> SUFFICES ASSUME NEW f \in files \cup new
               PROVE  \E t \in Occupied \cup {s}, j \in FsIndexes :
                        NumberOf(f, t, j) /\ handle_map'[t] = f.handle
    BY <1>7 DEF FilesNumbered, NumberOf
  <2>1. CASE f \in files
    BY <2>1, <1>11 DEF TableInv, FilesNumbered
  <2>2. CASE f \in new
    BY <2>2, <1>3, <1>5
  <2> QED
    BY <2>1, <2>2
<1>16. HandleInOneFile'
  BY <1>14 DEF TableInv, HandleInOneFile
<1>17. MappingsWhole'
  BY <1>4 DEF TableInv, MappingsWhole
<1>18. TableInv'
  BY <1>8, <1>9, <1>10, <1>12, <1>13, <1>15, <1>16, <1>17 DEF TableInv
<1>19. ASSUME IdleInv, new # {} \/ "close" \notin Supports[filesystems[i].fs]
       PROVE  IdleInv'
  <2>1. FilesMounted'
    <3> SUFFICES ASSUME NEW f \in files \cup new, NEW t \in Slots, NEW j \in FsIndexes,
                        NumberOf(f, t, j)
                 PROVE  filesystems[j].fs = owner'[f.handle]
      BY <1>4 DEF FilesMounted, NumberOf
    <3>1. CASE f \in files
      BY <3>1, <1>14, <1>19 DEF IdleInv, FilesMounted
    <3>2. CASE f \in new
      <4>1. i = j
        BY <3>2, <1>3, FilenosDiffer DEF NumberOf
      <4> QED
        BY <3>2, <4>1, <1>6
    <3> QED
      BY <3>1, <3>2
  <2>2. SlotsHeld'
    <3> SUFFICES ASSUME NEW t \in Occupied \cup {s}
                 PROVE  \/ "close" \notin Supports[owner'[handle_map'[t]]]
                        \/ \E f \in files \cup new : f.handle = handle_map'[t]
      BY <1>7 DEF SlotsHeld
    <3>1. CASE t = s
      BY <3>1, <1>5, <1>6, <1>19
    <3>2. CASE t \in Occupied
      BY <3>2, <1>11, <1>19 DEF IdleInv, SlotsHeld
    <3> QED
      BY <3>1, <3>2
  <2> QED
    BY <2>1, <2>2 DEF IdleInv
<1> QED
  BY <1>18, <1>19

(* A bucket that is added for a handle that is closed again.               *)
LEMMA GrowStep ==
  ASSUME TableInv, handle_buckets_count' = BucketsToSearch,
         UNCHANGED <<filesystems, handle_map, handle_open_count, owner, files>>
  PROVE  TableInv' /\ (IdleInv => IdleInv')
<1>1. Occupied' = Occupied
  BY DEF Occupied
<1>2. BucketsToSearch \in 1 .. HANDLE_MAX_BUCKETS /\ handle_buckets_count <= BucketsToSearch
  BY BucketsInRange DEF TableInv
<1>3. TypeOK'
  BY <1>2 DEF TableInv, TypeOK
<1>4. InBuckets'
  <2>1. \A s \in Occupied : s[1] \in Nat /\ s[1] < handle_buckets_count
    BY WidthAssumption DEF TableInv, InBuckets, Occupied, Slots
  <2> QED
    BY <1>1, <1>2, <2>1, WidthAssumption DEF TableInv, TypeOK, InBuckets
<1> QED
  BY <1>1, <1>3, <1>4
  DEF TableInv, OpenCountMatches, HandleInOneSlot, SlotsHoldOpen, FilesNumbered,
      HandleInOneFile, MappingsWhole, NumberOf, IdleInv, FilesMounted, SlotsHeld

(* The first mapping that is not in use.                                   *)
LEMMA FirstUnattached ==
  ASSUME NEW p, Attached(p) # {}
  PROVE  /\ Min(Attached(p)) \in FsIndexes
         /\ filesystems[Min(Attached(p))].prefix = p
         /\ \A j \in Attached(p) : Min(Attached(p)) <= j
<1>1. Attached(p) \in SUBSET Nat
  BY WidthAssumption DEF Attached, FsIndexes
<1>2. Min(Attached(p)) \in Attached(p) /\ \A j \in Attached(p) : Min(Attached(p)) <= j
  BY <1>1, Least
<1> QED
  BY <1>2 DEF Attached

(* The filesystem of an open file is not NULL.                             *)
LEMMA FileIsOpen ==
  ASSUME TableInv, NEW f \in files
  PROVE  owner[f.handle] # NULL
BY DEF TableInv, FilesNumbered, SlotsHoldOpen

LEMMA AttachStep ==
  ASSUME TableInv, NEW prefix \in Prefixes, NEW fs \in Filesystems,
         attach_filesystem(prefix, fs)
  PROVE  TableInv' /\ (IdleInv => IdleInv')
<1>1. CASE Refused
  BY <1>1, SameTable DEF Refused
<1>2. ASSUME NEW i \in FsIndexes, filesystems[i].prefix = NULL,
             filesystems' = [filesystems EXCEPT ![i] = [prefix |-> prefix, fs |-> fs]],
             UNCHANGED <<handle_map, handle_buckets_count, handle_open_count, owner, files>>
      PROVE  TableInv' /\ (IdleInv => IdleInv')
  <2>1. filesystems[i].fs = NULL
    BY <1>2 DEF TableInv, MappingsWhole
  <2>2. /\ filesystems'[i] = [prefix |-> prefix, fs |-> fs]
        /\ \A j \in FsIndexes : j # i => filesystems'[j] = filesystems[j]
    BY <1>2 DEF TableInv, TypeOK
  <2>3. TypeOK'
    BY <1>2 DEF TableInv, TypeOK
  <2>4. Occupied' = Occupied
    BY <1>2 DEF Occupied
  <2>5. prefix # NULL /\ fs # NULL
    BY ClientAssumption
  <2>6. MappingsWhole'
    BY <2>2, <2>5 DEF TableInv, MappingsWhole
  <2>7. TableInv'
    BY <1>2, <2>3, <2>4, <2>6
    DEF TableInv, OpenCountMatches, InBuckets, HandleInOneSlot, SlotsHoldOpen,
        FilesNumbered, HandleInOneFile, NumberOf
  <2>8. ASSUME IdleInv PROVE IdleInv'
    <3>1. \A f \in files, s \in Slots, j \in FsIndexes :
            NumberOf(f, s, j) => filesystems[j].fs = owner[f.handle] /\ j # i
      BY <2>1, <2>8, FileIsOpen DEF IdleInv, FilesMounted
    <3> QED
      BY <1>2, <2>2, <2>4, <2>8, <3>1 DEF IdleInv, FilesMounted, SlotsHeld, NumberOf
  <2> QED
    BY <2>7, <2>8
<1> QED
  BY <1>1, <1>2, FirstUnattached DEF attach_filesystem

LEMMA DetachStep ==
  ASSUME TableInv, NEW prefix \in Prefixes, detach_filesystem(prefix)
  PROVE  TableInv' /\ (~DetachBusy /\ IdleInv => IdleInv')
<1>1. CASE Refused
  BY <1>1, SameTable DEF Refused
<1>2. ASSUME NEW i \in FsIndexes, DetachBusy \/ OpenIn(i) = {},
             filesystems' = [filesystems EXCEPT ![i] = Unattached],
             UNCHANGED <<handle_map, handle_buckets_count, handle_open_count, owner, files>>
      PROVE  TableInv' /\ (~DetachBusy /\ IdleInv => IdleInv')
  <2>1. /\ filesystems'[i] = [prefix |-> NULL, fs |-> NULL]
        /\ \A j \in FsIndexes : j # i => filesystems'[j] = filesystems[j]
    BY <1>2 DEF TableInv, TypeOK, Unattached
  <2>2. TypeOK'
    BY <1>2 DEF TableInv, TypeOK, Unattached
  <2>3. Occupied' = Occupied
    BY <1>2 DEF Occupied
  <2>4. MappingsWhole'
    BY <2>1 DEF TableInv, MappingsWhole
  <2>5. TableInv'
    BY <1>2, <2>2, <2>3, <2>4
    DEF TableInv, OpenCountMatches, InBuckets, HandleInOneSlot, SlotsHoldOpen,
        FilesNumbered, HandleInOneFile, NumberOf
  <2>6. ASSUME ~DetachBusy, IdleInv PROVE IdleInv'
    <3>1. ASSUME NEW f \in files, NEW s \in Slots, NumberOf(f, s, i) PROVE FALSE
      <4>1. filesystems[i].fs # NULL
        BY <2>6, <3>1, FileIsOpen DEF IdleInv, FilesMounted
      <4>2. i \in FsByFileno(f.fileno)
        BY <3>1, <4>1, SlotFields DEF FsByFileno, NumberOf, FilenoOf
      <4> QED
        BY <1>2, <2>6, <4>2 DEF OpenIn
    <3> QED
      BY <1>2, <2>1, <2>3, <2>6, <3>1 DEF IdleInv, FilesMounted, SlotsHeld, NumberOf
  <2> QED
    BY <2>5, <2>6
<1>3. CASE \E i \in Named(prefix) :
             /\ DetachBusy \/ OpenIn(i) = {}
             /\ filesystems' = [filesystems EXCEPT ![i] = Unattached]
             /\ UNCHANGED <<handle_map, handle_buckets_count, handle_open_count,
                            owner, files>>
  <2>1. Named(prefix) \subseteq FsIndexes
    BY DEF Named, Attached
  <2> QED
    BY <1>2, <1>3, <2>1
<1> QED
  BY <1>1, <1>3 DEF detach_filesystem

(* A handle that is taken out of its slot when its file is closed.         *)
LEMMA LeaveStep ==
  ASSUME TableInv, NEW file \in files, NEW s \in SlotByFileno(file.fileno),
         handle_map' = [handle_map EXCEPT ![s] = NULL],
         handle_open_count' = handle_open_count - 1,
         owner' = [owner EXCEPT ![handle_map[s]] = NULL],
         files' = files \ {file},
         UNCHANGED <<filesystems, handle_buckets_count>>
  PROVE  TableInv' /\ (IdleInv => IdleInv')
<1>1. s \in Occupied /\ handle_map[s] = file.handle
  <2>1. PICK t \in Occupied, i \in FsIndexes :
               NumberOf(file, t, i) /\ handle_map[t] = file.handle
    BY DEF TableInv, FilesNumbered
  <2>2. SlotByFileno(file.fileno) = {t}
    BY <2>1, SlotOfFile DEF Occupied
  <2> QED
    BY <2>1, <2>2
<1>2. handle_map'[s] = NULL /\ \A t \in Slots : t # s => handle_map'[t] = handle_map[t]
  BY <1>1 DEF TableInv, TypeOK, Occupied
<1>3. file.handle \in Handles
  BY DEF TableInv, TypeOK, File
<1>4. \A h \in Handles : h # file.handle => owner'[h] = owner[h]
  BY <1>1, <1>3 DEF TableInv, TypeOK
<1>5. Occupied' = Occupied \ {s}
  BY <1>1, <1>2 DEF Occupied
<1>6. IsFiniteSet(Occupied)
  BY SlotsFinite, FS_Subset DEF Occupied
<1>7. Cardinality(Occupied \ {s}) = Cardinality(Occupied) - 1
  BY <1>1, <1>6, FS_RemoveElement
<1>8. Cardinality(Occupied \ {s}) \in Nat
  BY <1>6, FS_RemoveElement, FS_CardinalityType
<1>9. TypeOK'
  <2>1. handle_open_count' \in Nat
    BY <1>7, <1>8 DEF TableInv, OpenCountMatches
  <2> QED
    BY <1>1, <1>3, <2>1 DEF TableInv, TypeOK
<1>10. OpenCountMatches'
  BY <1>5, <1>7 DEF TableInv, OpenCountMatches
<1>11. \A t \in Occupied \ {s} : /\ handle_map'[t] = handle_map[t]
                                 /\ handle_map[t] \in Handles
                                 /\ owner'[handle_map[t]] = owner[handle_map[t]]
  BY <1>1, <1>2, <1>4 DEF TableInv, TypeOK, HandleInOneSlot, Occupied
<1>12. InBuckets' /\ HandleInOneSlot' /\ SlotsHoldOpen'
  BY <1>5, <1>11 DEF TableInv, InBuckets, HandleInOneSlot, SlotsHoldOpen
<1>13. \A f \in files \ {file} : /\ f.handle # file.handle
                                 /\ owner'[f.handle] = owner[f.handle]
  BY <1>4 DEF TableInv, TypeOK, File, HandleInOneFile
<1>14. FilesNumbered'
  <2> SUFFICES ASSUME NEW f \in files \ {file}
               PROVE  \E t \in Occupied \ {s}, i \in FsIndexes :
                        NumberOf(f, t, i) /\ handle_map'[t] = f.handle
    BY <1>5 DEF FilesNumbered, NumberOf
  <2>1. PICK t \in Occupied, i \in FsIndexes : NumberOf(f, t, i) /\ handle_map[t] = f.handle
    BY DEF TableInv, FilesNumbered
  <2>2. t # s
    BY <1>1, <1>13, <2>1
  <2> QED
    BY <1>11, <2>1, <2>2
<1>15. HandleInOneFile' /\ MappingsWhole'
  BY DEF TableInv, HandleInOneFile, MappingsWhole
<1>16. ASSUME IdleInv PROVE IdleInv'
  <2>1. FilesMounted'
    BY <1>13, <1>16 DEF IdleInv, FilesMounted, NumberOf
  <2>2. SlotsHeld'
    <3> SUFFICES ASSUME NEW t \in Occupied \ {s}
                 PROVE  \/ "close" \notin Supports[owner[handle_map[t]]]
                        \/ \E f \in files \ {file} : f.handle = handle_map[t]
      BY <1>5, <1>11 DEF SlotsHeld
    <3>1. handle_map[t] # file.handle
      BY <1>1 DEF TableInv, HandleInOneSlot
    <3> QED
      BY <1>16, <3>1 DEF IdleInv, SlotsHeld
  <2> QED
    BY <2>1, <2>2 DEF IdleInv
<1> QED
  BY <1>9, <1>10, <1>12, <1>14, <1>15, <1>16 DEF TableInv

LEMMA CloseStep ==
  ASSUME TableInv, NEW file \in files, close(file)
  PROVE  TableInv' /\ (IdleInv => IdleInv')
<1>1. CASE /\ \/ SlotByFileno(file.fileno) = {}
             \/ \A i \in FsByFileno(file.fileno) :
                  "close" \notin Supports[filesystems[i].fs]
           /\ UNCHANGED <<tableVars, owner>>
  <2>1. files' = files \ {file}
    BY DEF close
  <2>2. Occupied' = Occupied
    BY <1>1 DEF Occupied, tableVars
  <2>3. TableInv'
    BY <1>1, <2>1, <2>2
    DEF TableInv, TypeOK, OpenCountMatches, InBuckets, HandleInOneSlot, SlotsHoldOpen,
        FilesNumbered, HandleInOneFile, MappingsWhole, NumberOf, tableVars
  <2>4. ASSUME IdleInv PROVE IdleInv'
    <3>1. PICK s \in Occupied, i \in FsIndexes :
                 NumberOf(file, s, i) /\ handle_map[s] = file.handle
      BY DEF TableInv, FilesNumbered
    <3>2. s \in Slots
      BY <3>1 DEF Occupied
    <3>3. filesystems[i].fs = owner[file.handle] /\ filesystems[i].fs # NULL
      BY <2>4, <3>1, <3>2, FileIsOpen DEF IdleInv, FilesMounted
    <3>4. SlotByFileno(file.fileno) = {s} /\ FsByFileno(file.fileno) = {i}
      BY <3>1, <3>2, <3>3, SlotOfFile
    <3>5. "close" \notin Supports[owner[handle_map[s]]]
      BY <1>1, <3>1, <3>3, <3>4
    <3>6. \A t \in Occupied : handle_map[t] = file.handle => t = s
      BY <3>1 DEF TableInv, HandleInOneSlot
    <3>7. SlotsHeld'
      BY <1>1, <2>1, <2>2, <2>4, <3>5, <3>6 DEF IdleInv, SlotsHeld, tableVars
    <3>8. FilesMounted'
      BY <1>1, <2>1, <2>4 DEF IdleInv, FilesMounted, NumberOf, tableVars
    <3> QED
      BY <3>7, <3>8 DEF IdleInv
  <2> QED
    BY <2>3, <2>4
<1>2. CASE \E i \in FsByFileno(file.fileno), s \in SlotByFileno(file.fileno) :
             /\ "close" \in Supports[filesystems[i].fs]
             /\ handle_map' = [handle_map EXCEPT ![s] = NULL]
             /\ handle_open_count' = handle_open_count - 1
             /\ owner' = [owner EXCEPT ![handle_map[s]] = NULL]
             /\ UNCHANGED <<filesystems, handle_buckets_count>>
  BY <1>2, LeaveStep DEF close
<1> QED
  BY <1>1, <1>2 DEF close

(* The filesystem that a name leads to.                                    *)
LEMMA NamedIsAttached ==
  ASSUME NEW prefix \in Prefixes, NEW i \in Named(prefix)
  PROVE  i \in FsIndexes /\ filesystems[i].prefix = prefix
BY DEF Named, Attached

LEMMA OpenStep ==
  ASSUME TableInv, NEW prefix \in Prefixes, open(prefix)
  PROVE  TableInv' /\ (IdleInv => IdleInv')
<1>1. CASE Refused
  BY <1>1, SameTable DEF Refused
<1>2. ASSUME NEW i \in Named(prefix), NEW h \in FreeHandles(i), HandleLost(h, i)
      PROVE  TableInv' /\ (IdleInv => IdleInv')
  <2>1. i \in FsIndexes /\ filesystems[i].prefix \in Prefixes
    BY NamedIsAttached
  <2> QED
    BY <1>2, <2>1, LostStep
<1>3. ASSUME NEW i \in Named(prefix), NEW h \in FreeHandles(i),
             EmptyProbes(h, i) # {}, Enter(h, i),
             files' = files \cup
               {[fileno |-> FILENO_MAKE(SlotFor(h, i)[1], SlotFor(h, i)[2], i),
                 handle |-> h]}
      PROVE  TableInv' /\ (IdleInv => IdleInv')
  <2>1. i \in FsIndexes /\ filesystems[i].prefix \in Prefixes /\ h \in Handles
    BY NamedIsAttached DEF FreeHandles
  <2>2. SlotFor(h, i) \in Slots
    BY <1>3, <2>1, SlotForIsEmpty DEF TableInv
  <2>3. FILENO_MAKE(SlotFor(h, i)[1], SlotFor(h, i)[2], i) \in Nat
    BY <2>1, <2>2, SlotFields DEF FilenoOf
  <2>4. PICK f : f = [fileno |-> FILENO_MAKE(SlotFor(h, i)[1], SlotFor(h, i)[2], i),
                      handle |-> h]
    OBVIOUS
  <2>5. f \in File /\ NumberOf(f, SlotFor(h, i), i) /\ f.handle = h
    BY <2>1, <2>3, <2>4 DEF File, NumberOf
  <2>6. PICK new : new = {f}
    OBVIOUS
  <2>7. files' = files \cup new
    BY <1>3, <2>4, <2>6
  <2>8. /\ \A g \in new : g \in File /\ NumberOf(g, SlotFor(h, i), i) /\ g.handle = h
        /\ \A g, k \in new : g = k
        /\ new # {}
    BY <2>5, <2>6
  <2>9. EmptyProbes(h, i) # {} /\ Enter(h, i) /\ h \in FreeHandles(i)
    BY <1>3
  <2> QED
    BY <2>1, <2>7, <2>8, <2>9, EnterStep
<1> QED
  BY <1>1, <1>2, <1>3 DEF open

LEMMA OpenUseCloseStep ==
  ASSUME TableInv, NEW prefix \in Prefixes, NEW i \in Named(prefix), OpenUseClose(i)
  PROVE  TableInv' /\ (IdleInv => IdleInv')
<1>1. i \in FsIndexes /\ filesystems[i].prefix \in Prefixes
  BY NamedIsAttached
<1>2. ASSUME NEW h \in FreeHandles(i), HandleLost(h, i)
      PROVE  TableInv' /\ (IdleInv => IdleInv')
  BY <1>1, <1>2, LostStep
<1>3. ASSUME handle_buckets_count' = BucketsToSearch,
             UNCHANGED <<filesystems, handle_map, handle_open_count, owner, files>>
      PROVE  TableInv' /\ (IdleInv => IdleInv')
  BY <1>3, GrowStep
<1>4. ASSUME NEW h \in FreeHandles(i), EmptyProbes(h, i) # {}, Enter(h, i),
             "close" \notin Supports[filesystems[i].fs], UNCHANGED files
      PROVE  TableInv' /\ (IdleInv => IdleInv')
  <2>1. PICK new : new = {}
    OBVIOUS
  <2>2. /\ files' = files \cup new
        /\ \A f \in new : f \in File /\ NumberOf(f, SlotFor(h, i), i) /\ f.handle = h
        /\ \A f, g \in new : f = g
    BY <1>4, <2>1
  <2> QED
    BY <1>1, <1>4, <2>2, EnterStep
<1> QED
  BY <1>2, <1>3, <1>4 DEF OpenUseClose

(* Every step preserves the invariant; and, if clients detach only idle    *)
(* filesystems, what it implies of their files.                            *)
LEMMA TableStep ==
  ASSUME TableInv, [Next]_vars
  PROVE  TableInv' /\ (~DetachBusy /\ IdleInv => IdleInv')
<1>1. CASE UNCHANGED vars
  BY <1>1, SameTable
<1>2. ASSUME NEW prefix \in Prefixes, NEW fs \in Filesystems, attach_filesystem(prefix, fs)
      PROVE  TableInv' /\ (~DetachBusy /\ IdleInv => IdleInv')
  BY <1>2, AttachStep
<1>3. ASSUME NEW prefix \in Prefixes, detach_filesystem(prefix)
      PROVE  TableInv' /\ (~DetachBusy /\ IdleInv => IdleInv')
  BY <1>3, DetachStep
<1>4. ASSUME NEW prefix \in Prefixes, open(prefix)
      PROVE  TableInv' /\ (~DetachBusy /\ IdleInv => IdleInv')
  BY <1>4, OpenStep
<1>5. ASSUME NEW prefix \in Prefixes, stat(prefix)
      PROVE  TableInv' /\ (~DetachBusy /\ IdleInv => IdleInv')
  BY <1>5, OpenUseCloseStep, SameTable DEF stat, Refused
<1>6. ASSUME NEW prefix \in Prefixes, truncate(prefix)
      PROVE  TableInv' /\ (~DetachBusy /\ IdleInv => IdleInv')
  BY <1>6, OpenUseCloseStep, SameTable DEF truncate, Refused
<1>7. ASSUME NEW file \in files, close(file)
      PROVE  TableInv' /\ (~DetachBusy /\ IdleInv => IdleInv')
  BY <1>7, CloseStep
<1> QED
  BY <1>1, <1>2, <1>3, <1>4, <1>5, <1>6, <1>7 DEF Next

-----------------------------------------------------------------------------
(* The theorems of the file layer.                                         *)

LEMMA TableInvHolds == Spec => []TableInv
<1>1. Init => TableInv
  BY InitTable
<1>2. TableInv /\ [Next]_vars => TableInv'
  BY TableStep
<1> QED
  BY <1>1, <1>2, PTL DEF Spec

(* The table is well formed: at least one bucket and never more than it    *)
(* may have, no negative count.                                            *)
THEOREM TableTypeCorrect == Spec => []TypeOK
<1>1. TableInv => TypeOK
  BY DEF TableInv
<1> QED
  BY <1>1, TableInvHolds, PTL

(* The number of open handles, which decides when the table grows, is the  *)
(* number of slots that are taken, through every open that failed and      *)
(* every close.                                                            *)
THEOREM OpenCountCorrect == Spec => []OpenCountMatches
<1>1. TableInv => OpenCountMatches
  BY DEF TableInv
<1> QED
  BY <1>1, TableInvHolds, PTL

(* No file number is one of the standard streams', and all fit in 15 bits. *)
THEOREM FilenoInRangeCorrect == Spec => []FilenoInRange
<1>1. TableInv => FilenoInRange
  <2> SUFFICES ASSUME TableInv, NEW f \in files
               PROVE  f.fileno > 3 /\ f.fileno < 32768
    BY DEF FilenoInRange
  <2> QED
    BY SlotOfFile DEF TableInv, FilesNumbered, Occupied
<1> QED
  BY <1>1, TableInvHolds, PTL

LEMMA IdleInvHolds ==
  ASSUME ~DetachBusy
  PROVE  Spec => [](TableInv /\ IdleInv)
<1>1. Init => TableInv /\ IdleInv
  BY InitTable
<1>2. TableInv /\ IdleInv /\ [Next]_vars => (TableInv /\ IdleInv)'
  BY TableStep
<1> QED
  BY <1>1, <1>2, PTL DEF Spec

(* Whatever clients detach, the number of an open file finds the handle    *)
(* that open got for it, and no two open files have one number: what a     *)
(* detach with open files spoils is only which filesystem is called.       *)
HandlesFound ==
  /\ \A f \in files : \E s \in SlotByFileno(f.fileno) : handle_map[s] = f.handle
  /\ \A f, g \in files : f.fileno = g.fileno => f = g

LEMMA TableFinds == TableInv => HandlesFound
<1> SUFFICES ASSUME TableInv PROVE HandlesFound
  OBVIOUS
<1>1. ASSUME NEW f \in files
      PROVE  \E s \in SlotByFileno(f.fileno) : handle_map[s] = f.handle
  <2>1. PICK s \in Occupied, i \in FsIndexes : NumberOf(f, s, i) /\ handle_map[s] = f.handle
    BY DEF TableInv, FilesNumbered
  <2> QED
    BY <2>1, SlotOfFile DEF Occupied
<1>2. ASSUME NEW f \in files, NEW g \in files, f.fileno = g.fileno
      PROVE  f = g
  <2>1. PICK s \in Occupied, i \in FsIndexes : NumberOf(f, s, i) /\ handle_map[s] = f.handle
    BY DEF TableInv, FilesNumbered
  <2>2. PICK t \in Occupied, j \in FsIndexes : NumberOf(g, t, j) /\ handle_map[t] = g.handle
    BY DEF TableInv, FilesNumbered
  <2>3. FILENO_MAKE(s[1], s[2], i) = FILENO_MAKE(t[1], t[2], j)
    BY <1>2, <2>1, <2>2 DEF NumberOf
  <2>4. s = t
    BY <2>3, FilenosDiffer DEF Occupied
  <2> QED
    BY <2>1, <2>2, <2>4 DEF TableInv, HandleInOneFile
<1> QED
  BY <1>1, <1>2 DEF HandlesFound

(* The same of every behaviour, with busy filesystems detached or not.     *)
THEOREM HandlesFoundCorrect == Spec => []HandlesFound
  BY TableFinds, TableInvHolds, PTL

(* When clients detach only idle filesystems, every file number leads to   *)
(* the handle that open got for it and to the filesystem that the handle   *)
(* is open in, and no two open files have one number.                      *)
THEOREM FilesResolveCorrect ==
  ASSUME ~DetachBusy
  PROVE  Spec => []FilesResolve
<1>1. TableInv /\ IdleInv => FilesResolve
  <2> SUFFICES ASSUME TableInv, IdleInv, NEW f \in files
               PROVE  \E i \in FsByFileno(f.fileno) : filesystems[i].fs = owner[f.handle]
    BY TableFinds DEF FilesResolve, HandlesFound
  <2>1. PICK s \in Occupied, i \in FsIndexes : NumberOf(f, s, i) /\ handle_map[s] = f.handle
    BY DEF TableInv, FilesNumbered
  <2>2. s \in Slots
    BY <2>1 DEF Occupied
  <2>3. filesystems[i].fs = owner[f.handle] /\ filesystems[i].fs # NULL
    BY <2>1, <2>2, FileIsOpen DEF IdleInv, FilesMounted
  <2> QED
    BY <2>1, <2>2, <2>3, SlotOfFile
<1> QED
  BY <1>1, IdleInvHolds, PTL

(* Then every callback that a file number leads to belongs to the           *)
(* filesystem that the handle is open in.                                  *)
THEOREM CallsRightCorrect ==
  ASSUME ~DetachBusy
  PROVE  Spec => []CallsRightFilesystem
<1>1. TableInv /\ IdleInv => CallsRightFilesystem
  <2> SUFFICES ASSUME TableInv, IdleInv, NEW f \in files, NEW op,
                      NEW c \in Reached(f.fileno, op)
               PROVE  c.fs = c.handleOf
    BY DEF CallsRightFilesystem, fstat, lseek, read, write, ftruncate, ioctl
  <2>1. PICK s \in Occupied, i \in FsIndexes : NumberOf(f, s, i) /\ handle_map[s] = f.handle
    BY DEF TableInv, FilesNumbered
  <2>2. s \in Slots
    BY <2>1 DEF Occupied
  <2>3. filesystems[i].fs = owner[handle_map[s]]
    BY <2>1, <2>2 DEF IdleInv, FilesMounted
  <2>4. c = [fs |-> filesystems[i].fs, handleOf |-> owner[handle_map[s]]]
    BY <2>1, <2>2, SlotOfFile DEF Reached
  <2> QED
    BY <2>3, <2>4
<1> QED
  BY <1>1, IdleInvHolds, PTL

(* Then a slot is taken only for a handle that a client can still name by  *)
(* a file number, unless its filesystem has no close.                      *)
THEOREM NoSlotLeakCorrect ==
  ASSUME ~DetachBusy
  PROVE  Spec => []NoSlotLeak
<1>1. TableInv /\ IdleInv => NoSlotLeak
  <2> SUFFICES ASSUME TableInv, IdleInv, NEW s \in Occupied,
                      NEW f \in files, f.handle = handle_map[s]
               PROVE  s \in SlotByFileno(f.fileno)
    BY DEF NoSlotLeak, IdleInv, SlotsHeld
  <2>1. PICK t \in Occupied, i \in FsIndexes : NumberOf(f, t, i) /\ handle_map[t] = f.handle
    BY DEF TableInv, FilesNumbered
  <2>2. t = s
    BY <2>1 DEF TableInv, HandleInOneSlot
  <2> QED
    BY <2>1, <2>2, SlotOfFile DEF Occupied
<1> QED
  BY <1>1, IdleInvHolds, PTL

-----------------------------------------------------------------------------
(* When a handle is lost.                                                  *)

(* The search for a slot comes past every slot of its buckets.             *)
LEMMA ProbesAll ==
  ASSUME TypeOK, NEW h \in Handles, NEW i \in FsIndexes,
         NEW b \in 0 .. BucketsToSearch - 1, NEW p \in 0 .. HANDLE_BUCKET_SIZE - 1
  PROVE  \E k \in 0 .. BucketsToSearch * HANDLE_BUCKET_SIZE - 1 :
           Probe(h, i, k) = <<b, p>>
<1> DEFINE B == BucketsToSearch
           K == HANDLE_BUCKET_SIZE
<1>1. B \in Nat \ {0} /\ K \in Nat \ {0}
  BY BucketsInRange, WidthAssumption
<1>2. Start(h, i).bkt \in Nat /\ Start(h, i).pos \in Nat
  BY HashAssumption, WidthAssumption, BucketsInRange DEF FsIndexes, Start
<1> HIDE DEF B, K
<1>3. PICK j \in 0 .. B - 1 : (Start(h, i).bkt + j) % B = b
  BY <1>1, <1>2, RoundAll DEF B
<1>4. PICK r \in 0 .. K - 1 : (Start(h, i).pos + r) % K = p
  BY <1>1, <1>2, RoundAll DEF K
<1>5. PICK k \in Nat : k = j * K + r
  BY <1>1
<1>6. k <= B * K - 1
  <2>1. j * K <= (B - 1) * K
    BY <1>1
  <2>2. (B - 1) * K = B * K - K
    BY <1>1
  <2> QED
    BY <1>1, <1>5, <2>1, <2>2
<1>7. k \div K = j
  BY <1>1, <1>5, Division
<1>8. (Start(h, i).pos + k) % K = p
  <2>1. PICK a \in Nat : a = Start(h, i).pos + r
    BY <1>2
  <2>2. Start(h, i).pos + k = a + j * K
    BY <1>1, <1>2, <1>5, <2>1
  <2>3. (a + j * K) % K = a % K
    <3>1. j \in Nat
      BY <1>1
    <3> QED
      BY <1>1, <3>1, WholeTurns, Zenon
  <2> QED
    BY <1>4, <2>1, <2>2, <2>3
<1>9. Probe(h, i, k) = <<b, p>>
  BY <1>3, <1>7, <1>8 DEF Probe, B, K
<1>10. k \in 0 .. B * K - 1
  BY <1>1, <1>5, <1>6
<1> QED
  BY <1>9, <1>10 DEF B, K

(* If it finds none, the table has all its buckets, and all are full.      *)
LEMMA FoundNone ==
  ASSUME TableInv, NEW h \in Handles, NEW i \in FsIndexes, EmptyProbes(h, i) = {}
  PROVE  Occupied = Slots
<1>1. /\ handle_buckets_count \in 1 .. HANDLE_MAX_BUCKETS
      /\ HANDLE_MAX_BUCKETS \in Nat /\ HANDLE_BUCKET_SIZE \in Nat
      /\ HANDLE_BUCKET_SIZE >= 4
      /\ handle_open_count \in Nat
  BY WidthAssumption DEF TableInv, TypeOK
<1>2. BucketsToSearch \in 1 .. HANDLE_MAX_BUCKETS
  BY BucketsInRange DEF TableInv
<1>3. ASSUME NEW b \in 0 .. BucketsToSearch - 1, NEW p \in 0 .. HANDLE_BUCKET_SIZE - 1
      PROVE  <<b, p>> \in Occupied
  <2>1. PICK k \in 0 .. BucketsToSearch * HANDLE_BUCKET_SIZE - 1 : Probe(h, i, k) = <<b, p>>
    BY ProbesAll DEF TableInv
  <2>2. handle_map[<<b, p>>] # NULL
    BY <2>1 DEF EmptyProbes
  <2>3. <<b, p>> \in Slots
    BY <1>1, <1>2 DEF Slots
  <2> QED
    BY <2>2, <2>3 DEF Occupied
<1>4. ~MapIsFull
  <2> SUFFICES ASSUME MapIsFull PROVE FALSE
    OBVIOUS
  <2>1. BucketsToSearch = handle_buckets_count + 1
    BY DEF BucketsToSearch
  <2>2. <<handle_buckets_count, 0>> \in Occupied
    BY <1>1, <1>3, <2>1
  <2>3. <<handle_buckets_count, 0>>[1] < handle_buckets_count
    BY <2>2 DEF TableInv, InBuckets
  <2> QED
    BY <1>1, <2>3
<1>5. BucketsToSearch = handle_buckets_count
  BY <1>1, <1>4 DEF BucketsToSearch
<1>6. Occupied = (0 .. handle_buckets_count - 1) \X (0 .. HANDLE_BUCKET_SIZE - 1)
  <2>1. Occupied \subseteq (0 .. handle_buckets_count - 1) \X (0 .. HANDLE_BUCKET_SIZE - 1)
    BY <1>1 DEF TableInv, InBuckets, Occupied, Slots
  <2> QED
    BY <1>3, <1>5, <2>1
<1>7. handle_open_count = handle_buckets_count * HANDLE_BUCKET_SIZE
  BY <1>1, <1>6, SlotsOfBuckets DEF TableInv, OpenCountMatches
<1>8. handle_buckets_count = HANDLE_MAX_BUCKETS
  <2> SUFFICES ASSUME handle_buckets_count < HANDLE_MAX_BUCKETS PROVE FALSE
    BY <1>1
  <2>1. handle_open_count + handle_open_count \div 4 <= handle_open_count
    BY <1>1, <1>4, <1>7 DEF MapIsFull
  <2>2. handle_open_count >= 4
    BY <1>1, <1>7
  <2>3. handle_open_count \div 4 >= 1
    BY <1>1, <2>2
  <2> QED
    BY <1>1, <2>1, <2>3
<1> QED
  BY <1>6, <1>8 DEF Slots

(* A handle that a filesystem opened is lost only when calloc fails, or    *)
(* every slot of every bucket that the table may have is taken: the search *)
(* misses no empty slot, and the table grows in time.                      *)
THEOREM LostOnlyWhenFullCorrect == Spec => LostOnlyWhenFull
<1> DEFINE Lost == \E h \in Handles : owner[h] = NULL /\ owner'[h] # NULL
           Allowed == \/ handle_map' # handle_map
                      \/ CallocFails /\ MapIsFull
                      \/ Occupied = Slots
<1>1. ASSUME TableInv, NEW prefix \in Prefixes, NEW i \in Named(prefix),
             NEW h \in FreeHandles(i), HandleLost(h, i)
      PROVE  Allowed
  BY <1>1, NamedIsAttached, FoundNone DEF HandleLost, FreeHandles
<1>2. ASSUME TableInv, NEW prefix \in Prefixes, NEW i \in Named(prefix),
             NEW h \in FreeHandles(i), EmptyProbes(h, i) # {}, Enter(h, i)
      PROVE  Allowed
  <2>1. i \in FsIndexes /\ h \in Handles
    BY <1>2, NamedIsAttached DEF FreeHandles
  <2>2. SlotFor(h, i) \in Slots /\ handle_map[SlotFor(h, i)] = NULL
    BY <1>2, <2>1, SlotForIsEmpty DEF TableInv
  <2>3. handle_map'[SlotFor(h, i)] = h /\ h # NULL
    BY <1>2, <2>1, <2>2, ClientAssumption DEF Enter, TableInv, TypeOK
  <2> QED
    BY <2>2, <2>3
<1>3. ASSUME TableInv, NEW prefix \in Prefixes, NEW i \in Named(prefix), OpenUseClose(i)
      PROVE  Lost => Allowed
  BY <1>1, <1>2, <1>3 DEF OpenUseClose
<1>4. ASSUME TableInv, NEW prefix \in Prefixes, open(prefix)
      PROVE  Lost => Allowed
  BY <1>1, <1>2, <1>4 DEF open, Refused, vars
<1>5. ASSUME TableInv, NEW prefix \in Prefixes, stat(prefix) \/ truncate(prefix)
      PROVE  Lost => Allowed
  BY <1>3, <1>5 DEF stat, truncate, Refused, vars
<1>6. ASSUME TableInv, NEW prefix \in Prefixes,
             \/ \E fs \in Filesystems : attach_filesystem(prefix, fs)
             \/ detach_filesystem(prefix)
      PROVE  ~Lost
  BY <1>6 DEF attach_filesystem, detach_filesystem, Refused, vars
<1>7. ASSUME TableInv, NEW file \in files, close(file)
      PROVE  ~Lost
  <2>1. CASE UNCHANGED owner
    BY <2>1
  <2>2. CASE \E h : owner' = [owner EXCEPT ![h] = NULL]
    BY <2>2, <1>7 DEF TableInv, TypeOK
  <2> QED
    BY <1>7, <2>1, <2>2 DEF close
<1>8. ASSUME TableInv, Next PROVE Lost => Allowed
  <2> HIDE DEF Lost, Allowed
  <2> QED
    BY <1>4, <1>5, <1>6, <1>7, <1>8, Zenon DEF Next
<1>9. TableInv /\ [Next]_vars => [Lost => Allowed]_vars
  <2> HIDE DEF Lost, Allowed
  <2> QED
    BY <1>8
<1> QED
  BY <1>9, TableInvHolds, PTL DEF Spec, LostOnlyWhenFull

-----------------------------------------------------------------------------
(* The file layer implements Files.                                        *)

PrefixOnce ==
  \A i, j \in FsIndexes :
    filesystems[i].prefix = filesystems[j].prefix /\ filesystems[i].prefix # NULL => i = j

(* The calls that leave the mappings alone.                                *)
LEMMA MappingsKept ==
  ASSUME \/ \E prefix \in Prefixes : open(prefix) \/ stat(prefix) \/ truncate(prefix)
         \/ \E file \in files : close(file)
  PROVE  filesystems' = filesystems
BY DEF open, stat, truncate, close, OpenUseClose, Refused, HandleLost, Enter, vars, tableVars

(* No prefix is in two mappings.                                           *)
LEMMA PrefixOnceStep ==
  ASSUME TypeOK, PrefixOnce, [Next]_vars
  PROVE  PrefixOnce'
<1>1. CASE filesystems' = filesystems
  BY <1>1 DEF PrefixOnce
<1>2. ASSUME NEW prefix \in Prefixes, NEW fs \in Filesystems, attach_filesystem(prefix, fs)
      PROVE  PrefixOnce'
  <2>1. CASE Refused
    BY <1>1, <2>1 DEF Refused, vars, tableVars
  <2>2. ASSUME Attached(prefix) = {}, NEW i \in FsIndexes,
               filesystems' = [filesystems EXCEPT ![i] = [prefix |-> prefix, fs |-> fs]]
        PROVE  PrefixOnce'
    <3>1. /\ filesystems'[i] = [prefix |-> prefix, fs |-> fs]
          /\ \A j \in FsIndexes : j # i => filesystems'[j] = filesystems[j]
      BY <2>2 DEF TypeOK
    <3>2. \A j \in FsIndexes : filesystems[j].prefix # prefix
      BY <2>2 DEF Attached
    <3> QED
      BY <3>1, <3>2 DEF PrefixOnce
  <2> QED
    BY <1>2, <2>1, <2>2, FirstUnattached DEF attach_filesystem
<1>3. ASSUME NEW prefix \in Prefixes, detach_filesystem(prefix)
      PROVE  PrefixOnce'
  <2>1. CASE Refused
    BY <1>1, <2>1 DEF Refused, vars, tableVars
  <2>2. ASSUME NEW i \in FsIndexes,
               filesystems' = [filesystems EXCEPT ![i] = Unattached]
        PROVE  PrefixOnce'
    <3>1. /\ filesystems'[i] = [prefix |-> NULL, fs |-> NULL]
          /\ \A j \in FsIndexes : j # i => filesystems'[j] = filesystems[j]
      BY <2>2 DEF TypeOK, Unattached
    <3> QED
      BY <3>1 DEF PrefixOnce
  <2> QED
    BY <1>3, <2>1, <2>2, NamedIsAttached DEF detach_filesystem
<1>4. CASE UNCHANGED vars
  BY <1>1, <1>4 DEF vars, tableVars
<1> QED
  BY <1>1, <1>2, <1>3, <1>4, MappingsKept DEF Next

LEMMA PrefixOnceHolds == Spec => []PrefixOnce
<1>1. Init => PrefixOnce
  BY DEF Init, PrefixOnce, Unattached
<1>2. TableInv => TypeOK
  BY DEF TableInv
<1>3. TypeOK /\ PrefixOnce /\ [Next]_vars => PrefixOnce'
  BY PrefixOnceStep
<1> QED
  BY <1>1, <1>2, <1>3, TableInvHolds, PTL DEF Spec

(* The one slot and the one mapping that an open file's number leads to.   *)
LeadsTo(f, s, i) ==
  /\ NumberOf(f, s, i)
  /\ handle_map[s] = f.handle
  /\ SlotByFileno(f.fileno) = {s}
  /\ FsByFileno(f.fileno) = {i}
  /\ \A j \in FsIndexes : j + 1 = FILENO_GET_FS_FIELD(f.fileno) <=> j = i
  /\ filesystems[i].fs = owner[f.handle]
  /\ filesystems[i].fs # NULL

LEMMA FileLeadsTo ==
  ASSUME TableInv, IdleInv, NEW f \in files
  PROVE  \E s \in Occupied, i \in FsIndexes : LeadsTo(f, s, i)
<1>1. PICK s \in Occupied, i \in FsIndexes : NumberOf(f, s, i) /\ handle_map[s] = f.handle
  BY DEF TableInv, FilesNumbered
<1>2. s \in Slots
  BY DEF Occupied
<1>3. filesystems[i].fs = owner[f.handle] /\ filesystems[i].fs # NULL
  BY <1>1, <1>2, FileIsOpen DEF IdleInv, FilesMounted
<1>4. SlotByFileno(f.fileno) = {s} /\ FsByFileno(f.fileno) = {i}
  BY <1>1, <1>2, <1>3, SlotOfFile
<1>5. FILENO_GET_FS_FIELD(f.fileno) = i + 1
  BY <1>1, <1>2, SlotFields DEF NumberOf, FilenoOf
<1>6. \A j \in FsIndexes : j + 1 = i + 1 <=> j = i
  BY WidthAssumption DEF FsIndexes
<1> QED
  BY <1>1, <1>3, <1>4, <1>5, <1>6 DEF LeadsTo

LEMMA OpenedIs ==
  ASSUME NEW x
  PROVE  x \in Opened <=> \E f \in files : \E i \in FsByFileno(f.fileno) : x = FileAt(f, i)
BY DEF Opened

(* A change of mappings that no file is in.                                *)
LEMMA OpenedStays ==
  ASSUME TableInv, IdleInv, files' = files,
         \A f \in files : \A i \in FsByFileno(f.fileno) : filesystems'[i] = filesystems[i]
  PROVE  Opened' = Opened
<1>1. ASSUME NEW f \in files
      PROVE  /\ FsByFileno(f.fileno)' = FsByFileno(f.fileno)
             /\ \A i \in FsByFileno(f.fileno) : FileAt(f, i)' = FileAt(f, i)
  <2>1. PICK s \in Occupied, i \in FsIndexes : LeadsTo(f, s, i)
    BY FileLeadsTo
  <2>2. FsByFileno(f.fileno) = {i} /\ filesystems'[i] = filesystems[i]
    BY <2>1 DEF LeadsTo
  <2>3. FsByFileno(f.fileno)' = {i}
    BY <2>1, <2>2 DEF LeadsTo, FsByFileno
  <2>4. FileAt(f, i)' = FileAt(f, i)
    BY <2>2 DEF FileAt
  <2> QED
    BY <2>2, <2>3, <2>4
<1>2. {{FileAt(f, i)' : i \in FsByFileno(f.fileno)'} : f \in files}
        = {{FileAt(f, i) : i \in FsByFileno(f.fileno)} : f \in files}
  BY <1>1
<1> QED
  BY <1>2 DEF Opened

(* The same calls, for Files.                                              *)
LEMMA SameFiles ==
  ASSUME UNCHANGED vars
  PROVE  UNCHANGED F!vars
BY DEF vars, tableVars, F!vars, Mounts, Opened, FileAt, FsByFileno

LEMMA MountOfIndex ==
  ASSUME TableInv, NEW i \in FsIndexes, filesystems[i].prefix \in Prefixes
  PROVE  filesystems[i] \in Mounts
BY ClientAssumption DEF Mounts, Unattached

LEMMA AttachIsMount ==
  ASSUME TableInv, IdleInv, NEW prefix \in Prefixes, NEW fs \in Filesystems,
         attach_filesystem(prefix, fs)
  PROVE  F!Next \/ UNCHANGED F!vars
<1>1. CASE Refused
  BY <1>1, SameFiles DEF Refused
<1>2. ASSUME Attached(prefix) = {}, NEW i \in FsIndexes, filesystems[i].prefix = NULL,
             filesystems' = [filesystems EXCEPT ![i] = [prefix |-> prefix, fs |-> fs]],
             UNCHANGED <<owner, files>>
      PROVE  F!Mount(prefix, fs)
  <2>1. filesystems[i] = Unattached
    BY <1>2 DEF TableInv, TypeOK, MappingsWhole, Unattached
  <2>2. /\ filesystems'[i] = [prefix |-> prefix, fs |-> fs]
        /\ \A j \in FsIndexes : j # i => filesystems'[j] = filesystems[j]
    BY <1>2 DEF TableInv, TypeOK
  <2>3. prefix # NULL
    BY ClientAssumption
  <2>4. \A m \in Mounts : m.prefix # prefix
    BY <1>2 DEF Mounts, Attached
  <2>5. [prefix |-> prefix, fs |-> fs] # Unattached
    BY <2>3 DEF Unattached
  <2>6. Mounts' = Mounts \cup {[prefix |-> prefix, fs |-> fs]}
    BY <2>1, <2>2, <2>5 DEF Mounts
  <2>7. \A f \in files : i \notin FsByFileno(f.fileno)
    BY <2>1 DEF FsByFileno, Unattached
  <2>8. \A f \in files : \A j \in FsByFileno(f.fileno) : filesystems'[j] = filesystems[j]
    BY <2>2, <2>7 DEF FsByFileno
  <2>9. Opened' = Opened
    BY <1>2, <2>8, OpenedStays
  <2> QED
    BY <1>2, <2>4, <2>6, <2>9 DEF F!Mount
<1> QED
  BY <1>1, <1>2, FirstUnattached DEF attach_filesystem, F!Next

LEMMA DetachIsUnmount ==
  ASSUME ~DetachBusy, TableInv, IdleInv, PrefixOnce, NEW prefix \in Prefixes,
         detach_filesystem(prefix)
  PROVE  F!Next \/ UNCHANGED F!vars
<1>1. CASE Refused
  BY <1>1, SameFiles DEF Refused
<1>2. ASSUME NEW i \in Named(prefix), OpenIn(i) = {},
             filesystems' = [filesystems EXCEPT ![i] = Unattached],
             UNCHANGED <<owner, files>>
      PROVE  F!Next
  <2>1. i \in FsIndexes /\ filesystems[i].prefix = prefix /\ prefix # NULL
    BY NamedIsAttached, ClientAssumption
  <2>2. /\ filesystems'[i] = Unattached
        /\ \A j \in FsIndexes : j # i => filesystems'[j] = filesystems[j]
    BY <1>2, <2>1 DEF TableInv, TypeOK
  <2>3. \A j \in FsIndexes : filesystems[j] = filesystems[i] => j = i
    BY <2>1 DEF PrefixOnce
  <2>4. PICK m : m = filesystems[i]
    OBVIOUS
  <2>5. m \in Mounts
    BY <2>1, <2>4, MountOfIndex
  <2>6. Mounts' = Mounts \ {m}
    BY <2>1, <2>2, <2>3, <2>4 DEF Mounts
  <2>7. \A f \in files : i \notin FsByFileno(f.fileno)
    BY <1>2 DEF OpenIn
  <2>8. \A f \in files : \A j \in FsByFileno(f.fileno) : filesystems'[j] = filesystems[j]
    BY <2>2, <2>7 DEF FsByFileno
  <2>9. Opened' = Opened
    BY <1>2, <2>8, OpenedStays
  <2>10. \A x \in Opened : x.mount # m
    <3> SUFFICES ASSUME NEW f \in files, NEW j \in FsByFileno(f.fileno)
                 PROVE  FileAt(f, j).mount # m
      BY OpenedIs
    <3>1. j \in FsIndexes /\ j # i
      BY <2>7 DEF FsByFileno
    <3> QED
      BY <2>3, <2>4, <3>1 DEF FileAt
  <2>11. F!Unmount(m)
    BY <1>2, <2>6, <2>9, <2>10 DEF F!Unmount
  <2> QED
    BY <2>5, <2>11 DEF F!Next
<1> QED
  BY <1>1, <1>2 DEF detach_filesystem

(* A handle that fs->open has returned.                                    *)
LEMMA HandleTaken ==
  ASSUME TableInv, NEW prefix \in Prefixes, NEW i \in Named(prefix),
         NEW h \in FreeHandles(i),
         owner' = [owner EXCEPT ![h] = filesystems[i].fs],
         filesystems' = filesystems
  PROVE  /\ h \in Handles
         /\ filesystems[i] \in Mounts
         /\ F!Take(filesystems[i], h)
<1>1. i \in FsIndexes /\ filesystems[i].prefix \in Prefixes
  BY NamedIsAttached
<1>2. h \in Handles /\ owner[h] = NULL /\ "open" \in Supports[filesystems[i].fs]
  BY DEF FreeHandles
<1>3. Mounts' = Mounts
  BY DEF Mounts
<1> QED
  BY <1>1, <1>2, <1>3, MountOfIndex DEF F!Take

LEMMA HandleIsLost ==
  ASSUME TableInv, NEW prefix \in Prefixes, NEW i \in Named(prefix),
         NEW h \in FreeHandles(i),
         owner' = [owner EXCEPT ![h] = filesystems[i].fs],
         UNCHANGED <<filesystems, files>>
  PROVE  F!Next
<1>1. Opened' = Opened
  BY DEF Opened, FileAt, FsByFileno
<1>2. F!Lose(filesystems[i], h)
  BY <1>1, HandleTaken DEF F!Lose
<1> QED
  BY <1>2, HandleTaken DEF F!Next

LEMMA OpenIsOpen ==
  ASSUME TableInv, IdleInv, NEW prefix \in Prefixes, open(prefix)
  PROVE  F!Next \/ UNCHANGED F!vars
<1>1. CASE Refused
  BY <1>1, SameFiles DEF Refused
<1>2. ASSUME NEW i \in Named(prefix), NEW h \in FreeHandles(i), HandleLost(h, i)
      PROVE  F!Next
  BY <1>2, HandleIsLost DEF HandleLost, tableVars
<1>3. ASSUME NEW i \in Named(prefix), NEW h \in FreeHandles(i),
             EmptyProbes(h, i) # {}, Enter(h, i),
             files' = files \cup
               {[fileno |-> FILENO_MAKE(SlotFor(h, i)[1], SlotFor(h, i)[2], i),
                 handle |-> h]}
      PROVE  F!Next
  <2>1. i \in FsIndexes /\ h \in Handles
    BY NamedIsAttached DEF FreeHandles
  <2>2. filesystems[i].fs # NULL
    BY NamedIsAttached, ClientAssumption DEF TableInv, MappingsWhole
  <2>3. PICK t : t = SlotFor(h, i)
    OBVIOUS
  <2>4. t \in Slots /\ handle_map[t] = NULL
    BY <1>3, <2>1, <2>3, SlotForIsEmpty DEF TableInv
  <2>5. PICK n : n = FILENO_MAKE(t[1], t[2], i)
    OBVIOUS
  <2>6. /\ n \in Nat /\ n > 3 /\ n < 32768
        /\ FILENO_GET_FS_FIELD(n) = i + 1
    BY <2>1, <2>4, <2>5, SlotFields DEF FilenoOf
  <2>7. \A j \in FsIndexes : j + 1 = i + 1 <=> j = i
    BY <2>1, WidthAssumption DEF FsIndexes
  <2>8. FsByFileno(n) = {i}
    BY <2>1, <2>2, <2>6, <2>7 DEF FsByFileno
  <2>9. PICK new : new = [fileno |-> n, handle |-> h]
    OBVIOUS
  <2>10. files' = files \cup {new}
    BY <1>3, <2>3, <2>5, <2>9
  <2>11. PICK x : x = [fileno |-> n, handle |-> h, mount |-> filesystems[i]]
    OBVIOUS
  <2>12. /\ filesystems' = filesystems
         /\ owner' = [owner EXCEPT ![h] = filesystems[i].fs]
    BY <1>3 DEF Enter
  <2>13. /\ \A m : FsByFileno(m)' = FsByFileno(m)
         /\ \A f, j : FileAt(f, j)' = FileAt(f, j)
    BY <2>12 DEF FsByFileno, FileAt
  <2>14. new.fileno = n /\ FileAt(new, i) = x
    BY <2>9, <2>11 DEF FileAt
  <2>15. Opened' = Opened \cup {x}
    <3>1. \A y : y \in Opened' <=>
            \E f \in files' : \E j \in FsByFileno(f.fileno)' : y = FileAt(f, j)'
      BY DEF Opened
    <3>2. \A y : y \in Opened' <=>
            \E f \in files' : \E j \in FsByFileno(f.fileno) : y = FileAt(f, j)
      BY <2>13, <3>1
    <3>3. \A y : y \in Opened' <=> y \in Opened \/ y = x
      BY <2>8, <2>10, <2>14, <3>2, OpenedIs
    <3> QED
      BY <3>3
  <2>16. \A y \in Opened : y.fileno # n
    <3> SUFFICES ASSUME NEW f \in files, NEW j \in FsByFileno(f.fileno), f.fileno = n
                 PROVE  FALSE
      BY OpenedIs DEF FileAt
    <3>1. PICK s \in Occupied, k \in FsIndexes : LeadsTo(f, s, k)
      BY FileLeadsTo
    <3>2. s \in Slots /\ handle_map[s] # NULL
      BY DEF Occupied
    <3>3. FILENO_MAKE(s[1], s[2], k) = FILENO_MAKE(t[1], t[2], i)
      BY <2>5, <3>1 DEF LeadsTo, NumberOf
    <3>4. s = t
      BY <2>1, <2>4, <3>2, <3>3, FilenosDiffer
    <3> QED
      BY <2>4, <3>2, <3>4
  <2>17. /\ x \in Opened'
         /\ x = [fileno |-> x.fileno, handle |-> h, mount |-> filesystems[i]]
         /\ x.fileno = n
    BY <2>11, <2>15
  <2>18. n \in F!FileNumbers
    BY <2>6 DEF F!FileNumbers
  <2>19. F!Open(filesystems[i], h)
    BY <2>12, <2>15, <2>16, <2>17, <2>18, HandleTaken DEF F!Open
  <2> QED
    BY <2>12, <2>19, HandleTaken DEF F!Next
<1> QED
  BY <1>1, <1>2, <1>3 DEF open

LEMMA OpenUseCloseIsLose ==
  ASSUME TableInv, NEW prefix \in Prefixes, NEW i \in Named(prefix), OpenUseClose(i)
  PROVE  F!Next \/ UNCHANGED F!vars
<1>1. ASSUME NEW h \in FreeHandles(i), HandleLost(h, i) \/ (Enter(h, i) /\ UNCHANGED files)
      PROVE  F!Next
  BY <1>1, HandleIsLost DEF HandleLost, Enter, tableVars
<1>2. CASE UNCHANGED <<filesystems, owner, files>>
  BY <1>2 DEF F!vars, Mounts, Opened, FileAt, FsByFileno
<1> QED
  BY <1>1, <1>2 DEF OpenUseClose

LEMMA CloseIsClose ==
  ASSUME TableInv, IdleInv, NEW file \in files, close(file)
  PROVE  F!Next
<1>1. PICK s \in Occupied, i \in FsIndexes : LeadsTo(file, s, i)
  BY FileLeadsTo
<1>2. PICK x : x = FileAt(file, i)
  OBVIOUS
<1>3. /\ x.handle = file.handle /\ x.mount.fs = filesystems[i].fs
      /\ x \in Opened
  BY <1>1, <1>2, OpenedIs DEF LeadsTo, FileAt
<1>4. filesystems' = filesystems /\ files' = files \ {file}
  BY DEF close, tableVars
<1>5. /\ \A m : FsByFileno(m)' = FsByFileno(m)
      /\ \A f, j : FileAt(f, j)' = FileAt(f, j)
  BY <1>4 DEF FsByFileno, FileAt
<1>6. Mounts' = Mounts
  BY <1>4 DEF Mounts
<1>7. \A f \in files : \A j : FileAt(f, j) = x => f = file
  <2> SUFFICES ASSUME NEW f \in files, NEW j, FileAt(f, j) = x PROVE f = file
    OBVIOUS
  <2>1. f.handle = file.handle
    BY <1>3 DEF FileAt
  <2> QED
    BY <2>1 DEF TableInv, HandleInOneFile
<1>8. Opened' = Opened \ {x}
  <2>1. \A y : y \in Opened' <=>
          \E f \in files' : \E j \in FsByFileno(f.fileno)' : y = FileAt(f, j)'
    BY DEF Opened
  <2>2. \A y : y \in Opened' <=>
          \E f \in files \ {file} : \E j \in FsByFileno(f.fileno) : y = FileAt(f, j)
    BY <1>4, <1>5, <2>1
  <2>3. \A j \in FsByFileno(file.fileno) : FileAt(file, j) = x
    BY <1>1, <1>2 DEF LeadsTo
  <2>4. \A y : y \in Opened' <=> y \in Opened /\ y # x
    BY <1>7, <2>2, <2>3, OpenedIs
  <2> QED
    BY <2>4
<1>9. owner' = IF "close" \in Supports[x.mount.fs]
               THEN [owner EXCEPT ![x.handle] = NULL] ELSE owner
  <2>1. SlotByFileno(file.fileno) = {s} /\ FsByFileno(file.fileno) = {i}
        /\ handle_map[s] = file.handle
    BY <1>1 DEF LeadsTo
  <2> QED
    BY <1>3, <2>1 DEF close
<1>10. F!Close(x)
  BY <1>6, <1>8, <1>9 DEF F!Close
<1> QED
  BY <1>3, <1>10 DEF F!Next

(* When clients detach only idle filesystems, the file layer implements    *)
(* the abstract one: growth of the table, collisions of the search and     *)
(* reuse of slots, indexes and numbers never show.                         *)
THEOREM FilesCorrect ==
  ASSUME ~DetachBusy
  PROVE  Spec => ImplementsFiles
<1>1. Init => F!Init
  <2> SUFFICES ASSUME Init PROVE F!Init
    OBVIOUS
  <2>1. Mounts = {} /\ Opened = {}
    BY DEF Init, Mounts, Opened
  <2> QED
    BY <2>1 DEF Init, F!Init
<1>2. TableInv /\ IdleInv /\ PrefixOnce /\ [Next]_vars => [F!Next]_(F!vars)
  <2> SUFFICES ASSUME TableInv, IdleInv, PrefixOnce, [Next]_vars
               PROVE  F!Next \/ UNCHANGED F!vars
    OBVIOUS
  <2>1. CASE UNCHANGED vars
    BY <2>1, SameFiles
  <2>2. ASSUME NEW prefix \in Prefixes, stat(prefix) \/ truncate(prefix)
        PROVE  F!Next \/ UNCHANGED F!vars
    BY <2>2, OpenUseCloseIsLose, SameFiles DEF stat, truncate, Refused
  <2> QED
    BY <2>1, <2>2, AttachIsMount, DetachIsUnmount, OpenIsOpen, CloseIsClose DEF Next
<1> QED
  BY <1>1, <1>2, IdleInvHolds, PrefixOnceHolds, PTL DEF Spec, ImplementsFiles, F!Spec

-----------------------------------------------------------------------------
(* The calls with a path.                                                  *)

(* The history of what was attached is what the mappings say.              *)
MountedTrue ==
  /\ \A i \in FsIndexes :
       filesystems[i].prefix # NULL => mounted[filesystems[i].prefix] = filesystems[i].fs
  /\ \A p \in Prefixes :
       mounted[p] # NULL => \E i \in FsIndexes : filesystems[i].prefix = p

DirInv == DirTypeOK /\ MappingsWhole /\ PrefixOnce /\ MountedTrue

SearchesMounted == \A d \in searches : mounted[d.prefix] = d.fs

(* A name leads to the only mapping of its prefix.                         *)
LEMMA NamedMounted ==
  ASSUME DirInv, NEW prefix \in Prefixes
  PROVE  /\ Named(prefix) = Attached(prefix)
         /\ \A i \in Named(prefix) : /\ filesystems[i].fs = mounted[prefix]
                                     /\ filesystems[i].fs # NULL
         /\ mounted[prefix] # NULL => Named(prefix) # {}
<1>1. prefix # NULL
  BY ClientAssumption
<1>2. \A i, j \in Attached(prefix) : i = j
  BY <1>1 DEF Attached, DirInv, PrefixOnce
<1>3. Named(prefix) = Attached(prefix)
  <2>1. CASE Attached(prefix) = {}
    BY <2>1 DEF Named
  <2>2. CASE Attached(prefix) # {}
    <3>1. Min(Attached(prefix)) \in Attached(prefix)
      BY <2>2, FirstUnattached DEF Attached
    <3> QED
      BY <1>2, <3>1 DEF Named
  <2> QED
    BY <2>1, <2>2
<1>4. \A i \in Named(prefix) : filesystems[i].fs = mounted[prefix] /\ filesystems[i].fs # NULL
  BY <1>1, <1>3 DEF Attached, DirInv, MountedTrue, MappingsWhole
<1>5. mounted[prefix] # NULL => Named(prefix) # {}
  BY <1>3 DEF Attached, DirInv, MountedTrue
<1> QED
  BY <1>3, <1>4, <1>5

LEMMA AttachMounts ==
  ASSUME DirInv, NEW prefix \in Prefixes, NEW fs \in Filesystems, Attach(prefix, fs)
  PROVE  /\ MappingsWhole' /\ PrefixOnce' /\ MountedTrue' /\ DirTypeOK'
         /\ SearchesMounted => SearchesMounted'
<1>1. CASE Refused
  <2>1. UNCHANGED <<vars, mounted, searches>>
    BY <1>1 DEF Refused, Attach, vars, tableVars
  <2> QED
    BY <2>1 DEF DirInv, DirTypeOK, TypeOK, MappingsWhole, PrefixOnce, MountedTrue,
                SearchesMounted, vars, tableVars
<1>2. ASSUME Attached(prefix) = {}, NEW i \in FsIndexes, filesystems[i].prefix = NULL,
             filesystems' = [filesystems EXCEPT ![i] = [prefix |-> prefix, fs |-> fs]],
             UNCHANGED <<handle_map, handle_buckets_count, handle_open_count, owner, files>>
      PROVE  /\ MappingsWhole' /\ PrefixOnce' /\ MountedTrue' /\ DirTypeOK'
             /\ SearchesMounted => SearchesMounted'
  <2>1. prefix # NULL /\ fs # NULL
    BY ClientAssumption
  <2>2. /\ filesystems'[i] = [prefix |-> prefix, fs |-> fs]
        /\ \A j \in FsIndexes : j # i => filesystems'[j] = filesystems[j]
    BY <1>2 DEF DirInv, DirTypeOK, TypeOK
  <2>3. mounted' = [mounted EXCEPT ![prefix] = fs] /\ searches' = searches
    BY <1>2, <2>1, <2>2 DEF Attach
  <2>4. /\ mounted'[prefix] = fs
        /\ \A p \in Prefixes : p # prefix => mounted'[p] = mounted[p]
    BY <2>3 DEF DirInv, DirTypeOK
  <2>5. TypeOK'
    BY <1>2 DEF DirInv, DirTypeOK, TypeOK
  <2>6. DirTypeOK'
    BY <2>3, <2>5 DEF DirInv, DirTypeOK
  <2>7. \A j \in FsIndexes : filesystems[j].prefix # prefix
    BY <1>2 DEF Attached
  <2>8. MappingsWhole' /\ PrefixOnce'
    BY <2>1, <2>2, <2>7 DEF DirInv, MappingsWhole, PrefixOnce
  <2>9. MountedTrue'
    <3>1. \A j \in FsIndexes :
            filesystems'[j].prefix # NULL => mounted'[filesystems'[j].prefix] = filesystems'[j].fs
      BY <2>1, <2>2, <2>4, <2>7 DEF DirInv, MountedTrue, DirTypeOK, TypeOK
    <3>2. \A p \in Prefixes :
            mounted'[p] # NULL => \E j \in FsIndexes : filesystems'[j].prefix = p
      <4> SUFFICES ASSUME NEW p \in Prefixes, mounted'[p] # NULL
                   PROVE  \E j \in FsIndexes : filesystems'[j].prefix = p
        OBVIOUS
      <4>1. CASE p = prefix
        BY <2>2, <4>1
      <4>2. CASE p # prefix
        <5>1. PICK j \in FsIndexes : filesystems[j].prefix = p
          BY <2>4, <4>2 DEF DirInv, MountedTrue
        <5>2. j # i
          BY <1>2, <5>1, ClientAssumption
        <5> QED
          BY <2>2, <5>1, <5>2
      <4> QED
        BY <4>1, <4>2
    <3> QED
      BY <3>1, <3>2 DEF MountedTrue
  <2>10. ASSUME SearchesMounted PROVE SearchesMounted'
    <3>1. mounted[prefix] = NULL
      BY <2>7 DEF DirInv, MountedTrue
    <3>2. \A d \in searches : d.prefix \in Prefixes /\ d.fs # NULL
      BY ClientAssumption DEF DirInv, DirTypeOK, Search
    <3> QED
      BY <2>3, <2>4, <2>10, <3>1, <3>2 DEF SearchesMounted
  <2> QED
    BY <2>6, <2>8, <2>9, <2>10
<1> QED
  BY <1>1, <1>2, FirstUnattached DEF Attach, attach_filesystem

LEMMA DetachUnmounts ==
  ASSUME DirInv, NEW prefix \in Prefixes, Detach(prefix)
  PROVE  /\ MappingsWhole' /\ PrefixOnce' /\ MountedTrue' /\ DirTypeOK'
         /\ ~DetachBusy /\ SearchesMounted => SearchesMounted'
<1>1. mounted' = [mounted EXCEPT ![prefix] = NULL] /\ searches' = searches
  BY DEF Detach
<1>2. /\ mounted'[prefix] = NULL
      /\ \A p \in Prefixes : p # prefix => mounted'[p] = mounted[p]
  BY <1>1 DEF DirInv, DirTypeOK
<1>3. ~DetachBusy /\ SearchesMounted => SearchesMounted'
  BY <1>1, <1>2 DEF Detach, SearchesMounted, DirInv, DirTypeOK, Search
<1>4. CASE Named(prefix) = {} /\ Refused
  <2>1. UNCHANGED vars
    BY <1>4 DEF Refused
  <2>2. mounted[prefix] = NULL
    BY <1>4, NamedMounted
  <2>3. mounted' = mounted
    BY <1>1, <2>2 DEF DirInv, DirTypeOK
  <2>4. MappingsWhole' /\ PrefixOnce' /\ MountedTrue'
    BY <2>1, <2>3 DEF DirInv, MappingsWhole, PrefixOnce, MountedTrue, vars, tableVars
  <2>5. DirTypeOK'
    BY <1>1, <2>1, <2>3 DEF DirInv, DirTypeOK, TypeOK, vars, tableVars
  <2> QED
    BY <1>3, <2>4, <2>5
<1>5. ASSUME NEW i \in Named(prefix),
             filesystems' = [filesystems EXCEPT ![i] = Unattached],
             UNCHANGED <<handle_map, handle_buckets_count, handle_open_count, owner, files>>
      PROVE  /\ MappingsWhole' /\ PrefixOnce' /\ MountedTrue' /\ DirTypeOK'
  <2>1. i \in FsIndexes /\ filesystems[i].prefix = prefix /\ prefix # NULL
    BY NamedIsAttached, ClientAssumption
  <2>2. /\ filesystems'[i] = [prefix |-> NULL, fs |-> NULL]
        /\ \A j \in FsIndexes : j # i => filesystems'[j] = filesystems[j]
    BY <1>5, <2>1 DEF DirInv, DirTypeOK, TypeOK, Unattached
  <2>3. \A j \in FsIndexes : j # i => filesystems[j].prefix # prefix
    BY <2>1 DEF DirInv, PrefixOnce
  <2>4. MappingsWhole' /\ PrefixOnce'
    BY <2>2 DEF DirInv, MappingsWhole, PrefixOnce
  <2>5. MountedTrue'
    <3>1. \A j \in FsIndexes :
            filesystems'[j].prefix # NULL => mounted'[filesystems'[j].prefix] = filesystems'[j].fs
      BY <1>2, <2>2, <2>3 DEF DirInv, MountedTrue, DirTypeOK, TypeOK
    <3>2. ASSUME NEW p \in Prefixes, mounted'[p] # NULL
          PROVE  \E j \in FsIndexes : filesystems'[j].prefix = p
      <4>1. p # prefix
        BY <1>2, <3>2
      <4>2. PICK j \in FsIndexes : filesystems[j].prefix = p
        BY <1>2, <3>2, <4>1 DEF DirInv, MountedTrue
      <4> QED
        BY <2>1, <2>2, <4>1, <4>2
    <3> QED
      BY <3>1, <3>2 DEF MountedTrue
  <2>6. TypeOK'
    BY <1>5, <2>1 DEF DirInv, DirTypeOK, TypeOK, Unattached
  <2>7. DirTypeOK'
    BY <1>1, <2>6 DEF DirInv, DirTypeOK
  <2> QED
    BY <2>4, <2>5, <2>7
<1> QED
  BY <1>3, <1>4, <1>5 DEF Detach, detach_filesystem

(* The calls that leave the mappings alone.                                *)
LEMMA MappingsStay ==
  ASSUME DirInv, UNCHANGED <<filesystems, mounted>>
  PROVE  MappingsWhole' /\ PrefixOnce' /\ MountedTrue'
BY DEF DirInv, MappingsWhole, PrefixOnce, MountedTrue

(* Every step of the file layer and its searches is one of the file layer. *)
THEOREM DirIsTable == DirSpec => Spec
<1>1. DirInit => Init
  BY DEF DirInit
<1>2. [DirNext]_dirVars => [Next]_vars
  BY DEF DirNext, dirVars, Next, Attach, Detach, dir_findfirst, dir_findnext
<1> QED
  BY <1>1, <1>2, PTL DEF DirSpec, Spec

LEMMA DirStep ==
  ASSUME TableInv, TypeOK', DirInv, [DirNext]_dirVars
  PROVE  DirInv' /\ (~DetachBusy /\ SearchesMounted => SearchesMounted')
<1>1. ASSUME UNCHANGED <<filesystems, mounted, searches>>
      PROVE  DirInv' /\ (SearchesMounted => SearchesMounted')
  <2>1. DirTypeOK'
    BY <1>1 DEF DirInv, DirTypeOK
  <2> QED
    BY <1>1, <2>1, MappingsStay DEF DirInv, SearchesMounted
<1>2. ASSUME NEW prefix \in Prefixes, NEW fs \in Filesystems, Attach(prefix, fs)
      PROVE  DirInv' /\ (SearchesMounted => SearchesMounted')
  BY <1>2, AttachMounts DEF DirInv
<1>3. ASSUME NEW prefix \in Prefixes, Detach(prefix)
      PROVE  DirInv' /\ (~DetachBusy /\ SearchesMounted => SearchesMounted')
  BY <1>3, DetachUnmounts DEF DirInv
<1>4. ASSUME NEW prefix \in Prefixes, dir_findfirst(prefix)
      PROVE  DirInv' /\ (SearchesMounted => SearchesMounted')
  <2>1. UNCHANGED <<filesystems, mounted>>
    BY <1>4 DEF dir_findfirst, vars, tableVars
  <2>2. ASSUME NEW fs \in ByName(prefix, {"findfirst"})
        PROVE  fs \in Filesystems /\ mounted[prefix] = fs
    <3>1. PICK i \in Named(prefix) : fs = filesystems[i].fs
      BY DEF ByName
    <3>2. i \in FsIndexes /\ filesystems[i].fs = mounted[prefix] /\ filesystems[i].fs # NULL
      BY NamedMounted, NamedIsAttached
    <3> QED
      BY <3>1, <3>2 DEF DirInv, DirTypeOK, TypeOK
  <2>3. CASE searches' = searches
    <3>1. UNCHANGED <<filesystems, mounted, searches>>
      BY <2>1, <2>3
    <3> QED
      BY <1>1, <3>1
  <2>4. ASSUME NEW fs \in ByName(prefix, {"findfirst"}),
               searches' = searches \cup {[prefix |-> prefix, fs |-> fs]}
        PROVE  DirInv' /\ (SearchesMounted => SearchesMounted')
    <3>1. DirTypeOK'
      BY <2>1, <2>2, <2>4 DEF DirInv, DirTypeOK, Search
    <3>2. SearchesMounted => SearchesMounted'
      BY <2>1, <2>2, <2>4 DEF SearchesMounted
    <3> QED
      BY <2>1, <3>1, <3>2, MappingsStay DEF DirInv
  <2> QED
    BY <1>4, <2>3, <2>4 DEF dir_findfirst
<1>5. ASSUME NEW d \in searches, dir_findnext(d)
      PROVE  DirInv' /\ (SearchesMounted => SearchesMounted')
  <2>1. UNCHANGED <<filesystems, mounted>> /\ searches' \subseteq searches
    BY <1>5 DEF dir_findnext, vars, tableVars
  <2>2. DirTypeOK'
    BY <2>1 DEF DirInv, DirTypeOK
  <2> QED
    BY <2>1, <2>2, MappingsStay DEF DirInv, SearchesMounted
<1>6. ASSUME \/ \E prefix \in Prefixes : open(prefix)
             \/ \E file \in files : close(file),
             UNCHANGED <<searches, mounted>>
      PROVE  DirInv' /\ (SearchesMounted => SearchesMounted')
  <2>1. filesystems' = filesystems
    BY <1>6, MappingsKept
  <2> QED
    BY <1>1, <1>6, <2>1
<1>7. CASE UNCHANGED dirVars
  BY <1>1, <1>7 DEF dirVars, vars, tableVars
<1> QED
  BY <1>2, <1>3, <1>4, <1>5, <1>6, <1>7 DEF DirNext

LEMMA InitDir == DirInit => DirInv /\ SearchesMounted
<1> SUFFICES ASSUME DirInit PROVE DirInv /\ SearchesMounted
  OBVIOUS
<1>1. Init
  BY DEF DirInit
<1>2. TypeOK /\ MappingsWhole
  BY <1>1, InitTable DEF TableInv
<1>3. DirTypeOK
  BY <1>2 DEF DirInit, DirTypeOK
<1>4. \A i \in FsIndexes : filesystems[i].prefix = NULL
  BY <1>1 DEF Init, Unattached
<1> QED
  BY <1>2, <1>3, <1>4 DEF DirInit, DirInv, PrefixOnce, MountedTrue, SearchesMounted

(* The searches and the mappings stay well formed.                         *)
THEOREM DirTypeCorrect == DirSpec => []DirTypeOK
<1>1. DirSpec => []TableInv
  BY DirIsTable, TableInvHolds, PTL
<1>2. DirInit => DirInv
  BY InitDir
<1>3. TableInv => TypeOK
  BY DEF TableInv
<1>4. TableInv /\ TypeOK' /\ DirInv /\ [DirNext]_dirVars => DirInv'
  BY DirStep
<1>5. DirInv => DirTypeOK
  BY DEF DirInv
<1> QED
  BY <1>1, <1>2, <1>3, <1>4, <1>5, PTL DEF DirSpec

(* When clients detach only a filesystem that nobody has a file or a       *)
(* search in, a path leads to what is attached under its prefix, and every *)
(* step of a search to the filesystem that began it.                       *)
THEOREM PathsResolveCorrect ==
  ASSUME ~DetachBusy
  PROVE  DirSpec => []PathsResolve
<1>1. DirSpec => []TableInv
  BY DirIsTable, TableInvHolds, PTL
<1>2. DirInit => DirInv /\ SearchesMounted
  BY InitDir
<1>3. TableInv => TypeOK
  BY DEF TableInv
<1>4. TableInv /\ TypeOK' /\ (DirInv /\ SearchesMounted) /\ [DirNext]_dirVars
        => (DirInv /\ SearchesMounted)'
  BY DirStep
<1>5. DirInv /\ SearchesMounted => PathsResolve
  <2> SUFFICES ASSUME DirInv, SearchesMounted PROVE PathsResolve
    OBVIOUS
  <2>1. ASSUME NEW prefix \in Prefixes
        PROVE  {filesystems[i].fs : i \in Named(prefix)} = {mounted[prefix]} \ {NULL}
    BY NamedMounted
  <2>2. ASSUME NEW prefix \in Prefixes
        PROVE  mkdir(prefix) \cup unlink(prefix) \subseteq {mounted[prefix]}
    BY NamedMounted DEF mkdir, unlink, ByName
  <2>3. ASSUME NEW d \in searches
        PROVE  {filesystems[i].fs : i \in Named(d.prefix)} = {d.fs}
    <3>1. d.prefix \in Prefixes /\ d.fs = mounted[d.prefix] /\ d.fs # NULL
      BY ClientAssumption DEF DirInv, DirTypeOK, Search, SearchesMounted
    <3> QED
      BY <2>1, <3>1
  <2> QED
    BY <2>1, <2>2, <2>3 DEF PathsResolve
<1> QED
  BY <1>1, <1>2, <1>3, <1>4, <1>5, PTL DEF DirSpec

=============================================================================
