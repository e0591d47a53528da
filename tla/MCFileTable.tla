---------------------------- MODULE MCFileTable -----------------------------
(***************************************************************************)
(* Small instances of FileTable.                                           *)
(***************************************************************************)
EXTENDS FileTable, TLC

CONSTANTS rom, sd     (* two filesystems                                   *)

(* "rom" has no callback for stat; "sd" has every callback.                *)
MCSupports == rom :> {"open", "close", "fstat", "read", "lseek"} @@ sd :> Ops

(* "rom" alone, which keeps what is opened in it for ever.                 *)
MCSupportsNoClose == rom :> {"open", "read"}

(* The searches for the handles 3 and 4 start in one slot, and fill their  *)
(* bucket past its end; that for the handle 5 starts in the second bucket, *)
(* if there is one.                                                        *)
MCHash(h, i, n) ==
  [bkt |-> IF n = 1 THEN 0 ELSE h \div 5,
   pos |-> (h - h \div 4 + n) % HANDLE_BUCKET_SIZE]

(* Nothing tells one prefix from another.                                  *)
MCSymmetry == Permutations(Prefixes)
=============================================================================
