-------------------------------- MODULE Bss ---------------------------------
(***************************************************************************)
(* What the static variables of the payload hold when it is entered for    *)
(* the first time.  payload/link.ld leaves .bss out of the image (NOLOAD)  *)
(* and nothing on the way to _start writes it, so they are what was in     *)
(* memory: zeros, or what an earlier run left.                             *)
(***************************************************************************)
CONSTANT BssCleared   (* .bss holds zeros                                  *)
ASSUME BssAssumption == BssCleared \in BOOLEAN
=============================================================================
