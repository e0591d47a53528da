------------------------------- MODULE MCLink -------------------------------
(***************************************************************************)
(* Small instances of Link.                                                *)
(***************************************************************************)
EXTENDS LinkWork
=============================================================================
