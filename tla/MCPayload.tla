----------------------------- MODULE MCPayload ------------------------------
(***************************************************************************)
(* Small instances of Payload.                                             *)
(***************************************************************************)
EXTENDS Payload
=============================================================================
