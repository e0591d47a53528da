----------------------------- MODULE MCFraming ------------------------------
(***************************************************************************)
(* Small instances of Framing, with the buffer sizes of the code.          *)
(***************************************************************************)
EXTENDS Framing

User(username, password, token, language) ==
  [username |-> username, password |-> password, token_clint |-> token,
   language |-> language]

(* The largest answers that fit the 256 bytes on the N64, with a password  *)
(* and with a token; one that does not; and a login.txt without either.    *)
MCConfigs == {User(100, 110, 0, 2), User(100, 0, 107, 2), User(120, 120, 0, 2),
              User(8, 0, 0, 2)}
=============================================================================
