------------------------------ MODULE Payload -------------------------------
(***************************************************************************)
(* The life of the payload, cln_run in payload/main.c: the game calls it   *)
(* once a frame and waits for it to return.  It lets some frames pass,     *)
(* finds the cartridge (payload/usb.c), registers its ABI with the Classics*)
(* Live library and logs in, and from then on runs the library once per    *)
(* frame.  The library is external: inside its calls it uses the ABI of    *)
(* module UsbDriver in any order, and it returns success or an error.      *)
(***************************************************************************)
EXTENDS Link, Bss

CONSTANTS
  BootFrames,   (* frames before the first use of the cartridge (120)      *)
  ErrorCodes    (* the errors the library returns, none of them CL_OK      *)

ASSUME PayloadAssumption == /\ BootFrames \in Nat
                            /\ ErrorCodes \subseteq Nat \ {0}

VARIABLES
  cln_state,         (* static variables of main.c and usb.c               *)
  cln_boot_frames,
  result,
  cl64_cart,
  phase,             (* where control is: in the game, or in a library call*)
  coins,             (* the values the payload has written to SM64_COINS   *)
  frames,            (* history: frames since power on or reset            *)
  failed             (* history: the step of the start that failed, and    *)
                     (* what its error added to result                     *)

bssVars  == <<cln_state, cln_boot_frames, result, cl64_cart>>
lifeVars == <<bssVars, phase, coins, frames, failed>>
payloadVars == <<vars, lifeVars>>

Stages == {"register", "login", "run"}

(* The steps of the start that can fail.                                   *)
Steps    == {"usb", "register", "login"}
NoFailure == [step |-> "none", added |-> 0]

LifeTypeOK ==
  /\ cln_state \in {"UNINITIALIZED", "INITIALIZED", "ERROR"}
  /\ cln_boot_frames \in 0 .. BootFrames
  /\ result \in Nat
  /\ cl64_cart \in {"INVALID", "SUMMERCART64"}
  /\ phase \in {"game"} \cup Stages
  /\ \A value \in coins : value \in Nat /\ value < 65536
  /\ frames \in 0 .. BootFrames
  /\ failed \in [step : Steps \cup {"none"}, added : Nat]

(* The static variables at the first entry.                                *)
BssInit ==
  IF BssCleared
  THEN /\ cln_state = "UNINITIALIZED"
       /\ cln_boot_frames = 0
       /\ result = 0
       /\ cl64_cart = "INVALID"
  ELSE /\ cln_state \in {"UNINITIALIZED", "INITIALIZED", "ERROR"}
       /\ cln_boot_frames \in {0, BootFrames}
       /\ result = 0
       /\ cl64_cart \in {"INVALID", "SUMMERCART64"}

PayloadInit ==
  /\ Init
  /\ BssInit
  /\ phase = "game"
  /\ coins = {}
  /\ frames = 0
  /\ failed = NoFailure

-----------------------------------------------------------------------------
(* The frames that cln_run sees; at BootFrames the history stops counting. *)
CountFrame == frames' = IF frames < BootFrames THEN frames + 1 ELSE frames

(* A faulty Fail: the payload starts over, and nothing shows.              *)
FailSilently(step, amount) ==
  /\ result' = 0
  /\ UNCHANGED <<cln_state, failed>>
  /\ phase' = "game"

(* A step fails; what the number in result grows by.                       *)
Fail(step, amount) ==
  /\ cln_state' = "ERROR"
  /\ result' = result + amount
  /\ phase' = "game"
  /\ failed' = [step |-> step, added |-> amount]

(* A faulty WaitFrame: one frame too many.                                 *)
WaitFrameLong ==
  /\ phase = "game"
  /\ cln_state = "UNINITIALIZED"
  /\ cln_boot_frames <= BootFrames
  /\ cln_boot_frames' = cln_boot_frames + 1
  /\ CountFrame
  /\ UNCHANGED <<cln_state, result, cl64_cart, phase, coins, failed>>
  /\ UNCHANGED vars

WaitFrame ==
  /\ phase = "game"
  /\ cln_state = "UNINITIALIZED"
  /\ cln_boot_frames < BootFrames
  /\ cln_boot_frames' = cln_boot_frames + 1
  /\ CountFrame
  /\ UNCHANGED <<cln_state, result, cl64_cart, phase, coins, failed>>
  /\ UNCHANGED vars

(* Faulty forms of InitUsb: an error of cl64_usb_init is not looked at;    *)
(* the cartridge is used from the first frame on.                          *)
InitUsbUnchecked ==
  /\ phase = "game"
  /\ cln_state = "UNINITIALIZED"
  /\ cln_boot_frames >= BootFrames
  /\ cl64_cart' \in {"SUMMERCART64", "INVALID"}
  /\ phase' = "register"
  /\ result' = result + 20
  /\ CountFrame
  /\ UNCHANGED <<cln_state, cln_boot_frames, coins, failed>>
  /\ UNCHANGED vars

InitUsbAtOnce ==
  /\ phase = "game"
  /\ cln_state = "UNINITIALIZED"
  /\ cl64_cart' = "SUMMERCART64"
  /\ phase' = "register"
  /\ result' = result + 20
  /\ CountFrame
  /\ UNCHANGED <<cln_state, cln_boot_frames, coins, failed>>
  /\ UNCHANGED vars

(* cl64_usb_init: the identifier of the cartridge is right, or it is not.  *)
InitUsb ==
  /\ phase = "game"
  /\ cln_state = "UNINITIALIZED"
  /\ cln_boot_frames >= BootFrames
  /\ \/ /\ cl64_cart' = "SUMMERCART64"
        /\ phase' = "register"
        /\ result' = result + 20
        /\ UNCHANGED <<cln_state, failed>>
     \/ /\ cl64_cart' = "INVALID"
        /\ Fail("usb", 10)
  /\ CountFrame
  /\ UNCHANGED <<cln_boot_frames, coins>>
  /\ UNCHANGED vars

(* A faulty Registered: result is counted up before the error is looked at.*)
RegisteredCounted ==
  /\ phase = "register"
  /\ drv = "idle"
  /\ \/ /\ phase' = "login"
        /\ result' = result + 10
        /\ UNCHANGED <<cln_state, failed>>
     \/ \E error \in ErrorCodes :
          /\ cln_state' = "ERROR"
          /\ result' = result + 10 + error
          /\ phase' = "game"
          /\ failed' = [step |-> "register", added |-> error]
  /\ UNCHANGED <<cln_boot_frames, cl64_cart, coins, frames>>
  /\ UNCHANGED vars

(* cl_abi_register and then cl_login_and_start return; a call they made    *)
(* has returned before them.                                               *)
Registered ==
  /\ phase = "register"
  /\ drv = "idle"
  /\ \/ /\ phase' = "login"
        /\ result' = result + 10
        /\ UNCHANGED <<cln_state, failed>>
     \/ \E error \in ErrorCodes : Fail("register", error)
  /\ UNCHANGED <<cln_boot_frames, cl64_cart, coins, frames>>
  /\ UNCHANGED vars

(* (session.state is added to result as well: nothing reads it afterwards) *)
LoggedIn ==
  /\ phase = "login"
  /\ drv = "idle"
  /\ \/ /\ cln_state' = "INITIALIZED"
        /\ phase' = "game"
        /\ result' = result + 10
        /\ UNCHANGED failed
     \/ \E error \in ErrorCodes : Fail("login", error)
  /\ UNCHANGED <<cln_boot_frames, cl64_cart, coins, frames>>
  /\ UNCHANGED vars

RunFrame ==
  /\ phase = "game"
  /\ cln_state = "INITIALIZED"
  /\ phase' = "run"
  /\ CountFrame
  /\ UNCHANGED <<bssVars, coins, failed>>
  /\ UNCHANGED vars

RunReturns ==
  /\ phase = "run"
  /\ drv = "idle"
  /\ phase' = "game"
  /\ UNCHANGED <<bssVars, coins, frames, failed>>
  /\ UNCHANGED vars

ErrorFrame ==
  /\ phase = "game"
  /\ cln_state = "ERROR"
  /\ coins' = coins \cup {result % 65536}
  /\ CountFrame
  /\ UNCHANGED <<bssVars, phase, failed>>
  /\ UNCHANGED vars

(* A reset also loads the payload anew; .bss is zeroed or stays.           *)
ConsoleReset ==
  /\ Reset
  /\ phase' = "game"
  /\ coins' = {}
  /\ frames' = 0
  /\ failed' = NoFailure
  /\ IF BssCleared
     THEN /\ cln_state' = "UNINITIALIZED"
          /\ cln_boot_frames' = 0
          /\ result' = 0
          /\ cl64_cart' = "INVALID"
     ELSE UNCHANGED bssVars

(* Only the library makes calls; cl64_usb_transmit and cl64_usb_receive    *)
(* do nothing but return an error when there is no cartridge.              *)
LibraryRuns ==
  /\ phase \in Stages
  /\ cl64_cart = "SUMMERCART64"
  /\ LibraryCalls
  /\ UNCHANGED lifeVars

LinkRuns == (DriverRuns \/ CartRuns \/ HostRuns) /\ UNCHANGED lifeVars

LifeStep == WaitFrame \/ InitUsb \/ Registered \/ LoggedIn \/ RunFrame
              \/ RunReturns \/ ErrorFrame

PayloadNext == LifeStep \/ LibraryRuns \/ LinkRuns \/ ConsoleReset

PayloadSpec == PayloadInit /\ [][PayloadNext]_payloadVars

(***************************************************************************)
(* Fairness: that of the link; a library call that has nothing left to do  *)
(* returns; the game keeps calling cln_run while it waits or has failed.   *)
(***************************************************************************)
PayloadFairness ==
  /\ Fairness
  /\ WF_payloadVars(WaitFrame \/ InitUsb)
  /\ WF_payloadVars(Registered)
  /\ WF_payloadVars(LoggedIn)
  /\ WF_payloadVars(RunReturns)
  /\ WF_payloadVars(ErrorFrame)

FairPayloadSpec == PayloadSpec /\ PayloadFairness

-----------------------------------------------------------------------------
(* The variables keep their types.                                         *)
PayloadTypeOK == TypeOK /\ LifeTypeOK

(* The library runs only when the cartridge has been identified: otherwise *)
(* cln_abi_network_post would hand its caller an unwritten recv_buffer.    *)
CartBeforeLibrary == phase \in Stages => cl64_cart = "SUMMERCART64"

(* The library runs only after cln_run has let BootFrames frames pass      *)
(* since power on or reset, "to allow USB initialization".                 *)
WaitsForFrames ==
  [][phase = "game" /\ phase' \in Stages => frames = BootFrames]_payloadVars

(* What SM64_COINS, of 16 bits, shows when a step of the start has failed: *)
(* 10 for the cartridge, 20 and the error of the registration, 30 and the  *)
(* error of the login.                                                     *)
Number(step, added) ==
  (CASE step = "usb" -> 10 [] step = "register" -> 20 + added
     [] step = "login" -> 30 + added) % 65536

(* The numbers that a step may show.                                       *)
Numbers(step) ==
  IF step = "usb" THEN {10} ELSE {Number(step, error) : error \in ErrorCodes}

(* Errors of the library that fit, and of which none is another and 10.    *)
CodesTell ==
  /\ \A e \in ErrorCodes : e + 30 < 65536
  /\ \A e, f \in ErrorCodes : e # f + 10

(* The payload writes into the game's memory only to tell of an error; the *)
(* number is that of the step that failed and of its error; and if the     *)
(* library's errors allow it, the number shows which step that was, since  *)
(* no other could have given it.                                           *)
CoinsTellError ==
  /\ coins # {} => cln_state = "ERROR"
  /\ \A value \in coins :
       /\ failed.step \in Steps
       /\ value = Number(failed.step, failed.added)
       /\ CodesTell => {step \in Steps : value \in Numbers(step)} = {failed.step}

(* The game gets control back from every frame, whatever the library asks  *)
(* the PC during it (until a post is mixed with an answer: ReceiveReturns).*)
GameResumes == phase # "game" ~> phase = "game" \/ mixed

(* A payload that is entered, after power on and after a reset, gets to run*)
(* the library or tells the error.                                         *)
StartEnds ==
  cln_state = "UNINITIALIZED" ~> cln_state = "INITIALIZED" \/ coins # {} \/ mixed
=============================================================================
