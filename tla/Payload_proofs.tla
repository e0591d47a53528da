--------------------------- MODULE Payload_proofs ---------------------------
(***************************************************************************)
(* Theorems about Payload: the types for every .bss, the rest for one that *)
(* holds zeros at the first entry.                                         *)
(***************************************************************************)
EXTENDS Payload, LinkInv_proofs

(* The life of the payload keeps to the link: what is proved of Link holds *)
(* of the payload on top of it.                                            *)
THEOREM PayloadIsLink == PayloadSpec => Spec
<1>1. PayloadInit => Init
  BY DEF PayloadInit
<1>2. [PayloadNext]_payloadVars => [Next]_vars
  BY DEF PayloadNext, payloadVars, Next, LifeStep, WaitFrame, InitUsb, Registered,
         LoggedIn, RunFrame, RunReturns, ErrorFrame, LibraryRuns, LinkRuns, ConsoleReset
<1> QED
  BY <1>1, <1>2, PTL DEF PayloadSpec, Spec

(* How far the start has come tells how many frames have passed and        *)
(* whether the cartridge has been found.                                   *)
LifeInv ==
  /\ cln_boot_frames \in 0 .. BootFrames
  /\ frames \in 0 .. BootFrames
  /\ phase \in {"game"} \cup Stages
  /\ phase = "game" /\ cln_state = "UNINITIALIZED" => frames = cln_boot_frames
  /\ phase = "run" => cln_state = "INITIALIZED"
  /\ phase \in Stages \/ cln_state = "INITIALIZED" =>
       frames = BootFrames /\ cl64_cart = "SUMMERCART64"

LEMMA LifeStepInv ==
  ASSUME LifeInv, LifeStep
  PROVE  LifeInv'
<1> USE PayloadAssumption DEF LifeInv, Stages, CountFrame, Fail
<1>1. CASE WaitFrame
  BY <1>1 DEF WaitFrame
<1>2. CASE InitUsb
  <2>1. frames' = BootFrames /\ UNCHANGED cln_boot_frames
    BY <1>2 DEF InitUsb
  <2> QED
    BY <1>2, <2>1 DEF InitUsb
<1>3. CASE Registered
  BY <1>3 DEF Registered
<1>4. CASE LoggedIn
  BY <1>4 DEF LoggedIn
<1>5. CASE RunFrame
  BY <1>5 DEF RunFrame, bssVars
<1>6. CASE RunReturns
  BY <1>6 DEF RunReturns, bssVars
<1>7. CASE ErrorFrame
  BY <1>7 DEF ErrorFrame, bssVars
<1> QED
  BY <1>1, <1>2, <1>3, <1>4, <1>5, <1>6, <1>7 DEF LifeStep

LEMMA LifeCorrect ==
  ASSUME BssCleared
  PROVE  PayloadSpec => []LifeInv
<1>1. PayloadInit => LifeInv
  BY PayloadAssumption DEF PayloadInit, BssInit, LifeInv, Stages
<1>2. LifeInv /\ [PayloadNext]_payloadVars => LifeInv'
  <2> SUFFICES ASSUME LifeInv, [PayloadNext]_payloadVars PROVE LifeInv'
    OBVIOUS
  <2>1. CASE LifeStep
    BY <2>1, LifeStepInv
  <2>2. CASE ConsoleReset
    BY <2>2, PayloadAssumption DEF ConsoleReset, LifeInv, Stages
  <2>3. CASE UNCHANGED lifeVars
    BY <2>3 DEF lifeVars, bssVars, LifeInv
  <2> QED
    BY <2>1, <2>2, <2>3 DEF PayloadNext, LibraryRuns, LinkRuns, payloadVars
<1> QED
  BY <1>1, <1>2, PTL DEF PayloadSpec

(* No call of the library is made before the cartridge is identified.      *)
THEOREM CartBeforeLibraryCorrect ==
  ASSUME BssCleared
  PROVE  PayloadSpec => []CartBeforeLibrary
<1>1. LifeInv => CartBeforeLibrary
  BY DEF LifeInv, CartBeforeLibrary
<1> QED
  BY <1>1, LifeCorrect, PTL

(* No call of the library is made before BootFrames frames have passed     *)
(* since power on, and again after every reset.                            *)
THEOREM WaitsForFramesCorrect ==
  ASSUME BssCleared
  PROVE  PayloadSpec => WaitsForFrames
<1>1. LifeInv /\ [PayloadNext]_payloadVars =>
        [phase = "game" /\ phase' \in Stages => frames = BootFrames]_payloadVars
  <2> SUFFICES ASSUME LifeInv, PayloadNext, phase = "game", phase' \in Stages
               PROVE  frames = BootFrames
    OBVIOUS
  <2>1. phase' # phase
    BY DEF Stages
  <2>2. InitUsb \/ RunFrame
    BY <2>1 DEF PayloadNext, LifeStep, WaitFrame, Registered, LoggedIn, RunReturns,
         ErrorFrame, LibraryRuns, LinkRuns, lifeVars, ConsoleReset, Stages
  <2>3. CASE InitUsb
    BY <2>3, PayloadAssumption DEF InitUsb, LifeInv
  <2>4. CASE RunFrame
    BY <2>4 DEF RunFrame, LifeInv
  <2> QED
    BY <2>2, <2>3, <2>4
<1> QED
  BY <1>1, LifeCorrect, PTL DEF PayloadSpec, WaitsForFrames

(* The variables of the payload's life have their types, whatever .bss     *)
(* held.                                                                   *)
LEMMA LifeTypeStep ==
  ASSUME LifeTypeOK, [PayloadNext]_payloadVars
  PROVE  LifeTypeOK'
<1> USE PayloadAssumption DEF LifeTypeOK, Stages, CountFrame, Fail, Steps
<1>1. CASE WaitFrame
  BY <1>1 DEF WaitFrame
<1>2. CASE InitUsb
  BY <1>2 DEF InitUsb
<1>3. CASE Registered
  BY <1>3 DEF Registered
<1>4. CASE LoggedIn
  BY <1>4 DEF LoggedIn
<1>5. CASE RunFrame
  BY <1>5 DEF RunFrame, bssVars
<1>6. CASE RunReturns
  BY <1>6 DEF RunReturns, bssVars
<1>7. CASE ErrorFrame
  <2>1. result % 65536 \in Nat /\ result % 65536 < 65536
    OBVIOUS
  <2> QED
    BY <1>7, <2>1 DEF ErrorFrame, bssVars
<1>8. CASE ConsoleReset
  BY <1>8 DEF ConsoleReset, bssVars, NoFailure
<1>9. CASE UNCHANGED lifeVars
  BY <1>9 DEF lifeVars, bssVars
<1> QED
  BY <1>1, <1>2, <1>3, <1>4, <1>5, <1>6, <1>7, <1>8, <1>9
  DEF PayloadNext, LifeStep, LibraryRuns, LinkRuns, payloadVars

(* Every variable of the payload and of the link under it has its type.    *)
THEOREM PayloadTypeCorrect == PayloadSpec => []PayloadTypeOK
<1>1. PayloadInit => LifeTypeOK
  BY PayloadAssumption DEF PayloadInit, BssInit, LifeTypeOK, Stages, NoFailure
<1>2. PayloadSpec => []LifeTypeOK
  BY <1>1, LifeTypeStep, PTL DEF PayloadSpec
<1>3. TypeOK /\ LifeTypeOK => PayloadTypeOK
  BY DEF PayloadTypeOK
<1> QED
  BY <1>2, <1>3, PayloadIsLink, TypeCorrect, PTL

(* The number in result tells how far the start has come, or which step of *)
(* it has failed, and the number in SM64_COINS is that one.                *)
Failed ==
  \/ failed.step = "usb" /\ result = 10
  \/ failed.step = "register" /\ failed.added \in ErrorCodes /\ result = 20 + failed.added
  \/ failed.step = "login" /\ failed.added \in ErrorCodes /\ result = 30 + failed.added

ErrorInv ==
  /\ phase = "game" /\ cln_state = "UNINITIALIZED" => result = 0
  /\ phase = "register" => cln_state = "UNINITIALIZED" /\ result = 20
  /\ phase = "login" => cln_state = "UNINITIALIZED" /\ result = 30
  /\ phase = "run" => cln_state = "INITIALIZED"
  /\ cln_state = "ERROR" => Failed
  /\ coins # {} => cln_state = "ERROR"
  /\ \A value \in coins : value = result % 65536

LEMMA ErrorStep ==
  ASSUME BssCleared, LifeTypeOK, ErrorInv, [PayloadNext]_payloadVars
  PROVE  ErrorInv'
<1> USE PayloadAssumption DEF LifeTypeOK, ErrorInv, Failed, Stages
<1>1. CASE WaitFrame
  BY <1>1 DEF WaitFrame
<1>2. CASE InitUsb
  BY <1>2 DEF InitUsb, Fail
<1>3. CASE Registered
  BY <1>3 DEF Registered, Fail
<1>4. CASE LoggedIn
  BY <1>4 DEF LoggedIn, Fail
<1>5. CASE RunFrame
  BY <1>5 DEF RunFrame, bssVars
<1>6. CASE RunReturns
  BY <1>6 DEF RunReturns, bssVars
<1>7. CASE ErrorFrame
  BY <1>7 DEF ErrorFrame, bssVars
<1>8. CASE ConsoleReset
  BY <1>8 DEF ConsoleReset
<1>9. CASE UNCHANGED lifeVars
  BY <1>9 DEF lifeVars, bssVars
<1> QED
  BY <1>1, <1>2, <1>3, <1>4, <1>5, <1>6, <1>7, <1>8, <1>9
  DEF PayloadNext, LifeStep, LibraryRuns, LinkRuns, payloadVars

(* The numbers of two steps are apart if the errors are.                   *)
LEMMA NumbersApart ==
  ASSUME CodesTell
  PROVE  /\ Numbers("usb") = {10}
         /\ Numbers("register") = {20 + e : e \in ErrorCodes}
         /\ Numbers("login") = {30 + e : e \in ErrorCodes}
         /\ \A s, t \in Steps : s # t => Numbers(s) \cap Numbers(t) = {}
<1>1. \A e \in ErrorCodes : /\ e \in Nat \ {0} /\ e + 30 < 65536
                            /\ Number("register", e) = 20 + e
                            /\ Number("login", e) = 30 + e
  BY PayloadAssumption DEF CodesTell, Number
<1>2. /\ Numbers("usb") = {10}
      /\ Numbers("register") = {20 + e : e \in ErrorCodes}
      /\ Numbers("login") = {30 + e : e \in ErrorCodes}
  BY <1>1 DEF Numbers
<1>3. \A e, f \in ErrorCodes : 20 + e # 30 + f /\ 20 + e # 10 /\ 30 + e # 10
  BY <1>1 DEF CodesTell
<1> QED
  BY <1>2, <1>3 DEF Steps

(* What the payload writes into the game's memory is the number of the step*)
(* that failed, for every set of errors; and it can be the number of no    *)
(* other step, if the errors fit and none is another and 10.               *)
THEOREM CoinsTellErrorCorrect ==
  ASSUME BssCleared
  PROVE  PayloadSpec => []CoinsTellError
<1>1. PayloadInit => ErrorInv
  BY DEF PayloadInit, BssInit, ErrorInv, Stages
<1>2. PayloadTypeOK => LifeTypeOK
  BY DEF PayloadTypeOK
<1>3. LifeTypeOK /\ ErrorInv /\ [PayloadNext]_payloadVars => ErrorInv'
  BY ErrorStep
<1>4. LifeTypeOK /\ ErrorInv => CoinsTellError
  <2> SUFFICES ASSUME LifeTypeOK, ErrorInv, NEW value \in coins
               PROVE  /\ failed.step \in Steps
                      /\ value = Number(failed.step, failed.added)
                      /\ CodesTell =>
                           {step \in Steps : value \in Numbers(step)} = {failed.step}
    BY DEF ErrorInv, CoinsTellError
  <2>1. Failed /\ value = result % 65536
    BY DEF ErrorInv
  <2>2. failed.step \in Steps
    BY <2>1 DEF Failed, Steps
  <2>3. value = Number(failed.step, failed.added)
    BY <2>1 DEF Failed, Number
  <2>4. ASSUME CodesTell
        PROVE  {step \in Steps : value \in Numbers(step)} = {failed.step}
    <3>1. value \in Numbers(failed.step)
      BY <2>1, <2>3 DEF Failed, Number, Numbers
    <3>2. \A step \in Steps : value \in Numbers(step) => step = failed.step
      BY <2>2, <2>4, <3>1, NumbersApart
    <3> QED
      BY <2>2, <3>1, <3>2
  <2> QED
    BY <2>2, <2>3, <2>4
<1> QED
  BY <1>1, <1>2, <1>3, <1>4, PayloadTypeCorrect, PTL DEF PayloadSpec
=============================================================================
