------------------------- MODULE UpdateMode_proofs -------------------------
(* Proofs about the entrances of the update mode, for every build that       *)
(* Kconfig allows and any sequence of resets, presses and commands.          *)
EXTENDS UpdateMode, TLAPS

(* How a session was entered for it to end in the application.               *)
Served == {"flag", "held", "pin", "noapp"}

(* A build without the boot-mode entrance never reads the flag.              *)
FlagSeen == cfg.bootMode /\ flag

(* Nor does one without the reset-pin entrance look at the reset cause.      *)
PinSeen == cfg.pinReset /\ pinCause

(* A boot that got past the reset pin has taken it, or there was none.       *)
PinTaken == pc \in {"window", "go"} => ~PinSeen

(* The wait window of a build with a double tap is open with the flag set.   *)
WindowFlag == (pc = "window" /\ cfg.doubleTap) => flag

(* A request is carried by the flag to the next point where it is read.      *)
RequestCarried ==
    (cfg.bootMode /\ asked # "no") =>
        flag /\ (pc = "reset" \/ (pc = "go" /\ ~wait_window))

(* The flag is set for a reason: a request, a session that left it set, or   *)
(* the first tap of this boot.                                               *)
FlagExplained ==
    FlagSeen => \/ asked # "no"
                \/ via \in {"window", "stale"}
                \/ pc = "window" /\ cfg.doubleTap

(* No session that serves a request or was entered with none leaves the flag *)
(* or the reset cause set.                                                   *)
SessionFlag == (pc \in InUpdate /\ via \in Served) => ~FlagSeen /\ ~PinSeen

(* Between such a session and the application there is an image to run, no   *)
(* pin reset, and the flag is not set except as a first tap.                 *)
SessionExpected ==
    expect.via \in Served =>
        /\ pc \in {"reset", "window", "go"}
        /\ image = "good" /\ ~PinSeen
        /\ FlagSeen => pc = "window" /\ cfg.doubleTap

ModeInv ==
    /\ TypeOK
    /\ WindowFlag /\ PinTaken /\ RequestCarried /\ FlagExplained
    /\ SessionFlag /\ SessionExpected

-----------------------------------------------------------------------------

USE DEF InUpdate, Served, FlagSeen, PinSeen, wait_window, NoSession,
        boot_update_enter, io_detect_boot_mode, bootmode_clear, FirstTap

(* What the steps below need of a build: its options are Booleans.           *)
LEMMA BuildFacts ==
    ASSUME TypeOK
    PROVE  /\ cfg \in ConfigType
           /\ cfg.bootMode \in BOOLEAN /\ cfg.doubleTap \in BOOLEAN
           /\ cfg.waitDfu \in BOOLEAN /\ flag \in BOOLEAN
           /\ cfg.pinReset \in BOOLEAN /\ pinCause \in BOOLEAN
  BY ConfigAssumption DEF TypeOK, ConfigType

(* Entering the update mode keeps the clauses about requests and sessions,   *)
(* when the flag and the reset cause are left set only by an entrance that   *)
(* says so, and no session that should end in the application is over.       *)
LEMMA EnterKeeps ==
    ASSUME ModeInv, NEW how \in Via, NEW mode \in InUpdate,
           Enter(how, mode), expect' \in {expect, NoSession},
           UNCHANGED <<cfg, image>>, flag' \in BOOLEAN, flag' => flag,
           pinCause' \in BOOLEAN,
           how \in Served => ~FlagSeen' /\ ~PinSeen',
           FlagSeen' => how \in {"window", "stale"},
           expect'.via \notin Served
    PROVE  ModeInv'
<1> USE BuildFacts
<1>1. pc' = mode /\ via' = how /\ asked' = "no"
  BY DEF Enter
<1>2. TypeOK'
  BY <1>1 DEF ModeInv, TypeOK, Pc, Via
<1> QED
  BY <1>1, <1>2
     DEF ModeInv, WindowFlag, PinTaken, RequestCarried, FlagExplained, SessionFlag, SessionExpected

LEMMA InitMode == Init => ModeInv
<1> SUFFICES ASSUME Init PROVE ModeInv
  OBVIOUS
<1>1. TypeOK
  BY DEF Init, TypeOK, Pc, Via
<1> QED
  BY <1>1 DEF Init, ModeInv, WindowFlag, PinTaken, RequestCarried, FlagExplained, SessionFlag, SessionExpected

LEMMA StartMode ==
    ASSUME ModeInv, NEW held \in BOOLEAN, Start(held)
    PROVE  ModeInv'
<1> USE BuildFacts
<1>1. TypeOK /\ pc = "reset" /\ UNCHANGED <<cfg, image>>
  BY DEF ModeInv, Start
<1>2. boot_update_enter \in InUpdate
  OBVIOUS
<1>3. CASE cfg.gpio /\ held
  <2>1. /\ Enter(HeldVia, boot_update_enter) /\ expect' = NoSession
        /\ UNCHANGED <<flag, pinCause>>
    BY <1>1, <1>3 DEF Start, EnterByHand
  <2>2. /\ HeldVia \in Via
        /\ HeldVia \in Served => ~flag /\ ~PinSeen
        /\ flag => HeldVia = "stale"
    BY DEF HeldVia, Via
  <2> QED
    BY <1>1, <1>2, <2>1, <2>2, EnterKeeps DEF TypeOK
<1>4. CASE ~(cfg.gpio /\ held) /\ cfg.pinReset /\ pinCause
  <2>1. /\ Enter(PinVia, boot_update_enter) /\ UNCHANGED <<expect, flag>>
        /\ pinCause' = FALSE
    BY <1>1, <1>4 DEF Start, EnterAlone
  <2>2. pinCause' \in BOOLEAN
    BY <2>1
  <2>3. expect.via \notin Served
    BY <1>4 DEF ModeInv, SessionExpected
  <2>4. /\ PinVia \in Via
        /\ PinVia \in Served => ~flag
        /\ flag => PinVia = "stale"
    BY DEF PinVia, Via
  <2> QED
    BY <1>1, <1>2, <2>1, <2>2, <2>3, <2>4, EnterKeeps DEF TypeOK
<1>5. CASE /\ ~(cfg.gpio /\ held) /\ ~(cfg.pinReset /\ pinCause)
           /\ wait_window /\ io_detect_boot_mode
  <2>1. /\ Enter("flag", boot_update_enter) /\ flag' = FALSE
        /\ UNCHANGED <<expect, pinCause>>
    BY <1>1, <1>5 DEF Start, EnterAlone
  <2>2. expect.via \notin Served
    BY <1>1, <1>5 DEF ModeInv, SessionExpected
  <2> QED
    BY <1>1, <1>2, <1>5, <2>1, <2>2, EnterKeeps DEF TypeOK, Via
<1>6. CASE /\ ~(cfg.gpio /\ held) /\ ~(cfg.pinReset /\ pinCause)
           /\ ~(wait_window /\ io_detect_boot_mode)
  <2>1. /\ pc' = IF wait_window THEN "window" ELSE "go"
        /\ flag' = (cfg.doubleTap \/ flag)
        /\ UNCHANGED <<cfg, image, pinCause, via, expect, asked>>
    BY <1>1, <1>6 DEF Start
  <2>2. TypeOK'
    BY <1>1, <2>1 DEF TypeOK, Pc
  <2> QED
    BY <1>1, <1>6, <2>1, <2>2
       DEF ModeInv, WindowFlag, PinTaken, RequestCarried, FlagExplained, SessionFlag, SessionExpected
<1> QED
  BY <1>3, <1>4, <1>5, <1>6

LEMMA SelectMode == ModeInv /\ Select => ModeInv'
<1> SUFFICES ASSUME ModeInv, Select PROVE ModeInv'
  OBVIOUS
<1> USE BuildFacts
<1>1. TypeOK /\ pc = "go" /\ UNCHANGED <<cfg, pinCause, image>>
  BY DEF ModeInv, Select
<1>2. CASE io_detect_boot_mode
  <2> DEFINE mode == IF cfg.uf2 THEN "update" ELSE IF cfg.inactivity THEN "serial_idle" ELSE "serial"
  <2>1. Enter("flag", mode) /\ UNCHANGED expect /\ flag' = FALSE /\ mode \in InUpdate
    BY <1>1, <1>2 DEF Select, EnterAlone
  <2>2. expect.via \notin Served
    BY <1>1, <1>2 DEF ModeInv, SessionExpected
  <2>3. ~PinSeen'
    BY <1>1 DEF ModeInv, PinTaken
  <2> QED
    BY <1>1, <2>1, <2>2, <2>3, EnterKeeps DEF TypeOK, Via
<1>3. CASE ~io_detect_boot_mode /\ image = "good"
  <2>1. /\ pc' = "app" /\ via' = "none" /\ expect' = NoSession
        /\ UNCHANGED <<flag, asked>>
    BY <1>1, <1>3 DEF Select
  <2>2. TypeOK'
    BY <1>1, <2>1 DEF TypeOK, Pc, Via
  <2> QED
    BY <1>1, <1>3, <2>1, <2>2
       DEF ModeInv, WindowFlag, PinTaken, RequestCarried, FlagExplained, SessionFlag, SessionExpected
<1>4. CASE ~io_detect_boot_mode /\ image # "good"
  <2>1. Enter("noapp", boot_update_enter) /\ UNCHANGED <<expect, flag>>
    BY <1>1, <1>4 DEF Select, EnterAlone
  <2>2. expect.via \notin Served
    BY <1>1, <1>4 DEF ModeInv, SessionExpected
  <2>3. ~FlagSeen' /\ ~PinSeen'
    BY <1>1, <1>4, <2>1 DEF ModeInv, PinTaken
  <2> QED
    BY <1>1, <2>1, <2>2, <2>3, EnterKeeps DEF TypeOK, Via
<1> QED
  BY <1>2, <1>3, <1>4

(* The steps of the wait window.                                             *)
LEMMA WindowMode ==
    ModeInv /\ (ButtonInWindow \/ CommandInWindow \/ WindowExpires) => ModeInv'
<1> SUFFICES ASSUME ModeInv, ButtonInWindow \/ CommandInWindow \/ WindowExpires
             PROVE  ModeInv'
  OBVIOUS
<1> USE BuildFacts
<1>1. TypeOK /\ pc = "window" /\ UNCHANGED <<cfg, pinCause, image>>
  BY DEF ModeInv, ButtonInWindow, CommandInWindow, WindowExpires
<1>2. CASE ButtonInWindow
  BY <1>1, <1>2, EnterKeeps DEF ButtonInWindow, EnterByHand, TypeOK, Via
<1>3. CASE CommandInWindow
  BY <1>1, <1>3, EnterKeeps DEF CommandInWindow, EnterByHand, TypeOK, Via
<1>4. CASE WindowExpires
  <2>1. /\ pc' = "go" /\ flag' = (flag /\ ~cfg.doubleTap)
        /\ UNCHANGED <<via, expect, asked>>
    BY <1>4 DEF WindowExpires
  <2>2. TypeOK'
    BY <1>1, <2>1 DEF TypeOK, Pc
  <2> QED
    BY <1>1, <2>1, <2>2
       DEF ModeInv, WindowFlag, PinTaken, RequestCarried, FlagExplained, SessionFlag, SessionExpected
<1> QED
  BY <1>2, <1>3, <1>4

(* The steps of a session that do not end it.                                *)
LEMMA SessionMode ==
    ModeInv /\ (TransferStarts \/ SerialUpload) => ModeInv'
<1> SUFFICES ASSUME ModeInv, TransferStarts \/ SerialUpload PROVE ModeInv'
  OBVIOUS
<1>1. /\ pc \in InUpdate /\ image' \in {"good", "none"}
      /\ UNCHANGED <<cfg, flag, pinCause, pc, via, expect, asked>>
  BY DEF TransferStarts, SerialUpload
<1>2. TypeOK'
  BY <1>1 DEF ModeInv, TypeOK
<1> QED
  BY <1>1, <1>2
     DEF ModeInv, WindowFlag, PinTaken, RequestCarried, FlagExplained, SessionFlag, SessionExpected

(* The steps that end a session.                                             *)
LEMMA RebootMode ==
    ModeInv /\ (Uf2Complete \/ ResetCommand \/ SerialIdle) => ModeInv'
<1> SUFFICES ASSUME ModeInv, NEW how \in {"uf2", "command", "idle"}, Reboot(how),
                    pc \in InUpdate, image' \in {"good", "none"}
             PROVE  ModeInv'
  BY DEF ModeInv, TypeOK, Uf2Complete, ResetCommand, SerialIdle
<1>1. /\ pc' = "reset" /\ UNCHANGED <<cfg, flag, pinCause, via, asked>>
      /\ expect' = IF image' = "good" THEN [how |-> how, via |-> via] ELSE NoSession
  BY DEF Reboot
<1>2. TypeOK'
  BY <1>1 DEF ModeInv, TypeOK, Pc, Via
<1>3. expect'.via \in Served => image' = "good" /\ via \in Served
  BY <1>1
<1> QED
  BY <1>1, <1>2, <1>3
     DEF ModeInv, WindowFlag, PinTaken, RequestCarried, FlagExplained, SessionFlag, SessionExpected

(* Resets from outside of the boot loader.                                   *)
LEMMA ResetMode ==
    ModeInv /\ (AppRequest \/ AppReset \/ UserReset \/ PowerCycle) => ModeInv'
<1> SUFFICES ASSUME ModeInv, AppRequest \/ AppReset \/ UserReset \/ PowerCycle
             PROVE  ModeInv'
  OBVIOUS
<1> USE BuildFacts
<1>1. TypeOK /\ pc' = "reset" /\ UNCHANGED <<cfg, image, via>>
  BY DEF ModeInv, AppRequest, AppReset, UserReset, PowerCycle
<1>2. CASE AppRequest
  <2>1. TypeOK'
    BY <1>1, <1>2 DEF AppRequest, TypeOK, Pc
  <2> QED
    BY <1>1, <1>2, <2>1 DEF AppRequest, ModeInv, WindowFlag, PinTaken, RequestCarried, FlagExplained,
                            SessionFlag, SessionExpected
<1>3. CASE AppReset
  <2>1. TypeOK'
    BY <1>1, <1>3 DEF AppReset, TypeOK, Pc
  <2> QED
    BY <1>1, <1>3, <2>1 DEF AppReset, ModeInv, WindowFlag, PinTaken, RequestCarried, FlagExplained,
                            SessionFlag, SessionExpected
<1>4. CASE UserReset
  <2>1. TypeOK'
    BY <1>1, <1>4 DEF UserReset, TypeOK, Pc, Via
  <2> QED
    BY <1>1, <1>4, <2>1 DEF UserReset, ModeInv, WindowFlag, PinTaken, RequestCarried, FlagExplained,
                            SessionFlag, SessionExpected
<1>5. CASE PowerCycle
  <2>1. TypeOK'
    BY <1>1, <1>5 DEF PowerCycle, TypeOK, Pc, Via
  <2> QED
    BY <1>1, <1>5, <2>1 DEF PowerCycle, ModeInv, WindowFlag, PinTaken, RequestCarried, FlagExplained,
                            SessionFlag, SessionExpected
<1> QED
  BY <1>2, <1>3, <1>4, <1>5

(* The retained flag is set only for a reason that the next boot loader may  *)
(* act on, and no session that was asked for leaves it set.                  *)
THEOREM ModeInvariance == Spec => []ModeInv
<1>1. ModeInv /\ [Next]_vars => ModeInv'
  <2> SUFFICES ASSUME ModeInv, [Next]_vars PROVE ModeInv'
    OBVIOUS
  <2>1. CASE BootStep
    BY <2>1, StartMode, WindowMode, SelectMode, RebootMode DEF BootStep
  <2>2. CASE Input
    BY <2>2, StartMode, WindowMode, SessionMode, RebootMode, ResetMode DEF Input
  <2>3. CASE UNCHANGED vars
    BY <2>3 DEF vars, ModeInv, TypeOK, WindowFlag, PinTaken, RequestCarried, FlagExplained,
                SessionFlag, SessionExpected
  <2> QED
    BY <2>1, <2>2, <2>3 DEF Next
<1> QED
  BY InitMode, <1>1, PTL DEF Spec

(* io_detect_boot_mode: in a build with the boot-mode entrance no request is *)
(* left when the application runs, whatever happened before that boot.       *)
THEOREM RequestsServed == Spec => []RequestHonoured
<1>1. ModeInv => RequestHonoured
  BY DEF ModeInv, RequestCarried, RequestHonoured
<1> QED
  BY <1>1, ModeInvariance, PTL

(* boot_update_enter: a session that serves a request, or was entered with   *)
(* none pending, is followed by the application it installed.                *)
THEOREM SessionsEnd == Spec => []SessionEndsInApp
<1>1. ModeInv => SessionEndsInApp
  BY DEF ModeInv, SessionExpected, SessionEndsInApp
<1> QED
  BY <1>1, ModeInvariance, PTL

(* boot_wait_for_update: no step enters the update mode for the flag unless  *)
(* somebody asked for it or an earlier session was entered with the flag     *)
(* set.                                                                      *)
THEOREM FlagEntries == Spec => FlagEntryWasAsked
<1> DEFINE Entered == pc \notin InUpdate /\ pc' \in InUpdate /\ via' = "flag"
           Asked == asked # "no" \/ via \in {"window", "stale"}
<1>1. ModeInv /\ [Next]_vars => [Entered => Asked]_vars
  <2> SUFFICES ASSUME ModeInv, Next, Entered PROVE Asked
    OBVIOUS
  <2>1. ASSUME NEW held \in BOOLEAN, Start(held) PROVE Asked
    <3>1. io_detect_boot_mode /\ pc = "reset"
      BY <2>1 DEF Start, EnterByHand, EnterAlone, Enter, HeldVia, PinVia
    <3> QED
      BY <3>1 DEF ModeInv, FlagExplained
  <2>2. CASE Select
    <3>1. io_detect_boot_mode /\ pc = "go"
      BY <2>2 DEF Select, EnterAlone, Enter
    <3> QED
      BY <3>1 DEF ModeInv, FlagExplained
  <2>3. CASE ButtonInWindow \/ CommandInWindow
    BY <2>3 DEF ButtonInWindow, CommandInWindow, EnterByHand, Enter
  <2>4. CASE WindowExpires \/ TransferStarts \/ SerialUpload \/ AppRequest \/ AppReset
    BY <2>4 DEF WindowExpires, TransferStarts, SerialUpload, AppRequest, AppReset
  <2>5. CASE Uf2Complete \/ ResetCommand \/ SerialIdle \/ UserReset \/ PowerCycle
    BY <2>5 DEF Uf2Complete, ResetCommand, SerialIdle, UserReset, PowerCycle, Reboot
  <2> QED
    BY <2>1, <2>2, <2>3, <2>4, <2>5 DEF Next, BootStep, Input
<1> QED
  BY <1>1, ModeInvariance, PTL DEF Spec, FlagEntryWasAsked
=============================================================================
