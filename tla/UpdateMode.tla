----------------------------- MODULE UpdateMode -----------------------------
(***************************************************************************)
(* How a device gets into the update mode and out of it: main() and        *)
(* boot_wait_for_update() of boot/zephyr/main.c, io_detect_boot_mode() of  *)
(* io.c, and the application's request in update_mode.c.  One retained     *)
(* flag carries two meanings from one boot to the next: the application    *)
(* asks for the update mode, or the previous boot was reset in its wait    *)
(* window (a double tap).                                                  *)
(*                                                                         *)
(* A step runs the code between two points where the device can be reset,  *)
(* a button pressed or a command received.  Time is the order of steps.    *)
(***************************************************************************)
EXTENDS Naturals

CONSTANT Config   \* the builds considered, see ConfigType

(* The Kconfig options that matter.  UF2 and serial recovery have the same  *)
(* entrances; each option is on when that of either transport is.           *)
ConfigType ==
    [uf2        : BOOLEAN,  \* MCUBOOT_UF2
     serial     : BOOLEAN,  \* MCUBOOT_SERIAL
     gpio       : BOOLEAN,  \* *_ENTRANCE_GPIO
     pinReset   : BOOLEAN,  \* BOOT_SERIAL_PIN_RESET
     doubleTap  : BOOLEAN,  \* *_DOUBLE_TAP
     bootMode   : BOOLEAN,  \* *_BOOT_MODE
     waitDfu    : BOOLEAN,  \* BOOT_SERIAL_WAIT_FOR_DFU
     inactivity : BOOLEAN]  \* BOOT_SERIAL_INACTIVITY_TIMEOUT > 0

(* What Kconfig allows.  *_NO_APPLICATION is on, as adaboot sets it.        *)
Buildable(c) ==
    /\ c.uf2 \/ c.serial
    /\ c.pinReset => c.serial
    /\ c.waitDfu => c.serial
    /\ c.inactivity => c.serial /\ (c.waitDfu \/ c.bootMode)

ASSUME ConfigAssumption ==
    Config \subseteq {c \in ConfigType : Buildable(c)}

VARIABLES
    cfg,       \* the build
    flag,      \* the retained boot mode is BOOT_MODE_TYPE_BOOTLOADER
    pinCause,  \* the reset cause register says RESET_PIN
    image,     \* what boot_go would find: "good" or "none"
    pc,        \* see Pc
    via,       \* how the update mode was entered (ghost)
    expect,    \* the session that ended, until the application runs (ghost)
    asked      \* a request that was not served yet (ghost)

vars == <<cfg, flag, pinCause, image, pc, via, expect, asked>>

(* "serial" waits for commands for ever, "serial_idle" only until it has    *)
(* been silent for MCUBOOT_SERIAL_INACTIVITY_TIMEOUT.                       *)
InUpdate == {"update", "serial", "serial_idle"}
Pc == {"reset", "window", "go", "app"} \cup InUpdate
Via == {"flag", "held", "pin", "both", "stale", "window", "noapp", "none"}
NoSession == [how |-> "none", via |-> "none"]

wait_window == cfg.doubleTap \/ cfg.waitDfu

(* Variants of the operators below, with a fault each.                      *)
FlagNotRead == FALSE

FlagNotCleared == flag

ExpiredFlagKept ==
    /\ pc = "window"
    /\ pc' = "go"
    /\ UNCHANGED <<cfg, flag, pinCause, image, via, expect, asked>>

(* boot_uf2_enter and boot_serial_enter(0): with both transports there is   *)
(* one combined mode.                                                       *)
boot_update_enter == IF cfg.uf2 THEN "update" ELSE "serial"

(* io_detect_boot_mode reads the flag, and clears it when it is set.        *)
io_detect_boot_mode == cfg.bootMode /\ flag

bootmode_clear == FALSE

(* The flag while the window is open: this boot is registered as a first    *)
(* tap.                                                                     *)
FirstTap == cfg.doubleTap \/ flag

(* The button and the reset pin are looked at before the flag, which stays  *)
(* set then ("stale").  The button is looked at first, and the reset cause  *)
(* stays in its register ("both"): only io_detect_pin_reset clears it.      *)
HeldVia == IF flag THEN "stale" ELSE IF cfg.pinReset /\ pinCause THEN "both" ELSE "held"
PinVia == IF flag THEN "stale" ELSE "pin"

(* Entering the update mode serves any request.                             *)
Enter(how, mode) == pc' = mode /\ via' = how /\ asked' = "no"

(* Somebody presses or sends something, which ends any expectation of the   *)
(* application; or the device enters by itself.                             *)
EnterByHand(how, mode) == Enter(how, mode) /\ expect' = NoSession
EnterAlone(how, mode) == Enter(how, mode) /\ UNCHANGED expect

-----------------------------------------------------------------------------

Init ==
    /\ cfg \in Config
    /\ flag = FALSE
    /\ pinCause = FALSE
    /\ image \in {"good", "none"}
    /\ pc = "reset"
    /\ via = "none"
    /\ expect = NoSession
    /\ asked = "no"

(* main() up to the wait window: the entrances that need no waiting.  With  *)
(* no window the flag is left for later.  A boot that goes on is registered *)
(* as a first tap.                                                          *)
Start(held) ==
    /\ pc = "reset"
    /\ IF cfg.gpio /\ held
       THEN EnterByHand(HeldVia, boot_update_enter) /\ UNCHANGED <<flag, pinCause>>
       ELSE IF cfg.pinReset /\ pinCause
       THEN EnterAlone(PinVia, boot_update_enter) /\ pinCause' = FALSE /\ UNCHANGED flag
       ELSE IF wait_window /\ io_detect_boot_mode
       THEN /\ EnterAlone("flag", boot_update_enter)
            /\ flag' = bootmode_clear
            /\ UNCHANGED pinCause
       ELSE /\ pc' = IF wait_window THEN "window" ELSE "go"
            /\ flag' = FirstTap
            /\ UNCHANGED <<pinCause, via, expect, asked>>
    /\ UNCHANGED <<cfg, image>>

(* The wait window polls the button, unless the whole wait is handed to the *)
(* serial code for its inactivity countdown.                                *)
ButtonInWindow ==
    /\ pc = "window" /\ cfg.gpio /\ ~cfg.inactivity
    /\ EnterByHand("window", boot_update_enter)
    /\ UNCHANGED <<cfg, flag, pinCause, image>>

(* A first mcumgr command is served without leaving the window, if the      *)
(* console was initialised for it.  With the inactivity timeout alone the   *)
(* serial code waits as well, but nothing fills its queue of lines.         *)
CommandInWindow ==
    /\ pc = "window" /\ cfg.waitDfu
    /\ EnterByHand("window", IF cfg.inactivity THEN "serial_idle" ELSE "serial")
    /\ UNCHANGED <<cfg, flag, pinCause, image>>

WindowExpires ==
    /\ pc = "window"
    /\ pc' = "go"
    /\ flag' = (flag /\ ~cfg.doubleTap)
    /\ UNCHANGED <<cfg, pinCause, image, via, expect, asked>>

(* main() from boot_go on: the flag, then the image that was found.         *)
Select ==
    /\ pc = "go"
    /\ IF io_detect_boot_mode
       THEN /\ EnterAlone("flag", IF cfg.uf2 THEN "update"
                                  ELSE IF cfg.inactivity THEN "serial_idle"
                                  ELSE "serial")
            /\ flag' = bootmode_clear
       ELSE IF image = "good"
       THEN /\ pc' = "app" /\ via' = "none" /\ expect' = NoSession
            /\ UNCHANGED <<flag, asked>>
       ELSE EnterAlone("noapp", boot_update_enter) /\ UNCHANGED flag
    /\ UNCHANGED <<cfg, pinCause, image>>

(* The first block of a transfer erases the image that was there.           *)
TransferStarts ==
    /\ pc \in InUpdate /\ image = "good"
    /\ image' = "none"
    /\ UNCHANGED <<cfg, flag, pinCause, pc, via, expect, asked>>

Reboot(how) ==
    /\ pc' = "reset"
    /\ expect' = IF image' = "good" THEN [how |-> how, via |-> via] ELSE NoSession
    /\ UNCHANGED <<cfg, flag, pinCause, via, asked>>

(* The UF2 transfer is complete, with firmware that boots or not.           *)
Uf2Complete ==
    /\ pc = "update" /\ image = "none"
    /\ image' \in {"good", "none"}
    /\ Reboot("uf2")

(* An upload over the serial port is complete; the client resets later.     *)
SerialUpload ==
    /\ pc \in InUpdate /\ cfg.serial /\ image = "none"
    /\ image' = "good"
    /\ UNCHANGED <<cfg, flag, pinCause, pc, via, expect, asked>>

(* bs_reset.                                                                *)
ResetCommand ==
    /\ pc \in InUpdate /\ cfg.serial
    /\ UNCHANGED image
    /\ Reboot("command")

SerialIdle ==
    /\ pc = "serial_idle"
    /\ UNCHANGED image
    /\ Reboot("idle")

(* adaboot_request_update_mode and a software reset by the application.     *)
AppRequest ==
    /\ pc = "app" /\ cfg.bootMode
    /\ flag' = TRUE
    /\ asked' = "app"
    /\ pc' = "reset"
    /\ UNCHANGED <<cfg, pinCause, image, via, expect>>

AppReset ==
    /\ pc = "app"
    /\ pc' = "reset"
    /\ UNCHANGED <<cfg, flag, pinCause, image, via, expect, asked>>

(* The user presses reset: a second tap when it lands in the window.        *)
UserReset ==
    /\ pc' = "reset"
    /\ pinCause' = TRUE
    /\ asked' = IF pc = "window" /\ cfg.doubleTap THEN "tap" ELSE asked
    /\ expect' = NoSession
    /\ UNCHANGED <<cfg, flag, image, via>>

(* Retained memory does not survive the loss of power.                      *)
PowerCycle ==
    /\ pc' = "reset"
    /\ flag' = FALSE /\ pinCause' = FALSE
    /\ asked' = "no" /\ expect' = NoSession
    /\ UNCHANGED <<cfg, image, via>>

BootStep ==
    Start(FALSE) \/ WindowExpires \/ Select \/ SerialIdle

Input ==
    \/ Start(TRUE) \/ ButtonInWindow \/ CommandInWindow
    \/ TransferStarts \/ Uf2Complete \/ SerialUpload \/ ResetCommand
    \/ AppRequest \/ AppReset
    \/ UserReset \/ PowerCycle

Next == BootStep \/ Input

(* The boot loader always runs on; nobody has to press or send anything.    *)
Spec == Init /\ [][Next]_vars /\ WF_vars(BootStep)

-----------------------------------------------------------------------------

(* Every variable has its type; without a double tap or an application      *)
(* request to carry, the flag is never set.                                 *)
TypeOK ==
    /\ cfg \in Config
    /\ flag \in BOOLEAN /\ pinCause \in BOOLEAN
    /\ image \in {"good", "none"}
    /\ pc \in Pc
    /\ via \in Via
    /\ expect \in [how : {"none", "uf2", "command", "idle"}, via : Via]
    /\ asked \in {"no", "app", "tap"}
    /\ flag => cfg.doubleTap \/ cfg.bootMode

(* io_detect_boot_mode: a request, by the application or by a double tap,   *)
(* is served before the application runs again, unless power was lost.      *)
RequestHonoured ==
    (cfg.bootMode /\ pc = "app") => asked = "no"

(* The same without asking for the boot-mode entrance.  Kconfig.uf2 about   *)
(* MCUBOOT_UF2_ENTRANCE_DOUBLE_TAP: "If the device is reset within this     *)
(* window, it will enter UF2 mode on the next boot".  It does not hold:     *)
(* such a build sets the flag and never reads it.                           *)
DoubleTapHonoured ==
    (cfg.doubleTap /\ pc = "app") => asked # "tap"

(* boot_wait_for_update: "When the window expires, the flag is cleared and  *)
(* boot proceeds normally": the flag brings a device into the update mode   *)
(* only when it was asked to go there, except after a session that was      *)
(* entered with the flag set.                                               *)
FlagEntryWasAsked ==
    [][(pc \notin InUpdate /\ pc' \in InUpdate /\ via' = "flag")
         => asked # "no" \/ via \in {"window", "stale"}]_vars

(* boot_update_enter: a session entered through the flag, by the button     *)
(* with neither a request nor a pin reset pending, by the reset pin with no *)
(* request pending, or for want of an application, ends in the application  *)
(* that it installed: unless somebody acts in between, no entrance is taken *)
(* again.                                                                   *)
SessionEndsInApp ==
    (pc \in InUpdate) => expect.via \notin {"flag", "held", "pin", "noapp"}

(* docs/uf2.md: "The device automatically reboots into the new firmware",   *)
(* for a session entered with the button held.  It does not hold when the   *)
(* reset button was pressed as well: the reset cause, which was not read,   *)
(* brings the next boot into the update mode.                               *)
HeldSessionEndsInApp ==
    (pc \in InUpdate) => ~(expect.via \in {"held", "both"} /\ expect.how = "uf2")

(* docs/uf2.md: "The device automatically reboots into the new firmware",   *)
(* for a session entered by pressing the button in the wait window.         *)
WindowSessionEndsInApp ==
    (pc \in InUpdate) => ~(expect.via = "window" /\ expect.how = "uf2")

(* Kconfig.serial_recovery: serial recovery that is silent "resets the SoC, *)
(* so the next boot runs the image that is installed by then".  It does not *)
(* hold for a session served from the wait window with the flag set.        *)
IdleSessionEndsInApp ==
    (pc \in InUpdate) => expect.how # "idle"

(* Whatever was pressed and sent before, a device left alone gets to the    *)
(* application or waits in the update mode.                                 *)
LeftAlone == <>[][~Input]_vars
Settles ==
    LeftAlone => <>[](pc = "app" \/ pc \in {"update", "serial"})

(* Kconfig.serial_recovery: "an aborted upload leaves it there until        *)
(* someone power-cycles it.  Set this to bound that": with the timeout set  *)
(* and an image to run, no serial session lasts for ever.  It does not hold *)
(* for a session the application asked for in a build with a wait window.   *)
IdleSerialEnds ==
    (cfg.inactivity /\ pc = "serial" /\ image = "good") ~> (pc # "serial")
=============================================================================
