--------------------------- MODULE UpgradeContract ---------------------------
(***************************************************************************)
(* What the boot loader promises an application that upgrades itself, with *)
(* no sectors and no trailers: every boot is one atomic step, whatever     *)
(* power losses it really went through.                                    *)
(***************************************************************************)
CONSTANTS
    Valid,    \* the firmware images that pass validation
    None,     \* no such image
    KeepsReplaced  \* whether an image replaced for good can be asked for again

VARIABLES
    forgets,   \* whether power losses can make the device forget a revert
    up,        \* whether the application is running
    running,   \* the image that runs, or ran last
    confirmed, \* whether it stays when nothing else is asked for
    spare,     \* the image in the other slot
    request    \* what the application asked for: "none", "test", "perm"

contractVars == <<forgets, up, running, confirmed, spare, request>>

Init ==
    /\ forgets \in BOOLEAN
    /\ up = TRUE /\ running \in Valid /\ confirmed = TRUE
    /\ spare = None /\ request = "none"

(* The application erases or rewrites the other slot, trailer included.     *)
Download(img) ==
    /\ up
    /\ spare' = img /\ request' = "none"
    /\ UNCHANGED <<up, running, confirmed>>

(* boot_set_pending(0): "perform a one-time boot of the secondary slot".    *)
Request ==
    /\ up /\ request = "none"
    /\ request' = "test"
    /\ UNCHANGED <<up, running, confirmed, spare>>

(* boot_set_pending(1): "run image forever".                                *)
MakePermanent ==
    /\ up /\ request = "test"
    /\ request' = "perm"
    /\ UNCHANGED <<up, running, confirmed, spare>>

(* What may become of an image that is no longer needed for a revert.       *)
Replaced(img) == IF KeepsReplaced THEN {img} ELSE {img, None}

(* boot_set_confirmed.                                                      *)
Confirm ==
    /\ up
    /\ confirmed' = TRUE
    /\ spare' \in Replaced(spare)
    /\ UNCHANGED <<up, running, request>>

Down ==
    /\ up
    /\ up' = FALSE
    /\ UNCHANGED <<running, confirmed, spare, request>>

(* The boot loader starts img, and leaves other in the other slot.          *)
Start(img, other) ==
    /\ ~up /\ up'
    /\ running' = img /\ spare' = other /\ request' = "none"

(* A confirmed image is booted again as long as nothing is asked for.       *)
BootAgain == request = "none" /\ confirmed /\ Start(running, spare) /\ confirmed'

(* An unconfirmed one gives way to the image it replaced, for good.         *)
BootRevert ==
    /\ request = "none" /\ ~confirmed /\ spare \in Valid
    /\ Start(spare, running) /\ confirmed'

(* A bootable image asked for is booted, once unless asked for for good.    *)
BootNew ==
    /\ request # "none" /\ spare \in Valid
    /\ \E other \in IF request = "perm" THEN Replaced(running) ELSE {running} :
           Start(spare, other)
    /\ confirmed' = (request = "perm")

(* A power loss just before the new image was started counts as its one     *)
(* boot: what starts next is already the image it replaced.                 *)
BootTestMissed ==
    /\ request = "test" /\ spare \in Valid
    /\ Start(running, spare) /\ confirmed'

(* With nothing bootable to go to, the running image stays.                 *)
BootStays ==
    /\ spare \notin Valid /\ (request # "none" \/ ~confirmed)
    /\ Start(running, None)
    /\ confirmed => confirmed'
    /\ confirmed' \in BOOLEAN

(* A device that forgets may keep the image that should have been reverted. *)
BootForgets ==
    /\ forgets /\ spare \in Valid /\ confirmed'
    /\ \/ request = "none" /\ ~confirmed /\ Start(running, spare)
       \/ request = "test" /\ Start(spare, running)

Boot == BootAgain \/ BootRevert \/ BootNew \/ BootTestMissed \/ BootStays \/ BootForgets

Next ==
    /\ \/ \E img \in Valid \cup {None} : Download(img)
       \/ Request \/ MakePermanent \/ Confirm \/ Down \/ Boot
    /\ UNCHANGED forgets

Spec == Init /\ [][Next]_contractVars
=============================================================================
