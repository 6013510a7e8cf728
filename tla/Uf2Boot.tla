------------------------------ MODULE Uf2Boot ------------------------------
(***************************************************************************)
(* A two-slot device that swaps using offset and has the UF2 drive: what a *)
(* drop of new firmware does to an upgrade that is staged, scheduled or    *)
(* under way in the same slots.  The drive writes the primary slot below   *)
(* its trailer (uf2_disk.c) and ends with boot_set_pending(0) (main.c),    *)
(* which marks the secondary slot; everything else is OffsetBoot.  The     *)
(* blocks of the file arrive in order, a sector of the slot at a time.     *)
(***************************************************************************)
EXTENDS OffsetBoot

CONSTANT MaxDrops   \* bound: transfers that are started

ASSUME MaxDropsAssumption == MaxDrops \in Nat

VARIABLES
    drop,     \* the transfer: its image and the sectors written
    dropped,  \* the last transfer, until the application acts (ghost)
    drops     \* transfers started, for the bound

uf2Vars == <<drop, dropped, drops>>
allVars == <<bootVars, uf2Vars>>

NoDrop == [img |-> None, sectors |-> 0]
NotDropped == [img |-> None, slots |-> "quiet", done |-> FALSE]

(* What a transfer meets in the slots.  Idle: no upgrade is scheduled, none *)
(* is under way and the running image needs no confirmation.  Quiet: the    *)
(* secondary slot holds no image either.                                    *)
Idle == tr.SEC = ErasedTrailer /\ NoPartialSwap /\ ~Unconfirmed(tr.PRI)
Slots ==
    CASE ~Idle -> "busy"
      [] Idle /\ BootableAt(sec, 0) = None /\ BootableAt(sec, 1) = None -> "quiet"
      [] OTHER -> "idle"

(* Variants of the definitions below, with a fault each: the first sector   *)
(* is skipped; the drive writes the secondary slot, where an upgrade would  *)
(* be.                                                                      *)
FirstSectorKept(i, n) == IF n = 0 THEN pri ELSE [pri EXCEPT ![n] = <<i, n>>]
DropToSecondary ==
    /\ pc = "drop"
    /\ drop.sectors < Size[drop.img]
    /\ sec' = [sec EXCEPT ![drop.sectors + 1] = <<drop.img, drop.sectors>>]
    /\ drop' = [drop EXCEPT !.sectors = @ + 1]
    /\ UNCHANGED <<pri, status, swap_size, revert, bs, pc, pri0, sec0, tr, boot,
                   history, mishap, dropped, drops>>

(* A sector of the image is erased and written.  An image does not end on a *)
(* sector boundary, so nothing beyond it is erased.                         *)
Stored(i, n) == [pri EXCEPT ![n] = <<i, n>>]

Base == UNCHANGED <<pri, sec, status, swap_size, revert, bs, pri0, sec0, tr,
                    boot, history, mishap>>

-----------------------------------------------------------------------------

(* The update mode is entered before boot_go (button, double tap, the       *)
(* request of an application), or because there is nothing to boot.         *)
EnterDrive ==
    /\ pc \in {"reset", "no_boot"}
    /\ pc' = "drive"
    /\ drop' = NoDrop
    /\ Base /\ UNCHANGED <<dropped, drops>>

DropStart(i) ==
    /\ pc = "drive"
    /\ Fits(Size[i]) /\ drops < MaxDrops
    /\ pc' = "drop"
    /\ drop' = [img |-> i, sectors |-> 0]
    /\ dropped' = [img |-> i, slots |-> Slots, done |-> FALSE]
    /\ drops' = drops + 1
    /\ Base

(* The blocks of the next sector go through uf2_process_block.              *)
DropSector ==
    /\ pc = "drop"
    /\ drop.sectors < Size[drop.img]
    /\ pri' = Stored(drop.img, drop.sectors)
    /\ drop' = [drop EXCEPT !.sectors = @ + 1]
    /\ UNCHANGED <<sec, status, swap_size, revert, bs, pc, pri0, sec0, tr, boot,
                   history, mishap, dropped, drops>>

(* The transfer is complete and boot_set_pending(0) marks the secondary     *)
(* slot, if its magic is erased.                                            *)
DropComplete ==
    /\ pc = "drop"
    /\ drop.sectors = Size[drop.img]
    /\ dropped' = [dropped EXCEPT !.done = TRUE]
    /\ drop' = NoDrop
    /\ IF CanSchedule(tr.SEC)
       THEN tr' = [tr EXCEPT !.SEC = boot_write_magic(tr.SEC)] /\ pc' = "drop_info"
       ELSE pc' = "reset" /\ UNCHANGED tr
    /\ UNCHANGED <<engine, boot, history, mishap, drops>>

(* The rest of boot_set_pending(0), then the reboot.                        *)
DropInfo ==
    /\ pc = "drop_info"
    /\ Tr("reset", "SEC", boot_write_swap_info(tr.SEC, "TEST"))
    /\ UNCHANGED <<uf2Vars, mishap>>

-----------------------------------------------------------------------------

(* OffsetBoot goes on as before, its ghost mishap left out; the first thing *)
(* the application does ends the interest in what was dropped.              *)
Boot ==
    /\ DeviceStep
    /\ dropped' = IF pc \in AppPc THEN NotDropped ELSE dropped
    /\ drop' = NoDrop /\ UNCHANGED <<drops, mishap>>

Drive ==
    \/ EnterDrive
    \/ \E i \in Valid : DropStart(i)
    \/ DropSector \/ DropComplete \/ DropInfo

Uf2Init == BootInit /\ drop = NoDrop /\ dropped = NotDropped /\ drops = 0

Uf2Next == Boot \/ Drive

Uf2Spec == Uf2Init /\ [][Uf2Next]_allVars

-----------------------------------------------------------------------------

(* Every variable has its type, those of OffsetBoot included.               *)
Uf2TypeOK ==
    /\ BootTypeOK
    /\ drop \in [img : Valid \cup {None}, sectors : 0..PriSectors]
    /\ dropped \in [img : Valid \cup {None}, slots : {"quiet", "idle", "busy"},
                   done : BOOLEAN]
    /\ drops \in 0..MaxDrops

DropBooted == pc = "app" /\ dropped.done

(* boot_uf2_enter: when the secondary slot holds no image, a file that was  *)
(* dropped is what runs next, although boot_set_pending(0) has asked for    *)
(* the secondary slot, and wherever the power fails after the transfer.     *)
QuietDropRuns == (DropBooted /\ dropped.slots = "quiet") => running = dropped.img

(* When the secondary slot holds no image, the boot after a transfer swaps  *)
(* nothing, and one cut short never keeps the boot loader from its end,     *)
(* where it comes back to the update mode.                                  *)
QuietDropNoSwap == (dropped.img # None /\ dropped.slots = "quiet") => pc \in
    {"drive", "drop", "drop_info", "reset", "scramble_rest", "refused", "validate",
     "app", "no_boot"}

(* docs/uf2.md: the file is "written directly to the primary slot (an       *)
(* overwrite of the running app, no swap)", and "The device automatically   *)
(* reboots into the new firmware".  No upgrade is scheduled or under way.   *)
IdleDropRuns == (DropBooted /\ dropped.slots # "busy") => running = dropped.img

(* docs/uf2.md, MCUBOOT_UF2_NO_APPLICATION: "Enter the update mode if no    *)
(* valid application is found": the boot loader does not stop before that.  *)
(* It does not hold for a transfer cut short while an upgrade is scheduled. *)
NeverPanics == pc # "panic"
=============================================================================
