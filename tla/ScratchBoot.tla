---------------------------- MODULE ScratchBoot ----------------------------
(***************************************************************************)
(* A device with one image that swaps using scratch: the boot loader       *)
(* (context_boot_go in loader.c around the loop of SwapScratch) and the    *)
(* application side of an upgrade.  It is organised like MoveBoot; what    *)
(* differs is where the status of an interrupted swap is looked for, that  *)
(* no header has to be found to resume one, and that images share sectors  *)
(* with the trailers.  Unit k of image i holds <<i, k>>.                   *)
(***************************************************************************)
EXTENDS SwapScratch

CONSTANTS
    Images,     \* firmware images
    Valid,      \* the images whose hash and signature are right
    None,       \* no image
    Size        \* units of each image

ASSUME ImagesAssumption ==
    /\ Valid \subseteq Images /\ None \notin Images
    /\ Size \in [Images -> Nat \ {0}]

VARIABLES
    type,    \* RAM: BOOT_SWAP_TYPE(state)
    running, confirmed, spare, request \* the history the contract is about

history == <<running, confirmed, spare, request>>
bootVars == <<lay, geo, flash, bs, pc, type, history>>

AppPc == {"app", "pend_ok", "pend_test", "pend_perm"}

Units(area) == 0..geo.size[area] - 1
Area(data) == [d |-> data, t |-> ErasedTrailer, n |-> 0, size |-> 0]
Blank(area) == Area([u \in Units(area) |-> Torn])
Written(i, area) == Area([u \in Units(area) |-> IF u < Size[i] THEN <<i, u>> ELSE Torn])

(* The image whose header a unit holds.                                     *)
Header(c) == IF c # Torn /\ c[2] = 0 THEN c[1] ELSE None
SizeOf(img) == IF img = None THEN 0 ELSE Size[img]

(* boot_check_image: the image in a slot if it passes validation.           *)
BootableIn(slot) ==
    LET i == Header(slot.d[0])
    IN IF i \in Valid /\ Size[i] <= geo.max
          /\ \A u \in 0..Size[i] - 1 : slot.d[u] = <<i, u>>
       THEN i ELSE None

SwapType(f) == boot_swap_type_multi(f.PRI.t, f.SEC.t, FALSE)

----------------------------------------------------------------------------
(* boot_prepare_image_for_update, up to the first write to flash.           *)

(* The rows of boot_status_tables: the trailers of the primary slot and of  *)
(* scratch tell where the status of an interrupted swap is.                 *)
scratch_status_source(p, s) ==
    CASE p.magic = "GOOD" /\ s.magic # "GOOD" /\ p.copy_done = "SET" -> "NONE"
      [] p.magic = "GOOD" /\ s.magic # "GOOD" /\ p.copy_done = "UNSET" -> "PRI"
      [] s.magic = "GOOD" -> "SCR"
      [] p.magic = "UNSET" /\ s.magic # "GOOD" /\ p.copy_done = "UNSET" -> "PRI"
      [] OTHER -> "NONE"

(* boot_find_status.                                                        *)
FindStatus == IF flash.SCR.t.magic = "GOOD" THEN "SCR" ELSE "PRI"

(* swap_read_status with swap_read_status_bytes.                            *)
Source == scratch_status_source(flash.PRI.t, flash.SCR.t)
Entries == IF Source = "NONE" THEN 0 ELSE flash[Source].n
ReadStatus ==
    IF Entries = 0 THEN StatusReset
    ELSE [idx |-> Entries \div BOOT_STATUS_STATE_COUNT + 1,
          state |-> Entries % BOOT_STATUS_STATE_COUNT,
          swap_size |-> flash[FindStatus].size,
          swap_type |-> flash[Source].t.swap_info]

(* Variant: the headers of a last region half-way through are overlooked.   *)
HeaderNotFollowed(b, slot) ==
    IF b.idx > Len(RegionsOf(b)) THEN IF slot = "PRI" THEN "SEC" ELSE "PRI" ELSE slot

(* boot_read_image_header: where the header of an image is while its slot   *)
(* is being swapped.                                                        *)
HeaderArea(b, slot) ==
    CASE b.idx > Len(RegionsOf(b)) -> IF slot = "PRI" THEN "SEC" ELSE "PRI"
      [] b.idx = Len(RegionsOf(b)) /\ slot = "SEC" /\ b.state >= 1 -> "SCR"
      [] b.idx = Len(RegionsOf(b)) /\ slot = "PRI" /\ b.state >= 2 -> "SEC"
      [] OTHER -> slot

ReadSwapType == IF Source = "NONE" THEN "NONE" ELSE flash[Source].t.swap_info
Wanted == IF ReadSwapType # "NONE" THEN ReadSwapType ELSE SwapType(flash)

(* The swap type when the secondary slot fails validation.                  *)
Refused == IF ReadSwapType # "NONE" THEN "FAIL" ELSE "NONE"

PrepareResume ==
    /\ pc = "reset" /\ Entries > 0
    /\ bs' = ReadStatus /\ type' = ReadStatus.swap_type
    /\ pc' = LoopPc(bs')
    /\ UNCHANGED <<lay, geo, flash, history>>

PrepareNothing ==
    /\ pc = "reset" /\ Entries = 0 /\ Wanted = "NONE"
    /\ pc' = "validate" /\ type' = "NONE"
    /\ UNCHANGED <<lay, geo, flash, bs, history>>

(* A valid image is waiting: boot_swap_image swaps as much as the larger    *)
(* image needs.                                                             *)
PrepareSwap ==
    /\ pc = "reset" /\ Entries = 0
    /\ BOOT_IS_UPGRADE(Wanted) /\ BootableIn(flash.SEC) # None
    /\ type' = Wanted
    /\ bs' = [StatusReset EXCEPT
                 !.swap_size = LargerOf(SizeOf(Header(flash.PRI.d[0])), SizeOf(Header(flash.SEC.d[0]))),
                 !.swap_type = Wanted]
    /\ pc' = LoopPc(bs')
    /\ UNCHANGED <<lay, geo, flash, history>>

(* boot_validate_slot on an erased header scrambles the trailer only.       *)
PrepareErased ==
    /\ pc = "reset" /\ Entries = 0
    /\ BOOT_IS_UPGRADE(Wanted) /\ flash.SEC.d[0] = Torn
    /\ ScrambleTrailer("SEC", "refused")
    /\ type' = Refused
    /\ UNCHANGED <<lay, geo, history>>

(* On an invalid image it scrambles the slot, upwards.  A unit torn by an   *)
(* interrupted write may still read as not erased.                          *)
PrepareInvalid ==
    /\ pc = "reset" /\ Entries = 0
    /\ BOOT_IS_UPGRADE(Wanted) /\ BootableIn(flash.SEC) = None
    /\ Erase("SEC", 0, geo.size.SEC, FALSE, "refused")
    /\ type' = Refused
    /\ UNCHANGED <<lay, geo, history>>

(* context_boot_go when the upgrade was refused: FAIL marks the primary     *)
(* image good (swap_set_image_ok).                                          *)
RefusedUpgrade ==
    /\ pc = "refused"
    /\ Write("PRI",
             IF type = "FAIL" THEN [flash.PRI EXCEPT !.t = boot_write_image_ok(@)] ELSE flash.PRI,
             "validate")
    /\ UNCHANGED <<lay, geo, type, history>>

----------------------------------------------------------------------------
(* boot_perform_update and boot_complete_partial_swap after swap_run.       *)
SetImageOk ==
    /\ pc = "fin_ok"
    /\ Write("PRI",
             IF type \in {"REVERT", "PERM"}
             THEN [flash.PRI EXCEPT !.t = boot_write_image_ok(@)] ELSE flash.PRI,
             "fin_done")
    /\ UNCHANGED <<lay, geo, type, history>>

SetCopyDone ==
    /\ pc = "fin_done"
    /\ Write("PRI",
             IF BOOT_IS_UPGRADE(type)
             THEN [flash.PRI EXCEPT !.t = boot_write_copy_done(@)] ELSE flash.PRI,
             "validate")
    /\ UNCHANGED <<lay, geo, type, history>>

(* The last loop of context_boot_go validates the primary slot and boots.   *)
Validate ==
    /\ pc = "validate"
    /\ bs' = StatusReset /\ type' = "NONE"
    /\ IF BootableIn(flash.PRI) = None
       THEN pc' = "no_boot" /\ UNCHANGED history
       ELSE /\ pc' = "app"
            /\ running' = BootableIn(flash.PRI)
            /\ confirmed' = ~Unconfirmed(flash.PRI.t)
            /\ spare' = BootableIn(flash.SEC)
            /\ request' = "none"
    /\ UNCHANGED <<lay, geo, flash>>

----------------------------------------------------------------------------
(* The application stores an image in the secondary slot (erase, then       *)
(* write; the erase takes the trailer along) and schedules or confirms.     *)
AppErase ==
    /\ pc = "app"
    /\ Write("SEC", Blank("SEC"), "app")
    /\ spare' = None /\ request' = "none"
    /\ UNCHANGED <<lay, geo, type, running, confirmed>>

AppWrite(i) ==
    /\ pc = "app" /\ flash.SEC = Blank("SEC")
    /\ Size[i] <= geo.size.SEC - lay.trailer
    /\ Write("SEC", Written(i, "SEC"), "app")
    /\ spare' = BootableIn(flash'.SEC)
    /\ UNCHANGED <<lay, geo, type, running, confirmed, request>>

(* boot_set_pending: magic, then image_ok if permanent, then swap_info.     *)
SetPending(permanent) ==
    /\ pc = "app" /\ CanSchedule(flash.SEC.t)
    /\ WriteMagic("SEC", IF permanent THEN "pend_ok" ELSE "pend_test")
    /\ request' = IF flash'.SEC.t.magic = "GOOD" THEN "test" ELSE request
    /\ UNCHANGED <<lay, geo, type, running, confirmed, spare>>

SetPendingImageOk ==
    /\ pc = "pend_ok"
    /\ Write("SEC", [flash.SEC EXCEPT !.t = boot_write_image_ok(@)], "pend_perm")
    /\ request' = "perm"
    /\ UNCHANGED <<lay, geo, type, running, confirmed, spare>>

SetPendingInfo ==
    /\ pc \in {"pend_test", "pend_perm"}
    /\ Write("SEC",
             [flash.SEC EXCEPT
                 !.t = boot_write_swap_info(@, IF pc = "pend_test" THEN "TEST" ELSE "PERM")],
             "app")
    /\ UNCHANGED <<lay, geo, type, history>>

SetConfirmed ==
    /\ pc = "app"
    /\ Write("PRI", [flash.PRI EXCEPT !.t = boot_set_next_active(@)], "app")
    /\ confirmed' = TRUE
    /\ UNCHANGED <<lay, geo, type, running, spare, request>>

(* A reboot, or a power failure between any two writes.                     *)
Reset ==
    /\ pc # "reset"
    /\ pc' = "reset" /\ bs' = StatusReset /\ type' = "NONE"
    /\ UNCHANGED <<lay, geo, flash, history>>

----------------------------------------------------------------------------
BootInit ==
    /\ lay \in {l \in Layouts : boot_slots_compatible(l)} /\ geo = Geometry(lay)
    /\ running \in {i \in Valid : Size[i] <= geo.max}
    /\ flash = [PRI |-> Written(running, "PRI"), SEC |-> Blank("SEC"), SCR |-> Blank("SCR")]
    /\ bs = StatusReset /\ type = "NONE" /\ pc = "app"
    /\ confirmed = TRUE /\ spare = None /\ request = "none"

SwapSectors == SwapStep /\ UNCHANGED <<lay, geo, history>> /\ (type' = IF pc' = "reset" THEN "NONE" ELSE type)

BootStep ==
    \/ PrepareResume \/ PrepareNothing \/ PrepareSwap \/ PrepareErased \/ PrepareInvalid
    \/ RefusedUpgrade \/ SwapSectors \/ SetImageOk \/ SetCopyDone \/ Validate

AppStep ==
    \/ AppErase \/ \E i \in Images : AppWrite(i)
    \/ \E permanent \in BOOLEAN : SetPending(permanent)
    \/ SetPendingImageOk \/ SetPendingInfo \/ SetConfirmed

BootNext == BootStep \/ AppStep \/ Reset

BootSpec == BootInit /\ [][BootNext]_bootVars

(* The boot loader is the only code running until it starts the             *)
(* application, so nothing but a power failure keeps it from its next step. *)
FairBootSpec == BootSpec /\ WF_bootVars(BootStep)

----------------------------------------------------------------------------
(* Whatever the application schedules and wherever the power fails, there   *)
(* is always an image to boot.                                              *)
NeverBricked == pc # "no_boot"

(* Whenever a swap is resumed, the headers of the two images it swaps are   *)
(* found, wherever it has put them by then.                                 *)
HeadersFound ==
    pc = "reset" /\ Entries > 0 =>
        {Header(flash[HeaderArea(ReadStatus, slot)].d[0]) : slot \in {"PRI", "SEC"}} = {running, spare}

(* Every swap that does something reaches into the primary trailer, so that *)
(* its status starts out in scratch.                                        *)
AlwaysShared ==
    \A i \in Images :
        Size[i] <= geo.max => UsesScratch([StatusReset EXCEPT !.swap_size = Size[i]])

(* The device implements the contract: seen from the application, every     *)
(* boot is one atomic step of UpgradeContract.  Where an image can be       *)
(* swapped without touching the trailer's sectors, two power losses while a *)
(* revert begins make it forget the revert: the primary trailer is erased,  *)
(* and boot_swap_sectors then erases the copy of it in scratch.             *)
Contract ==
    INSTANCE UpgradeContract WITH
        up <- pc \in AppPc, KeepsReplaced <- TRUE, forgets <- ~AlwaysShared
ImplementsContract == Contract!Spec

(* Once the resets stop, the device runs an application.                    *)
NoMoreResets == <>[][pc' # "reset"]_bootVars
EventuallyUp == NoMoreResets => <>[](pc \in AppPc)
=============================================================================
