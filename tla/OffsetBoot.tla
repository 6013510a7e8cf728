----------------------------- MODULE OffsetBoot -----------------------------
(***************************************************************************)
(* A device with one image that swaps using offset, the default of a       *)
(* two-slot build: the boot loader (context_boot_go around the sector      *)
(* loops of SwapOffset) and the application side of an upgrade.  It is     *)
(* organised like MoveBoot.  What differs is where the images are in the   *)
(* secondary slot (a new one starts in its second sector, the one to       *)
(* revert to in its first), the way a revert is made to survive a reset,   *)
(* and that image sizes are read from flash when a swap starts.            *)
(***************************************************************************)
EXTENDS SwapOffset, Trailer

CONSTANTS
    Images,     \* firmware images
    Valid,      \* the images whose hash and signature are right
    None,       \* no image
    Size,       \* sectors of each image
    TearMagic,     \* slots whose trailer magic a power loss may leave half-written
    ReplaceBackup  \* whether an unconfirmed application replaces the image kept for a revert

ASSUME ImagesAssumption ==
    /\ Valid \subseteq Images /\ None \notin Images
    /\ Size \in [Images -> Nat \ {0}]
    /\ TearMagic \subseteq {"PRI", "SEC"}
    /\ ReplaceBackup \in BOOLEAN

VARIABLES
    tr,      \* the trailers, [PRI |-> ..., SEC |-> ...]
    boot,    \* RAM: bs.source, bs.swap_type and BOOT_SWAP_TYPE(state)
    running, confirmed, spare, request, \* the history the contract is about
    mishap   \* where the code goes wrong and the power has failed there (ghost)

history == <<running, confirmed, spare, request>>
engine == <<pri, sec, status, swap_size, revert, bs, pri0, sec0>>
bootVars == <<engine, pc, tr, boot, history, mishap>>

AppPc == {"app", "pend_ok", "pend_test", "pend_perm"}
BootReset == [source |-> "NONE", swap_type |-> "NONE", type |-> "NONE"]

(* Image i stored from sector base of a slot with n sectors.                *)
Written(i, base, n) ==
    [k \in 0..n - 1 |-> IF k \in base..base + Size[i] - 1 THEN <<i, k - base>> ELSE Torn]
Blank(n) == [k \in 0..n - 1 |-> Torn]

(* The image whose header a sector holds.                                   *)
Header(c) == IF Used[c] > 0 THEN c[1] ELSE None

(* boot_check_image: the image from sector base of a slot, if it passes     *)
(* validation, which refuses one larger than app_max_size.                  *)
BootableAt(slot, base) ==
    LET i == Header(slot[base])
    IN IF i \in Valid /\ Fits(Size[i])
          /\ \A k \in 0..Size[i] - 1 : slot[base + k] = <<i, k>>
       THEN i ELSE None

(* The image an unconfirmed application would be reverted to, or the one a  *)
(* confirmed application can have booted.                                   *)
CanBoot(slot, unconfirmed) ==
    CASE unconfirmed -> BootableAt(slot, 0)
      [] ~unconfirmed /\ Header(slot[0]) = None -> BootableAt(slot, 1)
      [] OTHER -> None

(* boot_read_image_size finds the TLVs at the end of the image.             *)
SizeReadable(slot, base) ==
    LET i == Header(slot[base]) IN slot[base + Size[i] - 1] = <<i, Size[i] - 1>>

SwapType(t) == boot_swap_type_multi(t.PRI, t.SEC, TRUE)

ResetStatus == [idx |-> IDX_0, state |-> STATE_0, swap_size |-> 0,
                used_pri |-> 0, used_sec |-> 0]

----------------------------------------------------------------------------
(* boot_prepare_image_for_update, up to the first write to flash.           *)

(* swap_read_status.                                                        *)
Source == swap_status_source(tr.PRI, tr.SEC)
NoPartialSwap == Source # "PRIMARY" \/ status = 0
ReadSwapType == IF Source = "PRIMARY" THEN tr.PRI.swap_info ELSE "NONE"
Wanted == IF ReadSwapType # "NONE" THEN ReadSwapType ELSE SwapType(tr)

(* The swap type when the secondary slot fails validation.                  *)
Refused == IF ReadSwapType # "NONE" THEN "FAIL" ELSE "NONE"

RamAfterPrepare(type) == [source |-> Source, swap_type |-> type, type |-> type]

(* Where the secondary image starts when no swap is under way, and the      *)
(* other sector that is tried when there is no header.                      *)
SecBase ==
    LET first == IF ReadSwapType = "REVERT" \/ SwapType(tr) = "REVERT" THEN 0 ELSE 1
        other == IF SwapType(tr) = "REVERT" THEN 1 ELSE 0
    IN IF Header(sec[first]) # None THEN first ELSE other

(* boot_validate_slot refuses an upgrade with a header in the first sector. *)
WrongSector ==
    ReadSwapType = "NONE" /\ Wanted \in {"TEST", "PERM"} /\ Header(sec[0]) # None

(* fixup_revert is needed for a revert that has not passed its first sector.*)
NeedsFixup(type, b) == type = "REVERT" /\ b.idx = IDX_0 /\ tr.SEC.magic = "UNSET"

(* What swap_run does first when it is at the first sector.                 *)
AfterFixup(source) == IF source = "PRIMARY" THEN "sec_scramble" ELSE "init_scramble"
EnterSwapRun(type, source, b) ==
    IF NeedsFixup(type, b) THEN "fix_scramble" ELSE AfterFixup(source)

(* A partial swap is completed if both headers are found.  One that has not *)
(* passed its first sector goes through the initialisation again.           *)
PrepareResume ==
    /\ pc = "reset" /\ ~NoPartialSwap
    /\ UNCHANGED <<pri, sec, status, swap_size, pri0, sec0, tr, history>>
    /\ revert' = (ReadSwapType = "REVERT" \/ SwapType(tr) = "REVERT")
    /\ bs' = WithHeaders(swap_read_status_bytes(status), swap_size)'
    /\ IF bs'.used_pri = 0 \/ bs'.used_sec = 0
       THEN pc' = "validate" /\ boot' = BootReset
       ELSE /\ boot' = RamAfterPrepare(ReadSwapType)
            /\ pc' = IF bs'.idx # IDX_0 THEN LoopPc(bs)'
                     ELSE EnterSwapRun(ReadSwapType, Source, bs')

(* Nothing to do, or no header in the primary slot.                         *)
PrepareNothing ==
    /\ pc = "reset" /\ NoPartialSwap
    /\ Header(pri[0]) = None \/ Wanted = "NONE"
    /\ pc' = "validate" /\ boot' = BootReset
    /\ UNCHANGED <<engine, tr, history>>

(* A valid image is waiting in the secondary slot: boot_swap_image reads    *)
(* the sizes, asserting that they can be read, and swap_run begins.         *)
PrepareSwap ==
    /\ pc = "reset" /\ NoPartialSwap
    /\ Header(pri[0]) # None /\ BOOT_IS_UPGRADE(Wanted)
    /\ BootableAt(sec, SecBase) # None /\ ~WrongSector
    /\ boot' = RamAfterPrepare(Wanted)
    /\ revert' = (Wanted = "REVERT")
    /\ LET p == Used[pri[0]]
           s == Used[sec[SecBase]]
       IN /\ bs' = [ResetStatus EXCEPT !.swap_size = Larger(p, s),
                                       !.used_pri = p, !.used_sec = s]
          /\ pc' = IF ~SizeReadable(pri, 0) THEN "panic"
                   ELSE IF find_last_idx(Larger(p, s)) >= PriSectors THEN "fin_ok"
                   ELSE EnterSwapRun(Wanted, Source, ResetStatus)
    /\ UNCHANGED <<pri, sec, status, swap_size, pri0, sec0, tr, history>>

(* boot_validate_slot on an erased header: the trailer is scrambled.        *)
PrepareErased ==
    /\ pc = "reset" /\ NoPartialSwap
    /\ Header(pri[0]) # None /\ BOOT_IS_UPGRADE(Wanted) /\ sec[SecBase] = Torn
    /\ tr' = [tr EXCEPT !.SEC = ErasedTrailer]
    /\ boot' = RamAfterPrepare(Refused)
    /\ pc' = "refused"
    /\ UNCHANGED <<engine, history>>

(* boot_validate_slot on an invalid image scrambles the slot, upwards.  A   *)
(* sector torn by an interrupted write may still read as not erased.        *)
PrepareInvalid ==
    /\ pc = "reset" /\ NoPartialSwap
    /\ Header(pri[0]) # None /\ BOOT_IS_UPGRADE(Wanted)
    /\ BootableAt(sec, SecBase) = None \/ WrongSector
    /\ sec' = [sec EXCEPT ![0] = Torn]
    /\ boot' = RamAfterPrepare(Refused)
    /\ pc' = "scramble_rest"
    /\ UNCHANGED <<pri, status, swap_size, revert, bs, pri0, sec0, tr, history>>

ScrambleRest ==
    /\ pc = "scramble_rest"
    /\ sec' = Blank(SecSectors)
    /\ tr' = [tr EXCEPT !.SEC = ErasedTrailer]
    /\ pc' = "refused"
    /\ UNCHANGED <<pri, status, swap_size, revert, bs, pri0, sec0, boot, history>>

(* context_boot_go when the upgrade was refused: FAIL marks the primary     *)
(* image good (swap_set_image_ok).                                          *)
RefusedUpgrade ==
    /\ pc = "refused"
    /\ tr' = IF boot.type = "FAIL" THEN [tr EXCEPT !.PRI = boot_write_image_ok(tr.PRI)] ELSE tr
    /\ pc' = "validate"
    /\ UNCHANGED <<engine, boot, history>>

----------------------------------------------------------------------------
(* swap_run before the first sector.                                        *)

Tr(next, slot, t) ==
    /\ tr' = [tr EXCEPT ![slot] = t]
    /\ pc' = next
    /\ UNCHANGED <<engine, boot, history>>

(* A magic is written, or half-written when the power fails.                *)
WriteMagic(next, slot) ==
    \/ Tr(next, slot, boot_write_magic(tr[slot]))
    \/ /\ slot \in TearMagic
       /\ tr' = [tr EXCEPT ![slot].magic = "BAD"]
       /\ pc' = "reset" /\ boot' = BootReset
       /\ UNCHANGED <<engine, history>>

(* Variant: the fixed-up revert looks like a test upgrade.                  *)
FixupForgetsCopyDone == pc = "fix_done" /\ Tr("fix_info", "SEC", tr.SEC)

(* fixup_revert initialises the secondary trailer so that the revert is     *)
(* found again (copy_done without image_ok) after a reset.                  *)
FixScramble == pc = "fix_scramble" /\ Tr("fix_done", "SEC", ErasedTrailer)
FixCopyDone == pc = "fix_done" /\ Tr("fix_info", "SEC", boot_write_copy_done(tr.SEC))
FixSwapInfo == pc = "fix_info" /\ Tr("fix_magic", "SEC", boot_write_swap_info(tr.SEC, boot.swap_type))
FixMagic == pc = "fix_magic" /\ WriteMagic(AfterFixup(boot.source), "SEC")

(* The primary trailer is erased from its end, then swap_status_init writes *)
(* it, magic last.                                                          *)
InitScramble == pc = "init_scramble" /\ Tr("init_erase", "PRI", ErasedTrailer)

InitErase ==
    /\ pc = "init_erase"
    /\ status' = 0 /\ swap_size' = 0
    /\ pc' = "init_info"
    /\ UNCHANGED <<pri, sec, revert, bs, pri0, sec0, tr, boot, history>>

InitSwapInfo == pc = "init_info" /\ Tr("init_ok", "PRI", boot_write_swap_info(tr.PRI, boot.swap_type))

InitImageOk ==
    /\ pc = "init_ok"
    /\ Tr("init_size", "PRI",
          IF tr.SEC.image_ok = "SET" THEN boot_write_image_ok(tr.PRI) ELSE tr.PRI)

InitSwapSize ==
    /\ pc = "init_size"
    /\ swap_size' = bs.swap_size
    /\ pc' = "init_magic"
    /\ UNCHANGED <<pri, sec, status, revert, bs, pri0, sec0, tr, boot, history>>

InitMagic == pc = "init_magic" /\ WriteMagic("sec_scramble", "PRI")

(* The secondary trailer goes last; from here on the primary one counts.    *)
SecScramble ==
    /\ pc = "sec_scramble"
    /\ tr' = [tr EXCEPT !.SEC = ErasedTrailer]
    /\ pc' = LoopPc(bs)
    /\ IF status = 0 THEN pri0' = pri /\ sec0' = sec ELSE UNCHANGED <<pri0, sec0>>
    /\ UNCHANGED <<pri, sec, status, swap_size, revert, bs, boot, history>>

----------------------------------------------------------------------------
(* boot_perform_update and boot_complete_partial_swap after swap_run.       *)
SwapRunReturns ==
    /\ pc = "done"
    /\ Tr("fin_ok", "SEC", IF revert THEN ErasedTrailer ELSE tr.SEC)

SetImageOk ==
    /\ pc = "fin_ok"
    /\ Tr("fin_done", "PRI",
          IF boot.type \in {"REVERT", "PERM"} THEN boot_write_image_ok(tr.PRI) ELSE tr.PRI)

SetCopyDone ==
    /\ pc = "fin_done"
    /\ Tr("validate", "PRI",
          IF BOOT_IS_UPGRADE(boot.type) THEN boot_write_copy_done(tr.PRI) ELSE tr.PRI)

(* The last loop of context_boot_go validates the primary slot and boots.   *)
Validate ==
    /\ pc = "validate"
    /\ boot' = BootReset
    /\ IF BootableAt(pri, 0) = None
       THEN pc' = "no_boot" /\ UNCHANGED history
       ELSE /\ pc' = "app"
            /\ running' = BootableAt(pri, 0)
            /\ confirmed' = ~Unconfirmed(tr.PRI)
            /\ spare' = CanBoot(sec, Unconfirmed(tr.PRI))
            /\ request' = "none"
    /\ UNCHANGED <<engine, tr>>

----------------------------------------------------------------------------
(* Whether the application may touch the secondary slot: the one that is    *)
(* kept for a revert may be left alone until the running image is confirmed.*)
MayStore == ReplaceBackup \/ ~Unconfirmed(tr.PRI)

(* The application.  It stores an image in the secondary slot (erase, then  *)
(* write; the erase takes the trailer along) and schedules or confirms.     *)
AppErase ==
    /\ pc = "app" /\ MayStore
    /\ sec' = Blank(SecSectors)
    /\ tr' = [tr EXCEPT !.SEC = ErasedTrailer]
    /\ spare' = None /\ request' = "none"
    /\ UNCHANGED <<pri, status, swap_size, revert, bs, pc, pri0, sec0, boot, running, confirmed>>

AppWrite(i) ==
    /\ pc = "app" /\ sec = Blank(SecSectors) /\ tr.SEC = ErasedTrailer /\ MayStore
    /\ Size[i] < SecSectors
    /\ sec' = Written(i, 1, SecSectors)
    /\ spare' = BootableAt(sec', 1)
    /\ UNCHANGED <<pri, status, swap_size, revert, bs, pc, pri0, sec0, tr, boot, running, confirmed, request>>

(* boot_set_pending: magic, then image_ok if permanent, then swap_info.     *)
SetPending(permanent) ==
    /\ pc = "app" /\ CanSchedule(tr.SEC) /\ MayStore
    /\ \/ /\ tr' = [tr EXCEPT !.SEC = boot_write_magic(tr.SEC)]
          /\ pc' = IF permanent THEN "pend_ok" ELSE "pend_test"
          /\ request' = "test"
       \/ /\ "SEC" \in TearMagic
          /\ tr' = [tr EXCEPT !.SEC.magic = "BAD"]
          /\ pc' = "reset" /\ UNCHANGED request
    /\ UNCHANGED <<engine, boot, running, confirmed, spare>>

SetPendingImageOk ==
    /\ pc = "pend_ok"
    /\ tr' = [tr EXCEPT !.SEC = boot_write_image_ok(tr.SEC)]
    /\ pc' = "pend_perm"
    /\ request' = "perm"
    /\ UNCHANGED <<engine, boot, running, confirmed, spare>>

SetPendingInfo ==
    \/ pc = "pend_test" /\ Tr("app", "SEC", boot_write_swap_info(tr.SEC, "TEST"))
    \/ pc = "pend_perm" /\ Tr("app", "SEC", boot_write_swap_info(tr.SEC, "PERM"))

SetConfirmed ==
    /\ pc = "app"
    /\ tr' = [tr EXCEPT !.PRI = boot_set_next_active(tr.PRI)]
    /\ confirmed' = TRUE
    /\ spare' = CanBoot(sec, FALSE)
    /\ UNCHANGED <<engine, pc, boot, running, request>>

(* A reboot, or a power failure between any two writes.                     *)
Reset ==
    /\ pc # "reset"
    /\ pc' = "reset"
    /\ bs' = ResetStatus /\ revert' = FALSE
    /\ boot' = BootReset
    /\ UNCHANGED <<pri, sec, status, swap_size, pri0, sec0, tr, history>>

----------------------------------------------------------------------------
(* Where a power failure meets code that goes wrong.                        *)

(* boot_read_image_header compares a 1-based index with a 0-based one, so   *)
(* that an upgrade resumed in its last sector looks for the outgoing header *)
(* where the new one goes.  If that is the only sector and erased, there is *)
(* no header; otherwise the end of a longer outgoing image is left out.     *)
Misread ==
    {m \in {"missed", "left_out"} :
        /\ pc = "reset" /\ ~NoPartialSwap
        /\ (~LookupHarmless /\ bs.idx - IDX_0 = last_idx)'
        /\ IF m = "missed" THEN swap_size = 1 /\ pri[0] = Torn ELSE swap_size > 1}

(* fixup_revert has just made a secondary trailer for a revert that was     *)
(* under way: for one write the status in the primary slot does not count.  *)
Refixed == pc = "sec_scramble" /\ status > 0 /\ tr.SEC.magic = "GOOD"

(* A slot was refused for the header in its first sector, and behind that   *)
(* is the image of an earlier upgrade.                                      *)
Uncovered == pc = "scramble_rest" /\ BootableAt(sec, 1) # None

(* What has gone wrong so, since the application last saw an empty slot.    *)
Watch ==
    mishap' = CASE pc \in AppPc /\ sec' = Blank(SecSectors) -> {}
                [] pc' = "reset" /\ Refixed -> mishap \cup {"refixed"}
                [] pc' = "reset" /\ Uncovered -> mishap \cup {"uncovered"}
                [] OTHER -> mishap \cup Misread

----------------------------------------------------------------------------
BootInit ==
    /\ \E i \in Valid :
           /\ Fits(Size[i])
           /\ pri = Written(i, 0, PriSectors) /\ running = i
    /\ sec = Blank(SecSectors)
    /\ status = 0 /\ swap_size = 0 /\ revert = FALSE /\ bs = ResetStatus
    /\ pc = "app" /\ pri0 = pri /\ sec0 = sec
    /\ tr = [PRI |-> ErasedTrailer, SEC |-> ErasedTrailer]
    /\ boot = BootReset
    /\ confirmed = TRUE /\ spare = None /\ request = "none" /\ mishap = {}

SwapSectors == SwapStep /\ UNCHANGED <<tr, boot, history>>

Prepare == PrepareResume \/ PrepareNothing \/ PrepareSwap \/ PrepareErased \/ PrepareInvalid
SwapBegin ==
    \/ FixScramble \/ FixCopyDone \/ FixSwapInfo \/ FixMagic
    \/ InitScramble \/ InitErase \/ InitSwapInfo \/ InitImageOk \/ InitSwapSize
    \/ InitMagic \/ SecScramble
SwapEnd == SwapRunReturns \/ SetImageOk \/ SetCopyDone

BootStep ==
    \/ Prepare \/ ScrambleRest \/ RefusedUpgrade
    \/ SwapBegin \/ SwapSectors \/ SwapEnd \/ Validate

AppStep ==
    \/ AppErase \/ \E i \in Images : AppWrite(i)
    \/ \E permanent \in BOOLEAN : SetPending(permanent)
    \/ SetPendingImageOk \/ SetPendingInfo \/ SetConfirmed

DeviceStep == BootStep \/ AppStep \/ Reset

BootNext == DeviceStep /\ Watch

BootSpec == BootInit /\ [][BootNext]_bootVars

(* The boot loader is the only code running until it starts the             *)
(* application, so nothing but a power failure keeps it from its next step. *)
FairBootSpec == BootSpec /\ WF_bootVars(BootStep /\ Watch)

----------------------------------------------------------------------------
(* Every variable has its type; the status entries stay within what the     *)
(* trailer has room for, and only valid images ever run.                    *)
BootTypeOK ==
    /\ pri \in [0..PriSectors - 1 -> Content]
    /\ sec \in [0..SecSectors - 1 -> Content]
    /\ status \in 0..(2 * PriSectors)
    /\ swap_size \in 0..PriSectors /\ revert \in BOOLEAN
    /\ tr \in [PRI : Trailers, SEC : Trailers]
    /\ boot \in [source : {"NONE", "PRIMARY"}, swap_type : SwapTypes, type : SwapTypes]
    /\ running \in Valid /\ confirmed \in BOOLEAN
    /\ spare \in Valid \cup {None} /\ request \in {"none", "test", "perm"}
    /\ mishap \subseteq {"refixed", "missed", "left_out", "uncovered"}

(* Whatever the application schedules and wherever the power fails, there   *)
(* is an image to boot, with two exceptions: the power failed as            *)
(* fixup_revert ended for a revert that was under way, or an upgrade of one *)
(* sector was resumed after its primary sector had been erased.             *)
Doomed == mishap \cap {"refixed", "missed"} # {}
NeverBricked == pc \in {"no_boot", "panic"} => Doomed

(* docs/design.md: "the bootloader must work properly even when it is reset *)
(* during the middle of an image swap".  It does not hold: each of the two  *)
(* exceptions above leaves a device that never boots again.                 *)
AlwaysBoots == pc \notin {"no_boot", "panic"}

(* The device implements the contract: seen from the application, every     *)
(* boot is one atomic step of UpgradeContract, unless an interrupted        *)
(* upgrade to a shorter image has left out the end of the one to revert to, *)
(* or a power failure as a slot was refused has left an old image in it.    *)
Contract == INSTANCE UpgradeContract WITH up <- pc \in AppPc, forgets <- FALSE, KeepsReplaced <- FALSE
Broken == mishap \cap {"left_out", "uncovered"} # {}
ImplementsContract ==
    Contract!Init /\ [][Contract!Next \/ Broken']_<<pc \in AppPc, history>>

(* docs/design.md about the bootloader and resets, as above: the contract   *)
(* with no exception.  It does not hold in either of the two cases.         *)
ContractKept == Contract!Spec

(* Once the resets stop, the device runs an application, with the           *)
(* exceptions of NeverBricked.                                              *)
NoMoreResets == <>[][pc' # "reset"]_bootVars
EventuallyUp == NoMoreResets => <>[](pc \in AppPc \/ Doomed)
=============================================================================
