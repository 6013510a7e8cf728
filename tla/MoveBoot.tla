------------------------------ MODULE MoveBoot ------------------------------
(***************************************************************************)
(* A device with one image that swaps using move: the boot loader          *)
(* (context_boot_go in boot/bootutil/src/loader.c around the sector loops  *)
(* of SwapMove), and the application side of an upgrade                    *)
(* (boot_set_pending, boot_set_confirmed).  Every write to flash is a step *)
(* of its own, and the power may fail between any two.                     *)
(*                                                                         *)
(* Sector k of image i holds <<i, k>>.  The trailers of the two slots are  *)
(* in tr; the status area and the swap_size field of the primary trailer   *)
(* are the variables of SwapMove.                                          *)
(***************************************************************************)
EXTENDS SwapMove, Trailer

CONSTANTS
    Images,     \* firmware images
    Valid,      \* the images whose hash and signature are right
    None,       \* no image
    Size,       \* sectors of each image
    TearMagic   \* slots whose trailer magic a power loss may leave half-written

ASSUME ImagesAssumption ==
    /\ Valid \subseteq Images /\ None \notin Images
    /\ Size \in [Images -> Nat \ {0}]
    /\ TearMagic \subseteq {"PRI", "SEC"}
    /\ \A i \in Images : \A k \in 0..Size[i] - 1 : <<i, k>> \in Content \ {Torn}

VARIABLES
    tr,      \* the trailers, [PRI |-> ..., SEC |-> ...]
    boot,    \* RAM: bs.source, bs.swap_type and BOOT_SWAP_TYPE(state)
    running, confirmed, spare, request \* the history the contract is about

history == <<running, confirmed, spare, request>>
engine == <<pri, sec, status, swap_size, bs, pri0, sec0>>
bootVars == <<engine, pc, tr, boot, history>>

AppPc == {"app", "pend_ok", "pend_test", "pend_perm"}
BootReset == [source |-> "NONE", swap_type |-> "NONE", type |-> "NONE"]

Written(i, n) == [k \in 0..n - 1 |-> IF k < Size[i] THEN <<i, k>> ELSE Torn]
Blank(n) == [k \in 0..n - 1 |-> Torn]

(* The image whose header a sector holds.                                   *)
Header(c) == IF c # Torn /\ c[2] = 0 THEN c[1] ELSE None

SizeOf(img) == IF img = None THEN 0 ELSE Size[img]

(* app_max_size: the moved image must stay below the primary trailer.       *)
app_max_size == IF PriSectors - 1 < SecSectors THEN PriSectors - 1 ELSE SecSectors

(* boot_check_image: the image in a slot if it passes validation.           *)
BootableIn(slot) ==
    LET i == Header(slot[0])
    IN IF i \in Valid /\ Size[i] <= app_max_size
          /\ \A k \in 0..Size[i] - 1 : slot[k] = <<i, k>>
       THEN i ELSE None

(* Variant: the last move entry is not told from the ones before it.        *)
MovedHeaderMissed(b, last) ==
    CASE b.op = "SWAP" /\ b.idx = 1 -> pri[1]
      [] b.op = "SWAP" /\ b.idx > 1 /\ b.idx <= last -> sec[0]
      [] OTHER -> pri[0]

(* Where boot_read_image_header finds the two headers of a resumed swap.    *)
HeaderOfPri(b, last) ==
    CASE b.op = "MOVE" /\ b.idx > last -> pri[1]
      [] b.op = "SWAP" /\ b.idx = 1 -> pri[1]
      [] b.op = "SWAP" /\ b.idx > 1 /\ b.idx <= last -> sec[0]
      [] OTHER -> pri[0]

HeaderOfSec(b, last) ==
    IF b.op = "SWAP" /\ ((b.idx > 1 /\ b.idx <= last) \/ (b.idx = 1 /\ b.state = STATE_1))
    THEN pri[0] ELSE sec[0]

SwapType(t) == boot_swap_type_multi(t.PRI, t.SEC, FALSE)

----------------------------------------------------------------------------
(* boot_prepare_image_for_update, up to the first write to flash.           *)

(* swap_read_status.                                                        *)
Source == swap_status_source(tr.PRI, tr.SEC)
ReadStatus == IF Source = "PRIMARY" THEN swap_read_status_bytes(status) ELSE StatusReset
ReadSwapType == IF Source = "PRIMARY" THEN tr.PRI.swap_info ELSE "NONE"
Wanted == IF ReadSwapType # "NONE" THEN ReadSwapType ELSE SwapType(tr)

(* The swap type when the secondary slot fails validation.                  *)
Refused == IF ReadSwapType # "NONE" THEN "FAIL" ELSE "NONE"

RamAfterPrepare(type) == [source |-> Source, swap_type |-> type, type |-> type]

(* A partial swap is completed if both headers are found.                   *)
PrepareResume ==
    /\ pc = "reset" /\ ReadStatus # StatusReset
    /\ LET last == find_last_idx(swap_size)
       IN IF None \in {Header(HeaderOfPri(ReadStatus, last)), Header(HeaderOfSec(ReadStatus, last))}
          THEN pc' = "validate" /\ UNCHANGED <<bs, boot>>
          ELSE /\ bs' = EnterLoop(ReadStatus, swap_size)
               /\ boot' = RamAfterPrepare(ReadSwapType)
               /\ pc' = LoopPc(bs')
    /\ UNCHANGED <<pri, sec, status, swap_size, pri0, sec0, tr, history>>

(* Nothing to do, or no header in the primary slot.                         *)
PrepareNothing ==
    /\ pc = "reset" /\ ReadStatus = StatusReset
    /\ Header(pri[0]) = None \/ Wanted = "NONE"
    /\ pc' = "validate" /\ boot' = BootReset
    /\ UNCHANGED <<engine, tr, history>>

(* A valid image is waiting in the secondary slot: boot_swap_image works    *)
(* out how much to swap and swap_run checks that it fits.                   *)
StartSwap(size, type) ==
    /\ bs' = EnterLoop(StatusReset, size)
    /\ boot' = RamAfterPrepare(type)
    /\ pc' = CASE find_last_idx(size) >= PriSectors -> "fin_ok"
               [] find_last_idx(size) < PriSectors /\ type = "REVERT"
                  /\ tr.SEC.magic = "UNSET" -> "fix_scramble"
               [] find_last_idx(size) < PriSectors /\ Source # "PRIMARY"
                  /\ ~(type = "REVERT" /\ tr.SEC.magic = "UNSET") -> "init_scramble"
               [] OTHER -> "sec_scramble"

PrepareSwap ==
    /\ pc = "reset" /\ ReadStatus = StatusReset
    /\ Header(pri[0]) # None /\ BOOT_IS_UPGRADE(Wanted) /\ BootableIn(sec) # None
    /\ LET p == SizeOf(Header(pri[0]))
           s == SizeOf(Header(sec[0]))
       IN StartSwap(IF s > p THEN s ELSE p, Wanted)
    /\ UNCHANGED <<pri, sec, status, swap_size, pri0, sec0, tr, history>>

(* boot_validate_slot on an erased header: the trailer is scrambled, and    *)
(* with it a revert that can never happen.                                  *)
PrepareErased ==
    /\ pc = "reset" /\ ReadStatus = StatusReset
    /\ Header(pri[0]) # None /\ BOOT_IS_UPGRADE(Wanted) /\ sec[0] = Torn
    /\ tr' = [tr EXCEPT !.SEC = ErasedTrailer]
    /\ boot' = RamAfterPrepare(Refused)
    /\ pc' = IF ReadSwapType = "REVERT" \/ SwapType(tr') = "REVERT"
             THEN "unstick" ELSE "refused"
    /\ UNCHANGED <<engine, history>>

UnstickRevert ==
    /\ pc = "unstick"
    /\ tr' = [tr EXCEPT !.PRI = ErasedTrailer]
    /\ status' = 0 /\ swap_size' = 0
    /\ pc' = "refused"
    /\ UNCHANGED <<pri, sec, bs, pri0, sec0, boot, history>>

(* boot_validate_slot on an invalid image scrambles the slot, upwards.  A   *)
(* sector torn by an interrupted write may still read as not erased.        *)
PrepareInvalid ==
    /\ pc = "reset" /\ ReadStatus = StatusReset
    /\ Header(pri[0]) # None /\ BOOT_IS_UPGRADE(Wanted) /\ BootableIn(sec) = None
    /\ sec' = [sec EXCEPT ![0] = Torn]
    /\ boot' = RamAfterPrepare(Refused)
    /\ pc' = "scramble_rest"
    /\ UNCHANGED <<pri, status, swap_size, bs, pri0, sec0, tr, history>>

ScrambleRest ==
    /\ pc = "scramble_rest"
    /\ sec' = Blank(SecSectors)
    /\ tr' = [tr EXCEPT !.SEC = ErasedTrailer]
    /\ pc' = "refused"
    /\ UNCHANGED <<pri, status, swap_size, bs, pri0, sec0, boot, history>>

(* context_boot_go when the upgrade was refused: FAIL marks the primary     *)
(* image good (swap_set_image_ok).                                          *)
RefusedUpgrade ==
    /\ pc = "refused"
    /\ tr' = IF boot.type = "FAIL" THEN [tr EXCEPT !.PRI = boot_write_image_ok(tr.PRI)] ELSE tr
    /\ pc' = "validate"
    /\ UNCHANGED <<engine, boot, history>>

----------------------------------------------------------------------------
(* swap_run before the first sector.                                        *)

Tr(next, slot, t) ==
    /\ tr' = [tr EXCEPT ![slot] = t]
    /\ pc' = next
    /\ UNCHANGED <<engine, boot, history>>

(* A magic is written, or half-written when the power fails.                *)
WriteMagic(next, slot) ==
    \/ Tr(next, slot, boot_write_magic(tr[slot]))
    \/ /\ slot \in TearMagic
       /\ tr' = [tr EXCEPT ![slot].magic = "BAD"]
       /\ pc' = "reset" /\ boot' = BootReset
       /\ UNCHANGED <<engine, history>>

(* Variant: the fixed-up revert is not marked permanent.                    *)
FixupForgetsImageOk == pc = "fix_ok" /\ Tr("fix_magic", "SEC", tr.SEC)

(* fixup_revert makes a revert look like a permanent upgrade.               *)
FixScramble == pc = "fix_scramble" /\ Tr("fix_ok", "SEC", ErasedTrailer)
FixImageOk == pc = "fix_ok" /\ Tr("fix_magic", "SEC", boot_write_image_ok(tr.SEC))
FixMagic ==
    /\ pc = "fix_magic"
    /\ WriteMagic(IF boot.source = "PRIMARY" THEN "sec_scramble" ELSE "init_scramble", "SEC")

(* boot_move_sector_up on the first sector: the primary trailer is erased   *)
(* from its end, then swap_status_init writes it, magic last.               *)
InitScramble == pc = "init_scramble" /\ Tr("init_erase", "PRI", ErasedTrailer)

(* Variant: the status area of the last swap is left in place.              *)
StaleStatusKept ==
    /\ pc = "init_erase"
    /\ swap_size' = 0
    /\ pc' = "init_info"
    /\ UNCHANGED <<pri, sec, status, bs, pri0, sec0, tr, boot, history>>

InitErase ==
    /\ pc = "init_erase"
    /\ status' = 0 /\ swap_size' = 0
    /\ pc' = "init_info"
    /\ UNCHANGED <<pri, sec, bs, pri0, sec0, tr, boot, history>>

InitSwapInfo == pc = "init_info" /\ Tr("init_ok", "PRI", boot_write_swap_info(tr.PRI, boot.swap_type))

InitImageOk ==
    /\ pc = "init_ok"
    /\ Tr("init_size", "PRI",
          IF tr.SEC.image_ok = "SET" THEN boot_write_image_ok(tr.PRI) ELSE tr.PRI)

InitSwapSize ==
    /\ pc = "init_size"
    /\ swap_size' = bs.swap_size
    /\ pc' = "init_magic"
    /\ UNCHANGED <<pri, sec, status, bs, pri0, sec0, tr, boot, history>>

InitMagic == pc = "init_magic" /\ WriteMagic("sec_scramble", "PRI")

(* The secondary trailer goes last; from here on the primary one counts.    *)
SecScramble ==
    /\ pc = "sec_scramble"
    /\ tr' = [tr EXCEPT !.SEC = ErasedTrailer]
    /\ pc' = LoopPc(bs)
    /\ pri0' = pri /\ sec0' = sec
    /\ UNCHANGED <<pri, sec, status, swap_size, bs, boot, history>>

----------------------------------------------------------------------------
(* boot_perform_update and boot_complete_partial_swap after swap_run.       *)
SwapRunReturns ==
    /\ pc = "done"
    /\ pc' = "fin_ok"
    /\ UNCHANGED <<engine, tr, boot, history>>

SetImageOk ==
    /\ pc = "fin_ok"
    /\ Tr("fin_done", "PRI",
          IF boot.type \in {"REVERT", "PERM"} THEN boot_write_image_ok(tr.PRI) ELSE tr.PRI)

SetCopyDone ==
    /\ pc = "fin_done"
    /\ Tr("validate", "PRI",
          IF BOOT_IS_UPGRADE(boot.type) THEN boot_write_copy_done(tr.PRI) ELSE tr.PRI)

(* The last loop of context_boot_go validates the primary slot and boots.   *)
Validate ==
    /\ pc = "validate"
    /\ boot' = BootReset
    /\ IF BootableIn(pri) = None
       THEN pc' = "no_boot" /\ UNCHANGED history
       ELSE /\ pc' = "app"
            /\ running' = BootableIn(pri)
            /\ confirmed' = ~Unconfirmed(tr.PRI)
            /\ spare' = BootableIn(sec)
            /\ request' = "none"
    /\ UNCHANGED <<engine, tr>>

----------------------------------------------------------------------------
(* The application.  It stores an image in the secondary slot (erase, then  *)
(* write; the erase takes the trailer along) and schedules or confirms.     *)
AppErase ==
    /\ pc = "app"
    /\ sec' = Blank(SecSectors)
    /\ tr' = [tr EXCEPT !.SEC = ErasedTrailer]
    /\ spare' = None /\ request' = "none"
    /\ UNCHANGED <<pri, status, swap_size, bs, pc, pri0, sec0, boot, running, confirmed>>

AppWrite(i) ==
    /\ pc = "app" /\ sec = Blank(SecSectors) /\ tr.SEC = ErasedTrailer
    /\ Size[i] <= SecSectors
    /\ sec' = Written(i, SecSectors)
    /\ spare' = BootableIn(sec')
    /\ UNCHANGED <<pri, status, swap_size, bs, pc, pri0, sec0, tr, boot, running, confirmed, request>>

(* boot_set_pending: magic, then image_ok if permanent, then swap_info.     *)
SetPending(permanent) ==
    /\ pc = "app" /\ CanSchedule(tr.SEC)
    /\ \/ /\ tr' = [tr EXCEPT !.SEC = boot_write_magic(tr.SEC)]
          /\ pc' = IF permanent THEN "pend_ok" ELSE "pend_test"
          /\ request' = "test"
       \/ /\ "SEC" \in TearMagic
          /\ tr' = [tr EXCEPT !.SEC.magic = "BAD"]
          /\ pc' = "reset" /\ UNCHANGED request
    /\ UNCHANGED <<engine, boot, running, confirmed, spare>>

SetPendingImageOk ==
    /\ pc = "pend_ok"
    /\ tr' = [tr EXCEPT !.SEC = boot_write_image_ok(tr.SEC)]
    /\ pc' = "pend_perm"
    /\ request' = "perm"
    /\ UNCHANGED <<engine, boot, running, confirmed, spare>>

SetPendingInfo ==
    \/ pc = "pend_test" /\ Tr("app", "SEC", boot_write_swap_info(tr.SEC, "TEST"))
    \/ pc = "pend_perm" /\ Tr("app", "SEC", boot_write_swap_info(tr.SEC, "PERM"))

SetConfirmed ==
    /\ pc = "app"
    /\ tr' = [tr EXCEPT !.PRI = boot_set_next_active(tr.PRI)]
    /\ confirmed' = TRUE
    /\ UNCHANGED <<engine, pc, boot, running, spare, request>>

(* A reboot, or a power failure between any two writes.                     *)
Reset ==
    /\ pc # "reset"
    /\ pc' = "reset"
    /\ bs' = EnterLoop(StatusReset, 0)
    /\ boot' = BootReset
    /\ UNCHANGED <<pri, sec, status, swap_size, pri0, sec0, tr, history>>

----------------------------------------------------------------------------
BootInit ==
    /\ \E i \in Valid :
           /\ Size[i] <= app_max_size
           /\ pri = Written(i, PriSectors) /\ running = i
    /\ sec = Blank(SecSectors)
    /\ status = 0 /\ swap_size = 0 /\ bs = EnterLoop(StatusReset, 0)
    /\ pc = "app" /\ pri0 = pri /\ sec0 = sec
    /\ tr = [PRI |-> ErasedTrailer, SEC |-> ErasedTrailer]
    /\ boot = BootReset
    /\ confirmed = TRUE /\ spare = None /\ request = "none"

SwapSectors == SwapStep /\ UNCHANGED <<tr, boot, history>>

Prepare == PrepareResume \/ PrepareNothing \/ PrepareSwap \/ PrepareErased \/ PrepareInvalid
SwapBegin ==
    \/ FixScramble \/ FixImageOk \/ FixMagic
    \/ InitScramble \/ InitErase \/ InitSwapInfo \/ InitImageOk \/ InitSwapSize
    \/ InitMagic \/ SecScramble
SwapEnd == SwapRunReturns \/ SetImageOk \/ SetCopyDone

BootStep ==
    \/ Prepare \/ UnstickRevert \/ ScrambleRest \/ RefusedUpgrade
    \/ SwapBegin \/ SwapSectors \/ SwapEnd \/ Validate

AppStep ==
    \/ AppErase \/ \E i \in Images : AppWrite(i)
    \/ \E permanent \in BOOLEAN : SetPending(permanent)
    \/ SetPendingImageOk \/ SetPendingInfo \/ SetConfirmed

BootNext == BootStep \/ AppStep \/ Reset

BootSpec == BootInit /\ [][BootNext]_bootVars

(* The boot loader is the only code running until it starts the             *)
(* application, so nothing but a power failure keeps it from its next step. *)
FairBootSpec == BootSpec /\ WF_bootVars(BootStep)

----------------------------------------------------------------------------
(* Every variable has its type; the status entries stay within what the     *)
(* trailer has room for, and only valid images ever run.                    *)
BootTypeOK ==
    /\ pri \in [0..PriSectors - 1 -> Content]
    /\ sec \in [0..SecSectors - 1 -> Content]
    /\ status \in 0..(3 * MaxImgSectors)
    /\ swap_size \in 0..MaxImgSectors
    /\ tr \in [PRI : Trailers, SEC : Trailers]
    /\ boot \in [source : {"NONE", "PRIMARY"}, swap_type : SwapTypes, type : SwapTypes]
    /\ running \in Valid /\ confirmed \in BOOLEAN
    /\ spare \in Valid \cup {None} /\ request \in {"none", "test", "perm"}

(* Whatever the application schedules and wherever the power fails, there   *)
(* is always an image to boot.                                              *)
NeverBricked == pc # "no_boot"

(* The sector loops are only ever entered, or resumed, in a state they can  *)
(* complete: the invariant of SwapMove holds when they run.                 *)
LoopsEnteredRight ==
    pc \in MovePc \cup SwapPc \cup {"done"} =>
        MoveShape /\ Swap0Shape /\ Swap1Shape /\ DoneShape

(* The device implements the contract: seen from the application, every     *)
(* boot is one atomic step of UpgradeContract.  A revert is forgotten only  *)
(* if the magic of the secondary slot can be half-written: fixup_revert     *)
(* does nothing then.                                                       *)
Contract ==
    INSTANCE UpgradeContract WITH
        up <- pc \in AppPc, forgets <- "SEC" \in TearMagic, KeepsReplaced <- TRUE
ImplementsContract == Contract!Spec

(* Once the resets stop, the device runs an application.                    *)
NoMoreResets == <>[][pc' # "reset"]_bootVars
EventuallyUp == NoMoreResets => <>[](pc \in AppPc)
=============================================================================
