----------------------------- MODULE SwapOffset -----------------------------
(***************************************************************************)
(* The sector loops of the "swap using offset" upgrade strategy            *)
(* (boot/bootutil/src/swap_offset.c), the default of a two-slot build.  A  *)
(* new image is stored one sector up in the secondary slot, so that an     *)
(* upgrade can exchange the slots from the bottom (pri[i] to sec[i], then  *)
(* sec[i+1] to pri[i]); a revert runs the mirror image of that from the    *)
(* top.  A sector past the end of an image is skipped, which is decided    *)
(* from the image headers; after a reset the headers are looked for where  *)
(* the swap must have left them.                                           *)
(*                                                                         *)
(* Flash is durable (pri, sec, status, swap_size, revert).  bs also holds  *)
(* the sizes the headers gave, used_sectors_pri and used_sectors_sec.      *)
(***************************************************************************)
EXTENDS Naturals

CONSTANTS
    Content,       \* what one sector of a slot may hold
    Torn,          \* content of a sector being erased or copied to
    Used,          \* Used[c]: sectors of the image c is the header of, or 0
    PriSectors,    \* sectors of the primary slot below its trailer
    SecSectors     \* sectors of the secondary slot below its trailer

ASSUME GeometryAssumption ==
    /\ PriSectors \in Nat /\ SecSectors \in Nat
    /\ PriSectors > 0 /\ SecSectors > 1

ASSUME ContentAssumption ==
    /\ Torn \in Content
    /\ Used \in [Content -> Nat]
    /\ Used[Torn] = 0

VARIABLES
    pri, sec,   \* the slots
    status,     \* highest status entry written, 0 when the area is erased
    swap_size,  \* swap_size field of the primary trailer, in sectors
    revert,     \* whether the trailer says this swap is a revert
    bs,         \* struct boot_status and the sizes taken from the headers
    pc,
    pri0, sec0  \* what the slots held when the swap began (ghost)

vars == <<pri, sec, status, swap_size, revert, bs, pc, pri0, sec0>>

IDX_0 == 1
STATE_0 == 1
STATE_1 == 2

Larger(m, n) == IF m > n THEN m ELSE n

(* The last sector to swap, counted from 0.                                 *)
find_last_idx(size) == IF size = 0 THEN 0 ELSE size - 1

last_idx == find_last_idx(bs.swap_size)

(* An image of n sectors passes app_max_size: it leaves the trailers and    *)
(* the offset sector of the secondary slot alone.                           *)
Fits(n) == n <= PriSectors /\ n < SecSectors

(* Variant: the outgoing header is looked for in the primary slot still.    *)
HeaderTakenForStill(b, last) ==
    IF revert
    THEN IF b.idx - IDX_0 > last THEN sec[1] ELSE pri[0]
    ELSE IF (b.idx > IDX_0 \/ b.state = STATE_1) /\ b.idx <= last
         THEN sec[0] ELSE pri[0]

boot_status_internal_off(b) == 2 * (b.idx - IDX_0) + b.state

swap_read_status_bytes(found) ==
    [idx |-> found \div 2 + IDX_0, state |-> (found % 2) + STATE_0]

(* Where boot_read_image_header looks for the header of the image that      *)
(* started in the primary slot, given how far the swap has come.            *)
PriHeader(b, last) ==
    IF revert
    THEN IF b.idx - IDX_0 > last \/ (b.idx - IDX_0 = last /\ b.state = STATE_1)
         THEN sec[1] ELSE pri[0]
    ELSE IF (b.idx > IDX_0 \/ b.state = STATE_1) /\ b.idx <= last
         THEN sec[0] ELSE pri[0]

(* The same for the image that started in the secondary slot.               *)
SecHeader(b, last) ==
    IF revert
    THEN IF b.idx - IDX_0 > last THEN pri[0] ELSE sec[0]
    ELSE IF b.idx > IDX_0 THEN pri[0] ELSE sec[1]

(* boot_status with the image sizes read through those headers.             *)
WithHeaders(b, size) ==
    [idx |-> b.idx, state |-> b.state, swap_size |-> size,
     used_pri |-> Used[PriHeader(b, find_last_idx(size))],
     used_sec |-> Used[SecHeader(b, find_last_idx(size))]]

LoopPc(b) ==
    CASE b.idx - IDX_0 > find_last_idx(b.swap_size) -> IF revert THEN "clean" ELSE "done"
      [] b.idx - IDX_0 <= find_last_idx(b.swap_size) /\ b.state = STATE_0 -> "out_erase"
      [] OTHER -> "in_erase"

(* Variants: a revert that goes from the bottom, and a skip that comes a    *)
(* sector early.                                                            *)
NotMirrored == bs.idx - IDX_0
(* The sector of this iteration: a revert goes from the top.                *)
idx == IF revert THEN last_idx - (bs.idx - IDX_0) ELSE bs.idx - IDX_0

SkipsLastSector == idx + 1 >= bs.used_pri

(* Where the primary image goes to, and the secondary one comes from.       *)
out_idx == IF revert THEN idx + 1 ELSE idx
in_idx == IF revert THEN idx ELSE idx + 1

skip_primary == idx > bs.used_pri
skip_secondary == idx > bs.used_sec

----------------------------------------------------------------------------
(* boot_swap_sectors and boot_swap_sectors_revert, first half: pri[idx]     *)
(* goes to the secondary slot.                                              *)
OutErase ==
    /\ pc = "out_erase"
    /\ sec' = IF skip_primary THEN sec ELSE [sec EXCEPT ![out_idx] = Torn]
    /\ pc' = "out_copy"
    /\ UNCHANGED <<pri, status, swap_size, revert, bs, pri0, sec0>>

OutCopy ==
    /\ pc = "out_copy"
    /\ sec' = IF skip_primary THEN sec ELSE [sec EXCEPT ![out_idx] = pri[idx]]
    /\ pc' = "out_status"
    /\ UNCHANGED <<pri, status, swap_size, revert, bs, pri0, sec0>>

OutStatus ==
    /\ pc = "out_status"
    /\ status' = boot_status_internal_off(bs)
    /\ bs' = [bs EXCEPT !.state = STATE_1]
    /\ pc' = "in_erase"
    /\ UNCHANGED <<pri, sec, swap_size, revert, pri0, sec0>>

(* Second half: the secondary image's sector comes to pri[idx].             *)
InErase ==
    /\ pc = "in_erase"
    /\ pri' = IF skip_secondary THEN pri ELSE [pri EXCEPT ![idx] = Torn]
    /\ pc' = "in_copy"
    /\ UNCHANGED <<sec, status, swap_size, revert, bs, pri0, sec0>>

InCopy ==
    /\ pc = "in_copy"
    /\ pri' = IF skip_secondary THEN pri ELSE [pri EXCEPT ![idx] = sec[in_idx]]
    /\ pc' = "in_status"
    /\ UNCHANGED <<sec, status, swap_size, revert, bs, pri0, sec0>>

(* Variant: idx is not advanced.                                            *)
IdxNotAdvanced ==
    /\ pc = "in_status"
    /\ status' = boot_status_internal_off(bs)
    /\ bs' = [bs EXCEPT !.state = STATE_0]
    /\ pc' = LoopPc(bs')
    /\ UNCHANGED <<pri, sec, swap_size, revert, pri0, sec0>>

InStatus ==
    /\ pc = "in_status"
    /\ status' = boot_status_internal_off(bs)
    /\ bs' = [bs EXCEPT !.idx = bs.idx + 1, !.state = STATE_0]
    /\ pc' = LoopPc(bs')
    /\ UNCHANGED <<pri, sec, swap_size, revert, pri0, sec0>>

(* A revert ends by scrambling the first sector of the secondary slot.      *)
CleanFirstSector ==
    /\ pc = "clean"
    /\ sec' = [sec EXCEPT ![0] = Torn]
    /\ pc' = "done"
    /\ UNCHANGED <<pri, status, swap_size, revert, bs, pri0, sec0>>

SwapStep ==
    \/ OutErase \/ OutCopy \/ OutStatus
    \/ InErase  \/ InCopy  \/ InStatus
    \/ CleanFirstSector

(* A reset anywhere: the status area gives idx and state, and both headers  *)
(* must be found where those say, or the boot loader gives the swap up.     *)
ResetAndResume ==
    /\ bs' = WithHeaders(swap_read_status_bytes(status), swap_size)
    /\ pc' = IF bs'.used_pri = 0 \/ bs'.used_sec = 0 THEN "given_up" ELSE LoopPc(bs')
    /\ UNCHANGED <<pri, sec, status, swap_size, revert, pri0, sec0>>

----------------------------------------------------------------------------
(* The header of the image that comes in: an upgrade is stored one sector   *)
(* up, the image a revert restores at the bottom.                           *)
Incoming0 == IF revert THEN sec0[0] ELSE sec0[1]

(* Any two images that fit.                                                 *)
StartState ==
    /\ revert \in BOOLEAN
    /\ pri0 = pri /\ sec0 = sec
    /\ Used[pri[0]] > 0 /\ Fits(Used[pri[0]])
    /\ Used[Incoming0] > 0 /\ Fits(Used[Incoming0])
    /\ swap_size = Larger(Used[pri[0]], Used[Incoming0])
    /\ status = 0
    /\ bs = WithHeaders(swap_read_status_bytes(0), swap_size)
    /\ pc = "out_erase"

Init ==
    /\ pri \in [0..PriSectors - 1 -> Content]
    /\ sec \in [0..SecSectors - 1 -> Content]
    /\ StartState

Next == SwapStep \/ ResetAndResume

Spec == Init /\ [][Next]_vars

----------------------------------------------------------------------------
OldSize == Used[pri0[0]]
NewSize == Used[Incoming0]

(* Every variable has its type; bs.idx and the status entries stay within   *)
(* what the slot has sectors for.                                           *)
TypeOK ==
    /\ pri \in [0..PriSectors - 1 -> Content]
    /\ sec \in [0..SecSectors - 1 -> Content]
    /\ pri0 \in [0..PriSectors - 1 -> Content]
    /\ sec0 \in [0..SecSectors - 1 -> Content]
    /\ revert \in BOOLEAN
    /\ swap_size \in 1..PriSectors
    /\ status \in 0..(2 * PriSectors)
    /\ bs \in [idx : 1..PriSectors + 1, state : {STATE_0, STATE_1},
               swap_size : {swap_size}, used_pri : Nat, used_sec : Nat]
    /\ pc \in {"out_erase", "out_copy", "out_status", "in_erase", "in_copy",
               "in_status", "clean", "done", "given_up"}

(* When the swap has finished the outgoing image is whole in the secondary  *)
(* slot, however often it was reset: without that there is no revert.       *)
OldImageKept ==
    pc = "done" => \A k \in 0..OldSize - 1 :
                       sec[IF revert THEN k + 1 ELSE k] = pri0[k]

(* When the swap has finished the incoming image is whole in the primary    *)
(* slot.                                                                    *)
NewImageInstalled ==
    pc = "done" => \A k \in 0..NewSize - 1 :
                       pri[k] = sec0[IF revert THEN k ELSE k + 1]

(* boot_read_image_header compares the 1-based bs->idx with the 0-based     *)
(* last_idx, so for the last sector of an upgrade it takes the header in    *)
(* the primary slot for the outgoing image's.  That does no harm when the   *)
(* swap is longer than one sector and the outgoing image is at most one     *)
(* sector longer than the new one.                                          *)
LookupHarmless == revert \/ (swap_size > 1 /\ OldSize <= NewSize + 1)

(* swap_run and its resume: at the end the incoming image is whole in the   *)
(* primary slot and, in those cases, the outgoing one is whole in the       *)
(* secondary slot, so that it can be reverted to.                           *)
SwapDone == NewImageInstalled /\ (LookupHarmless => OldImageKept)

(* At every instant of the swap each sector of both images is intact in one *)
(* of its two places, or in the place it leaves last.                       *)
NoSectorLost ==
    /\ \A k \in 0..NewSize - 1 :
           sec0[IF revert THEN k ELSE k + 1] \in
               {pri[k], sec[IF revert THEN k ELSE k + 1]}
    /\ LookupHarmless => \A k \in 0..OldSize - 1 :
                             pri0[k] \in {pri[k], sec[IF revert THEN k + 1 ELSE k]}

(* Once the power stays on the swap runs to completion: in those cases no   *)
(* resume gives it up for want of a header (boot_read_image_header).        *)
PowerStaysOn == <>[][~ResetAndResume]_vars
SwapCompletes == PowerStaysOn => <>(LookupHarmless => pc = "done")
=============================================================================
