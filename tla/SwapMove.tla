------------------------------ MODULE SwapMove ------------------------------
(***************************************************************************)
(* The sector loop of the "swap using move" upgrade strategy               *)
(* (boot/bootutil/src/swap_move.c).  The images of the two slots are       *)
(* exchanged in place: every sector of the primary slot is first moved up  *)
(* by one, then the sectors of the two slots are exchanged from the bottom.*)
(* After each copied sector one entry of the status area is written, and a *)
(* reset at any point resumes from the last entry found.                   *)
(*                                                                         *)
(* Flash is durable (pri, sec, status, swap_size); struct boot_status and  *)
(* the program counter are in RAM and are rebuilt after a reset.  An erase *)
(* leaves the sector with content Torn, which stands for everything from a *)
(* half-done erase to a half-done copy: no behaviour may depend on it.     *)
(***************************************************************************)
EXTENDS Naturals

CONSTANTS
    Content,       \* what one sector of a slot may hold
    Torn,          \* content of a sector that is being erased or copied to
    PriSectors,    \* sectors of the primary slot below its trailer
    SecSectors,    \* sectors of the secondary slot below its trailer
    MaxImgSectors  \* BOOT_MAX_IMG_SECTORS, sizes the status area

ASSUME GeometryAssumption ==
    /\ PriSectors \in Nat /\ SecSectors \in Nat /\ MaxImgSectors \in Nat
    /\ PriSectors > 1 /\ SecSectors > 0
    /\ PriSectors <= MaxImgSectors

ASSUME ContentAssumption == Torn \in Content

VARIABLES
    pri,       \* primary slot, [0..PriSectors-1 -> Content]
    sec,       \* secondary slot
    status,    \* highest status entry written, 0 when the area is erased
    swap_size, \* swap_size field of the primary trailer, in sectors
    bs,        \* struct boot_status: op, idx, state, swap_size
    pc,        \* where the boot loader is
    pri0, sec0 \* what the slots held when the swap began (ghost)

flash == <<pri, sec, status, swap_size>>
vars == <<pri, sec, status, swap_size, bs, pc, pri0, sec0>>

IDX_0 == 1
STATE_0 == 1
STATE_1 == 2

(* Sizes are counted in sectors, so the loop of find_last_idx returns the   *)
(* size itself, and 1 for an empty swap.                                    *)
find_last_idx(size) == IF size = 0 THEN 1 ELSE size

last_idx == find_last_idx(bs.swap_size)

(* An upgrade fits when the moved image stays below the trailer.            *)
Swappable(size) ==
    /\ find_last_idx(size) < PriSectors
    /\ find_last_idx(size) <= SecSectors

StatusReset == [op |-> "MOVE", idx |-> IDX_0, state |-> STATE_0]

(* Variants of the operators below, with a fault each.                      *)
MoveRedone(found) ==
    IF found < MaxImgSectors
    THEN [op |-> "MOVE", idx |-> IF found = 0 THEN IDX_0 ELSE found, state |-> STATE_0]
    ELSE [op    |-> "SWAP",
          idx   |-> (found - MaxImgSectors) \div 2 + IDX_0,
          state |-> ((found - MaxImgSectors) % 2) + STATE_0]

IdxNotRestarted(b, size) ==
    IF b.op = "MOVE" /\ b.idx > find_last_idx(size)
    THEN [op |-> "SWAP", idx |-> b.idx, state |-> b.state, swap_size |-> size]
    ELSE [op |-> b.op, idx |-> b.idx, state |-> b.state, swap_size |-> size]

(* Entry of the status area (counted from 1) that boot_write_status fills.  *)
boot_status_internal_off(b) ==
    IF b.op = "MOVE" THEN b.idx
                     ELSE MaxImgSectors + 2 * (b.idx - IDX_0) + b.state

(* The op, idx and state that a status area with last entry "found" means.  *)
swap_read_status_bytes(found) ==
    IF found = 0 THEN StatusReset
    ELSE IF found < MaxImgSectors
         THEN [op |-> "MOVE", idx |-> found + IDX_0, state |-> STATE_0]
         ELSE [op    |-> "SWAP",
               idx   |-> (found - MaxImgSectors) \div 2 + IDX_0,
               state |-> ((found - MaxImgSectors) % 2) + STATE_0]

MovePc == {"move_erase", "move_copy", "move_status"}
SwapPc == {"swap0_erase", "swap0_copy", "swap0_status",
           "swap1_erase", "swap1_copy", "swap1_status"}

(* Where the loops of swap_run stand for a boot status b: the move loop     *)
(* runs while a sector is left to move and then restarts idx for the swap.  *)
EnterLoop(b, size) ==
    IF b.op = "MOVE" /\ b.idx > find_last_idx(size)
    THEN [op |-> "SWAP", idx |-> IDX_0, state |-> b.state, swap_size |-> size]
    ELSE [op |-> b.op, idx |-> b.idx, state |-> b.state, swap_size |-> size]

LoopPc(b) ==
    CASE b.op = "MOVE" -> "move_erase"
      [] b.op = "SWAP" /\ b.idx > find_last_idx(b.swap_size) -> "done"
      [] b.op = "SWAP" /\ b.idx <= find_last_idx(b.swap_size) /\ b.state = STATE_0 -> "swap0_erase"
      [] OTHER -> "swap1_erase"

----------------------------------------------------------------------------
(* Variant: the move runs from the bottom.                                  *)
MovedFromBottom == bs.idx

(* boot_move_sector_up: pri[new_idx - 1] goes to pri[new_idx].  The loop    *)
(* runs from the top, so the destination is last_idx - idx + 1.             *)
new_idx == last_idx - bs.idx + 1

MoveErase ==
    /\ pc = "move_erase"
    /\ pri' = [pri EXCEPT ![new_idx] = Torn]
    /\ pc' = "move_copy"
    /\ UNCHANGED <<sec, status, swap_size, bs, pri0, sec0>>

MoveCopy ==
    /\ pc = "move_copy"
    /\ pri' = [pri EXCEPT ![new_idx] = pri[new_idx - 1]]
    /\ pc' = "move_status"
    /\ UNCHANGED <<sec, status, swap_size, bs, pri0, sec0>>

MoveStatus ==
    /\ pc = "move_status"
    /\ status' = boot_status_internal_off(bs)
    /\ bs' = EnterLoop([bs EXCEPT !.idx = bs.idx + 1], bs.swap_size)
    /\ pc' = LoopPc(bs')
    /\ UNCHANGED <<pri, sec, swap_size, pri0, sec0>>

(* boot_swap_sectors, first half: sec[idx - 1] goes to pri[idx - 1].        *)
Swap0Erase ==
    /\ pc = "swap0_erase"
    /\ pri' = [pri EXCEPT ![bs.idx - 1] = Torn]
    /\ pc' = "swap0_copy"
    /\ UNCHANGED <<sec, status, swap_size, bs, pri0, sec0>>

Swap0Copy ==
    /\ pc = "swap0_copy"
    /\ pri' = [pri EXCEPT ![bs.idx - 1] = sec[bs.idx - 1]]
    /\ pc' = "swap0_status"
    /\ UNCHANGED <<sec, status, swap_size, bs, pri0, sec0>>

Swap0Status ==
    /\ pc = "swap0_status"
    /\ status' = boot_status_internal_off(bs)
    /\ bs' = [bs EXCEPT !.state = STATE_1]
    /\ pc' = "swap1_erase"
    /\ UNCHANGED <<pri, sec, swap_size, pri0, sec0>>

(* Second half: the moved-up pri[idx] goes to sec[idx - 1].                 *)
Swap1Erase ==
    /\ pc = "swap1_erase"
    /\ sec' = [sec EXCEPT ![bs.idx - 1] = Torn]
    /\ pc' = "swap1_copy"
    /\ UNCHANGED <<pri, status, swap_size, bs, pri0, sec0>>

(* Variant: the primary sector that was just overwritten is copied.         *)
CopiedFromOwnSector ==
    /\ pc = "swap1_copy"
    /\ sec' = [sec EXCEPT ![bs.idx - 1] = pri[bs.idx - 1]]
    /\ pc' = "swap1_status"
    /\ UNCHANGED <<pri, status, swap_size, bs, pri0, sec0>>

Swap1Copy ==
    /\ pc = "swap1_copy"
    /\ sec' = [sec EXCEPT ![bs.idx - 1] = pri[bs.idx]]
    /\ pc' = "swap1_status"
    /\ UNCHANGED <<pri, status, swap_size, bs, pri0, sec0>>

(* Variant: idx is not advanced.                                            *)
IdxNotAdvanced ==
    /\ pc = "swap1_status"
    /\ status' = boot_status_internal_off(bs)
    /\ bs' = [bs EXCEPT !.state = STATE_0]
    /\ pc' = LoopPc(bs')
    /\ UNCHANGED <<pri, sec, swap_size, pri0, sec0>>

Swap1Status ==
    /\ pc = "swap1_status"
    /\ status' = boot_status_internal_off(bs)
    /\ bs' = [bs EXCEPT !.idx = bs.idx + 1, !.state = STATE_0]
    /\ pc' = LoopPc(bs')
    /\ UNCHANGED <<pri, sec, swap_size, pri0, sec0>>

SwapStep ==
    \/ MoveErase  \/ MoveCopy  \/ MoveStatus
    \/ Swap0Erase \/ Swap0Copy \/ Swap0Status
    \/ Swap1Erase \/ Swap1Copy \/ Swap1Status

(* A reset anywhere in the loops: RAM is rebuilt from the status area and   *)
(* the swap_size field, and swap_run is entered again.                      *)
ResetAndResume ==
    /\ pc \in MovePc \cup SwapPc \cup {"done"}
    /\ bs' = EnterLoop(swap_read_status_bytes(status), swap_size)
    /\ pc' = LoopPc(bs')
    /\ UNCHANGED <<pri, sec, status, swap_size, pri0, sec0>>

----------------------------------------------------------------------------
(* A swap of two slots with any content that fits, its status area freshly  *)
(* initialised by swap_status_init.                                         *)
Init ==
    /\ pri \in [0..PriSectors - 1 -> Content]
    /\ sec \in [0..SecSectors - 1 -> Content]
    /\ swap_size \in {n \in 1..SecSectors : Swappable(n)}
    /\ status = 0
    /\ bs = EnterLoop(StatusReset, swap_size)
    /\ pc = "move_erase"
    /\ pri0 = pri /\ sec0 = sec

Next == SwapStep \/ ResetAndResume

Spec == Init /\ [][Next]_vars

----------------------------------------------------------------------------
(* Every variable has its type; bs.idx and the status entries stay within   *)
(* what the slot has sectors for.                                           *)
TypeOK ==
    /\ pri \in [0..PriSectors - 1 -> Content]
    /\ sec \in [0..SecSectors - 1 -> Content]
    /\ pri0 \in [0..PriSectors - 1 -> Content]
    /\ sec0 \in [0..SecSectors - 1 -> Content]
    /\ swap_size \in {n \in 1..SecSectors : Swappable(n)}
    /\ status \in 0..(3 * MaxImgSectors)
    /\ bs \in [op : {"MOVE", "SWAP"}, idx : 1..MaxImgSectors,
               state : {STATE_0, STATE_1}, swap_size : {swap_size}]
    /\ pc \in MovePc \cup SwapPc \cup {"done"}

(* A reset never loses data: at every instant each sector of both images    *)
(* being exchanged is intact somewhere in the slots.                        *)
NoSectorLost ==
    \A k \in 0..find_last_idx(swap_size) - 1 :
        /\ pri0[k] \in {pri[k], pri[k + 1], sec[k]}
        /\ sec0[k] \in {sec[k], pri[k]}

(* However often the loops were interrupted and resumed, when swap_run      *)
(* returns the two images have changed places, sector by sector.            *)
SwapDone ==
    pc = "done" => \A k \in 0..find_last_idx(swap_size) - 1 :
                       /\ pri[k] = sec0[k]
                       /\ sec[k] = pri0[k]

(* The status area describes the flash: resuming from it redoes at most the *)
(* sector in progress and never a completed one.                            *)
ResumeLosesNoProgress ==
    LET r == EnterLoop(swap_read_status_bytes(status), swap_size)
    IN r.op = bs.op /\ r.idx = bs.idx /\ r.state = bs.state

(* What the status area and struct boot_status say about the flash, for     *)
(* each of the loops; together the inductive invariant of the swap.         *)
Exchanged(n) == \A j \in 0..n - 1 : pri[j] = sec0[j] /\ sec[j] = pri0[j]
MovedUpFrom(n) == \A j \in n..last_idx : pri[j] = pri0[j - 1]
SecUntouchedFrom(n) == \A j \in n..last_idx - 1 : sec[j] = sec0[j]

MoveShape ==
    pc \in MovePc =>
        /\ bs.op = "MOVE" /\ bs.state = STATE_0 /\ bs.idx \in 1..last_idx
        /\ status = bs.idx - 1
        /\ \A j \in 0..new_idx - 1 : pri[j] = pri0[j]
        /\ MovedUpFrom(new_idx + 1)
        /\ SecUntouchedFrom(0)
        /\ pc = "move_status" => pri[new_idx] = pri0[new_idx - 1]

Swap0Shape ==
    pc \in {"swap0_erase", "swap0_copy", "swap0_status"} =>
        /\ bs.op = "SWAP" /\ bs.state = STATE_0 /\ bs.idx \in 1..last_idx
        /\ status = IF bs.idx = 1 THEN last_idx
                                  ELSE MaxImgSectors + 2 * (bs.idx - 1)
        /\ Exchanged(bs.idx - 1)
        /\ MovedUpFrom(bs.idx)
        /\ SecUntouchedFrom(bs.idx - 1)
        /\ pc = "swap0_status" => pri[bs.idx - 1] = sec0[bs.idx - 1]

Swap1Shape ==
    pc \in {"swap1_erase", "swap1_copy", "swap1_status"} =>
        /\ bs.op = "SWAP" /\ bs.state = STATE_1 /\ bs.idx \in 1..last_idx
        /\ status = MaxImgSectors + 2 * (bs.idx - 1) + 1
        /\ Exchanged(bs.idx - 1)
        /\ pri[bs.idx - 1] = sec0[bs.idx - 1]
        /\ MovedUpFrom(bs.idx)
        /\ SecUntouchedFrom(bs.idx)
        /\ pc = "swap1_status" => sec[bs.idx - 1] = pri0[bs.idx - 1]

DoneShape ==
    pc = "done" =>
        /\ bs.op = "SWAP" /\ bs.state = STATE_0 /\ bs.idx = last_idx + 1
        /\ status = MaxImgSectors + 2 * last_idx
        /\ Exchanged(last_idx)

(* The status entry last written determines, at every instant, where each   *)
(* sector of both images is.                                                *)
SwapInv == TypeOK /\ MoveShape /\ Swap0Shape /\ Swap1Shape /\ DoneShape

=============================================================================
