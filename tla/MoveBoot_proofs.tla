-------------------------- MODULE MoveBoot_proofs --------------------------
(* Proofs about a device that swaps using move, for slots and images of any  *)
(* size, any use of it by the application, and resets between any two writes.*)
EXTENDS MoveBoot, SwapMove_proofs

USE DEF IDX_0, STATE_0, STATE_1

-----------------------------------------------------------------------------
(* What a boot does to the pair of images, seen without sectors: image a is  *)
(* in the primary slot, b in the secondary one (None if that is of no use),  *)
(* and op says what is still to be done with them.                           *)

Asked ==
    CASE request = "test" -> "test"
      [] request = "perm" -> "perm"
      [] request = "none" /\ confirmed -> "none"
      [] OTHER -> "revert"

(* What the trailers can ask for between two runs of the application, with   *)
(* the history as the last run left it.  A revert that fixup_revert has      *)
(* dressed up is "perm"; a test image whose one boot was missed is reverted. *)
Stage(a, b, op) ==
    \/ a = running /\ b = spare /\ op = Asked
    \/ /\ spare = None /\ a = running /\ b = None
       /\ op = "none" \/ (op = "revert" /\ ~confirmed)
    \/ /\ spare # None /\ Asked = "test" /\ a = spare /\ b = running
       /\ op \in {"revert", "perm"} \/ (op = "none" /\ "SEC" \in TearMagic)
    \/ spare # None /\ Asked = "test" /\ a = running /\ b = spare /\ op = "none"
    \/ spare # None /\ Asked \in {"perm", "revert"} /\ a = spare /\ b = running /\ op = "none"
    \/ /\ spare # None /\ Asked = "revert" /\ a = running /\ b = spare
       /\ op = "perm" \/ (op = "none" /\ "SEC" \in TearMagic)

Holds(slot, i) ==
    i \in Valid /\ Size[i] <= app_max_size /\ \A k \in 0..Size[i] - 1 : slot[k] = <<i, k>>

SwapSize(a, b) == IF Size[b] > Size[a] THEN Size[b] ELSE Size[a]

(* The primary trailer is not that of a swap under way.                      *)
Settled(p) == ~(p.magic = "GOOD" /\ p.copy_done = "UNSET")

(* An erased magic with nothing set before it.                               *)
Clean(s) == s.magic = "UNSET" => s.image_ok = "UNSET"

(* No swap is under way; the trailers ask for op.                            *)
Idle(a, b, op) ==
    /\ Holds(pri, a) /\ BootableIn(sec) = b
    /\ op = "none" => tr.SEC.magic # "GOOD" /\ Settled(tr.PRI) /\ ~Unconfirmed(tr.PRI) /\ Clean(tr.SEC)
    /\ op = "revert" => tr.SEC.magic # "GOOD" /\ Unconfirmed(tr.PRI)
    /\ op = "test" => tr.SEC.magic = "GOOD" /\ tr.SEC.image_ok = "UNSET"
    /\ op = "perm" => tr.SEC.magic = "GOOD" /\ tr.SEC.image_ok = "SET"
    /\ b = None => Settled(tr.PRI) /\ (Unconfirmed(tr.PRI) => ~confirmed)

(* Where the sectors are, as far as the status area tells.                   *)
Moving ==
    /\ status \in 1..swap_size - 1
    /\ \A j \in 0..swap_size - status - 1 : pri[j] = pri0[j]
    /\ \A j \in swap_size - status + 1..swap_size : pri[j] = pri0[j - 1]
    /\ \A j \in 0..swap_size - 1 : sec[j] = sec0[j]

Swapping(k) ==
    /\ Exchanged(k - 1)
    /\ \A j \in k..swap_size : pri[j] = pri0[j - 1]

Swapping0(k) ==
    /\ status = IF k = 1 THEN swap_size ELSE MaxImgSectors + 2 * (k - 1)
    /\ Swapping(k)
    /\ \A j \in k - 1..swap_size - 1 : sec[j] = sec0[j]

Swapping1(k) ==
    /\ status = MaxImgSectors + 2 * (k - 1) + 1
    /\ Swapping(k)
    /\ pri[k - 1] = sec0[k - 1]
    /\ \A j \in k..swap_size - 1 : sec[j] = sec0[j]

Swapped == status = MaxImgSectors + 2 * swap_size /\ Exchanged(swap_size)

Progress ==
    \/ Moving
    \/ \E k \in 1..swap_size : Swapping0(k) \/ Swapping1(k)
    \/ Swapped

(* The swap_info written for an operation.                                   *)
InfoFor(op) == IF op = "test" THEN {"TEST"} ELSE {"PERM", "REVERT"}

(* The primary trailer of a swap for op, with the magic or not.              *)
SwapTrailer(p, op) ==
    /\ p.copy_done = "UNSET" /\ p.swap_info \in InfoFor(op)
    /\ op = "test" => p.image_ok = "UNSET"

(* The flash of a swap of a and b, whose first entry may not be written.     *)
BusyFlash(a, b) ==
    /\ IF status = 0 THEN Holds(pri, a) /\ Holds(sec, b)
                     ELSE Holds(pri0, a) /\ Holds(sec0, b) /\ Progress
    /\ swap_size = SwapSize(a, b)

(* A swap of a and b is under way.                                           *)
Busy(a, b, op) ==
    /\ op \in {"test", "perm"}
    /\ BusyFlash(a, b)
    /\ tr.PRI.magic = "GOOD" /\ SwapTrailer(tr.PRI, op)
    /\ tr.SEC.magic # "GOOD" /\ (status # 0 => tr.SEC = ErasedTrailer)

Durable(a, b, op) == Idle(a, b, op) \/ Busy(a, b, op)

-----------------------------------------------------------------------------
(* What holds at each place of the boot loader.                              *)

LoopPcs == MovePc \cup SwapPc \cup {"done"}
FixPc == {"fix_scramble", "fix_ok", "fix_magic"}
InitPc == {"init_scramble", "init_erase", "init_info", "init_ok", "init_size", "init_magic"}
FinPc == {"fin_ok", "fin_done"}
RefusedPc == {"unstick", "scramble_rest", "refused"}

(* The operation the boot loader carries out.                                *)
Target == IF boot.type = "TEST" THEN "test" ELSE "perm"

Running ==
    /\ boot.swap_type = boot.type /\ boot.type \in {"TEST", "PERM", "REVERT"}

AtApp(a, b, op) ==
    pc \in AppPc =>
        /\ a = running /\ b = spare /\ op = Asked
        /\ Settled(tr.PRI) /\ confirmed = ~Unconfirmed(tr.PRI)
        /\ Clean(tr.SEC) /\ Idle(a, b, op)
        /\ pc = "pend_ok" => request = "test"
        /\ pc \in {"pend_ok", "pend_test", "pend_perm"} => tr.SEC.magic = "GOOD"

AtFix(a, b, op) ==
    pc \in FixPc =>
        /\ Running /\ boot.type = "REVERT"
        /\ IF boot.source = "PRIMARY" THEN Busy(a, b, op) /\ op = "perm" /\ status = 0
                                      ELSE Idle(a, b, op) /\ op = "revert"
        /\ Holds(pri, a) /\ Holds(sec, b)
        /\ bs = EnterLoop(StatusReset, SwapSize(a, b))
        /\ pc = "fix_magic" => tr.SEC.image_ok = "SET"

AtInit(a, b, op) ==
    pc \in InitPc =>
        /\ Running /\ Idle(a, b, op) /\ Holds(sec, b)
        /\ Stage(a, b, Target)
        /\ bs = EnterLoop(StatusReset, SwapSize(a, b))
        /\ \/ tr.SEC.magic = "GOOD" /\ op = Target
           \/ /\ tr.SEC.magic = "BAD" /\ "SEC" \in TearMagic
              /\ op = IF pc = "init_scramble" THEN "revert" ELSE "none"
              /\ boot.type = "REVERT"
        /\ pc # "init_scramble" => tr.PRI.magic = "UNSET" /\ tr.PRI.copy_done = "UNSET"
        /\ pc \in {"init_erase", "init_info", "init_ok"} => tr.PRI.image_ok = "UNSET"
        /\ pc \in {"init_info", "init_ok", "init_size", "init_magic"} => status = 0
        /\ pc \in {"init_ok", "init_size", "init_magic"} => SwapTrailer(tr.PRI, Target)
        /\ pc = "init_magic" => swap_size = SwapSize(a, b)

AtSec(a, b, op) ==
    pc = "sec_scramble" =>
        /\ Running /\ Holds(pri, a) /\ Holds(sec, b)
        /\ Stage(a, b, Target)
        /\ tr.PRI.magic = "GOOD" /\ SwapTrailer(tr.PRI, Target)
        /\ status = 0 /\ swap_size = SwapSize(a, b)
        /\ bs = EnterLoop(StatusReset, SwapSize(a, b))

AtLoop(a, b, op) ==
    pc \in LoopPcs =>
        /\ Running /\ op = Target /\ Busy(a, b, op) /\ tr.SEC = ErasedTrailer
        /\ SwapInv /\ Holds(pri0, a) /\ Holds(sec0, b)

AtFin(a, b, op) ==
    pc \in FinPc =>
        /\ Running /\ op = Target /\ Busy(a, b, op) /\ Swapped
        /\ pc = "fin_done" /\ op = "perm" => tr.PRI.image_ok = "SET"

AtRefused(a, b, op) ==
    /\ pc \in RefusedPc => boot.type = "NONE" /\ b = None /\ Idle(a, b, op)
    /\ pc \in {"unstick", "refused"} => tr.SEC = ErasedTrailer
    /\ pc = "unstick" => sec[0] = Torn
    /\ pc = "refused" => op \in {"none", "revert"}

AtValidate(a, b, op) ==
    pc = "validate" =>
        /\ Idle(a, b, op) /\ Clean(tr.SEC)
        /\ \/ op = "none"
           \/ op = "revert" /\ b = None
           \/ op = "revert" /\ a = spare /\ b = running /\ request = "test" /\ spare # None

BootPc == {"reset", "sec_scramble", "validate"}
              \cup LoopPcs \cup FixPc \cup InitPc \cup FinPc \cup RefusedPc

At(a, b, op) ==
    /\ AtApp(a, b, op) /\ AtFix(a, b, op) /\ AtInit(a, b, op) /\ AtSec(a, b, op)
    /\ AtLoop(a, b, op) /\ AtFin(a, b, op) /\ AtRefused(a, b, op) /\ AtValidate(a, b, op)

Ops == {"none", "test", "perm", "revert"}

Typed ==
    /\ BootTypeOK /\ pc \in AppPc \cup BootPc
    /\ pri0 \in [0..PriSectors - 1 -> Content] /\ sec0 \in [0..SecSectors - 1 -> Content]
    /\ tr.SEC.magic = "BAD" => "SEC" \in TearMagic

Inv(a, b, op) == Stage(a, b, op) /\ Durable(a, b, op) /\ At(a, b, op)

BootInv ==
    Typed /\ \E a \in Valid, b \in Valid \cup {None}, op \in Ops : Inv(a, b, op)

-----------------------------------------------------------------------------
(* Images and slots.                                                         *)

LEMMA AppMaxSize ==
    /\ app_max_size \in Nat /\ app_max_size < PriSectors /\ app_max_size <= SecSectors
    /\ app_max_size < MaxImgSectors
  BY GeometryAssumption DEF app_max_size

LEMMA ImageFacts ==
    ASSUME NEW i \in Valid
    PROVE  /\ i \in Images /\ i # None
           /\ Size[i] \in Nat /\ Size[i] > 0
           /\ \A k \in 0..Size[i] - 1 : <<i, k>> \in Content /\ <<i, k>> # Torn
  BY ImagesAssumption

(* A slot that holds an image is found to hold it.                           *)
LEMMA HoldsBootable ==
    ASSUME NEW slot, NEW i, Holds(slot, i)
    PROVE  /\ i \in Valid /\ i # None
           /\ slot[0] = <<i, 0>> /\ slot[0] # Torn
           /\ Header(slot[0]) = i /\ BootableIn(slot) = i
<1>1. i \in Valid /\ slot[0] = <<i, 0>> /\ slot[0] # Torn
  BY ImageFacts DEF Holds
<1>2. Header(slot[0]) = i
  BY <1>1 DEF Header
<1>3. BootableIn(slot) = i
  BY <1>1, <1>2 DEF Holds, BootableIn
<1> QED
  BY <1>1, <1>2, <1>3, ImageFacts

LEMMA BootableHolds ==
    ASSUME NEW slot
    PROVE  /\ BootableIn(slot) \in Valid \cup {None}
           /\ BootableIn(slot) # None => Holds(slot, BootableIn(slot))
  BY DEF BootableIn, Holds

LEMMA TornNotBootable ==
    ASSUME NEW slot, slot[0] = Torn
    PROVE  BootableIn(slot) = None
<1>1. None \notin Valid
  BY ImagesAssumption
<1>2. Header(slot[0]) = None
  BY DEF Header
<1> QED
  BY <1>1, <1>2 DEF BootableIn

LEMMA BlankNotBootable == BootableIn(Blank(SecSectors)) = None
<1>1. Blank(SecSectors)[0] = Torn
  BY GeometryAssumption DEF Blank
<1> QED
  BY <1>1, TornNotBootable

(* What is exchanged covers both images, and fits.                           *)
LEMMA SwapSizeFacts ==
    ASSUME NEW a \in Valid, NEW b \in Valid, Size[a] <= app_max_size, Size[b] <= app_max_size
    PROVE  /\ SwapSize(a, b) \in 1..SecSectors /\ Swappable(SwapSize(a, b))
           /\ SwapSize(a, b) \in Nat /\ SwapSize(a, b) > 0 /\ SwapSize(a, b) < PriSectors
           /\ SwapSize(a, b) < MaxImgSectors
           /\ Size[a] <= SwapSize(a, b) /\ Size[b] <= SwapSize(a, b)
           /\ find_last_idx(SwapSize(a, b)) = SwapSize(a, b)
<1>1. /\ Size[a] \in Nat /\ Size[a] > 0 /\ Size[b] \in Nat /\ Size[b] > 0
  BY ImageFacts
<1> QED
  BY <1>1, AppMaxSize, GeometryAssumption DEF SwapSize, Swappable, find_last_idx

(* An image is held by any slot with the same first sectors.                 *)
LEMMA HoldsSame ==
    ASSUME NEW s, NEW t, NEW i, NEW n \in Nat, Holds(s, i), Size[i] <= n,
           \A k \in 0..n - 1 : t[k] = s[k]
    PROVE  Holds(t, i)
<1>1. Size[i] \in Nat
  BY ImageFacts DEF Holds
<1> QED
  BY <1>1 DEF Holds

(* boot_status at the start of a swap.                                       *)
LEMMA EnterStart ==
    ASSUME NEW n \in Nat, n > 0
    PROVE  /\ EnterLoop(StatusReset, n) = [op |-> "MOVE", idx |-> 1, state |-> 1, swap_size |-> n]
           /\ LoopPc(EnterLoop(StatusReset, n)) = "move_erase"
           /\ EnterLoop(StatusReset, n).swap_size = n
<1>1. EnterLoop(StatusReset, n) = [op |-> "MOVE", idx |-> 1, state |-> 1, swap_size |-> n]
  BY DEF EnterLoop, StatusReset, find_last_idx
<1> QED
  BY <1>1 DEF LoopPc

-----------------------------------------------------------------------------
(* Trailers.                                                                 *)

LEMMA TrailerWrites ==
    ASSUME NEW t \in Trailers
    PROVE  /\ boot_write_magic(t) \in Trailers /\ boot_write_image_ok(t) \in Trailers
           /\ boot_write_copy_done(t) \in Trailers
           /\ [t EXCEPT !.magic = "BAD"] \in Trailers
           /\ \A i \in {"NONE", "TEST", "PERM", "REVERT"} : boot_write_swap_info(t, i) \in Trailers
           /\ ErasedTrailer \in Trailers
  BY DEF Trailers, boot_write_magic, boot_write_image_ok, boot_write_copy_done,
         boot_write_swap_info, ErasedTrailer

(* The stages of a boot.                                                     *)
LEMMA StageFacts ==
    ASSUME BootTypeOK, NEW a, NEW b, NEW op, Stage(a, b, op)
    PROVE  /\ a \in Valid /\ b \in Valid \cup {None} /\ op \in Ops
           /\ op = "test" => a = running /\ b = spare /\ request = "test"
           /\ op = "test" /\ b # None => Stage(b, a, "revert")
           /\ op \in {"perm", "revert"} /\ b # None => Stage(b, a, "none")
           /\ op = "revert" /\ b # None => Stage(a, b, "perm")
           /\ op = "revert" /\ b # None /\ "SEC" \in TearMagic => Stage(a, b, "none")
           /\ b = None => Stage(a, None, "none") /\ (~confirmed => Stage(a, None, "revert"))
<1>1. running \in Valid /\ spare \in Valid \cup {None} /\ None \notin Valid
      /\ request \in {"none", "test", "perm"} /\ confirmed \in BOOLEAN
  BY ImagesAssumption DEF BootTypeOK
<1>2. Asked \in Ops /\ (Asked = "test" <=> request = "test")
  BY <1>1 DEF Asked, Ops
<1> QED
  BY <1>1, <1>2 DEF Stage, Ops

-----------------------------------------------------------------------------
(* The places of the boot loader exclude each other.                         *)
OnePlace(a, b, op) ==
    /\ pc = "reset" => At(a, b, op)
    /\ pc \in AppPc /\ AtApp(a, b, op) => At(a, b, op)
    /\ pc \in FixPc /\ AtFix(a, b, op) => At(a, b, op)
    /\ pc \in InitPc /\ AtInit(a, b, op) => At(a, b, op)
    /\ pc = "sec_scramble" /\ AtSec(a, b, op) => At(a, b, op)
    /\ pc \in LoopPcs /\ AtLoop(a, b, op) => At(a, b, op)
    /\ pc \in FinPc /\ AtFin(a, b, op) => At(a, b, op)
    /\ pc \in RefusedPc /\ AtRefused(a, b, op) => At(a, b, op)
    /\ pc = "validate" /\ AtValidate(a, b, op) => At(a, b, op)

Disjoint == \A a, b, op : OnePlace(a, b, op)

LEMMA Places == Disjoint
<1> SUFFICES ASSUME NEW a, NEW b, NEW op PROVE OnePlace(a, b, op)
  BY DEF Disjoint
<1>1. /\ pc \notin AppPc => AtApp(a, b, op)
      /\ pc \notin FixPc => AtFix(a, b, op)
      /\ pc \notin InitPc => AtInit(a, b, op)
      /\ pc # "sec_scramble" => AtSec(a, b, op)
      /\ pc \notin LoopPcs => AtLoop(a, b, op)
      /\ pc \notin FinPc => AtFin(a, b, op)
      /\ pc # "validate" => AtValidate(a, b, op)
  BY DEF AtApp, AtFix, AtInit, AtSec, AtLoop, AtFin, AtValidate
<1>2. pc \notin RefusedPc => AtRefused(a, b, op)
  BY DEF AtRefused, RefusedPc
<1>3. /\ \A p \in AppPc : p \notin FixPc \cup InitPc \cup LoopPcs \cup FinPc \cup RefusedPc
      /\ \A p \in FixPc : p \notin InitPc \cup LoopPcs \cup FinPc \cup RefusedPc
      /\ \A p \in InitPc : p \notin LoopPcs \cup FinPc \cup RefusedPc
      /\ \A p \in LoopPcs : p \notin FinPc \cup RefusedPc
      /\ \A p \in FinPc : p \notin RefusedPc
      /\ \A p \in {"reset", "sec_scramble", "validate"} :
             p \notin AppPc \cup FixPc \cup InitPc \cup LoopPcs \cup FinPc \cup RefusedPc
  BY DEF AppPc, FixPc, InitPc, LoopPcs, MovePc, SwapPc, FinPc, RefusedPc
<1> QED
  BY <1>1, <1>2, <1>3 DEF OnePlace, At

(* The status area tells where the sectors are, while the loops run ...      *)
Tells ==
    /\ status = 0 => \A j \in 0..swap_size - 1 : pri[j] = pri0[j] /\ sec[j] = sec0[j]
    /\ status # 0 => Progress
    /\ pc = "done" => Swapped

LEMMA LoopProgress == SwapInv => Tells
<1> SUFFICES ASSUME SwapInv PROVE Tells
  OBVIOUS
<1> USE DEF Tells
<1> USE IndexFacts DEF SwapInv
<1>1. CASE pc \in MovePc
  <2>1. bs.idx \in 1..swap_size /\ status = bs.idx - 1 /\ new_idx = swap_size - status
    BY <1>1 DEF MoveShape
  <2>2. /\ \A j \in 0..swap_size - status - 1 : pri[j] = pri0[j]
        /\ \A j \in swap_size - status + 1..swap_size : pri[j] = pri0[j - 1]
        /\ \A j \in 0..swap_size - 1 : sec[j] = sec0[j]
    BY <1>1, <2>1 DEF MoveShape, MovedUpFrom, SecUntouchedFrom
  <2> QED
    BY <1>1, <2>1, <2>2 DEF MovePc, Moving, Progress
<1>2. CASE pc \in {"swap0_erase", "swap0_copy", "swap0_status"}
  <2>1. Swapping0(bs.idx) /\ bs.idx \in 1..swap_size /\ status # 0
    BY <1>2, GeometryAssumption DEF Swap0Shape, MovedUpFrom, SecUntouchedFrom, Swapping0, Swapping
  <2> QED
    BY <1>2, <2>1 DEF Progress
<1>3. CASE pc \in {"swap1_erase", "swap1_copy", "swap1_status"}
  <2>1. Swapping1(bs.idx) /\ bs.idx \in 1..swap_size /\ status # 0
    BY <1>3, GeometryAssumption DEF Swap1Shape, MovedUpFrom, SecUntouchedFrom, Swapping1, Swapping
  <2> QED
    BY <1>3, <2>1 DEF Progress
<1>4. CASE pc = "done"
  BY <1>4, GeometryAssumption DEF DoneShape, Swapped, Progress
<1> QED
  BY <1>1, <1>2, <1>3, <1>4 DEF TypeOK, SwapPc

(* ... and that is enough to enter them again.                               *)
LEMMA ProgressResumes ==
    ASSUME BootTypeOK, Progress,
           pri0 \in [0..PriSectors - 1 -> Content], sec0 \in [0..SecSectors - 1 -> Content],
           swap_size \in 1..SecSectors, Swappable(swap_size),
           bs' = EnterLoop(swap_read_status_bytes(status), swap_size), pc' = LoopPc(bs'),
           UNCHANGED <<pri, sec, status, swap_size, pri0, sec0>>
    PROVE  SwapInv'
<1>1. /\ swap_size \in Nat /\ 1 <= swap_size /\ find_last_idx(swap_size) = swap_size
      /\ swap_size < PriSectors /\ swap_size <= SecSectors /\ swap_size < MaxImgSectors
      /\ MaxImgSectors \in Nat
  BY LastIdxRange, GeometryAssumption
<1>2. /\ pri \in [0..PriSectors - 1 -> Content] /\ sec \in [0..SecSectors - 1 -> Content]
      /\ status \in 0..(3 * MaxImgSectors)
  BY DEF BootTypeOK
<1>3. CASE Moving
  <2>1. swap_read_status_bytes(status) = [op |-> "MOVE", idx |-> status + 1, state |-> 1]
    BY <1>1, <1>3, DecodeMove DEF Moving
  <2>2. bs' = [op |-> "MOVE", idx |-> status + 1, state |-> 1, swap_size |-> swap_size]
    BY <1>1, <1>3, <2>1 DEF Moving, EnterLoop
  <2>3. pc' = "move_erase"
    BY <2>2 DEF LoopPc
  <2>4. TypeOK'
    BY <1>1, <1>2, <1>3, <2>2, <2>3 DEF Moving, TypeOK, MovePc
  <2>5. MoveShape'
    BY <1>1, <1>3, <2>2, <2>3
       DEF Moving, MoveShape, MovePc, MovedUpFrom, SecUntouchedFrom, new_idx, last_idx
  <2> QED
    BY <2>3, <2>4, <2>5 DEF SwapInv, Swap0Shape, Swap1Shape, DoneShape
<1>4. ASSUME NEW k \in 1..swap_size, Swapping0(k) PROVE SwapInv'
  <2>1. bs' = [op |-> "SWAP", idx |-> k, state |-> 1, swap_size |-> swap_size]
    <3>1. CASE k = 1
      <4>1. swap_read_status_bytes(status) = [op |-> "MOVE", idx |-> swap_size + 1, state |-> 1]
        BY <1>1, <1>4, <3>1, DecodeMove DEF Swapping0
      <4> QED
        BY <1>1, <3>1, <4>1 DEF EnterLoop
    <3>2. CASE k # 1
      <4>1. /\ k \in 1..MaxImgSectors /\ status = MaxImgSectors + 2 * (k - 1) + 0
            /\ MaxImgSectors + 2 * (k - 1) + 0 > 0
        BY <1>1, <1>4, <3>2 DEF Swapping0
      <4>2. swap_read_status_bytes(status) = [op |-> "SWAP", idx |-> k, state |-> 0 + 1]
        BY <4>1, DecodeSwap
      <4> QED
        BY <4>2 DEF EnterLoop
    <3> QED
      BY <3>1, <3>2
  <2>2. pc' = "swap0_erase"
    BY <1>1, <2>1 DEF LoopPc
  <2>3. TypeOK'
    BY <1>1, <1>2, <2>1, <2>2 DEF TypeOK, SwapPc
  <2>4. Swap0Shape'
    BY <1>1, <1>4, <2>1, <2>2
       DEF Swapping0, Swapping, Swap0Shape, Exchanged, MovedUpFrom, SecUntouchedFrom, last_idx
  <2> QED
    BY <2>2, <2>3, <2>4 DEF SwapInv, MoveShape, MovePc, Swap1Shape, DoneShape
<1>5. ASSUME NEW k \in 1..swap_size, Swapping1(k) PROVE SwapInv'
  <2>1. bs' = [op |-> "SWAP", idx |-> k, state |-> 2, swap_size |-> swap_size]
    <3>1. /\ k \in 1..MaxImgSectors /\ status = MaxImgSectors + 2 * (k - 1) + 1
          /\ MaxImgSectors + 2 * (k - 1) + 1 > 0
      BY <1>1, <1>5 DEF Swapping1
    <3>2. swap_read_status_bytes(status) = [op |-> "SWAP", idx |-> k, state |-> 1 + 1]
      BY <3>1, DecodeSwap
    <3> QED
      BY <3>2 DEF EnterLoop
  <2>2. pc' = "swap1_erase"
    BY <1>1, <2>1 DEF LoopPc
  <2>3. TypeOK'
    BY <1>1, <1>2, <2>1, <2>2 DEF TypeOK, SwapPc
  <2>4. Swap1Shape'
    BY <1>1, <1>5, <2>1, <2>2
       DEF Swapping1, Swapping, Swap1Shape, Exchanged, MovedUpFrom, SecUntouchedFrom, last_idx
  <2> QED
    BY <2>2, <2>3, <2>4 DEF SwapInv, MoveShape, MovePc, Swap0Shape, DoneShape
<1>6. CASE Swapped
  <2>1. bs' = [op |-> "SWAP", idx |-> swap_size + 1, state |-> 1, swap_size |-> swap_size]
    <3>1. /\ swap_size + 1 \in 1..MaxImgSectors
          /\ status = MaxImgSectors + 2 * ((swap_size + 1) - 1) + 0
          /\ MaxImgSectors + 2 * ((swap_size + 1) - 1) + 0 > 0
      BY <1>1, <1>6 DEF Swapped
    <3>2. swap_read_status_bytes(status) = [op |-> "SWAP", idx |-> swap_size + 1, state |-> 0 + 1]
      BY <3>1, DecodeSwap
    <3> QED
      BY <3>2 DEF EnterLoop
  <2>2. pc' = "done"
    BY <1>1, <2>1 DEF LoopPc
  <2>3. TypeOK'
    BY <1>1, <1>2, <2>1, <2>2 DEF TypeOK
  <2>4. DoneShape'
    BY <1>1, <1>6, <2>1, <2>2 DEF Swapped, DoneShape, Exchanged, last_idx
  <2> QED
    BY <2>2, <2>3, <2>4 DEF SwapInv, MoveShape, MovePc, Swap0Shape, Swap1Shape
<1> QED
  BY <1>3, <1>4, <1>5, <1>6 DEF Progress

-----------------------------------------------------------------------------
(* What a step leaves alone keeps its meaning.                               *)

LEMMA StageSame ==
    ASSUME UNCHANGED history
    PROVE  \A a, b, op : Stage(a, b, op)' <=> Stage(a, b, op)
  BY DEF history, Stage, Asked

LEMMA FlashSame ==
    ASSUME UNCHANGED <<pri, sec, status, swap_size, pri0, sec0>>
    PROVE  /\ \A a, b : BusyFlash(a, b)' <=> BusyFlash(a, b)
           /\ Swapped' <=> Swapped
<1>1. (Progress' <=> Progress) /\ (Swapped' <=> Swapped)
  BY DEF Progress, Moving, Swapping0, Swapping1, Swapping, Swapped, Exchanged
<1> QED
  BY <1>1 DEF BusyFlash

LEMMA DurableSame ==
    ASSUME UNCHANGED <<pri, sec, status, swap_size, pri0, sec0, tr, history>>
    PROVE  \A a, b, op : /\ Idle(a, b, op)' <=> Idle(a, b, op)
                         /\ Busy(a, b, op)' <=> Busy(a, b, op)
<1>1. \A a, b, op : Idle(a, b, op)' <=> Idle(a, b, op)
  BY DEF Idle, history
<1>2. \A a, b, op : Busy(a, b, op)' <=> Busy(a, b, op)
  BY FlashSame DEF Busy
<1> QED
  BY <1>1, <1>2

(* A step that writes nothing to flash and no history.                       *)
LEMMA RamStep ==
    ASSUME UNCHANGED <<pri, sec, status, swap_size, pri0, sec0, tr, history>>,
           Typed, pc' \in AppPc \cup BootPc,
           boot' \in [source : {"NONE", "PRIMARY"}, swap_type : SwapTypes, type : SwapTypes],
           NEW a \in Valid, NEW b \in Valid \cup {None}, NEW op \in Ops,
           Stage(a, b, op), Durable(a, b, op), At(a, b, op)'
    PROVE  BootInv'
<1>1. Typed'
  BY DEF Typed, BootTypeOK, history
<1>2. Stage(a, b, op)' /\ Durable(a, b, op)'
  BY StageSame, DurableSame DEF Durable, history
<1> QED
  BY <1>1, <1>2 DEF BootInv, Inv

(* A step that writes a trailer.                                             *)
LEMMA TrailerStep ==
    ASSUME Typed, NEW next \in AppPc \cup BootPc, NEW t \in Trailers,
           NEW slot \in {"PRI", "SEC"}, Tr(next, slot, t),
           slot = "SEC" /\ t.magic = "BAD" => "SEC" \in TearMagic
    PROVE  /\ slot = "PRI" => tr'.PRI = t /\ tr'.SEC = tr.SEC
           /\ slot = "SEC" => tr'.SEC = t /\ tr'.PRI = tr.PRI
           /\ tr'.PRI \in Trailers /\ tr'.SEC \in Trailers
           /\ Typed' /\ pc' = next
           /\ UNCHANGED <<pri, sec, status, swap_size, bs, pri0, sec0, boot, history>>
<1>1. tr \in [PRI : Trailers, SEC : Trailers]
  BY DEF Typed, BootTypeOK
<1>2. tr' \in [PRI : Trailers, SEC : Trailers]
  BY <1>1 DEF Tr
<1>3. /\ slot = "PRI" => tr'.PRI = t /\ tr'.SEC = tr.SEC
      /\ slot = "SEC" => tr'.SEC = t /\ tr'.PRI = tr.PRI
  BY <1>1 DEF Tr
<1>4. /\ pc' = next
      /\ UNCHANGED <<pri, sec, status, swap_size, bs, pri0, sec0, boot, history>>
  BY DEF Tr, engine
<1>5. Typed'
  BY <1>2, <1>3, <1>4 DEF Typed, BootTypeOK, history
<1> QED
  BY <1>2, <1>3, <1>4, <1>5

(* What swap_read_status makes of the trailers.                              *)
LEMMA IdleReads ==
    ASSUME Typed, NEW a \in Valid, NEW b \in Valid \cup {None}, NEW op \in Ops, Idle(a, b, op)
    PROVE  /\ Source = "NONE" /\ ReadStatus = StatusReset /\ ReadSwapType = "NONE"
           /\ op = "none" => Wanted = "NONE"
           /\ op = "revert" => Wanted = "REVERT"
           /\ op = "test" => Wanted = "TEST"
           /\ op = "perm" => Wanted = "PERM"
<1>1. /\ tr.PRI.magic \in {"GOOD", "UNSET", "BAD"} /\ tr.SEC.magic \in {"GOOD", "UNSET", "BAD"}
      /\ tr.PRI.image_ok \in {"SET", "UNSET"} /\ tr.SEC.image_ok \in {"SET", "UNSET"}
      /\ tr.PRI.copy_done \in {"SET", "UNSET"}
  BY DEF Typed, BootTypeOK, Trailers
<1>2. Source = "NONE"
  BY <1>1 DEF Idle, Ops, Settled, Unconfirmed, Source, swap_status_source
<1>3. SwapType(tr) = CASE op = "none" -> "NONE" [] op = "revert" -> "REVERT"
                       [] op = "test" -> "TEST" [] op = "perm" -> "PERM"
  BY <1>1 DEF Idle, Ops, Settled, Unconfirmed, SwapType, boot_swap_type_multi
<1> QED
  BY <1>2, <1>3 DEF ReadStatus, ReadSwapType, Wanted

LEMMA BusyReads ==
    ASSUME Typed, NEW a \in Valid, NEW b \in Valid \cup {None}, NEW op \in Ops, Busy(a, b, op)
    PROVE  /\ Source = "PRIMARY" /\ ReadStatus = swap_read_status_bytes(status)
           /\ ReadSwapType = tr.PRI.swap_info /\ Wanted = tr.PRI.swap_info
           /\ tr.PRI.swap_info \in InfoFor(op)
<1>1. Source = "PRIMARY" /\ tr.PRI.swap_info \in InfoFor(op)
  BY DEF Busy, SwapTrailer, Source, swap_status_source
<1>2. tr.PRI.swap_info # "NONE"
  BY <1>1 DEF InfoFor
<1> QED
  BY <1>1, <1>2 DEF ReadStatus, ReadSwapType, Wanted

-----------------------------------------------------------------------------
(* The first boot, resets, and the application.                              *)

LEMMA WrittenSlot ==
    ASSUME NEW i \in Images, NEW n \in Nat
    PROVE  Written(i, n) \in [0..n - 1 -> Content]
<1>1. \A k \in 0..n - 1 : k < Size[i] => <<i, k>> \in Content
  BY ImagesAssumption
<1> QED
  BY <1>1, ContentAssumption DEF Written

LEMMA BootInitEstablishes == BootInit => BootInv
<1> SUFFICES ASSUME BootInit PROVE BootInv
  OBVIOUS
<1>1. PICK i \in Valid : /\ Size[i] <= app_max_size
                         /\ pri = Written(i, PriSectors) /\ running = i
  BY DEF BootInit
<1>2. /\ sec = Blank(SecSectors) /\ pc = "app" /\ boot = BootReset
      /\ status = 0 /\ swap_size = 0 /\ pri0 = pri /\ sec0 = sec
      /\ tr = [PRI |-> ErasedTrailer, SEC |-> ErasedTrailer]
      /\ confirmed = TRUE /\ spare = None /\ request = "none"
  BY DEF BootInit
<1>3. pri \in [0..PriSectors - 1 -> Content] /\ sec \in [0..SecSectors - 1 -> Content]
  BY <1>1, <1>2, WrittenSlot, ImageFacts, GeometryAssumption, ContentAssumption DEF Blank
<1>4. Typed
  BY <1>1, <1>2, <1>3, TrailerWrites, GeometryAssumption
     DEF Typed, BootTypeOK, BootReset, SwapTypes, AppPc, Trailers, ErasedTrailer
<1>5. Holds(pri, i)
  BY <1>1, ImageFacts, AppMaxSize, GeometryAssumption DEF Holds, Written
<1>6. Idle(i, None, "none")
  BY <1>2, <1>5, BlankNotBootable DEF Idle, ErasedTrailer, Settled, Unconfirmed, Clean
<1>7. Asked = "none" /\ Stage(i, None, "none")
  BY <1>1, <1>2 DEF Asked, Stage
<1>8. AtApp(i, None, "none")
  BY <1>1, <1>2, <1>6, <1>7 DEF AtApp, ErasedTrailer, Settled, Unconfirmed, Clean
<1>9. At(i, None, "none")
  BY <1>2, <1>8, Places DEF Disjoint, OnePlace, AppPc
<1> QED
  BY <1>1, <1>4, <1>6, <1>7, <1>9 DEF BootInv, Inv, Durable, Ops

LEMMA BootResetType ==
    BootReset \in [source : {"NONE", "PRIMARY"}, swap_type : SwapTypes, type : SwapTypes]
  BY DEF BootReset, SwapTypes

LEMMA ResetStep == BootInv /\ Reset => BootInv'
<1> SUFFICES ASSUME BootInv, Reset PROVE BootInv'
  OBVIOUS
<1>1. PICK a \in Valid, b \in Valid \cup {None}, op \in Ops :
          Stage(a, b, op) /\ Durable(a, b, op)
  BY DEF BootInv, Inv
<1>2. pc' = "reset" /\ pc' \in AppPc \cup BootPc
  BY DEF Reset, BootPc
<1>3. At(a, b, op)'
  <2>1. Disjoint'
    BY Places, PTL
  <2> QED
    BY <1>2, <2>1 DEF Disjoint, OnePlace
<1> QED
  BY <1>1, <1>2, <1>3, RamStep, BootResetType DEF Reset, BootInv

LEMMA AppFacts ==
    ASSUME BootInv, pc \in AppPc
    PROVE  /\ Typed /\ AtApp(running, spare, Asked)
           /\ Idle(running, spare, Asked) /\ Holds(pri, running) /\ BootableIn(sec) = spare
           /\ Settled(tr.PRI) /\ confirmed = ~Unconfirmed(tr.PRI) /\ Clean(tr.SEC)
           /\ Asked \in Ops /\ running \in Valid /\ spare \in Valid \cup {None}
           /\ confirmed \in BOOLEAN /\ request \in {"none", "test", "perm"}
           /\ request = "test" <=> Asked = "test"
           /\ request = "perm" <=> Asked = "perm"
           /\ tr.SEC.magic = "GOOD" <=> Asked \in {"test", "perm"}
           /\ tr.PRI \in Trailers /\ tr.SEC \in Trailers
<1>1. PICK a \in Valid, b \in Valid \cup {None}, op \in Ops : Inv(a, b, op)
  BY DEF BootInv
<1>2. Typed /\ AtApp(a, b, op)
  BY <1>1 DEF BootInv, Inv, At
<1>3. a = running /\ b = spare /\ op = Asked
  BY <1>2 DEF AtApp
<1>4. /\ Settled(tr.PRI) /\ confirmed = ~Unconfirmed(tr.PRI) /\ Clean(tr.SEC)
      /\ Idle(running, spare, Asked) /\ Asked \in Ops
  BY <1>2, <1>3 DEF AtApp
<1>5. /\ running \in Valid /\ spare \in Valid \cup {None} /\ confirmed \in BOOLEAN
      /\ request \in {"none", "test", "perm"} /\ tr.PRI \in Trailers /\ tr.SEC \in Trailers
  BY <1>2 DEF Typed, BootTypeOK
<1>6. /\ request = "test" <=> Asked = "test"
      /\ request = "perm" <=> Asked = "perm"
  BY <1>5 DEF Asked
<1>7. tr.SEC.magic = "GOOD" <=> Asked \in {"test", "perm"}
  BY <1>4 DEF Idle, Ops
<1> QED
  BY <1>2, <1>3, <1>4, <1>5, <1>6, <1>7 DEF Idle

(* A step to or in the application keeps the invariant when the pair of      *)
(* images and what is asked for are as the application knows them.           *)
AppGood == Typed /\ pc \in AppPc /\ AtApp(running, spare, Asked)

LEMMA AppHolds == AppGood => BootInv
<1> SUFFICES ASSUME Typed, pc \in AppPc, AtApp(running, spare, Asked) PROVE BootInv
  BY DEF AppGood
<1>1. /\ running \in Valid /\ spare \in Valid \cup {None} /\ Asked \in Ops
  BY DEF Typed, BootTypeOK, Asked, Ops
<1>2. Stage(running, spare, Asked)
  BY DEF Stage
<1>3. Idle(running, spare, Asked)
  BY DEF AtApp
<1>4. At(running, spare, Asked)
  BY Places DEF Disjoint, OnePlace
<1> QED
  BY <1>1, <1>2, <1>3, <1>4 DEF BootInv, Inv, Durable

LEMMA AppEraseStep == BootInv /\ AppErase => BootInv'
<1> SUFFICES ASSUME BootInv, AppErase PROVE AppGood'
  BY AppHolds, PTL
<1>1. /\ pc = "app" /\ pc' = "app"
      /\ sec' = Blank(SecSectors) /\ tr' = [tr EXCEPT !.SEC = ErasedTrailer]
      /\ spare' = None /\ request' = "none"
      /\ UNCHANGED <<pri, status, swap_size, pri0, sec0, boot, running, confirmed>>
  BY DEF AppErase
<1>2. pc \in AppPc /\ pc' \in AppPc
  BY <1>1 DEF AppPc
<1> USE AppFacts
<1>3. tr'.SEC = ErasedTrailer /\ tr'.PRI = tr.PRI /\ tr' \in [PRI : Trailers, SEC : Trailers]
  BY <1>1, <1>2, TrailerWrites DEF Typed, BootTypeOK
<1>4. Typed'
  <2>1. sec' \in [0..SecSectors - 1 -> Content]
    BY <1>1, ContentAssumption DEF Blank
  <2>2. tr'.SEC.magic # "BAD"
    BY <1>3 DEF ErasedTrailer
  <2> QED
    BY <1>1, <1>2, <1>3, <2>1, <2>2 DEF Typed, BootTypeOK
<1>5. Asked' = IF confirmed THEN "none" ELSE "revert"
  BY <1>1, <1>2 DEF Asked
<1>6. BootableIn(sec') = None
  BY <1>1, BlankNotBootable
<1>7. Idle(running, spare, Asked)'
  BY <1>1, <1>2, <1>3, <1>5, <1>6 DEF Idle, ErasedTrailer, Settled, Unconfirmed, Clean
<1>8. AtApp(running, spare, Asked)'
  BY <1>1, <1>2, <1>3, <1>7 DEF AtApp, ErasedTrailer, Clean
<1> QED
  BY <1>2, <1>4, <1>8 DEF AppGood

LEMMA AppWriteStep == ASSUME NEW i \in Images PROVE BootInv /\ AppWrite(i) => BootInv'
<1> SUFFICES ASSUME BootInv, AppWrite(i) PROVE AppGood'
  BY AppHolds, PTL
<1>1. /\ pc = "app" /\ pc' = "app" /\ tr.SEC = ErasedTrailer
      /\ sec' = Written(i, SecSectors) /\ spare' = BootableIn(sec')
      /\ UNCHANGED <<pri, status, swap_size, pri0, sec0, tr, boot, running, confirmed, request>>
  BY DEF AppWrite
<1>2. pc \in AppPc /\ pc' \in AppPc
  BY <1>1 DEF AppPc
<1> USE AppFacts
<1>3. Typed'
  <2>1. sec' \in [0..SecSectors - 1 -> Content]
    BY <1>1, WrittenSlot, GeometryAssumption
  <2>2. spare' \in Valid \cup {None}
    BY <1>1, BootableHolds
  <2> QED
    BY <1>1, <1>2, <2>1, <2>2 DEF Typed, BootTypeOK
<1>4. Asked' = Asked /\ Asked \notin {"test", "perm"}
  BY <1>1, <1>2 DEF Asked, ErasedTrailer
<1>5. Idle(running, spare, Asked)'
  BY <1>1, <1>2, <1>4 DEF Idle, ErasedTrailer, Settled, Unconfirmed, Clean
<1>6. AtApp(running, spare, Asked)'
  BY <1>1, <1>2, <1>5 DEF AtApp
<1> QED
  BY <1>2, <1>3, <1>6 DEF AppGood

LEMMA SetPendingStep == ASSUME NEW p \in BOOLEAN PROVE BootInv /\ SetPending(p) => BootInv'
<1> SUFFICES ASSUME BootInv, SetPending(p) PROVE BootInv'
  OBVIOUS
<1>1. /\ pc = "app" /\ tr.SEC.magic = "UNSET"
      /\ UNCHANGED <<pri, sec, status, swap_size, pri0, sec0, boot, running, confirmed, spare>>
  BY DEF SetPending, engine, CanSchedule
<1>2. pc \in AppPc
  BY <1>1 DEF AppPc
<1> USE AppFacts
<1>3. Asked \in {"none", "revert"} /\ tr.SEC.image_ok = "UNSET" /\ request = "none"
  BY <1>1, <1>2 DEF Ops, Clean
<1>4. CASE /\ tr' = [tr EXCEPT !.SEC = boot_write_magic(tr.SEC)]
           /\ pc' = IF p THEN "pend_ok" ELSE "pend_test"
           /\ request' = "test"
  <2> SUFFICES AppGood'
    BY AppHolds, PTL
  <2>1. /\ tr'.SEC = boot_write_magic(tr.SEC) /\ tr'.PRI = tr.PRI
        /\ tr' \in [PRI : Trailers, SEC : Trailers]
    BY <1>2, <1>4, TrailerWrites DEF Typed, BootTypeOK
  <2>2. tr'.SEC.magic = "GOOD" /\ tr'.SEC.image_ok = "UNSET"
    BY <1>2, <1>3, <2>1 DEF boot_write_magic, Trailers
  <2>3. pc' \in {"pend_ok", "pend_test"} /\ pc' \in AppPc
    BY <1>4 DEF AppPc
  <2>4. Typed'
    BY <1>1, <1>2, <1>4, <2>1, <2>2, <2>3 DEF Typed, BootTypeOK
  <2>5. Asked' = "test"
    BY <1>4 DEF Asked
  <2>6. Idle(running, spare, Asked)'
    BY <1>1, <1>2, <2>1, <2>2, <2>5 DEF Idle
  <2>7. AtApp(running, spare, Asked)'
    BY <1>1, <1>2, <1>4, <2>1, <2>2, <2>3, <2>6 DEF AtApp, Clean
  <2> QED
    BY <2>3, <2>4, <2>7 DEF AppGood
<1>5. CASE /\ "SEC" \in TearMagic /\ tr' = [tr EXCEPT !.SEC.magic = "BAD"]
           /\ pc' = "reset" /\ UNCHANGED request
  <2>1. /\ tr'.SEC = [tr.SEC EXCEPT !.magic = "BAD"] /\ tr'.PRI = tr.PRI
        /\ tr' \in [PRI : Trailers, SEC : Trailers]
    BY <1>2, <1>5, TrailerWrites DEF Typed, BootTypeOK
  <2>2. tr'.SEC.magic = "BAD"
    BY <1>2, <2>1 DEF Trailers
  <2>3. Typed'
    BY <1>1, <1>2, <1>5, <2>1 DEF Typed, BootTypeOK, BootPc
  <2>4. Stage(running, spare, Asked)'
    BY DEF Stage
  <2>5. Asked' = Asked
    BY <1>1, <1>5 DEF Asked
  <2>6. Idle(running, spare, Asked)'
    BY <1>1, <1>2, <1>3, <2>1, <2>2, <2>5 DEF Idle, Clean
  <2>7. At(running, spare, Asked)'
    <3>1. Disjoint'
      BY Places, PTL
    <3> QED
      BY <1>5, <3>1 DEF Disjoint, OnePlace
  <2>8. running' \in Valid /\ spare' \in Valid \cup {None} /\ Asked' \in Ops
    BY <1>1, <1>2, <2>5
  <2> QED
    BY <2>3, <2>4, <2>6, <2>7, <2>8 DEF BootInv, Inv, Durable
<1> QED
  BY <1>4, <1>5 DEF SetPending

LEMMA SetPendingImageOkStep == BootInv /\ SetPendingImageOk => BootInv'
<1> SUFFICES ASSUME BootInv, SetPendingImageOk PROVE AppGood'
  BY AppHolds, PTL
<1>1. /\ pc = "pend_ok" /\ pc' = "pend_perm" /\ request' = "perm"
      /\ tr' = [tr EXCEPT !.SEC = boot_write_image_ok(tr.SEC)]
      /\ UNCHANGED <<pri, sec, status, swap_size, pri0, sec0, boot, running, confirmed, spare>>
  BY DEF SetPendingImageOk, engine
<1>2. pc \in AppPc /\ pc' \in AppPc
  BY <1>1 DEF AppPc
<1> USE AppFacts
<1>3. /\ tr'.SEC = boot_write_image_ok(tr.SEC) /\ tr'.PRI = tr.PRI
      /\ tr' \in [PRI : Trailers, SEC : Trailers]
  BY <1>1, <1>2, TrailerWrites DEF Typed, BootTypeOK
<1>4. tr.SEC.magic = "GOOD"
  BY <1>1, <1>2 DEF AtApp
<1>5. tr'.SEC.magic = "GOOD" /\ tr'.SEC.image_ok = "SET"
  BY <1>2, <1>3, <1>4 DEF boot_write_image_ok, Trailers
<1>6. Typed'
  BY <1>1, <1>2, <1>3, <1>5 DEF Typed, BootTypeOK
<1>7. Asked' = "perm"
  BY <1>1 DEF Asked
<1>8. Idle(running, spare, Asked)'
  BY <1>1, <1>2, <1>3, <1>5, <1>7 DEF Idle
<1>9. AtApp(running, spare, Asked)'
  BY <1>1, <1>2, <1>3, <1>5, <1>8 DEF AtApp, Clean
<1> QED
  BY <1>2, <1>6, <1>9 DEF AppGood

LEMMA SetPendingInfoStep == BootInv /\ SetPendingInfo => BootInv'
<1> SUFFICES ASSUME BootInv, SetPendingInfo PROVE AppGood'
  BY AppHolds, PTL
<1>1. pc \in {"pend_test", "pend_perm"} /\ pc \in AppPc /\ "app" \in AppPc \cup BootPc
  BY DEF SetPendingInfo, AppPc
<1>2. PICK type \in {"TEST", "PERM"} : Tr("app", "SEC", boot_write_swap_info(tr.SEC, type))
  BY DEF SetPendingInfo
<1> USE AppFacts
<1>3. tr.SEC.magic = "GOOD"
  BY <1>1 DEF AtApp
<1>4. /\ boot_write_swap_info(tr.SEC, type) \in Trailers
      /\ boot_write_swap_info(tr.SEC, type).magic = "GOOD"
      /\ boot_write_swap_info(tr.SEC, type).image_ok = tr.SEC.image_ok
  BY <1>1, <1>3, TrailerWrites DEF boot_write_swap_info, Trailers
<1>5. /\ tr'.SEC = boot_write_swap_info(tr.SEC, type) /\ tr'.PRI = tr.PRI
      /\ Typed' /\ pc' = "app"
      /\ UNCHANGED <<pri, sec, status, swap_size, bs, pri0, sec0, boot, history>>
  BY <1>1, <1>2, <1>4, TrailerStep
<1>6. Asked' = Asked
  BY <1>5 DEF Asked, history
<1>7. Idle(running, spare, Asked)'
  BY <1>1, <1>3, <1>4, <1>5, <1>6 DEF Idle, history
<1>8. AtApp(running, spare, Asked)'
  BY <1>1, <1>4, <1>5, <1>7 DEF AtApp, Clean, history
<1> QED
  BY <1>5, <1>8 DEF AppGood, AppPc

LEMMA SetConfirmedStep == BootInv /\ SetConfirmed => BootInv'
<1> SUFFICES ASSUME BootInv, SetConfirmed PROVE AppGood'
  BY AppHolds, PTL
<1>1. /\ pc = "app" /\ pc' = "app" /\ confirmed' = TRUE
      /\ tr' = [tr EXCEPT !.PRI = boot_set_next_active(tr.PRI)]
      /\ UNCHANGED <<pri, sec, status, swap_size, pri0, sec0, boot, running, spare, request>>
  BY DEF SetConfirmed, engine
<1>2. pc \in AppPc /\ pc' \in AppPc
  BY <1>1 DEF AppPc
<1> USE AppFacts
<1>3. /\ tr'.PRI = boot_set_next_active(tr.PRI) /\ tr'.SEC = tr.SEC
      /\ tr' \in [PRI : Trailers, SEC : Trailers]
  BY <1>1, <1>2, TrailerWrites DEF Typed, BootTypeOK, boot_set_next_active
<1>4. /\ tr'.PRI.magic = tr.PRI.magic /\ tr'.PRI.copy_done = tr.PRI.copy_done
      /\ tr.PRI.magic = "GOOD" => tr'.PRI.image_ok = "SET"
  BY <1>2, <1>3 DEF boot_set_next_active, boot_write_image_ok, Trailers
<1>5. Settled(tr'.PRI) /\ ~Unconfirmed(tr'.PRI)
  BY <1>2, <1>4 DEF Settled, Unconfirmed
<1>6. Typed'
  BY <1>1, <1>2, <1>3 DEF Typed, BootTypeOK
<1>7. Asked' = IF request = "none" THEN "none" ELSE Asked
  BY <1>1, <1>2 DEF Asked
<1>8. request = "none" => tr.SEC.magic # "GOOD"
  BY <1>2
<1>9. Asked' # "revert" /\ (Asked' # "none" => Asked' = Asked)
  BY <1>2, <1>7 DEF Asked
<1>10. Asked' = "none" => request = "none"
  BY <1>1, <1>2 DEF Asked
<1>11. Idle(running, spare, Asked)'
  BY <1>1, <1>2, <1>3, <1>5, <1>8, <1>9, <1>10 DEF Idle
<1>12. AtApp(running, spare, Asked)'
  BY <1>1, <1>2, <1>3, <1>5, <1>11 DEF AtApp
<1> QED
  BY <1>2, <1>6, <1>12 DEF AppGood

LEMMA ValidateStep == BootInv /\ Validate => BootInv'
<1> SUFFICES ASSUME BootInv, Validate PROVE AppGood'
  BY AppHolds, PTL
<1>1. PICK a \in Valid, b \in Valid \cup {None}, op \in Ops : Inv(a, b, op)
  BY DEF BootInv
<1>2. Typed /\ Idle(a, b, op) /\ Clean(tr.SEC) /\ op \in {"none", "revert"}
  BY <1>1 DEF Validate, BootInv, Inv, At, AtValidate
<1>3. BootableIn(pri) = a /\ a # None /\ BootableIn(sec) = b
  BY <1>2, HoldsBootable DEF Idle
<1>4. /\ pc' = "app" /\ running' = a /\ spare' = b /\ request' = "none" /\ boot' = BootReset
      /\ confirmed' = ~Unconfirmed(tr.PRI)
      /\ UNCHANGED <<pri, sec, status, swap_size, pri0, sec0, tr>>
  BY <1>3 DEF Validate, engine
<1>5. Typed' /\ pc' \in AppPc
  BY <1>2, <1>4, BootResetType DEF Typed, BootTypeOK, AppPc
<1>6. /\ op = "none" => ~Unconfirmed(tr.PRI) /\ Settled(tr.PRI)
      /\ op = "revert" => Unconfirmed(tr.PRI) /\ Settled(tr.PRI)
  BY <1>2 DEF Idle, Settled, Unconfirmed
<1>7. Asked' = op
  BY <1>2, <1>4, <1>6 DEF Asked
<1>8. Idle(running, spare, Asked)'
  BY <1>2, <1>4, <1>6, <1>7 DEF Idle
<1>9. AtApp(running, spare, Asked)'
  BY <1>2, <1>4, <1>6, <1>8 DEF AtApp
<1> QED
  BY <1>5, <1>9 DEF AppGood

-----------------------------------------------------------------------------
(* boot_prepare_image_for_update.                                            *)

(* A swap that has written an entry is resumed, and both headers are found.  *)
LEMMA HeadersFound ==
    ASSUME Progress, swap_size \in Nat, 1 <= swap_size, swap_size < MaxImgSectors
    PROVE  LET found == swap_read_status_bytes(status)
           IN /\ found # StatusReset
              /\ HeaderOfPri(found, swap_size) \in {pri0[0], sec0[0]}
              /\ HeaderOfSec(found, swap_size) \in {pri0[0], sec0[0]}
<1> DEFINE found == swap_read_status_bytes(status)
<1> USE GeometryAssumption
<1>1. CASE Moving
  <2>1. found = [op |-> "MOVE", idx |-> status + 1, state |-> 1] /\ status \in 1..swap_size - 1
    BY <1>1, DecodeMove DEF Moving
  <2>2. pri[0] = pri0[0] /\ sec[0] = sec0[0]
    BY <1>1, <2>1 DEF Moving
  <2>3. found.op = "MOVE" /\ found.idx = status + 1 /\ ~(found.idx > swap_size) /\ found.idx # 1
    BY <2>1
  <2> HIDE DEF found
  <2>4. found # StatusReset
    BY <2>3 DEF StatusReset
  <2>5. HeaderOfPri(found, swap_size) = pri[0] /\ HeaderOfSec(found, swap_size) = sec[0]
    BY <2>3 DEF HeaderOfPri, HeaderOfSec
  <2> QED
    BY <2>2, <2>4, <2>5 DEF found
<1>2. CASE Swapping0(1)
  <2>1. found = [op |-> "MOVE", idx |-> swap_size + 1, state |-> 1]
    BY <1>2, DecodeMove DEF Swapping0
  <2>2. pri[1] = pri0[0] /\ sec[0] = sec0[0]
    BY <1>2 DEF Swapping0, Swapping
  <2>3. found.op = "MOVE" /\ found.idx > swap_size /\ found.idx # 1
    BY <2>1
  <2> HIDE DEF found
  <2>4. found # StatusReset
    BY <2>3 DEF StatusReset
  <2>5. HeaderOfPri(found, swap_size) = pri[1] /\ HeaderOfSec(found, swap_size) = sec[0]
    BY <2>3 DEF HeaderOfPri, HeaderOfSec
  <2> QED
    BY <2>2, <2>4, <2>5 DEF found
<1>3. CASE Swapping1(1)
  <2>1. /\ 1 \in 1..MaxImgSectors /\ status = MaxImgSectors + 2 * (1 - 1) + 1
        /\ MaxImgSectors + 2 * (1 - 1) + 1 > 0
    BY <1>3 DEF Swapping1
  <2>2. found = [op |-> "SWAP", idx |-> 1, state |-> 1 + 1]
    BY <2>1, DecodeSwap
  <2>3. pri[1] = pri0[0] /\ pri[0] = sec0[0]
    BY <1>3 DEF Swapping1, Swapping
  <2>4. found.op = "SWAP" /\ found.idx = 1 /\ found.state = 2
    BY <2>2
  <2> HIDE DEF found
  <2>5. found # StatusReset
    BY <2>4 DEF StatusReset
  <2>6. HeaderOfPri(found, swap_size) = pri[1] /\ HeaderOfSec(found, swap_size) = pri[0]
    BY <2>4 DEF HeaderOfPri, HeaderOfSec
  <2> QED
    BY <2>3, <2>5, <2>6 DEF found
<1>4. ASSUME NEW k \in 2..swap_size, Swapping0(k) \/ Swapping1(k)
      PROVE  /\ found # StatusReset
             /\ HeaderOfPri(found, swap_size) = sec[0] /\ HeaderOfSec(found, swap_size) = pri[0]
             /\ pri[0] = sec0[0] /\ sec[0] = pri0[0]
  <2>1. PICK s \in {0, 1} : /\ k \in 1..MaxImgSectors /\ status = MaxImgSectors + 2 * (k - 1) + s
                            /\ MaxImgSectors + 2 * (k - 1) + s > 0
    <3>1. CASE Swapping0(k)
      <4>1. status = MaxImgSectors + 2 * (k - 1) + 0
        BY <3>1 DEF Swapping0
      <4> QED
        BY <4>1
    <3>2. CASE Swapping1(k)
      <4>1. status = MaxImgSectors + 2 * (k - 1) + 1
        BY <3>2 DEF Swapping1
      <4> QED
        BY <4>1
    <3> QED
      BY <1>4, <3>1, <3>2
  <2>2. found = [op |-> "SWAP", idx |-> k, state |-> s + 1]
    BY <2>1, DecodeSwap
  <2>3. pri[0] = sec0[0] /\ sec[0] = pri0[0]
    BY <1>4 DEF Swapping0, Swapping1, Swapping, Exchanged
  <2>4. found.op = "SWAP" /\ found.idx = k
    BY <2>2
  <2> HIDE DEF found
  <2>5. found # StatusReset
    BY <2>4 DEF StatusReset
  <2>6. HeaderOfPri(found, swap_size) = sec[0] /\ HeaderOfSec(found, swap_size) = pri[0]
    BY <2>4 DEF HeaderOfPri, HeaderOfSec
  <2> QED
    BY <2>3, <2>5, <2>6 DEF found
<1>5. CASE Swapped
  <2>1. /\ swap_size + 1 \in 1..MaxImgSectors
        /\ status = MaxImgSectors + 2 * ((swap_size + 1) - 1) + 0
        /\ MaxImgSectors + 2 * ((swap_size + 1) - 1) + 0 > 0
    BY <1>5 DEF Swapped
  <2>2. found = [op |-> "SWAP", idx |-> swap_size + 1, state |-> 0 + 1]
    BY <2>1, DecodeSwap
  <2>3. pri[0] = sec0[0] /\ sec[0] = pri0[0]
    BY <1>5 DEF Swapped, Exchanged
  <2>4. found.op = "SWAP" /\ found.idx > swap_size /\ found.idx # 1 /\ ~(found.idx <= swap_size)
    BY <2>2
  <2> HIDE DEF found
  <2>5. found # StatusReset
    BY <2>4 DEF StatusReset
  <2>6. HeaderOfPri(found, swap_size) = pri[0] /\ HeaderOfSec(found, swap_size) = sec[0]
    BY <2>4 DEF HeaderOfPri, HeaderOfSec
  <2> QED
    BY <2>3, <2>5, <2>6 DEF found
<1>6. ASSUME NEW k \in 1..swap_size, Swapping0(k) \/ Swapping1(k), k # 1
      PROVE  k \in 2..swap_size
  BY <1>6
<1> QED
  BY <1>1, <1>2, <1>3, <1>4, <1>5, <1>6 DEF Progress

LEMMA BusyFacts ==
    ASSUME Typed, NEW a \in Valid, NEW b \in Valid \cup {None}, NEW op \in Ops, Busy(a, b, op)
    PROVE  /\ b \in Valid /\ Size[a] <= app_max_size /\ Size[b] <= app_max_size
           /\ swap_size = SwapSize(a, b)
           /\ status = 0 => Holds(pri, a) /\ Holds(sec, b) /\ ReadStatus = StatusReset
           /\ status # 0 => /\ ReadStatus # StatusReset
                            /\ Holds(pri0, a) /\ Holds(sec0, b) /\ Progress
<1>1. /\ IF status = 0 THEN Holds(pri, a) /\ Holds(sec, b)
                       ELSE Holds(pri0, a) /\ Holds(sec0, b) /\ Progress
      /\ swap_size = SwapSize(a, b)
  BY DEF Busy, BusyFlash
<1>2. b \in Valid /\ Size[a] <= app_max_size /\ Size[b] <= app_max_size
  BY <1>1 DEF Holds
<1>3. ReadStatus = swap_read_status_bytes(status)
  BY BusyReads
<1>4. status = 0 => ReadStatus = StatusReset
  BY <1>3 DEF swap_read_status_bytes
<1>5. status # 0 => ReadStatus # StatusReset
  BY <1>1, <1>2, <1>3, SwapSizeFacts, HeadersFound
<1> QED
  BY <1>1, <1>2, <1>4, <1>5

LEMMA PrepareResumeStep == BootInv /\ PrepareResume => BootInv'
<1> SUFFICES ASSUME BootInv, PrepareResume PROVE BootInv'
  OBVIOUS
<1>1. PICK a \in Valid, b \in Valid \cup {None}, op \in Ops :
          Stage(a, b, op) /\ Durable(a, b, op)
  BY DEF BootInv, Inv
<1>2. Typed /\ ReadStatus # StatusReset
  BY DEF BootInv, PrepareResume
<1>3. Busy(a, b, op)
  BY <1>1, <1>2, IdleReads DEF Durable
<1>4. /\ b \in Valid /\ Size[a] <= app_max_size /\ Size[b] <= app_max_size
      /\ swap_size = SwapSize(a, b)
      /\ Holds(pri0, a) /\ Holds(sec0, b) /\ Progress /\ status # 0
  BY <1>2, <1>3, BusyFacts
<1>5. /\ swap_size \in 1..SecSectors /\ Swappable(swap_size)
      /\ swap_size \in Nat /\ 1 <= swap_size /\ swap_size < MaxImgSectors
      /\ find_last_idx(swap_size) = swap_size
  BY <1>4, SwapSizeFacts
<1>6. /\ ReadStatus = swap_read_status_bytes(status) /\ Source = "PRIMARY"
      /\ ReadSwapType = tr.PRI.swap_info /\ tr.PRI.swap_info \in InfoFor(op)
  BY <1>2, <1>3, BusyReads
<1>7. None \notin {Header(HeaderOfPri(ReadStatus, find_last_idx(swap_size))),
                   Header(HeaderOfSec(ReadStatus, find_last_idx(swap_size)))}
  <2>1. Header(pri0[0]) # None /\ Header(sec0[0]) # None
    BY <1>4, HoldsBootable
  <2>2. /\ HeaderOfPri(ReadStatus, swap_size) \in {pri0[0], sec0[0]}
        /\ HeaderOfSec(ReadStatus, swap_size) \in {pri0[0], sec0[0]}
    BY <1>4, <1>5, <1>6, HeadersFound
  <2> QED
    BY <1>5, <2>1, <2>2
<1>8. /\ bs' = EnterLoop(swap_read_status_bytes(status), swap_size)
      /\ boot' = RamAfterPrepare(tr.PRI.swap_info) /\ pc' = LoopPc(bs')
      /\ UNCHANGED <<pri, sec, status, swap_size, pri0, sec0, tr, history>>
  BY <1>6, <1>7 DEF PrepareResume
<1>9. SwapInv'
  BY <1>2, <1>4, <1>5, <1>8, ProgressResumes DEF Typed
<1>10. pc' \in LoopPcs
  BY <1>9 DEF SwapInv, TypeOK, LoopPcs
<1>11. /\ boot' = [source |-> "PRIMARY", swap_type |-> tr.PRI.swap_info, type |-> tr.PRI.swap_info]
       /\ op \in {"test", "perm"}
  BY <1>3, <1>6, <1>8 DEF RamAfterPrepare, Busy
<1>12. /\ boot' \in [source : {"NONE", "PRIMARY"}, swap_type : SwapTypes, type : SwapTypes]
       /\ Running' /\ op = Target'
  BY <1>6, <1>11 DEF InfoFor, SwapTypes, Running, Target
<1>13. AtLoop(a, b, op)'
  <2>1. Busy(a, b, op)' /\ Holds(pri0, a)' /\ Holds(sec0, b)'
    BY <1>3, <1>4, <1>8, DurableSame
  <2>2. tr'.SEC = ErasedTrailer
    BY <1>3, <1>4, <1>8 DEF Busy
  <2> QED
    BY <1>9, <1>12, <2>1, <2>2 DEF AtLoop
<1>14. At(a, b, op)'
  <2>1. Disjoint'
    BY Places, PTL
  <2> QED
    BY <1>10, <1>13, <2>1 DEF Disjoint, OnePlace
<1>15. pc' \in AppPc \cup BootPc
  BY <1>10 DEF BootPc
<1> QED
  BY <1>1, <1>2, <1>8, <1>12, <1>14, <1>15, RamStep

LEMMA PrepareNothingStep == BootInv /\ PrepareNothing => BootInv'
<1> SUFFICES ASSUME BootInv, PrepareNothing PROVE BootInv'
  OBVIOUS
<1>1. PICK a \in Valid, b \in Valid \cup {None}, op \in Ops :
          Stage(a, b, op) /\ Durable(a, b, op)
  BY DEF BootInv, Inv
<1>2. /\ Typed /\ ReadStatus = StatusReset
      /\ Header(pri[0]) = None \/ Wanted = "NONE"
      /\ pc' = "validate" /\ boot' = BootReset
      /\ UNCHANGED <<pri, sec, status, swap_size, pri0, sec0, tr, history>>
  BY DEF BootInv, PrepareNothing, engine
<1>3. ASSUME Busy(a, b, op) PROVE FALSE
  <2>1. Holds(pri, a)
    BY <1>2, <1>3, BusyFacts
  <2>2. Header(pri[0]) # None
    BY <2>1, HoldsBootable
  <2>3. Wanted # "NONE"
    BY <1>2, <1>3, BusyReads DEF InfoFor
  <2> QED
    BY <1>2, <2>2, <2>3
<1>4. Idle(a, b, op) /\ Header(pri[0]) # None
  BY <1>1, <1>3, HoldsBootable DEF Durable, Idle
<1>5. op = "none"
  BY <1>2, <1>4, IdleReads DEF Ops
<1>6. AtValidate(a, b, op)'
  <2>1. Idle(a, b, op)'
    BY <1>2, <1>4, DurableSame
  <2>2. Clean(tr.SEC)'
    BY <1>2, <1>4, <1>5 DEF Idle, Clean
  <2> QED
    BY <1>5, <2>1, <2>2 DEF AtValidate
<1>7. At(a, b, op)'
  <2>1. Disjoint'
    BY Places, PTL
  <2> QED
    BY <1>2, <1>6, <2>1 DEF Disjoint, OnePlace
<1> QED
  BY <1>1, <1>2, <1>7, RamStep, BootResetType DEF BootPc

LEMMA PrepareSwapStep == BootInv /\ PrepareSwap => BootInv'
<1> SUFFICES ASSUME BootInv, PrepareSwap PROVE BootInv'
  OBVIOUS
<1>1. PICK a \in Valid, b \in Valid \cup {None}, op \in Ops :
          Stage(a, b, op) /\ Durable(a, b, op)
  BY DEF BootInv, Inv
<1>2. /\ Typed /\ ReadStatus = StatusReset /\ BOOT_IS_UPGRADE(Wanted) /\ BootableIn(sec) # None
      /\ UNCHANGED <<pri, sec, status, swap_size, pri0, sec0, tr, history>>
  BY DEF BootInv, PrepareSwap
<1>3. Holds(pri, a) /\ Holds(sec, b) /\ b \in Valid /\ (Busy(a, b, op) => status = 0)
  <2>1. CASE Idle(a, b, op)
    BY <1>2, <2>1, BootableHolds, IdleReads, BusyReads DEF Idle, Holds
  <2>2. CASE Busy(a, b, op)
    BY <1>2, <2>2, BusyFacts
  <2> QED
    BY <1>1, <2>1, <2>2 DEF Durable
<1>4. /\ SizeOf(Header(pri[0])) = Size[a] /\ SizeOf(Header(sec[0])) = Size[b]
  BY <1>3, HoldsBootable DEF SizeOf
<1>5. StartSwap(SwapSize(a, b), Wanted)
  BY <1>4 DEF PrepareSwap, SwapSize
<1>6. find_last_idx(SwapSize(a, b)) < PriSectors /\ ~(find_last_idx(SwapSize(a, b)) >= PriSectors)
  BY <1>3, SwapSizeFacts, GeometryAssumption DEF Holds
<1>7. /\ bs' = EnterLoop(StatusReset, SwapSize(a, b))
      /\ boot' = [source |-> Source, swap_type |-> Wanted, type |-> Wanted]
      /\ pc' = CASE Wanted = "REVERT" /\ tr.SEC.magic = "UNSET" -> "fix_scramble"
                 [] Source # "PRIMARY" /\ ~(Wanted = "REVERT" /\ tr.SEC.magic = "UNSET")
                    -> "init_scramble"
                 [] OTHER -> "sec_scramble"
  BY <1>5, <1>6 DEF StartSwap, RamAfterPrepare
<1>8. Wanted \in {"TEST", "PERM", "REVERT"} /\ Source \in {"NONE", "PRIMARY"}
  BY <1>2 DEF BOOT_IS_UPGRADE, Source, swap_status_source
<1>9. /\ boot' \in [source : {"NONE", "PRIMARY"}, swap_type : SwapTypes, type : SwapTypes]
      /\ Running' /\ boot'.source = Source /\ boot'.type = Wanted
      /\ Target' = IF Wanted = "TEST" THEN "test" ELSE "perm"
  BY <1>7, <1>8 DEF SwapTypes, Running, Target
<1>10. /\ Holds(pri, a)' /\ Holds(sec, b)'
       /\ \A o : Stage(a, b, o)' <=> Stage(a, b, o)
       /\ Idle(a, b, op)' <=> Idle(a, b, op)
       /\ Busy(a, b, op)' <=> Busy(a, b, op)
  BY <1>2, <1>3, StageSame, DurableSame
<1>11. Disjoint'
  BY Places, PTL
<1>12. tr.SEC.magic \in {"GOOD", "UNSET", "BAD"}
  BY <1>2 DEF Typed, BootTypeOK, Trailers
<1>13. CASE Wanted = "REVERT" /\ tr.SEC.magic = "UNSET"
  <2>1. pc' = "fix_scramble"
    BY <1>7, <1>13
  <2>2. ASSUME Idle(a, b, op) PROVE AtFix(a, b, op)'
    <3>1. Source = "NONE" /\ op = "revert"
      BY <1>2, <1>13, <2>2, IdleReads DEF Ops
    <3> QED
      BY <1>7, <1>9, <1>10, <1>13, <2>1, <2>2, <3>1 DEF AtFix
  <2>3. ASSUME Busy(a, b, op) PROVE AtFix(a, b, op)'
    <3>1. Source = "PRIMARY" /\ op = "perm"
      BY <1>2, <1>13, <2>3, BusyReads DEF InfoFor, Busy
    <3> QED
      BY <1>2, <1>3, <1>7, <1>9, <1>10, <1>13, <2>1, <2>3, <3>1 DEF AtFix
  <2>4. AtFix(a, b, op)'
    BY <1>1, <2>2, <2>3 DEF Durable
  <2>5. At(a, b, op)' /\ pc' \in AppPc \cup BootPc
    BY <1>11, <2>1, <2>4 DEF Disjoint, OnePlace, FixPc, BootPc
  <2> QED
    BY <1>1, <1>2, <1>9, <2>5, RamStep
<1>14. CASE ~(Wanted = "REVERT" /\ tr.SEC.magic = "UNSET") /\ Source # "PRIMARY"
  <2>1. pc' = "init_scramble"
    BY <1>7, <1>14
  <2>2. Idle(a, b, op)
    BY <1>1, <1>2, <1>14, BusyReads DEF Durable
  <2>3. /\ \/ tr.SEC.magic = "GOOD" /\ op = Target'
           \/ /\ tr.SEC.magic = "BAD" /\ "SEC" \in TearMagic
              /\ op = "revert" /\ Wanted = "REVERT"
    <3>1. /\ op = "revert" <=> Wanted = "REVERT"
          /\ op = "test" <=> Wanted = "TEST"
          /\ op = "perm" <=> Wanted = "PERM"
      BY <1>2, <1>8, <2>2, IdleReads DEF Ops
    <3>2. op \in {"test", "perm"} => tr.SEC.magic = "GOOD"
      BY <2>2 DEF Idle
    <3>3. op = "revert" => tr.SEC.magic # "GOOD"
      BY <2>2 DEF Idle
    <3>4. tr.SEC.magic = "BAD" => "SEC" \in TearMagic
      BY <1>2 DEF Typed
    <3> QED
      BY <1>8, <1>9, <1>12, <1>14, <3>1, <3>2, <3>3, <3>4
  <2>4. Stage(a, b, Target')
    <3>1. op = "revert" => Stage(a, b, "perm")
      BY <1>1, <1>2, <1>3, StageFacts, ImageFacts DEF Typed
    <3> QED
      BY <1>1, <1>9, <2>3, <3>1
  <2>5. Stage(a, b, Target)'
    BY <1>9, <1>10, <2>4
  <2>6. AtInit(a, b, op)'
    BY <1>2, <1>7, <1>9, <1>10, <2>1, <2>2, <2>3, <2>5 DEF AtInit
  <2>7. At(a, b, op)' /\ pc' \in AppPc \cup BootPc
    BY <1>11, <2>1, <2>6 DEF Disjoint, OnePlace, InitPc, BootPc
  <2> QED
    BY <1>1, <1>2, <1>9, <2>7, RamStep
<1>15. CASE ~(Wanted = "REVERT" /\ tr.SEC.magic = "UNSET") /\ Source = "PRIMARY"
  <2>1. pc' = "sec_scramble"
    BY <1>7, <1>15
  <2>2. Busy(a, b, op)
    BY <1>1, <1>2, <1>15, IdleReads DEF Durable
  <2>3. op = Target'
    BY <1>2, <1>9, <2>2, BusyReads DEF InfoFor, Busy
  <2>4. Stage(a, b, Target)'
    BY <1>1, <1>10, <2>3
  <2>5. /\ tr.PRI.magic = "GOOD" /\ SwapTrailer(tr.PRI, op)
        /\ status = 0 /\ swap_size = SwapSize(a, b)
    BY <1>3, <2>2 DEF Busy, BusyFlash
  <2>6. AtSec(a, b, op)'
    BY <1>2, <1>7, <1>9, <1>10, <2>1, <2>3, <2>4, <2>5 DEF AtSec
  <2>7. At(a, b, op)' /\ pc' \in AppPc \cup BootPc
    BY <1>11, <2>1, <2>6 DEF Disjoint, OnePlace, BootPc
  <2> QED
    BY <1>1, <1>2, <1>9, <2>7, RamStep
<1> QED
  BY <1>13, <1>14, <1>15

LEMMA RefusedIdle ==
    ASSUME Typed, NEW a \in Valid, NEW b \in Valid \cup {None}, NEW op \in Ops,
           Durable(a, b, op), ReadStatus = StatusReset, BootableIn(sec) = None
    PROVE  Idle(a, b, op) /\ b = None /\ Refused = "NONE" /\ Source = "NONE"
<1>1. ASSUME Busy(a, b, op) PROVE FALSE
  <2>1. Holds(sec, b)
    BY <1>1, BusyFacts
  <2> QED
    BY <2>1, HoldsBootable
<1>2. Idle(a, b, op) /\ b = None
  BY <1>1 DEF Durable, Idle
<1> QED
  BY <1>2, IdleReads DEF Refused

LEMMA PrepareErasedStep == BootInv /\ PrepareErased => BootInv'
<1> SUFFICES ASSUME BootInv, PrepareErased PROVE BootInv'
  OBVIOUS
<1>1. PICK a \in Valid, b \in Valid \cup {None}, op \in Ops :
          Stage(a, b, op) /\ Durable(a, b, op)
  BY DEF BootInv, Inv
<1>2. /\ Typed /\ ReadStatus = StatusReset /\ sec[0] = Torn
      /\ tr' = [tr EXCEPT !.SEC = ErasedTrailer]
      /\ boot' = RamAfterPrepare(Refused) /\ pc' \in {"unstick", "refused"}
      /\ UNCHANGED <<pri, sec, status, swap_size, pri0, sec0, history>>
  BY DEF BootInv, PrepareErased, engine
<1>3. Idle(a, b, op) /\ b = None /\ Refused = "NONE" /\ Source = "NONE" /\ BootableIn(sec) = None
  BY <1>1, <1>2, TornNotBootable, RefusedIdle
<1>4. /\ tr'.SEC = ErasedTrailer /\ tr'.PRI = tr.PRI
      /\ tr' \in [PRI : Trailers, SEC : Trailers] /\ tr'.SEC.magic # "BAD"
  BY <1>2, TrailerWrites DEF Typed, BootTypeOK, ErasedTrailer
<1>5. boot' = [source |-> "NONE", swap_type |-> "NONE", type |-> "NONE"]
  BY <1>2, <1>3 DEF RamAfterPrepare
<1>6. Typed'
  BY <1>2, <1>4, <1>5 DEF Typed, BootTypeOK, history, SwapTypes, BootPc, RefusedPc
<1> DEFINE nop == IF Unconfirmed(tr.PRI) THEN "revert" ELSE "none"
<1>7. /\ Holds(pri, a) /\ Settled(tr.PRI) /\ (Unconfirmed(tr.PRI) => ~confirmed)
  BY <1>3 DEF Idle
<1>8. Idle(a, None, nop)'
  BY <1>2, <1>3, <1>4, <1>7 DEF Idle, ErasedTrailer, Clean, history
<1>9. Stage(a, None, nop)'
  <2>1. Stage(a, None, nop)
    BY <1>1, <1>2, <1>3, <1>7, StageFacts DEF Typed
  <2>2. nop \in {"none", "revert"} /\ nop' = nop
    BY <1>4
  <2> QED
    BY <1>2, <2>1, <2>2, StageSame
<1>10. AtRefused(a, None, nop)'
  BY <1>2, <1>4, <1>5, <1>8 DEF AtRefused
<1>11. At(a, None, nop)'
  <2>1. Disjoint'
    BY Places, PTL
  <2> QED
    BY <1>2, <1>10, <2>1 DEF Disjoint, OnePlace, RefusedPc
<1>12. nop' \in Ops
  BY DEF Ops
<1> QED
  BY <1>6, <1>8, <1>9, <1>11, <1>12 DEF BootInv, Inv, Durable

LEMMA UnstickRevertStep == BootInv /\ UnstickRevert => BootInv'
<1> SUFFICES ASSUME BootInv, UnstickRevert PROVE BootInv'
  OBVIOUS
<1>1. PICK a \in Valid, b \in Valid \cup {None}, op \in Ops : Inv(a, b, op)
  BY DEF BootInv
<1>2. /\ Typed /\ pc' = "refused" /\ status' = 0 /\ swap_size' = 0
      /\ tr' = [tr EXCEPT !.PRI = ErasedTrailer]
      /\ UNCHANGED <<pri, sec, pri0, sec0, boot, history>>
  BY DEF BootInv, UnstickRevert
<1>3. /\ boot.type = "NONE" /\ b = None /\ Idle(a, b, op)
      /\ tr.SEC = ErasedTrailer /\ Stage(a, b, op)
  BY <1>1 DEF UnstickRevert, Inv, At, AtRefused, RefusedPc
<1>4. /\ tr'.PRI = ErasedTrailer /\ tr'.SEC = ErasedTrailer
      /\ tr' \in [PRI : Trailers, SEC : Trailers] /\ tr'.SEC.magic # "BAD"
  BY <1>2, <1>3, TrailerWrites DEF Typed, BootTypeOK, ErasedTrailer
<1>5. Typed'
  BY <1>2, <1>4, GeometryAssumption DEF Typed, BootTypeOK, history, BootPc, RefusedPc
<1>6. Idle(a, None, "none")'
  BY <1>2, <1>3, <1>4 DEF Idle, ErasedTrailer, Clean, Settled, Unconfirmed
<1>7. Stage(a, None, "none")'
  BY <1>2, <1>3, StageFacts, StageSame DEF Typed
<1>8. AtRefused(a, None, "none")'
  BY <1>2, <1>3, <1>4, <1>6 DEF AtRefused
<1>9. At(a, None, "none")'
  <2>1. Disjoint'
    BY Places, PTL
  <2> QED
    BY <1>2, <1>8, <2>1 DEF Disjoint, OnePlace, RefusedPc
<1> QED
  BY <1>5, <1>6, <1>7, <1>9 DEF BootInv, Inv, Durable, Ops

LEMMA PrepareInvalidStep == BootInv /\ PrepareInvalid => BootInv'
<1> SUFFICES ASSUME BootInv, PrepareInvalid PROVE BootInv'
  OBVIOUS
<1>1. PICK a \in Valid, b \in Valid \cup {None}, op \in Ops :
          Stage(a, b, op) /\ Durable(a, b, op)
  BY DEF BootInv, Inv
<1>2. /\ Typed /\ ReadStatus = StatusReset /\ BootableIn(sec) = None
      /\ sec' = [sec EXCEPT ![0] = Torn]
      /\ boot' = RamAfterPrepare(Refused) /\ pc' = "scramble_rest"
      /\ UNCHANGED <<pri, status, swap_size, pri0, sec0, tr, history>>
  BY DEF BootInv, PrepareInvalid
<1>3. Idle(a, b, op) /\ b = None /\ Refused = "NONE" /\ Source = "NONE"
  BY <1>1, <1>2, RefusedIdle
<1>4. sec' \in [0..SecSectors - 1 -> Content] /\ sec'[0] = Torn
  BY <1>2, ContentAssumption, GeometryAssumption DEF Typed, BootTypeOK
<1>5. boot' = [source |-> "NONE", swap_type |-> "NONE", type |-> "NONE"]
  BY <1>2, <1>3 DEF RamAfterPrepare
<1>6. Typed'
  BY <1>2, <1>4, <1>5 DEF Typed, BootTypeOK, history, SwapTypes, BootPc, RefusedPc
<1>7. BootableIn(sec') = None
  BY <1>4, TornNotBootable
<1>8. Idle(a, b, op)'
  BY <1>2, <1>3, <1>7 DEF Idle, history
<1>9. Stage(a, b, op)'
  BY <1>1, <1>2, StageSame
<1>10. AtRefused(a, b, op)'
  BY <1>2, <1>3, <1>5, <1>8 DEF AtRefused
<1>11. At(a, b, op)'
  <2>1. Disjoint'
    BY Places, PTL
  <2> QED
    BY <1>2, <1>10, <2>1 DEF Disjoint, OnePlace, RefusedPc
<1> QED
  BY <1>6, <1>8, <1>9, <1>11 DEF BootInv, Inv, Durable

LEMMA ScrambleRestStep == BootInv /\ ScrambleRest => BootInv'
<1> SUFFICES ASSUME BootInv, ScrambleRest PROVE BootInv'
  OBVIOUS
<1>1. PICK a \in Valid, b \in Valid \cup {None}, op \in Ops : Inv(a, b, op)
  BY DEF BootInv
<1>2. /\ Typed /\ pc' = "refused" /\ sec' = Blank(SecSectors)
      /\ tr' = [tr EXCEPT !.SEC = ErasedTrailer]
      /\ UNCHANGED <<pri, status, swap_size, pri0, sec0, boot, history>>
  BY DEF BootInv, ScrambleRest
<1>3. boot.type = "NONE" /\ b = None /\ Idle(a, b, op) /\ Stage(a, b, op)
  BY <1>1 DEF ScrambleRest, Inv, At, AtRefused, RefusedPc
<1>4. /\ tr'.SEC = ErasedTrailer /\ tr'.PRI = tr.PRI
      /\ tr' \in [PRI : Trailers, SEC : Trailers] /\ tr'.SEC.magic # "BAD"
  BY <1>2, TrailerWrites DEF Typed, BootTypeOK, ErasedTrailer
<1>5. sec' \in [0..SecSectors - 1 -> Content]
  BY <1>2, ContentAssumption DEF Blank
<1>6. Typed'
  BY <1>2, <1>4, <1>5 DEF Typed, BootTypeOK, history, BootPc, RefusedPc
<1> DEFINE nop == IF Unconfirmed(tr.PRI) THEN "revert" ELSE "none"
<1>7. /\ Holds(pri, a) /\ Settled(tr.PRI) /\ (Unconfirmed(tr.PRI) => ~confirmed)
  BY <1>3 DEF Idle
<1>8. BootableIn(sec') = None
  BY <1>2, BlankNotBootable
<1>9. Idle(a, None, nop)'
  BY <1>2, <1>4, <1>7, <1>8 DEF Idle, ErasedTrailer, Clean, history
<1>10. Stage(a, None, nop)'
  <2>1. Stage(a, None, nop)
    BY <1>2, <1>3, <1>7, StageFacts DEF Typed
  <2>2. nop' = nop
    BY <1>4
  <2> QED
    BY <1>2, <2>1, <2>2, StageSame
<1>11. AtRefused(a, None, nop)'
  BY <1>2, <1>3, <1>4, <1>9 DEF AtRefused
<1>12. At(a, None, nop)'
  <2>1. Disjoint'
    BY Places, PTL
  <2> QED
    BY <1>2, <1>11, <2>1 DEF Disjoint, OnePlace, RefusedPc
<1>13. nop' \in Ops
  BY DEF Ops
<1> QED
  BY <1>6, <1>9, <1>10, <1>12, <1>13 DEF BootInv, Inv, Durable

LEMMA RefusedUpgradeStep == BootInv /\ RefusedUpgrade => BootInv'
<1> SUFFICES ASSUME BootInv, RefusedUpgrade PROVE BootInv'
  OBVIOUS
<1>1. PICK a \in Valid, b \in Valid \cup {None}, op \in Ops : Inv(a, b, op)
  BY DEF BootInv
<1>2. /\ boot.type = "NONE" /\ b = None /\ Idle(a, b, op) /\ Stage(a, b, op)
      /\ tr.SEC = ErasedTrailer /\ op \in {"none", "revert"}
  BY <1>1 DEF RefusedUpgrade, Inv, At, AtRefused, RefusedPc
<1>3. /\ Typed /\ pc' = "validate"
      /\ UNCHANGED <<pri, sec, status, swap_size, pri0, sec0, tr, boot, history>>
  BY <1>2 DEF BootInv, RefusedUpgrade, engine
<1>4. Idle(a, b, op)'
  BY <1>2, <1>3, DurableSame
<1>5. AtValidate(a, b, op)'
  BY <1>2, <1>3, <1>4 DEF AtValidate, Clean, ErasedTrailer
<1>6. At(a, b, op)'
  <2>1. Disjoint'
    BY Places, PTL
  <2> QED
    BY <1>3, <1>5, <2>1 DEF Disjoint, OnePlace
<1>7. boot' \in [source : {"NONE", "PRIMARY"}, swap_type : SwapTypes, type : SwapTypes]
  BY <1>3 DEF Typed, BootTypeOK
<1> QED
  BY <1>2, <1>3, <1>6, <1>7, RamStep DEF BootPc, Durable

LEMMA StutterStep == BootInv /\ UNCHANGED bootVars => BootInv'
<1> SUFFICES ASSUME BootInv, UNCHANGED bootVars PROVE BootInv'
  OBVIOUS
<1>1. /\ UNCHANGED <<pri, sec, status, swap_size, bs, pri0, sec0, pc, tr, boot, history>>
  BY DEF bootVars, engine
<1>2. /\ Typed' <=> Typed
      /\ \A a, b, op : Stage(a, b, op)' <=> Stage(a, b, op)
      /\ \A a, b, op : /\ Idle(a, b, op)' <=> Idle(a, b, op)
                       /\ Busy(a, b, op)' <=> Busy(a, b, op)
      /\ Swapped' <=> Swapped
  BY <1>1, StageSame, DurableSame, FlashSame DEF Typed, BootTypeOK, history
<1>3. SwapInv' <=> SwapInv
  BY <1>1 DEF SwapInv, TypeOK, MoveShape, Swap0Shape, Swap1Shape, DoneShape,
              Exchanged, MovedUpFrom, SecUntouchedFrom, new_idx, last_idx
<1>4. /\ Running' <=> Running
      /\ Target' = Target /\ Asked' = Asked
  BY <1>1 DEF Running, Target, Asked, history
<1>5. ASSUME NEW a, NEW b, NEW op, At(a, b, op) PROVE At(a, b, op)'
  <2>1. AtApp(a, b, op)'
    BY <1>1, <1>2, <1>4, <1>5 DEF At, AtApp, history
  <2>2. AtFix(a, b, op)'
    BY <1>1, <1>2, <1>4, <1>5 DEF At, AtFix
  <2>3. AtInit(a, b, op)'
    BY <1>1, <1>2, <1>4, <1>5 DEF At, AtInit
  <2>4. AtSec(a, b, op)'
    BY <1>1, <1>2, <1>4, <1>5 DEF At, AtSec
  <2>5. AtLoop(a, b, op)'
    BY <1>1, <1>2, <1>3, <1>4, <1>5 DEF At, AtLoop
  <2>6. AtFin(a, b, op)'
    BY <1>1, <1>2, <1>4, <1>5 DEF At, AtFin
  <2>7. AtRefused(a, b, op)' /\ AtValidate(a, b, op)'
    BY <1>1, <1>2, <1>5 DEF At, AtRefused, AtValidate, history
  <2> QED
    BY <2>1, <2>2, <2>3, <2>4, <2>5, <2>6, <2>7 DEF At
<1> QED
  BY <1>2, <1>5 DEF BootInv, Inv, Durable

-----------------------------------------------------------------------------
(* fixup_revert.                                                             *)

(* While the magic of the secondary trailer is not good, the rest of that    *)
(* trailer does not count.                                                   *)
LEMMA SecTrailerFree ==
    ASSUME UNCHANGED <<pri, sec, status, swap_size, pri0, sec0, history>>, tr'.PRI = tr.PRI,
           tr'.SEC.magic # "GOOD"
    PROVE  /\ \A a, b : Idle(a, b, "revert") => Idle(a, b, "revert")'
           /\ \A a, b, op : Busy(a, b, op) /\ status = 0 => Busy(a, b, op)'
<1>1. \A a, b : Idle(a, b, "revert") => Idle(a, b, "revert")'
  BY DEF Idle, history
<1>2. \A a, b, op : Busy(a, b, op) /\ status = 0 => Busy(a, b, op)'
  BY FlashSame DEF Busy
<1> QED
  BY <1>1, <1>2

LEMMA FixStep ==
    ASSUME BootInv, NEW t \in Trailers, NEW next \in {"fix_ok", "fix_magic"},
           pc \in FixPc, Tr(next, "SEC", t),
           t.magic # "GOOD", t.magic = "BAD" => "SEC" \in TearMagic,
           next = "fix_magic" => t.image_ok = "SET"
    PROVE  BootInv'
<1>1. PICK a \in Valid, b \in Valid \cup {None}, op \in Ops : Inv(a, b, op)
  BY DEF BootInv
<1>2. Typed /\ AtFix(a, b, op) /\ Stage(a, b, op) /\ next \in AppPc \cup BootPc
  BY <1>1 DEF BootInv, Inv, At, BootPc, FixPc
<1>3. /\ tr'.SEC = t /\ tr'.PRI = tr.PRI /\ Typed' /\ pc' = next
      /\ UNCHANGED <<pri, sec, status, swap_size, bs, pri0, sec0, boot, history>>
  BY <1>2, TrailerStep
<1>4. IF boot.source = "PRIMARY" THEN Busy(a, b, op)' /\ op = "perm" /\ status' = 0
                                 ELSE Idle(a, b, op)' /\ op = "revert"
  BY <1>2, <1>3, SecTrailerFree DEF AtFix
<1>5. AtFix(a, b, op)'
  BY <1>2, <1>3, <1>4 DEF AtFix, Running
<1>6. At(a, b, op)'
  <2>1. Disjoint'
    BY Places, PTL
  <2> QED
    BY <1>3, <1>5, <2>1 DEF Disjoint, OnePlace, FixPc
<1>7. Stage(a, b, op)' /\ Durable(a, b, op)'
  BY <1>2, <1>3, <1>4, StageSame DEF Durable
<1> QED
  BY <1>3, <1>6, <1>7 DEF BootInv, Inv

LEMMA FixScrambleStep == BootInv /\ FixScramble => BootInv'
<1>1. ErasedTrailer \in Trailers /\ ErasedTrailer.magic \notin {"GOOD", "BAD"}
  BY DEF ErasedTrailer, Trailers
<1> QED
  BY <1>1, FixStep DEF FixScramble, FixPc

LEMMA FixImageOkStep == BootInv /\ FixImageOk => BootInv'
<1> SUFFICES ASSUME BootInv, FixImageOk PROVE BootInv'
  OBVIOUS
<1>1. PICK a \in Valid, b \in Valid \cup {None}, op \in Ops : Inv(a, b, op)
  BY DEF BootInv
<1>2. /\ Typed /\ AtFix(a, b, op) /\ pc = "fix_ok" /\ pc \in FixPc
      /\ Tr("fix_magic", "SEC", boot_write_image_ok(tr.SEC))
  BY <1>1 DEF BootInv, Inv, At, FixPc, FixImageOk
<1>3. /\ tr.SEC \in Trailers /\ tr.SEC.magic # "GOOD"
      /\ tr.SEC.magic = "BAD" => "SEC" \in TearMagic
  BY <1>2 DEF AtFix, Idle, Busy, Typed, BootTypeOK
<1>4. /\ boot_write_image_ok(tr.SEC) \in Trailers
      /\ boot_write_image_ok(tr.SEC).magic = tr.SEC.magic
      /\ boot_write_image_ok(tr.SEC).image_ok = "SET"
  BY <1>3 DEF boot_write_image_ok, Trailers
<1> QED
  BY <1>2, <1>3, <1>4, FixStep

LEMMA FixMagicStep == BootInv /\ FixMagic => BootInv'
<1> SUFFICES ASSUME BootInv, FixMagic PROVE BootInv'
  OBVIOUS
<1>1. PICK a \in Valid, b \in Valid \cup {None}, op \in Ops : Inv(a, b, op)
  BY DEF BootInv
<1>2. Typed /\ AtFix(a, b, op) /\ Stage(a, b, op) /\ pc = "fix_magic" /\ pc \in FixPc
  BY <1>1 DEF BootInv, Inv, At, FixMagic, FixPc
<1>3. /\ Running /\ boot.type = "REVERT" /\ Holds(pri, a) /\ Holds(sec, b)
      /\ IF boot.source = "PRIMARY" THEN Busy(a, b, op) /\ op = "perm" /\ status = 0
                                    ELSE Idle(a, b, op) /\ op = "revert"
      /\ bs = EnterLoop(StatusReset, SwapSize(a, b)) /\ tr.SEC.image_ok = "SET"
  BY <1>2 DEF AtFix
<1>4. tr.SEC \in Trailers /\ tr \in [PRI : Trailers, SEC : Trailers]
  BY <1>2 DEF Typed, BootTypeOK
<1>5. Disjoint'
  BY Places, PTL
<1> DEFINE next == IF boot.source = "PRIMARY" THEN "sec_scramble" ELSE "init_scramble"
<1>6. CASE Tr(next, "SEC", boot_write_magic(tr.SEC))
  <2>1. /\ boot_write_magic(tr.SEC) \in Trailers
        /\ boot_write_magic(tr.SEC).magic = "GOOD"
        /\ boot_write_magic(tr.SEC).image_ok = "SET"
    BY <1>3, <1>4 DEF boot_write_magic, Trailers
  <2>2. next \in AppPc \cup BootPc
    BY DEF BootPc, InitPc
  <2>3. /\ tr'.SEC = boot_write_magic(tr.SEC) /\ tr'.PRI = tr.PRI /\ Typed' /\ pc' = next
        /\ UNCHANGED <<pri, sec, status, swap_size, bs, pri0, sec0, boot, history>>
    BY <1>2, <1>6, <2>1, <2>2, TrailerStep
  <2>4. Idle(a, b, "perm")'
    BY <1>3, <2>1, <2>3, HoldsBootable DEF Idle
  <2>5. Stage(a, b, "perm")'
    <3>1. Stage(a, b, "perm")
      BY <1>2, <1>3, HoldsBootable, StageFacts DEF Typed
    <3> QED
      BY <2>3, <3>1, StageSame
  <2>6. Running' /\ Target' = "perm"
    BY <1>3, <2>3 DEF Running, Target
  <2>7. Stage(a, b, Target)'
    BY <2>5, <2>6
  <2>8. ASSUME boot.source = "PRIMARY" PROVE At(a, b, "perm")'
    <3>1. /\ tr.PRI.magic = "GOOD" /\ SwapTrailer(tr.PRI, "perm")
          /\ status = 0 /\ swap_size = SwapSize(a, b)
      BY <1>3, <2>8 DEF Busy, BusyFlash
    <3>2. AtSec(a, b, "perm")'
      BY <1>3, <2>3, <2>6, <2>7, <3>1 DEF AtSec
    <3> QED
      BY <1>5, <2>3, <2>8, <3>2 DEF Disjoint, OnePlace
  <2>9. ASSUME boot.source # "PRIMARY" PROVE At(a, b, "perm")'
    <3>1. AtInit(a, b, "perm")'
      BY <1>3, <2>1, <2>3, <2>4, <2>6, <2>7, <2>9 DEF AtInit
    <3> QED
      BY <1>5, <2>3, <2>9, <3>1 DEF Disjoint, OnePlace, InitPc
  <2> QED
    BY <2>3, <2>4, <2>5, <2>8, <2>9 DEF BootInv, Inv, Durable, Ops
<1>7. CASE /\ "SEC" \in TearMagic /\ tr' = [tr EXCEPT !["SEC"].magic = "BAD"]
           /\ pc' = "reset" /\ boot' = BootReset /\ UNCHANGED <<engine, history>>
  <2>1. /\ tr'.SEC = [tr.SEC EXCEPT !.magic = "BAD"] /\ tr'.PRI = tr.PRI
        /\ tr' \in [PRI : Trailers, SEC : Trailers] /\ tr'.SEC.magic = "BAD"
    BY <1>4, <1>7, TrailerWrites DEF Trailers
  <2>2. UNCHANGED <<pri, sec, status, swap_size, bs, pri0, sec0, history>>
    BY <1>7 DEF engine
  <2>3. Typed'
    BY <1>2, <1>7, <2>1, <2>2, BootResetType DEF Typed, BootTypeOK, BootPc, history
  <2>4. Durable(a, b, op)'
    BY <1>3, <2>1, <2>2, SecTrailerFree DEF Durable
  <2>5. Stage(a, b, op)' /\ At(a, b, op)'
    BY <1>2, <1>5, <1>7, <2>2, StageSame DEF Disjoint, OnePlace
  <2> QED
    BY <2>3, <2>4, <2>5 DEF BootInv, Inv
<1> QED
  BY <1>6, <1>7 DEF FixMagic, WriteMagic

-----------------------------------------------------------------------------
(* swap_status_init.                                                         *)

(* Until its magic is written the primary trailer does not count.            *)
LEMMA InitKeeps ==
    ASSUME NEW a \in Valid, NEW b \in Valid \cup {None}, NEW op \in Ops,
           Stage(a, b, op), AtInit(a, b, op), pc \in InitPc, pc # "init_scramble",
           Typed', pc' \in InitPc, pc' # "init_scramble",
           UNCHANGED <<pri, sec, bs, boot, history>>, tr'.SEC = tr.SEC,
           tr'.PRI.magic = "UNSET", tr'.PRI.copy_done = "UNSET",
           pc' \in {"init_erase", "init_info", "init_ok"} => tr'.PRI.image_ok = "UNSET",
           pc' \in {"init_info", "init_ok", "init_size", "init_magic"} => status' = 0,
           pc' \in {"init_ok", "init_size", "init_magic"} => SwapTrailer(tr'.PRI, Target),
           pc' = "init_magic" => swap_size' = SwapSize(a, b)
    PROVE  BootInv'
<1>1. /\ Running' /\ Target' = Target
      /\ Stage(a, b, op)' /\ (Stage(a, b, Target) => Stage(a, b, Target'))
  BY StageSame DEF Running, Target, AtInit
<1>2. Stage(a, b, Target)'
  BY <1>1, StageSame DEF AtInit
<1>3. Idle(a, b, op) /\ Holds(sec, b) /\ b # None /\ op \in {"none", "test", "perm"}
  BY HoldsBootable DEF AtInit, Target
<1>4. Idle(a, b, op)'
  BY <1>3 DEF Idle, Settled, Unconfirmed
<1>5. AtInit(a, b, op)'
  BY <1>1, <1>2, <1>3, <1>4 DEF AtInit
<1>6. At(a, b, op)'
  <2>1. Disjoint'
    BY Places, PTL
  <2> QED
    BY <1>5, <2>1 DEF Disjoint, OnePlace
<1> QED
  BY <1>1, <1>4, <1>6 DEF BootInv, Inv, Durable

LEMMA InitScrambleStep == BootInv /\ InitScramble => BootInv'
<1> SUFFICES ASSUME BootInv, InitScramble PROVE BootInv'
  OBVIOUS
<1>1. PICK a \in Valid, b \in Valid \cup {None}, op \in Ops : Inv(a, b, op)
  BY DEF BootInv
<1>2. Typed /\ AtInit(a, b, op) /\ Stage(a, b, op) /\ pc = "init_scramble" /\ pc \in InitPc
  BY <1>1 DEF BootInv, Inv, At, InitScramble, InitPc
<1>3. ErasedTrailer \in Trailers /\ "init_erase" \in AppPc \cup BootPc
  BY TrailerWrites DEF BootPc, InitPc, BootTypeOK, Typed, Trailers, ErasedTrailer
<1>4. /\ tr'.PRI = ErasedTrailer /\ tr'.SEC = tr.SEC /\ Typed' /\ pc' = "init_erase"
      /\ UNCHANGED <<pri, sec, status, swap_size, bs, pri0, sec0, boot, history>>
  BY <1>2, <1>3, TrailerStep DEF InitScramble
<1>5. /\ Running /\ Idle(a, b, op) /\ Holds(sec, b) /\ Stage(a, b, Target) /\ b # None
      /\ bs = EnterLoop(StatusReset, SwapSize(a, b))
      /\ \/ tr.SEC.magic = "GOOD" /\ op = Target
         \/ /\ tr.SEC.magic = "BAD" /\ "SEC" \in TearMagic
            /\ op = "revert" /\ boot.type = "REVERT"
  BY <1>2, HoldsBootable DEF AtInit
<1> DEFINE nop == IF op = "revert" THEN "none" ELSE op
<1>6. nop \in Ops /\ Stage(a, b, nop)
  <2>1. op = "revert" => "SEC" \in TearMagic
    BY <1>5 DEF Target
  <2>2. BootTypeOK /\ Stage(a, b, op) /\ b # None
    BY <1>2, <1>5 DEF Typed
  <2>3. op = "revert" => Stage(a, b, "none")
    BY <2>1, <2>2, StageFacts
  <2> QED
    BY <2>2, <2>3 DEF Ops
<1>7. Idle(a, b, nop)'
  <2>1. Settled(tr.PRI)' /\ ~Unconfirmed(tr.PRI)' /\ Clean(tr.SEC)' = Clean(tr.SEC)
    BY <1>4 DEF ErasedTrailer, Settled, Unconfirmed, Clean
  <2>2. Idle(a, b, op) /\ (op = "revert" => tr.SEC.magic = "BAD")
    BY <1>5 DEF Target
  <2>3. op = "revert" => Clean(tr.SEC)
    BY <2>2 DEF Clean
  <2> QED
    BY <1>4, <2>1, <2>2, <2>3 DEF Idle
<1>8. Running' /\ Target' = Target /\ Stage(a, b, nop)' /\ Stage(a, b, Target)'
  <2>1. Running' /\ Target' = Target
    BY <1>4, <1>5 DEF Running, Target
  <2> QED
    BY <1>4, <1>5, <1>6, <2>1, StageSame
<1>9. AtInit(a, b, nop)'
  <2>1. /\ \/ tr'.SEC.magic = "GOOD" /\ nop = Target'
           \/ /\ tr'.SEC.magic = "BAD" /\ "SEC" \in TearMagic
              /\ nop = "none" /\ boot'.type = "REVERT"
    BY <1>4, <1>5, <1>8 DEF Target
  <2>2. tr'.PRI.magic = "UNSET" /\ tr'.PRI.copy_done = "UNSET" /\ tr'.PRI.image_ok = "UNSET"
    BY <1>4 DEF ErasedTrailer
  <2>3. Holds(sec, b)' /\ (bs = EnterLoop(StatusReset, SwapSize(a, b)))'
    BY <1>4, <1>5
  <2> QED
    BY <1>4, <1>7, <1>8, <2>1, <2>2, <2>3 DEF AtInit
<1>10. At(a, b, nop)'
  <2>1. Disjoint'
    BY Places, PTL
  <2> QED
    BY <1>4, <1>9, <2>1 DEF Disjoint, OnePlace, InitPc
<1> QED
  BY <1>4, <1>6, <1>7, <1>8, <1>10 DEF BootInv, Inv, Durable

LEMMA InitEraseStep == BootInv /\ InitErase => BootInv'
<1> SUFFICES ASSUME BootInv, InitErase PROVE BootInv'
  OBVIOUS
<1>1. PICK a \in Valid, b \in Valid \cup {None}, op \in Ops : Inv(a, b, op)
  BY DEF BootInv
<1>2. /\ Typed /\ AtInit(a, b, op) /\ Stage(a, b, op) /\ pc = "init_erase" /\ pc \in InitPc
      /\ pc' = "init_info" /\ pc' \in InitPc /\ pc' \in BootPc /\ status' = 0 /\ swap_size' = 0
      /\ UNCHANGED <<pri, sec, bs, pri0, sec0, tr, boot, history>>
  BY <1>1 DEF BootInv, Inv, At, InitErase, InitPc, BootPc
<1>3. Typed'
  BY <1>2, GeometryAssumption DEF Typed, BootTypeOK, history
<1>4. tr.PRI.magic = "UNSET" /\ tr.PRI.copy_done = "UNSET" /\ tr.PRI.image_ok = "UNSET"
  BY <1>2 DEF AtInit
<1> QED
  BY <1>1, <1>2, <1>3, <1>4, InitKeeps

LEMMA InitSwapInfoStep == BootInv /\ InitSwapInfo => BootInv'
<1> SUFFICES ASSUME BootInv, InitSwapInfo PROVE BootInv'
  OBVIOUS
<1>1. PICK a \in Valid, b \in Valid \cup {None}, op \in Ops : Inv(a, b, op)
  BY DEF BootInv
<1>2. /\ Typed /\ AtInit(a, b, op) /\ Stage(a, b, op) /\ pc = "init_info" /\ pc \in InitPc
      /\ "init_ok" \in InitPc /\ "init_ok" \in AppPc \cup BootPc
  BY <1>1 DEF BootInv, Inv, At, InitSwapInfo, InitPc, BootPc
<1>3. /\ tr.PRI.magic = "UNSET" /\ tr.PRI.copy_done = "UNSET" /\ tr.PRI.image_ok = "UNSET"
      /\ status = 0 /\ Running
  BY <1>2 DEF AtInit
<1> DEFINE t == boot_write_swap_info(tr.PRI, boot.swap_type)
<1>4. /\ t \in Trailers /\ t.magic = "UNSET" /\ t.copy_done = "UNSET" /\ t.image_ok = "UNSET"
      /\ t.swap_info = boot.type /\ boot.type \in {"TEST", "PERM", "REVERT"}
  BY <1>2, <1>3 DEF Typed, BootTypeOK, Running, boot_write_swap_info, Trailers
<1>5. SwapTrailer(t, Target)
  BY <1>4 DEF SwapTrailer, Target, InfoFor
<1> HIDE DEF t
<1>6. /\ tr'.PRI = t /\ tr'.SEC = tr.SEC /\ Typed' /\ pc' = "init_ok"
      /\ UNCHANGED <<pri, sec, status, swap_size, bs, pri0, sec0, boot, history>>
  BY <1>2, <1>4, TrailerStep DEF InitSwapInfo, t
<1> QED
  BY <1>1, <1>2, <1>3, <1>4, <1>5, <1>6, InitKeeps

LEMMA InitImageOkStep == BootInv /\ InitImageOk => BootInv'
<1> SUFFICES ASSUME BootInv, InitImageOk PROVE BootInv'
  OBVIOUS
<1>1. PICK a \in Valid, b \in Valid \cup {None}, op \in Ops : Inv(a, b, op)
  BY DEF BootInv
<1>2. /\ Typed /\ AtInit(a, b, op) /\ Stage(a, b, op) /\ pc = "init_ok" /\ pc \in InitPc
      /\ "init_size" \in InitPc /\ "init_size" \in AppPc \cup BootPc
  BY <1>1 DEF BootInv, Inv, At, InitImageOk, InitPc, BootPc
<1>3. /\ tr.PRI.magic = "UNSET" /\ tr.PRI.copy_done = "UNSET" /\ status = 0
      /\ SwapTrailer(tr.PRI, Target) /\ tr.PRI \in Trailers
  BY <1>2 DEF AtInit, Typed, BootTypeOK
<1>4. Target = "test" => tr.SEC.image_ok = "UNSET"
  BY <1>2 DEF AtInit, Target, Idle
<1> DEFINE t == IF tr.SEC.image_ok = "SET" THEN boot_write_image_ok(tr.PRI) ELSE tr.PRI
<1>5. /\ t \in Trailers /\ t.magic = "UNSET" /\ t.copy_done = "UNSET"
      /\ t.swap_info = tr.PRI.swap_info
      /\ tr.SEC.image_ok # "SET" => t.image_ok = tr.PRI.image_ok
  BY <1>3 DEF boot_write_image_ok, Trailers
<1>6. SwapTrailer(t, Target)
  BY <1>3, <1>4, <1>5 DEF SwapTrailer
<1> HIDE DEF t
<1>7. /\ tr'.PRI = t /\ tr'.SEC = tr.SEC /\ Typed' /\ pc' = "init_size"
      /\ UNCHANGED <<pri, sec, status, swap_size, bs, pri0, sec0, boot, history>>
  BY <1>2, <1>5, TrailerStep DEF InitImageOk, t
<1> QED
  BY <1>1, <1>2, <1>3, <1>5, <1>6, <1>7, InitKeeps

LEMMA InitSwapSizeStep == BootInv /\ InitSwapSize => BootInv'
<1> SUFFICES ASSUME BootInv, InitSwapSize PROVE BootInv'
  OBVIOUS
<1>1. PICK a \in Valid, b \in Valid \cup {None}, op \in Ops : Inv(a, b, op)
  BY DEF BootInv
<1>2. /\ Typed /\ AtInit(a, b, op) /\ Stage(a, b, op) /\ pc = "init_size" /\ pc \in InitPc
      /\ pc' = "init_magic" /\ pc' \in InitPc /\ pc' \in BootPc /\ swap_size' = bs.swap_size
      /\ UNCHANGED <<pri, sec, status, bs, pri0, sec0, tr, boot, history>>
  BY <1>1 DEF BootInv, Inv, At, InitSwapSize, InitPc, BootPc
<1>3. /\ tr.PRI.magic = "UNSET" /\ tr.PRI.copy_done = "UNSET" /\ status = 0
      /\ SwapTrailer(tr.PRI, Target) /\ bs = EnterLoop(StatusReset, SwapSize(a, b))
      /\ Holds(pri, a) /\ Holds(sec, b)
  BY <1>2 DEF AtInit, Idle
<1>4. swap_size' = SwapSize(a, b) /\ SwapSize(a, b) \in 0..MaxImgSectors
  <2>1. /\ a \in Valid /\ b \in Valid /\ Size[a] <= app_max_size /\ Size[b] <= app_max_size
    BY <1>3 DEF Holds
  <2>2. SwapSize(a, b) \in Nat /\ SwapSize(a, b) > 0 /\ SwapSize(a, b) < MaxImgSectors
    BY <2>1, SwapSizeFacts
  <2>3. bs.swap_size = SwapSize(a, b)
    BY <1>3, <2>2, EnterStart
  <2> QED
    BY <1>2, <2>2, <2>3, GeometryAssumption
<1>5. Typed'
  BY <1>2, <1>4 DEF Typed, BootTypeOK, history
<1> QED
  BY <1>1, <1>2, <1>3, <1>4, <1>5, InitKeeps

LEMMA InitMagicStep == BootInv /\ InitMagic => BootInv'
<1> SUFFICES ASSUME BootInv, InitMagic PROVE BootInv'
  OBVIOUS
<1>1. PICK a \in Valid, b \in Valid \cup {None}, op \in Ops : Inv(a, b, op)
  BY DEF BootInv
<1>2. Typed /\ AtInit(a, b, op) /\ Stage(a, b, op) /\ pc = "init_magic" /\ pc \in InitPc
  BY <1>1 DEF BootInv, Inv, At, InitMagic, InitPc
<1>3. /\ Running /\ Idle(a, b, op) /\ Holds(pri, a) /\ Holds(sec, b) /\ Stage(a, b, Target)
      /\ b # None /\ status = 0 /\ swap_size = SwapSize(a, b)
      /\ bs = EnterLoop(StatusReset, SwapSize(a, b)) /\ SwapTrailer(tr.PRI, Target)
      /\ \/ tr.SEC.magic = "GOOD" /\ op = Target
         \/ tr.SEC.magic = "BAD" /\ op = "none" /\ boot.type = "REVERT"
  BY <1>2, HoldsBootable DEF AtInit, Idle
<1>4. tr.PRI \in Trailers /\ tr \in [PRI : Trailers, SEC : Trailers]
  BY <1>2 DEF Typed, BootTypeOK
<1>5. Disjoint'
  BY Places, PTL
<1>6. CASE Tr("sec_scramble", "PRI", boot_write_magic(tr.PRI))
  <2>1. /\ boot_write_magic(tr.PRI) \in Trailers
        /\ boot_write_magic(tr.PRI).magic = "GOOD"
        /\ SwapTrailer(boot_write_magic(tr.PRI), Target)
    BY <1>3, <1>4 DEF boot_write_magic, Trailers, SwapTrailer
  <2>2. "sec_scramble" \in AppPc \cup BootPc
    BY DEF BootPc
  <2>3. /\ tr'.PRI = boot_write_magic(tr.PRI) /\ tr'.SEC = tr.SEC /\ Typed'
        /\ pc' = "sec_scramble"
        /\ UNCHANGED <<pri, sec, status, swap_size, bs, pri0, sec0, boot, history>>
    BY <1>2, <1>6, <2>1, <2>2, TrailerStep
  <2>4. Running' /\ Target' = Target /\ Target \in {"test", "perm"} /\ Stage(a, b, Target)'
    <3>1. Running' /\ Target' = Target /\ Target \in {"test", "perm"}
      BY <1>3, <2>3 DEF Running, Target
    <3> QED
      BY <1>3, <2>3, <3>1, StageSame
  <2>5. Durable(a, b, Target)'
    <3>1. CASE tr.SEC.magic = "GOOD" /\ op = Target
      <4>1. Idle(a, b, Target)'
        BY <1>3, <2>3, <2>4, <3>1 DEF Idle
      <4> QED
        BY <4>1 DEF Durable
    <3>2. CASE tr.SEC.magic = "BAD"
      <4>1. Busy(a, b, Target)'
        BY <1>3, <2>1, <2>3, <2>4, <3>2 DEF Busy, BusyFlash
      <4> QED
        BY <4>1 DEF Durable
    <3> QED
      BY <1>3, <3>1, <3>2
  <2>6. AtSec(a, b, Target)'
    BY <1>3, <2>1, <2>3, <2>4 DEF AtSec
  <2>7. At(a, b, Target)'
    BY <1>5, <2>3, <2>6 DEF Disjoint, OnePlace
  <2> QED
    BY <2>3, <2>4, <2>5, <2>7 DEF BootInv, Inv, Ops
<1>7. CASE /\ "PRI" \in TearMagic /\ tr' = [tr EXCEPT !["PRI"].magic = "BAD"]
           /\ pc' = "reset" /\ boot' = BootReset /\ UNCHANGED <<engine, history>>
  <2>1. /\ tr'.PRI = [tr.PRI EXCEPT !.magic = "BAD"] /\ tr'.SEC = tr.SEC
        /\ tr' \in [PRI : Trailers, SEC : Trailers] /\ tr'.PRI.magic = "BAD"
    BY <1>4, <1>7, TrailerWrites DEF Trailers
  <2>2. UNCHANGED <<pri, sec, status, swap_size, bs, pri0, sec0, history>>
    BY <1>7 DEF engine
  <2>3. Typed'
    BY <1>2, <1>7, <2>1, <2>2, BootResetType DEF Typed, BootTypeOK, BootPc, history
  <2>4. Idle(a, b, op)'
    BY <1>3, <2>1, <2>2 DEF Idle, Target, Settled, Unconfirmed
  <2>5. Stage(a, b, op)' /\ At(a, b, op)'
    BY <1>2, <1>5, <1>7, <2>2, StageSame DEF Disjoint, OnePlace
  <2> QED
    BY <2>3, <2>4, <2>5 DEF BootInv, Inv, Durable
<1> QED
  BY <1>6, <1>7 DEF InitMagic, WriteMagic

-----------------------------------------------------------------------------
(* swap_run and what follows it.                                             *)

LEMMA SecScrambleStep == BootInv /\ SecScramble => BootInv'
<1> SUFFICES ASSUME BootInv, SecScramble PROVE BootInv'
  OBVIOUS
<1>1. PICK a \in Valid, b \in Valid \cup {None}, op \in Ops : Inv(a, b, op)
  BY DEF BootInv
<1>2. /\ Typed /\ pc' = LoopPc(bs) /\ pri0' = pri /\ sec0' = sec
      /\ tr' = [tr EXCEPT !.SEC = ErasedTrailer]
      /\ UNCHANGED <<pri, sec, status, swap_size, bs, boot, history>>
  BY DEF BootInv, SecScramble
<1>3. /\ Running /\ Holds(pri, a) /\ Holds(sec, b) /\ Stage(a, b, Target)
      /\ tr.PRI.magic = "GOOD" /\ SwapTrailer(tr.PRI, Target)
      /\ status = 0 /\ swap_size = SwapSize(a, b)
      /\ bs = EnterLoop(StatusReset, SwapSize(a, b))
  BY <1>1 DEF Inv, At, AtSec, SecScramble
<1>4. swap_size \in 1..SecSectors /\ Swappable(swap_size) /\ pc' = "move_erase"
  BY <1>2, <1>3, SwapSizeFacts, EnterStart DEF Holds
<1>5. SwapInv'
  <2>1. Init'
    BY <1>2, <1>3, <1>4 DEF Init, Typed, BootTypeOK
  <2>2. (Init => SwapInv)'
    BY InitEstablishes, PTL
  <2> QED
    BY <2>1, <2>2
<1>6. /\ tr'.SEC = ErasedTrailer /\ tr'.PRI = tr.PRI /\ tr' \in [PRI : Trailers, SEC : Trailers]
      /\ tr'.SEC.magic = "UNSET"
  BY <1>2 DEF Typed, BootTypeOK, ErasedTrailer, Trailers
<1>7. Typed' /\ pc' \in LoopPcs
  BY <1>2, <1>4, <1>6 DEF Typed, BootTypeOK, history, BootPc, LoopPcs, MovePc
<1>8. Running' /\ Target' = Target /\ Target \in {"test", "perm"} /\ Stage(a, b, Target)'
  <2>1. Running' /\ Target' = Target /\ Target \in {"test", "perm"}
    BY <1>2, <1>3 DEF Running, Target
  <2> QED
    BY <1>2, <1>3, <2>1, StageSame
<1>9. Busy(a, b, Target)'
  BY <1>2, <1>3, <1>6, <1>8 DEF Busy, BusyFlash
<1>10. AtLoop(a, b, Target)'
  BY <1>2, <1>3, <1>5, <1>6, <1>8, <1>9 DEF AtLoop
<1>11. At(a, b, Target)'
  <2>1. Disjoint'
    BY Places, PTL
  <2> QED
    BY <1>7, <1>10, <2>1 DEF Disjoint, OnePlace
<1> QED
  BY <1>7, <1>8, <1>9, <1>11 DEF BootInv, Inv, Durable, Ops

LEMMA SwapSectorsStep == BootInv /\ SwapSectors => BootInv'
<1> SUFFICES ASSUME BootInv, SwapSectors PROVE BootInv'
  OBVIOUS
<1>1. PICK a \in Valid, b \in Valid \cup {None}, op \in Ops : Inv(a, b, op)
  BY DEF BootInv
<1>2. Typed /\ Stage(a, b, op) /\ UNCHANGED <<tr, boot, history>>
  BY <1>1 DEF BootInv, Inv, SwapSectors
<1>3. pc \in LoopPcs
  BY DEF SwapSectors, SwapStep, MoveErase, MoveCopy, MoveStatus, Swap0Erase, Swap0Copy,
         Swap0Status, Swap1Erase, Swap1Copy, Swap1Status, LoopPcs, MovePc, SwapPc
<1>4. UNCHANGED <<swap_size, pri0, sec0>>
  BY DEF SwapSectors, SwapStep, MoveErase, MoveCopy, MoveStatus, Swap0Erase, Swap0Copy,
         Swap0Status, Swap1Erase, Swap1Copy, Swap1Status
<1>5. /\ Running /\ op = Target /\ Busy(a, b, op) /\ tr.SEC = ErasedTrailer
      /\ SwapInv /\ Holds(pri0, a) /\ Holds(sec0, b)
  BY <1>1, <1>3 DEF Inv, At, AtLoop
<1>6. SwapInv'
  BY <1>5, MoveEraseStep, MoveCopyStep, MoveStatusStep, Swap0EraseStep, Swap0CopyStep,
     Swap0StatusStep, Swap1EraseStep, Swap1CopyStep, Swap1StatusStep DEF SwapSectors, SwapStep
<1>7. Tells'
  <2>1. (SwapInv => Tells)'
    BY LoopProgress, PTL
  <2> QED
    BY <1>6, <2>1
<1>8. /\ pri' \in [0..PriSectors - 1 -> Content] /\ sec' \in [0..SecSectors - 1 -> Content]
      /\ status' \in 0..(3 * MaxImgSectors) /\ pc' \in LoopPcs
  BY <1>6 DEF SwapInv, TypeOK, LoopPcs
<1>9. Typed'
  BY <1>2, <1>4, <1>8 DEF Typed, BootTypeOK, history, BootPc
<1>10. /\ swap_size = SwapSize(a, b) /\ swap_size \in Nat
       /\ Size[a] <= swap_size /\ Size[b] <= swap_size
  BY <1>5, SwapSizeFacts DEF Busy, BusyFlash, Holds
<1>11. BusyFlash(a, b)'
  <2>1. CASE status' = 0
    <3>1. \A j \in 0..swap_size - 1 : pri'[j] = pri0[j] /\ sec'[j] = sec0[j]
      BY <1>4, <1>7, <2>1 DEF Tells
    <3>2. Holds(pri', a) /\ Holds(sec', b)
      BY <1>5, <1>10, <3>1, HoldsSame
    <3> QED
      BY <1>4, <1>10, <2>1, <3>2 DEF BusyFlash
  <2>2. CASE status' # 0
    BY <1>4, <1>5, <1>7, <1>10, <2>2 DEF BusyFlash, Tells
  <2> QED
    BY <2>1, <2>2
<1>12. Busy(a, b, op)'
  BY <1>2, <1>5, <1>11 DEF Busy
<1>13. AtLoop(a, b, op)'
  BY <1>2, <1>4, <1>5, <1>6, <1>12 DEF AtLoop, Running, Target
<1>14. At(a, b, op)'
  <2>1. Disjoint'
    BY Places, PTL
  <2> QED
    BY <1>8, <1>13, <2>1 DEF Disjoint, OnePlace
<1>15. Stage(a, b, op)'
  BY <1>2, StageSame
<1> QED
  BY <1>9, <1>12, <1>14, <1>15 DEF BootInv, Inv, Durable

LEMMA SwapRunReturnsStep == BootInv /\ SwapRunReturns => BootInv'
<1> SUFFICES ASSUME BootInv, SwapRunReturns PROVE BootInv'
  OBVIOUS
<1>1. PICK a \in Valid, b \in Valid \cup {None}, op \in Ops : Inv(a, b, op)
  BY DEF BootInv
<1>2. /\ Typed /\ Stage(a, b, op) /\ pc = "done" /\ pc \in LoopPcs /\ pc' = "fin_ok"
      /\ UNCHANGED <<pri, sec, status, swap_size, pri0, sec0, tr, boot, history>>
  BY <1>1 DEF BootInv, Inv, SwapRunReturns, engine, LoopPcs
<1>3. Running /\ op = Target /\ Busy(a, b, op) /\ SwapInv
  BY <1>1, <1>2 DEF Inv, At, AtLoop
<1>4. Swapped
  BY <1>2, <1>3, LoopProgress DEF Tells
<1>5. AtFin(a, b, op)'
  BY <1>2, <1>3, <1>4, DurableSame, FlashSame DEF AtFin, Running, Target
<1>6. At(a, b, op)' /\ pc' \in AppPc \cup BootPc
  <2>1. Disjoint'
    BY Places, PTL
  <2> QED
    BY <1>2, <1>5, <2>1 DEF Disjoint, OnePlace, FinPc, BootPc
<1>7. boot' \in [source : {"NONE", "PRIMARY"}, swap_type : SwapTypes, type : SwapTypes]
  BY <1>2 DEF Typed, BootTypeOK
<1> QED
  BY <1>2, <1>3, <1>6, <1>7, RamStep DEF Durable

LEMMA SetImageOkStep == BootInv /\ SetImageOk => BootInv'
<1> SUFFICES ASSUME BootInv, SetImageOk PROVE BootInv'
  OBVIOUS
<1>1. PICK a \in Valid, b \in Valid \cup {None}, op \in Ops : Inv(a, b, op)
  BY DEF BootInv
<1>2. /\ Typed /\ Stage(a, b, op) /\ pc = "fin_ok" /\ pc \in FinPc
      /\ "fin_done" \in FinPc /\ "fin_done" \in AppPc \cup BootPc
  BY <1>1 DEF BootInv, Inv, SetImageOk, FinPc, BootPc
<1>3. Running /\ op = Target /\ Busy(a, b, op) /\ Swapped /\ tr.PRI \in Trailers
  BY <1>1, <1>2 DEF Inv, At, AtFin, Typed, BootTypeOK
<1> DEFINE t == IF boot.type \in {"REVERT", "PERM"} THEN boot_write_image_ok(tr.PRI) ELSE tr.PRI
<1>4. /\ t \in Trailers /\ t.magic = tr.PRI.magic /\ t.copy_done = tr.PRI.copy_done
      /\ t.swap_info = tr.PRI.swap_info
      /\ boot.type \in {"REVERT", "PERM"} => t.image_ok = "SET"
      /\ boot.type \notin {"REVERT", "PERM"} => t.image_ok = tr.PRI.image_ok
  BY <1>3 DEF boot_write_image_ok, Trailers
<1>5. /\ op = "perm" => t.image_ok = "SET"
      /\ op = "test" => t.image_ok = tr.PRI.image_ok
  BY <1>3, <1>4 DEF Running, Target
<1> HIDE DEF t
<1>6. /\ tr'.PRI = t /\ tr'.SEC = tr.SEC /\ Typed' /\ pc' = "fin_done"
      /\ UNCHANGED <<pri, sec, status, swap_size, bs, pri0, sec0, boot, history>>
  BY <1>2, <1>4, TrailerStep DEF SetImageOk, t
<1>7. Busy(a, b, op)' /\ Swapped'
  <2>1. (BusyFlash(a, b)' <=> BusyFlash(a, b)) /\ (Swapped' <=> Swapped)
    BY <1>6, FlashSame
  <2> QED
    BY <1>3, <1>4, <1>5, <1>6, <2>1 DEF Busy, SwapTrailer
<1>8. AtFin(a, b, op)'
  BY <1>3, <1>5, <1>6, <1>7 DEF AtFin, Running, Target
<1>9. At(a, b, op)'
  <2>1. Disjoint'
    BY Places, PTL
  <2> QED
    BY <1>2, <1>6, <1>8, <2>1 DEF Disjoint, OnePlace
<1>10. Stage(a, b, op)'
  BY <1>2, <1>6, StageSame
<1> QED
  BY <1>6, <1>7, <1>9, <1>10 DEF BootInv, Inv, Durable

LEMMA SetCopyDoneStep == BootInv /\ SetCopyDone => BootInv'
<1> SUFFICES ASSUME BootInv, SetCopyDone PROVE BootInv'
  OBVIOUS
<1>1. PICK a \in Valid, b \in Valid \cup {None}, op \in Ops : Inv(a, b, op)
  BY DEF BootInv
<1>2. /\ Typed /\ Stage(a, b, op) /\ pc = "fin_done" /\ pc \in FinPc
      /\ "validate" \in AppPc \cup BootPc
  BY <1>1 DEF BootInv, Inv, SetCopyDone, FinPc, BootPc
<1>3. /\ Running /\ op = Target /\ Busy(a, b, op) /\ Swapped /\ tr.PRI \in Trailers
      /\ op = "perm" => tr.PRI.image_ok = "SET"
  BY <1>1, <1>2 DEF Inv, At, AtFin, Typed, BootTypeOK
<1>4. /\ b \in Valid /\ Size[a] <= app_max_size /\ Size[b] <= app_max_size
      /\ swap_size = SwapSize(a, b)
      /\ status # 0 => Holds(pri0, a) /\ Holds(sec0, b)
  BY <1>2, <1>3, BusyFacts
<1>5. /\ swap_size \in Nat /\ Size[a] <= swap_size /\ Size[b] <= swap_size
  BY <1>4, SwapSizeFacts
<1>6. status # 0 /\ \A j \in 0..swap_size - 1 : pri[j] = sec0[j] /\ sec[j] = pri0[j]
  BY <1>3, <1>5, GeometryAssumption DEF Swapped, Exchanged
<1>7. Holds(pri, b) /\ Holds(sec, a)
  BY <1>4, <1>5, <1>6, HoldsSame
<1>8. /\ tr.PRI.magic = "GOOD" /\ tr.SEC = ErasedTrailer
      /\ op = "test" => tr.PRI.image_ok = "UNSET"
  BY <1>3, <1>6 DEF Busy, SwapTrailer
<1> DEFINE t == boot_write_copy_done(tr.PRI)
<1>9. /\ t \in Trailers /\ t.magic = "GOOD" /\ t.copy_done = "SET"
      /\ t.image_ok = tr.PRI.image_ok
  BY <1>3, <1>8 DEF boot_write_copy_done, Trailers
<1> HIDE DEF t
<1>10. /\ tr'.PRI = t /\ tr'.SEC = ErasedTrailer /\ Typed' /\ pc' = "validate"
       /\ UNCHANGED <<pri, sec, status, swap_size, bs, pri0, sec0, boot, history>>
  <2>1. Tr("validate", "PRI", t)
    BY <1>3 DEF SetCopyDone, t, Running, BOOT_IS_UPGRADE
  <2> QED
    BY <1>2, <1>8, <1>9, <2>1, TrailerStep
<1> DEFINE nop == IF op = "test" THEN "revert" ELSE "none"
<1>11. op \in {"test", "perm"} /\ nop \in Ops
  BY <1>3 DEF Busy, Ops
<1>12. b # None /\ a # None /\ BootableIn(sec) = a
  BY <1>7, HoldsBootable
<1>13. /\ Stage(b, a, nop)
       /\ nop = "revert" => a = running /\ b = spare /\ request = "test"
  BY <1>2, <1>11, <1>12, StageFacts DEF Typed
<1>14. Idle(b, a, nop)' /\ Clean(tr.SEC)'
  <2>1. Clean(tr.SEC)' /\ tr'.SEC.magic = "UNSET"
    BY <1>10 DEF Clean, ErasedTrailer
  <2>2. Settled(tr.PRI)' /\ (Unconfirmed(tr.PRI)' <=> tr.PRI.image_ok = "UNSET")
    BY <1>9, <1>10 DEF Settled, Unconfirmed
  <2>3. op = "test" <=> tr.PRI.image_ok = "UNSET"
    BY <1>3, <1>8, <1>11
  <2>4. Holds(pri, b)' /\ (BootableIn(sec) = a)'
    BY <1>7, <1>10, <1>12
  <2> QED
    BY <1>11, <1>12, <2>1, <2>2, <2>3, <2>4 DEF Idle
<1>15. AtValidate(b, a, nop)'
  BY <1>10, <1>12, <1>13, <1>14 DEF AtValidate, history
<1>16. At(b, a, nop)'
  <2>1. Disjoint'
    BY Places, PTL
  <2> QED
    BY <1>10, <1>15, <2>1 DEF Disjoint, OnePlace
<1>17. Stage(b, a, nop)'
  BY <1>10, <1>13, StageSame
<1> QED
  BY <1>4, <1>10, <1>11, <1>14, <1>16, <1>17 DEF BootInv, Inv, Durable

-----------------------------------------------------------------------------
LEMMA BootNextStep == BootInv /\ [BootNext]_bootVars => BootInv'
<1>1. BootInv /\ Prepare => BootInv'
  BY PrepareResumeStep, PrepareNothingStep, PrepareSwapStep, PrepareErasedStep,
     PrepareInvalidStep DEF Prepare
<1>2. BootInv /\ SwapBegin => BootInv'
  BY FixScrambleStep, FixImageOkStep, FixMagicStep, InitScrambleStep, InitEraseStep,
     InitSwapInfoStep, InitImageOkStep, InitSwapSizeStep, InitMagicStep, SecScrambleStep
     DEF SwapBegin
<1>3. BootInv /\ SwapEnd => BootInv'
  BY SwapRunReturnsStep, SetImageOkStep, SetCopyDoneStep DEF SwapEnd
<1>4. BootInv /\ BootStep => BootInv'
  BY <1>1, <1>2, <1>3, UnstickRevertStep, ScrambleRestStep, RefusedUpgradeStep,
     SwapSectorsStep, ValidateStep DEF BootStep
<1>5. BootInv /\ AppStep => BootInv'
  BY AppEraseStep, AppWriteStep, SetPendingStep, SetPendingImageOkStep, SetPendingInfoStep,
     SetConfirmedStep DEF AppStep
<1> QED
  BY <1>4, <1>5, ResetStep, StutterStep DEF BootNext

(* The inductive invariant: at every instant of every boot, whatever power   *)
(* losses came before, the flash holds a pair of images that the contract    *)
(* accounts for, and the trailers tell what is left to do with them.         *)
THEOREM BootInvariance == BootSpec => []BootInv
  BY BootInitEstablishes, BootNextStep, PTL DEF BootSpec

(* The boot loader never gives up for want of a bootable image, however      *)
(* many power losses interrupt swaps, reverts and the writes of trailers.    *)
THEOREM AlwaysBoots == BootSpec => []NeverBricked
<1>1. BootInv => NeverBricked
  BY DEF BootInv, Typed, NeverBricked, AppPc, BootPc, LoopPcs, MovePc, SwapPc, FixPc, InitPc,
         FinPc, RefusedPc
<1> QED
  BY <1>1, BootInvariance, PTL

(* Whenever swap_run enters or resumes its sector loops, their invariant     *)
(* holds: the trailers never send it into a swap that is not there.          *)
THEOREM LoopsSound == BootSpec => []LoopsEnteredRight
<1>1. BootInv => LoopsEnteredRight
  BY DEF BootInv, Inv, At, AtLoop, LoopPcs, LoopsEnteredRight, SwapInv
<1> QED
  BY <1>1, BootInvariance, PTL

(* Every variable keeps its type and only valid images ever run.             *)
THEOREM BootTypeCorrect == BootSpec => []BootTypeOK
<1>1. BootInv => BootTypeOK
  BY DEF BootInv, Typed
<1> QED
  BY <1>1, BootInvariance, PTL

-----------------------------------------------------------------------------
(* Every step is one of the contract's, or leaves what it sees alone.        *)

LEMMA BootQuiet ==
    ASSUME pc \notin AppPc, pc' \notin AppPc, UNCHANGED history
    PROVE  UNCHANGED Contract!contractVars
  BY DEF history, Contract!contractVars

(* The boot loader between a reset and the start of an image.                *)
LEMMA QuietSteps ==
    ASSUME \/ Prepare \/ UnstickRevert \/ ScrambleRest \/ RefusedUpgrade
           \/ SwapBegin \/ SwapSectors \/ SwapEnd
    PROVE  UNCHANGED Contract!contractVars
<1> USE DEF AppPc
<1>1. CASE Prepare
  <2>1. pc \notin AppPc /\ UNCHANGED history
    BY <1>1 DEF Prepare, PrepareResume, PrepareNothing, PrepareSwap, PrepareErased,
                PrepareInvalid
  <2>2. pc' \notin AppPc
    BY <1>1 DEF Prepare, PrepareResume, PrepareNothing, PrepareSwap, PrepareErased,
                PrepareInvalid, LoopPc, StartSwap
  <2> QED
    BY <2>1, <2>2, BootQuiet
<1>2. CASE UnstickRevert \/ ScrambleRest \/ RefusedUpgrade \/ SwapEnd
  <2>1. pc \notin AppPc /\ pc' \notin AppPc /\ UNCHANGED history
    BY <1>2 DEF UnstickRevert, ScrambleRest, RefusedUpgrade, SwapEnd, SwapRunReturns,
                SetImageOk, SetCopyDone, Tr
  <2> QED
    BY <2>1, BootQuiet
<1>3. CASE SwapBegin
  <2>1. pc \notin AppPc /\ pc' \notin AppPc /\ UNCHANGED history
    BY <1>3 DEF SwapBegin, FixScramble, FixImageOk, FixMagic, InitScramble, InitErase,
                InitSwapInfo, InitImageOk, InitSwapSize, InitMagic, SecScramble, Tr,
                WriteMagic, LoopPc
  <2> QED
    BY <2>1, BootQuiet
<1>4. CASE SwapSectors
  <2>1. pc \notin AppPc /\ pc' \notin AppPc /\ UNCHANGED history
    BY <1>4 DEF SwapSectors, SwapStep, MoveErase, MoveCopy, MoveStatus, Swap0Erase, Swap0Copy,
                Swap0Status, Swap1Erase, Swap1Copy, Swap1Status, LoopPc
  <2> QED
    BY <2>1, BootQuiet
<1> QED
  BY <1>1, <1>2, <1>3, <1>4

LEMMA ContractStarts == BootInit => Contract!Init
<1> SUFFICES ASSUME BootInit PROVE Contract!Init
  OBVIOUS
<1>1. /\ pc \in AppPc /\ running \in Valid
      /\ confirmed = TRUE /\ spare = None /\ request = "none"
  BY DEF BootInit, AppPc
<1> QED
  BY <1>1 DEF Contract!Init

(* Starting an image is the boot that the contract knows.                    *)
LEMMA ValidateBoots == BootInv /\ Validate => Contract!Next
<1> SUFFICES ASSUME BootInv, Validate PROVE Contract!Boot
  BY DEF Contract!Next
<1>1. PICK a \in Valid, b \in Valid \cup {None}, op \in Ops : Inv(a, b, op)
  BY DEF BootInv
<1>2. /\ Typed /\ Stage(a, b, op) /\ Idle(a, b, op) /\ pc = "validate"
      /\ \/ op = "none"
         \/ op = "revert" /\ b = None
         \/ op = "revert" /\ a = spare /\ b = running /\ request = "test" /\ spare # None
  BY <1>1 DEF Validate, BootInv, Inv, At, AtValidate
<1>3. BootableIn(pri) = a /\ a # None /\ BootableIn(sec) = b
  BY <1>2, HoldsBootable DEF Idle
<1>4. confirmed' = (op = "none")
  BY <1>2, <1>3 DEF Validate, Idle
<1>5. /\ pc \notin AppPc /\ pc' \in AppPc
      /\ running' = a /\ spare' = b /\ request' = "none"
  BY <1>2, <1>3 DEF Validate, AppPc
<1>6. Contract!Start(a, b)
  BY <1>5 DEF Contract!Start
<1>7. /\ running \in Valid /\ spare \in Valid \cup {None} /\ confirmed \in BOOLEAN
      /\ request \in {"none", "test", "perm"} /\ None \notin Valid
  BY <1>2, ImagesAssumption DEF Typed, BootTypeOK
<1>8. /\ Asked = "test" <=> request = "test"
      /\ Asked = "perm" <=> request = "perm"
      /\ Asked = "none" <=> request = "none" /\ confirmed
      /\ Asked = "revert" <=> request = "none" /\ ~confirmed
  BY <1>7 DEF Asked
<1>9. CASE a = running /\ b = spare /\ op = Asked
  <2>1. CASE op = "none"
    BY <1>4, <1>6, <1>8, <1>9, <2>1 DEF Contract!Boot, Contract!BootAgain
  <2>2. CASE op = "revert" /\ b = None
    BY <1>4, <1>6, <1>7, <1>8, <1>9, <2>2 DEF Contract!Boot, Contract!BootStays
  <2> QED
    BY <1>2, <1>8, <1>9, <2>1, <2>2
<1>10. CASE /\ spare = None /\ a = running /\ b = None
            /\ op = "none" \/ (op = "revert" /\ ~confirmed)
  <2>1. CASE request = "none" /\ confirmed
    BY <1>4, <1>6, <1>10, <2>1 DEF Contract!Boot, Contract!BootAgain
  <2>2. CASE request # "none" \/ ~confirmed
    BY <1>4, <1>6, <1>7, <1>10, <2>2 DEF Contract!Boot, Contract!BootStays
  <2> QED
    BY <2>1, <2>2
<1>11. CASE /\ spare # None /\ Asked = "test" /\ a = spare /\ b = running
            /\ op = "revert" \/ (op = "none" /\ "SEC" \in TearMagic)
  <2>1. CASE op = "revert"
    BY <1>4, <1>6, <1>7, <1>8, <1>11, <2>1 DEF Contract!Boot, Contract!BootNew
  <2>2. CASE op = "none" /\ "SEC" \in TearMagic
    BY <1>4, <1>6, <1>7, <1>8, <1>11, <2>2 DEF Contract!Boot, Contract!BootForgets
  <2> QED
    BY <1>11, <2>1, <2>2
<1>12. CASE spare # None /\ Asked = "test" /\ a = running /\ b = spare /\ op = "none"
  BY <1>4, <1>6, <1>7, <1>8, <1>12 DEF Contract!Boot, Contract!BootTestMissed
<1>13. CASE /\ spare # None /\ Asked \in {"perm", "revert"} /\ a = spare /\ b = running
            /\ op = "none"
  <2>1. CASE Asked = "perm"
    BY <1>4, <1>6, <1>7, <1>8, <1>13, <2>1
       DEF Contract!Boot, Contract!BootNew, Contract!Replaced
  <2>2. CASE Asked = "revert"
    BY <1>4, <1>6, <1>7, <1>8, <1>13, <2>2 DEF Contract!Boot, Contract!BootRevert
  <2> QED
    BY <1>13, <2>1, <2>2
<1>14. CASE /\ spare # None /\ Asked = "revert" /\ a = running /\ b = spare
            /\ op = "none" /\ "SEC" \in TearMagic
  BY <1>4, <1>6, <1>7, <1>8, <1>14 DEF Contract!Boot, Contract!BootForgets
<1> QED
  BY <1>2, <1>9, <1>10, <1>11, <1>12, <1>13, <1>14 DEF Stage

LEMMA AppKeepsContract ==
    BootInv /\ (AppStep \/ Reset) => [Contract!Next]_(Contract!contractVars)
<1> SUFFICES ASSUME BootInv, AppStep \/ Reset
             PROVE  Contract!Next \/ UNCHANGED Contract!contractVars
  OBVIOUS
<1>1. CASE AppErase
  BY <1>1 DEF AppErase, AppPc, Contract!Next, Contract!Download
<1>2. ASSUME NEW i \in Images, AppWrite(i) PROVE Contract!Next
  <2>1. /\ pc \in AppPc /\ pc' \in AppPc /\ tr.SEC.magic # "GOOD"
        /\ spare' = BootableIn(sec') /\ UNCHANGED <<running, confirmed, request>>
    <3>1. tr.SEC = ErasedTrailer /\ pc = "app" /\ pc' = "app"
      BY <1>2 DEF AppWrite
    <3>2. spare' = BootableIn(sec') /\ UNCHANGED <<running, confirmed, request>>
      BY <1>2 DEF AppWrite
    <3>3. pc \in AppPc /\ pc' \in AppPc /\ tr.SEC.magic # "GOOD"
      BY <3>1 DEF AppPc, ErasedTrailer
    <3> QED
      BY <3>2, <3>3
  <2>2. request = "none" /\ spare' \in Valid \cup {None}
    BY <2>1, AppFacts, BootableHolds
  <2>3. Contract!Download(spare')
    BY <2>1, <2>2 DEF Contract!Download
  <2> QED
    BY <2>2, <2>3 DEF Contract!Next
<1>3. ASSUME NEW p \in BOOLEAN, SetPending(p) PROVE Contract!Next
  <2>1. pc \in AppPc /\ request = "none"
    BY <1>3, AppFacts DEF SetPending, AppPc, CanSchedule
  <2> QED
    BY <1>3, <2>1 DEF SetPending, AppPc, Contract!Next, Contract!Request, Contract!Down
<1>4. CASE SetPendingImageOk
  <2>1. pc \in AppPc /\ request = "test"
    BY <1>4, AppFacts DEF SetPendingImageOk, AppPc, AtApp
  <2> QED
    BY <1>4, <2>1 DEF SetPendingImageOk, AppPc, Contract!Next, Contract!MakePermanent
<1>5. CASE SetPendingInfo
  BY <1>5 DEF SetPendingInfo, Tr, history, AppPc, Contract!contractVars
<1>6. CASE SetConfirmed
  BY <1>6 DEF SetConfirmed, AppPc, Contract!Next, Contract!Confirm, Contract!Replaced
<1>7. CASE Reset
  <2>1. CASE pc \in AppPc
    BY <1>7, <2>1 DEF Reset, AppPc, history, Contract!Next, Contract!Down
  <2>2. CASE pc \notin AppPc
    BY <1>7, <2>2, BootQuiet DEF Reset, AppPc
  <2> QED
    BY <2>1, <2>2
<1> QED
  BY <1>1, <1>2, <1>3, <1>4, <1>5, <1>6, <1>7 DEF AppStep

(* The device keeps the upgrade contract: seen from the application, every   *)
(* boot is one atomic step of UpgradeContract, whatever power losses it went *)
(* through; only a device whose secondary magic can be left half-written may *)
(* forget a revert.                                                          *)
THEOREM ContractImplemented == BootSpec => ImplementsContract
<1>1. BootInv /\ [BootNext]_bootVars => [Contract!Next]_(Contract!contractVars)
  <2>1. BootInv /\ BootStep => [Contract!Next]_(Contract!contractVars)
    BY QuietSteps, ValidateBoots DEF BootStep
  <2>2. UNCHANGED bootVars => UNCHANGED Contract!contractVars
    BY DEF bootVars, history, Contract!contractVars
  <2> QED
    BY <2>1, <2>2, AppKeepsContract DEF BootNext
<1> QED
  BY <1>1, ContractStarts, BootInvariance, PTL DEF BootSpec, ImplementsContract, Contract!Spec
=============================================================================
