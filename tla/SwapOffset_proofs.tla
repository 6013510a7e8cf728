-------------------------- MODULE SwapOffset_proofs --------------------------
(* Proofs that swap using offset loses no sector of either image, in both    *)
(* directions, for slots and images of any size and any number of resets.    *)
EXTENDS SwapOffset, TLAPS

-----------------------------------------------------------------------------
(* The inductive invariant.                                                  *)

(* Where sector k of the incoming image is in the secondary slot at first,   *)
(* and where sector k of the outgoing one goes.                              *)
In(k) == IF revert THEN k ELSE k + 1
Out(k) == IF revert THEN k + 1 ELSE k

(* The iterations that are over, and the one in progress.                    *)
Behind(k) == IF revert THEN k + bs.idx > swap_size ELSE k + 1 < bs.idx
AtWork(k) == IF revert THEN k + bs.idx = swap_size ELSE k + 1 = bs.idx
SentOut(k) == Behind(k) \/ (AtWork(k) /\ bs.state = STATE_1)

(* The outgoing sectors that a resumed swap cannot leave out: all but the    *)
(* last of an upgrade whose new image is more than a sector shorter.         *)
Kept(k) == revert \/ k + 1 < swap_size \/ k <= NewSize

OutPc == {"out_erase", "out_copy", "out_status"}
InPc == {"in_erase", "in_copy", "in_status"}
EndPc == {"clean", "done"}

Typed ==
    /\ pri \in [0..PriSectors - 1 -> Content] /\ pri0 \in [0..PriSectors - 1 -> Content]
    /\ sec \in [0..SecSectors - 1 -> Content] /\ sec0 \in [0..SecSectors - 1 -> Content]
    /\ revert \in BOOLEAN
    /\ OldSize > 0 /\ NewSize > 0 /\ Fits(OldSize) /\ Fits(NewSize)
    /\ swap_size = Larger(OldSize, NewSize)

(* The status area says where the loop is: a resume finds it there.          *)
Position ==
    /\ bs \in [idx : Nat, state : {STATE_0, STATE_1}, swap_size : {swap_size},
               used_pri : Nat, used_sec : Nat]
    /\ bs.idx \in 1..swap_size + 1
    /\ bs.state = STATE_1 => bs.idx <= swap_size
    /\ status = 2 * (bs.idx - 1) + (bs.state - 1)
    /\ pc \in OutPc \cup InPc \cup EndPc \cup {"given_up"}
    /\ pc \in OutPc => bs.state = STATE_0 /\ bs.idx <= swap_size
    /\ pc \in InPc => bs.state = STATE_1
    /\ pc \in EndPc => bs.idx = swap_size + 1
    /\ pc = "clean" => revert
    /\ pc = "given_up" => ~revert /\ swap_size = 1

(* The sizes the headers gave: for the last sector of an upgrade the new     *)
(* header may have been taken for the old one.                               *)
Sizes ==
    pc # "given_up" =>
        /\ bs.used_sec = NewSize
        /\ bs.used_pri = OldSize \/ (~revert /\ bs.idx >= swap_size /\ bs.used_pri = NewSize)

(* Where each sector of the two images is.                                   *)
Shape ==
    /\ \A k \in 0..NewSize - 1 : IF Behind(k) THEN pri[k] = sec0[In(k)]
                                 ELSE sec[In(k)] = sec0[In(k)]
    /\ \A k \in 0..OldSize - 1 : IF SentOut(k) THEN Kept(k) => sec[Out(k)] = pri0[k]
                                 ELSE pri[k] = pri0[k]

(* The sector being exchanged.                                               *)
Working ==
    /\ pc = "out_status" /\ ~skip_primary => sec[out_idx] = pri[idx]
    /\ pc = "in_status" /\ ~skip_secondary => pri[idx] = sec[in_idx]
    /\ ~revert /\ bs.idx = 1 /\ bs.state = STATE_1 => pri[0] \in {pri0[0], Torn, sec0[1]}

OffsetInv == Typed /\ Position /\ Sizes /\ Shape /\ Working
-----------------------------------------------------------------------------
LEMMA Lengths ==
    ASSUME Typed
    PROVE  /\ OldSize \in Nat \ {0} /\ NewSize \in Nat \ {0} /\ swap_size \in Nat \ {0}
           /\ OldSize <= swap_size /\ NewSize <= swap_size
           /\ swap_size \in {OldSize, NewSize}
           /\ swap_size <= PriSectors /\ swap_size < SecSectors
           /\ PriSectors \in Nat /\ SecSectors \in Nat
           /\ find_last_idx(swap_size) = swap_size - 1
<1>1. PriSectors \in Nat /\ SecSectors \in Nat /\ PriSectors > 0 /\ SecSectors > 1
  BY GeometryAssumption
<1>2. pri0[0] \in Content /\ Incoming0 \in Content
  BY <1>1 DEF Typed, Incoming0
<1>3. OldSize \in Nat /\ NewSize \in Nat
  BY <1>2, ContentAssumption DEF OldSize, NewSize
<1>4. /\ OldSize > 0 /\ NewSize > 0 /\ swap_size = IF OldSize > NewSize THEN OldSize ELSE NewSize
      /\ OldSize <= PriSectors /\ OldSize < SecSectors
      /\ NewSize <= PriSectors /\ NewSize < SecSectors
  BY DEF Typed, Fits, Larger
<1>5. /\ swap_size \in Nat \ {0} /\ OldSize <= swap_size /\ NewSize <= swap_size
      /\ swap_size \in {OldSize, NewSize} /\ swap_size <= PriSectors /\ swap_size < SecSectors
  BY <1>1, <1>3, <1>4
<1> QED
  BY <1>1, <1>3, <1>4, <1>5 DEF find_last_idx

(* The sector of an iteration, and what it does not meet.                    *)
LEMMA Current ==
    ASSUME Typed, Position, bs.idx <= swap_size
    PROVE  /\ idx \in 0..swap_size - 1 /\ idx \in 0..PriSectors - 1 /\ idx \in Nat
           /\ out_idx \in 0..SecSectors - 1 /\ in_idx \in 0..SecSectors - 1
           /\ out_idx = Out(idx) /\ in_idx = In(idx)
           /\ AtWork(idx) /\ ~Behind(idx)
           /\ \A k \in Nat : AtWork(k) => k = idx
           /\ \A k \in Nat : Out(k) = out_idx => k = idx
           /\ \A k \in Nat : In(k) = out_idx => Behind(k)
<1>1. /\ swap_size \in Nat \ {0} /\ swap_size <= PriSectors /\ swap_size < SecSectors
      /\ PriSectors \in Nat /\ SecSectors \in Nat /\ find_last_idx(swap_size) = swap_size - 1
  BY Lengths
<1>2. bs.idx \in Nat /\ bs.idx >= 1 /\ bs.swap_size = swap_size
  BY <1>1 DEF Position
<1>3. idx = IF revert THEN swap_size - bs.idx ELSE bs.idx - 1
  BY <1>1, <1>2 DEF idx, last_idx, IDX_0
<1>4. /\ idx \in 0..swap_size - 1 /\ idx \in 0..PriSectors - 1 /\ idx \in Nat
  BY <1>1, <1>2, <1>3
<1>5. out_idx = Out(idx) /\ in_idx = In(idx)
  BY DEF out_idx, in_idx, Out, In
<1>6. out_idx \in 0..SecSectors - 1 /\ in_idx \in 0..SecSectors - 1
  BY <1>1, <1>4, <1>5 DEF Out, In
<1>7. AtWork(idx) /\ ~Behind(idx) /\ \A k \in Nat : AtWork(k) => k = idx
  BY <1>1, <1>2, <1>3 DEF AtWork, Behind
<1>8. \A k \in Nat : Out(k) = out_idx => k = idx
  BY <1>4, <1>5 DEF Out
<1>9. \A k \in Nat : In(k) = out_idx => Behind(k)
  BY <1>1, <1>2, <1>3, <1>4, <1>5 DEF Out, In, Behind
<1> QED
  BY <1>4, <1>5, <1>6, <1>7, <1>8, <1>9

(* The places of the images' sectors are sectors of the slots.               *)
LEMMA Places ==
    ASSUME Typed
    PROVE  /\ \A k \in 0..OldSize - 1 : /\ k \in Nat /\ k \in 0..PriSectors - 1
                                        /\ k < swap_size /\ Out(k) \in 0..SecSectors - 1
           /\ \A k \in 0..NewSize - 1 : /\ k \in Nat /\ k \in 0..PriSectors - 1
                                        /\ k < swap_size /\ In(k) \in 0..SecSectors - 1
           /\ 0 \in 0..PriSectors - 1 /\ 0 \in 0..OldSize - 1 /\ 0 \in 0..NewSize - 1
  BY Lengths DEF In, Out

(* What depends on unchanged variables only.                                 *)
LEMMA SameSwap ==
    Typed /\ UNCHANGED <<swap_size, revert, pri0, sec0>> =>
        /\ OldSize' = OldSize /\ NewSize' = NewSize
        /\ \A k : In(k)' = In(k) /\ Out(k)' = Out(k) /\ Kept(k)' = Kept(k)
  BY DEF OldSize, NewSize, Incoming0, In, Out, Kept

-----------------------------------------------------------------------------
(* The first half of an iteration: pri[idx] goes to the secondary slot.      *)
LEMMA OutWrite ==
    ASSUME OffsetInv, pc \in OutPc, pc' \in {"out_copy", "out_status"},
           UNCHANGED <<pri, status, swap_size, revert, bs, pri0, sec0>>,
           NEW c \in Content, sec' = IF skip_primary THEN sec ELSE [sec EXCEPT ![out_idx] = c],
           pc' = "out_status" => c = pri[idx]
    PROVE  OffsetInv'
<1>1. Typed /\ Position /\ bs.state = STATE_0 /\ bs.idx <= swap_size
  BY DEF OffsetInv, Position
<1>2. sec' \in [0..SecSectors - 1 -> Content] /\ sec \in [0..SecSectors - 1 -> Content]
  BY DEF OffsetInv, Typed
<1>3. Typed'
  BY <1>1, <1>2, SameSwap DEF Typed, Fits, Larger
<1>4. Position' /\ Sizes'
  BY SameSwap DEF OffsetInv, Position, Sizes, OutPc, InPc, EndPc
<1>5. \A k : /\ Behind(k)' = Behind(k) /\ SentOut(k)' = SentOut(k)
  BY DEF Behind, SentOut, AtWork
<1>6. /\ OldSize' = OldSize /\ NewSize' = NewSize
      /\ \A k : In(k)' = In(k) /\ Out(k)' = Out(k) /\ Kept(k)' = Kept(k)
  BY <1>1, SameSwap
<1>7. \A k \in 0..NewSize - 1 : ~Behind(k) => sec'[In(k)] = sec[In(k)]
  BY <1>1, <1>2, Places, Current
<1>8. \A k \in 0..OldSize - 1 : SentOut(k) => sec'[Out(k)] = sec[Out(k)]
  <2>1. STATE_0 # STATE_1
    BY DEF STATE_0, STATE_1
  <2>2. \A k \in 0..OldSize - 1 : SentOut(k) => Behind(k)
    BY <1>1, <2>1 DEF SentOut
  <2>3. \A k \in 0..OldSize - 1 : SentOut(k) => Out(k) # out_idx
    BY <1>1, <2>2, Places, Current
  <2> QED
    BY <1>1, <1>2, <2>3, Places
<1>9. Shape'
  <2>1. \A k \in 0..NewSize - 1 : IF Behind(k) THEN pri'[k] = sec0'[In(k)]
                                  ELSE sec'[In(k)] = sec0'[In(k)]
    BY <1>7 DEF OffsetInv, Shape
  <2>2. \A k \in 0..OldSize - 1 : IF SentOut(k) THEN Kept(k) => sec'[Out(k)] = pri0'[k]
                                  ELSE pri'[k] = pri0'[k]
    BY <1>8 DEF OffsetInv, Shape
  <2> QED
    BY <1>5, <1>6, <2>1, <2>2 DEF Shape
<1>10. Working'
  <2>1. idx' = idx /\ out_idx' = out_idx /\ skip_primary' = skip_primary
    BY DEF idx, out_idx, skip_primary, last_idx, find_last_idx
  <2>2. pc' = "out_status" /\ ~skip_primary => sec'[out_idx] = pri[idx]
    BY <1>1, <1>2, Current
  <2>3. pc' # "in_status"
    OBVIOUS
  <2>4. ~revert' /\ bs'.idx = 1 /\ bs'.state = STATE_1 => pri'[0] \in {pri0'[0], Torn, sec0'[1]}
    BY DEF OffsetInv, Working
  <2> QED
    BY <2>1, <2>2, <2>3, <2>4 DEF Working
<1> QED
  BY <1>3, <1>4, <1>9, <1>10 DEF OffsetInv

(* The second half: the incoming sector comes to pri[idx].                   *)
LEMMA InWrite ==
    ASSUME OffsetInv, pc \in InPc, pc' \in {"in_copy", "in_status"},
           UNCHANGED <<sec, status, swap_size, revert, bs, pri0, sec0>>,
           NEW c \in {Torn, sec[in_idx]},
           pri' = IF skip_secondary THEN pri ELSE [pri EXCEPT ![idx] = c],
           pc' = "in_status" => c = sec[in_idx]
    PROVE  OffsetInv'
<1>1. Typed /\ Position /\ bs.state = STATE_1 /\ bs.idx <= swap_size
  BY DEF OffsetInv, Position
<1>2. /\ pri' \in [0..PriSectors - 1 -> Content] /\ pri \in [0..PriSectors - 1 -> Content]
      /\ c \in Content
  <2>1. c \in Content
    BY <1>1, Current, ContentAssumption DEF Typed
  <2> QED
    BY <2>1 DEF OffsetInv, Typed
<1>3. Typed'
  BY <1>1, <1>2, SameSwap DEF Typed, Fits, Larger
<1>4. Position' /\ Sizes'
  BY SameSwap DEF OffsetInv, Position, Sizes, OutPc, InPc, EndPc
<1>5. \A k : /\ Behind(k)' = Behind(k) /\ SentOut(k)' = SentOut(k)
  BY DEF Behind, SentOut, AtWork
<1>6. /\ OldSize' = OldSize /\ NewSize' = NewSize
      /\ \A k : In(k)' = In(k) /\ Out(k)' = Out(k) /\ Kept(k)' = Kept(k)
  BY <1>1, SameSwap
<1>7. \A k \in 0..NewSize - 1 : Behind(k) => pri'[k] = pri[k]
  BY <1>1, <1>2, Places, Current
<1>8. \A k \in 0..OldSize - 1 : ~SentOut(k) => pri'[k] = pri[k]
  <2>1. SentOut(idx)
    BY <1>1, Current DEF SentOut
  <2> QED
    BY <1>1, <1>2, <2>1, Places
<1>9. Shape'
  <2>1. \A k \in 0..NewSize - 1 : IF Behind(k) THEN pri'[k] = sec0'[In(k)]
                                  ELSE sec'[In(k)] = sec0'[In(k)]
    BY <1>7 DEF OffsetInv, Shape
  <2>2. \A k \in 0..OldSize - 1 : IF SentOut(k) THEN Kept(k) => sec'[Out(k)] = pri0'[k]
                                  ELSE pri'[k] = pri0'[k]
    BY <1>8 DEF OffsetInv, Shape
  <2> QED
    BY <1>5, <1>6, <2>1, <2>2 DEF Shape
<1>10. Working'
  <2>1. idx' = idx /\ in_idx' = in_idx /\ skip_secondary' = skip_secondary
    BY DEF idx, in_idx, skip_secondary, last_idx, find_last_idx
  <2>2. pc' = "in_status" /\ ~skip_secondary => pri'[idx] = sec[in_idx]
    BY <1>1, <1>2, Current
  <2>3. pc' # "out_status"
    OBVIOUS
  <2>4. ASSUME ~revert, bs.idx = 1 PROVE pri'[0] \in {pri0[0], Torn, sec0[1]}
    <3>1. idx = 0 /\ in_idx = 1
      BY <1>1, <2>4, Current DEF AtWork, In
    <3>2. sec[1] = sec0[1]
      <4>1. ~Behind(0) /\ In(0) = 1 /\ 0 \in 0..NewSize - 1
        BY <1>1, <2>4, Places DEF Behind, In
      <4> QED
        BY <4>1 DEF OffsetInv, Shape
    <3>3. pri[0] \in {pri0[0], Torn, sec0[1]}
      BY <1>1, <2>4 DEF OffsetInv, Working
    <3>4. 0 \in 0..PriSectors - 1
      BY <1>1, Places
    <3> QED
      BY <1>2, <3>1, <3>2, <3>3, <3>4
  <2> QED
    BY <2>1, <2>2, <2>3, <2>4 DEF Working
<1> QED
  BY <1>3, <1>4, <1>9, <1>10 DEF OffsetInv

(* The outgoing sector counts as sent.                                       *)
LEMMA OutStatusStep == OffsetInv /\ OutStatus => OffsetInv'
<1> SUFFICES ASSUME OffsetInv, OutStatus PROVE OffsetInv'
  OBVIOUS
<1>1. /\ pc = "out_status" /\ pc' = "in_erase" /\ status' = 2 * (bs.idx - IDX_0) + bs.state
      /\ bs' = [bs EXCEPT !.state = STATE_1]
      /\ UNCHANGED <<pri, sec, swap_size, revert, pri0, sec0>>
  BY DEF OutStatus, boot_status_internal_off
<1>2. Typed /\ Position /\ bs.state = STATE_0 /\ bs.idx <= swap_size
  BY <1>1 DEF OffsetInv, Position, OutPc
<1>3. /\ bs' \in [idx : Nat, state : {STATE_0, STATE_1}, swap_size : {swap_size},
                  used_pri : Nat, used_sec : Nat]
      /\ bs'.idx = bs.idx /\ bs'.state = STATE_1
      /\ bs'.used_pri = bs.used_pri /\ bs'.used_sec = bs.used_sec
  BY <1>1, <1>2 DEF Position
<1>4. Typed'
  BY <1>1, <1>2, SameSwap DEF Typed, Fits, Larger
<1>5. /\ OldSize' = OldSize /\ NewSize' = NewSize
      /\ \A k : In(k)' = In(k) /\ Out(k)' = Out(k) /\ Kept(k)' = Kept(k)
  BY <1>1, <1>2, SameSwap
<1>6. Position' /\ Sizes'
  <2>1. status' = 2 * (bs'.idx - 1) + (bs'.state - 1)
    BY <1>1, <1>2, <1>3 DEF STATE_0, STATE_1, IDX_0
  <2>2. Position'
    BY <1>1, <1>2, <1>3, <2>1 DEF Position, OutPc, InPc, EndPc
  <2> QED
    BY <1>1, <1>3, <1>5, <2>2 DEF OffsetInv, Sizes
<1>7. \A k : Behind(k)' = Behind(k) /\ AtWork(k)' = AtWork(k)
  BY <1>1, <1>3 DEF Behind, AtWork
<1>8. \A k \in 0..OldSize - 1 : SentOut(k)' <=> SentOut(k) \/ k = idx
  BY <1>2, <1>3, <1>7, Places, Current DEF SentOut
<1>9. ~SentOut(idx)
  BY <1>2, Current DEF SentOut, STATE_0, STATE_1
<1>10. ASSUME idx \in 0..OldSize - 1, Kept(idx) PROVE sec[Out(idx)] = pri0[idx]
  <2>1. ~skip_primary
    <3>1. \/ bs.used_pri = OldSize
          \/ ~revert /\ bs.idx >= swap_size /\ bs.used_pri = NewSize
      BY <1>1 DEF OffsetInv, Sizes
    <3>2. OldSize \in Nat /\ NewSize \in Nat /\ swap_size \in Nat /\ idx \in Nat
      BY <1>2, Lengths, Current
    <3>3. ~revert /\ bs.idx >= swap_size => idx + 1 >= swap_size
      BY <1>2, <3>2, Current DEF AtWork, Position
    <3> QED
      BY <1>10, <3>1, <3>2, <3>3 DEF skip_primary, Kept
  <2>2. sec[out_idx] = pri[idx] /\ out_idx = Out(idx)
    BY <1>1, <1>2, <2>1, Current DEF OffsetInv, Working
  <2>3. pri[idx] = pri0[idx]
    BY <1>9, <1>10 DEF OffsetInv, Shape
  <2> QED
    BY <2>2, <2>3
<1>11. Shape'
  <2>1. \A k \in 0..NewSize - 1 : IF Behind(k)' THEN pri'[k] = sec0'[In(k)]
                                  ELSE sec'[In(k)] = sec0'[In(k)]
    BY <1>1, <1>7 DEF OffsetInv, Shape
  <2>2. \A k \in 0..OldSize - 1 : IF SentOut(k)' THEN Kept(k) => sec'[Out(k)] = pri0'[k]
                                  ELSE pri'[k] = pri0'[k]
    BY <1>1, <1>8, <1>10 DEF OffsetInv, Shape
  <2> QED
    BY <1>5, <2>1, <2>2 DEF Shape
<1>12. Working'
  <2>1. ASSUME ~revert, bs.idx = 1 PROVE pri[0] = pri0[0]
    <3>1. idx = 0 /\ 0 \in 0..OldSize - 1
      BY <1>2, <2>1, Current, Places DEF AtWork
    <3> QED
      BY <1>9, <3>1 DEF OffsetInv, Shape
  <2> QED
    BY <1>1, <1>3, <2>1 DEF Working
<1> QED
  BY <1>4, <1>6, <1>11, <1>12 DEF OffsetInv

(* The iteration is over.                                                    *)
LEMMA InStatusStep == OffsetInv /\ InStatus => OffsetInv'
<1> SUFFICES ASSUME OffsetInv, InStatus PROVE OffsetInv'
  OBVIOUS
<1>1. /\ pc = "in_status" /\ pc' = LoopPc(bs') /\ status' = 2 * (bs.idx - IDX_0) + bs.state
      /\ bs' = [bs EXCEPT !.idx = bs.idx + 1, !.state = STATE_0]
      /\ UNCHANGED <<pri, sec, swap_size, revert, pri0, sec0>>
  BY DEF InStatus, boot_status_internal_off
<1>2. Typed /\ Position /\ bs.state = STATE_1 /\ bs.idx <= swap_size
  BY <1>1 DEF OffsetInv, Position, InPc
<1>3. /\ bs' \in [idx : Nat, state : {STATE_0, STATE_1}, swap_size : {swap_size},
                  used_pri : Nat, used_sec : Nat]
      /\ bs'.idx = bs.idx + 1 /\ bs'.state = STATE_0 /\ bs'.swap_size = swap_size
      /\ bs'.used_pri = bs.used_pri /\ bs'.used_sec = bs.used_sec
  <2>1. /\ bs \in [idx : Nat, state : {STATE_0, STATE_1}, swap_size : {swap_size},
                   used_pri : Nat, used_sec : Nat]
    BY <1>2 DEF Position
  <2>2. bs.idx + 1 \in Nat
    BY <2>1
  <2>3. bs' = [bs EXCEPT !.idx = bs.idx + 1, !.state = STATE_0]
    BY <1>1
  <2> QED
    BY <2>1, <2>2, <2>3
<1>4. Typed'
  BY <1>1, <1>2, SameSwap DEF Typed, Fits, Larger
<1>5. /\ OldSize' = OldSize /\ NewSize' = NewSize
      /\ \A k : In(k)' = In(k) /\ Out(k)' = Out(k) /\ Kept(k)' = Kept(k)
  BY <1>1, <1>2, SameSwap
<1>6. bs.idx \in Nat /\ bs.idx >= 1 /\ swap_size \in Nat /\ revert \in BOOLEAN
  BY <1>2, Lengths DEF Position, Typed
<1>7. Position' /\ Sizes'
  <2>1. status' = 2 * (bs'.idx - 1) + (bs'.state - 1)
    BY <1>1, <1>2, <1>3, <1>6 DEF STATE_0, STATE_1, IDX_0
  <2>2. find_last_idx(swap_size) = swap_size - 1
    BY <1>2, Lengths
  <2>3. pc' = IF bs.idx + 1 > swap_size THEN IF revert THEN "clean" ELSE "done" ELSE "out_erase"
    <3>1. find_last_idx(bs'.swap_size) = swap_size - 1
      BY <1>3, <2>2
    <3>2. CASE bs.idx + 1 > swap_size
      BY <1>1, <1>3, <1>6, <3>1, <3>2 DEF LoopPc, IDX_0
    <3>3. CASE ~(bs.idx + 1 > swap_size)
      BY <1>1, <1>3, <1>6, <3>1, <3>3 DEF LoopPc, IDX_0
    <3> QED
      BY <3>2, <3>3
  <2>4. bs'.idx \in 1..swap_size + 1
    BY <1>2, <1>3, <1>6
  <2>5. Position'
    <3>1. CASE bs.idx + 1 > swap_size
      BY <1>1, <1>2, <1>3, <1>6, <2>1, <2>3, <2>4, <3>1 DEF Position, OutPc, InPc, EndPc, STATE_0, STATE_1
    <3>2. CASE ~(bs.idx + 1 > swap_size)
      BY <1>1, <1>2, <1>3, <1>6, <2>1, <2>3, <2>4, <3>2 DEF Position, OutPc, InPc, EndPc, STATE_0, STATE_1
    <3> QED
      BY <3>1, <3>2
  <2>6. Sizes'
    BY <1>1, <1>3, <1>5, <1>6 DEF OffsetInv, Sizes
  <2> QED
    BY <2>5, <2>6
<1>8. \A k \in Nat : Behind(k)' <=> Behind(k) \/ AtWork(k)
  BY <1>1, <1>3, <1>6 DEF Behind, AtWork
<1>9. \A k \in Nat : SentOut(k)' <=> SentOut(k)
  BY <1>2, <1>3, <1>8 DEF SentOut, STATE_0, STATE_1
<1>10. ASSUME idx \in 0..NewSize - 1 PROVE pri[idx] = sec0[In(idx)]
  <2>1. ~skip_secondary
    <3>1. bs.used_sec = NewSize /\ NewSize \in Nat
      BY <1>1, <1>2, Lengths DEF OffsetInv, Sizes
    <3> QED
      BY <1>10, <3>1 DEF skip_secondary
  <2>2. pri[idx] = sec[in_idx] /\ in_idx = In(idx) /\ ~Behind(idx)
    BY <1>1, <1>2, <2>1, Current DEF OffsetInv, Working
  <2> QED
    BY <1>10, <2>2 DEF OffsetInv, Shape
<1>11. Shape'
  <2>1. \A k \in 0..NewSize - 1 : IF Behind(k)' THEN pri'[k] = sec0'[In(k)]
                                  ELSE sec'[In(k)] = sec0'[In(k)]
    <3> SUFFICES ASSUME NEW k \in 0..NewSize - 1
                 PROVE  IF Behind(k)' THEN pri[k] = sec0[In(k)] ELSE sec[In(k)] = sec0[In(k)]
      BY <1>1
    <3>1. k \in Nat
      BY <1>2, Places
    <3>2. CASE AtWork(k)
      BY <1>2, <1>8, <1>10, <3>1, <3>2, Current
    <3>3. CASE ~AtWork(k)
      BY <1>8, <3>1, <3>3 DEF OffsetInv, Shape
    <3> QED
      BY <3>2, <3>3
  <2>2. \A k \in 0..OldSize - 1 : IF SentOut(k)' THEN Kept(k) => sec'[Out(k)] = pri0'[k]
                                  ELSE pri'[k] = pri0'[k]
    BY <1>1, <1>2, <1>9, Places DEF OffsetInv, Shape
  <2> QED
    BY <1>5, <2>1, <2>2 DEF Shape
<1>12. Working'
  <2>1. bs'.state # STATE_1
    BY <1>3 DEF STATE_0, STATE_1
  <2>2. pc' # "in_status"
    BY <1>7, <2>1 DEF Position, InPc
  <2>3. pc' # "out_status"
    BY <1>1 DEF LoopPc
  <2> QED
    BY <2>1, <2>2, <2>3 DEF Working
<1> QED
  BY <1>4, <1>7, <1>11, <1>12 DEF OffsetInv

(* What a revert scrambles at the end is not part of the image it kept.      *)
LEMMA CleanStep == OffsetInv /\ CleanFirstSector => OffsetInv'
<1> SUFFICES ASSUME OffsetInv, CleanFirstSector PROVE OffsetInv'
  OBVIOUS
<1>1. /\ pc = "clean" /\ pc' = "done" /\ sec' = [sec EXCEPT ![0] = Torn]
      /\ UNCHANGED <<pri, status, swap_size, revert, bs, pri0, sec0>>
  BY DEF CleanFirstSector
<1>2. Typed /\ Position /\ bs.idx = swap_size + 1 /\ revert
  BY <1>1 DEF OffsetInv, Position, EndPc
<1>3. Typed'
  BY <1>1, <1>2, SameSwap, ContentAssumption DEF Typed, Fits, Larger
<1>4. Position' /\ Sizes'
  BY <1>1, <1>2, SameSwap DEF OffsetInv, Position, Sizes, OutPc, InPc, EndPc
<1>5. \A k : Behind(k)' = Behind(k) /\ SentOut(k)' = SentOut(k)
  BY <1>1 DEF Behind, SentOut, AtWork
<1>6. /\ OldSize' = OldSize /\ NewSize' = NewSize
      /\ \A k : In(k)' = In(k) /\ Out(k)' = Out(k) /\ Kept(k)' = Kept(k)
  BY <1>1, <1>2, SameSwap
<1>7. \A k \in 0..NewSize - 1 : Behind(k)
  BY <1>2, Places, Lengths DEF Behind
<1>8. \A k \in 0..OldSize - 1 : SentOut(k) /\ sec'[Out(k)] = sec[Out(k)]
  <2>1. \A k \in 0..OldSize - 1 : SentOut(k)
    BY <1>2, Places, Lengths DEF Behind, SentOut
  <2>2. \A k \in 0..OldSize - 1 : Out(k) # 0 /\ Out(k) \in 0..SecSectors - 1
    BY <1>2, Places DEF Out
  <2> QED
    BY <1>1, <1>2, <2>1, <2>2 DEF Typed
<1>9. Shape'
  BY <1>1, <1>5, <1>6, <1>7, <1>8 DEF OffsetInv, Shape
<1>10. Working'
  BY <1>1, <1>2 DEF Working
<1> QED
  BY <1>3, <1>4, <1>9, <1>10 DEF OffsetInv

(* Reading the status back inverts writing it.                               *)
LEMMA Decode ==
    ASSUME NEW i \in Nat, NEW s \in {STATE_0, STATE_1}
    PROVE  swap_read_status_bytes(2 * i + (s - 1)) = [idx |-> i + 1, state |-> s]
<1>1. CASE s = 1
  <2>1. (2 * i + 0) \div 2 = i /\ (2 * i + 0) % 2 = 0
    OBVIOUS
  <2> QED
    BY <1>1, <2>1 DEF swap_read_status_bytes, IDX_0, STATE_0
<1>2. CASE s = 2
  <2>1. (2 * i + 1) \div 2 = i /\ (2 * i + 1) % 2 = 1
    OBVIOUS
  <2> QED
    BY <1>2, <2>1 DEF swap_read_status_bytes, IDX_0, STATE_0
<1> QED
  BY <1>1, <1>2 DEF STATE_0, STATE_1

(* boot_read_image_header finds the header of the incoming image.            *)
LEMMA IncomingHeader ==
    OffsetInv => Used[SecHeader(bs, swap_size - 1)] = NewSize
<1> SUFFICES ASSUME OffsetInv PROVE SecHeader(bs, swap_size - 1) = Incoming0
  BY DEF NewSize
<1>1. Typed /\ Position /\ 0 \in 0..NewSize - 1 /\ bs.idx \in Nat /\ bs.idx >= 1 /\ swap_size \in Nat
  BY Places, Lengths DEF OffsetInv, Position
<1>2. IF Behind(0) THEN pri[0] = sec0[In(0)] ELSE sec[In(0)] = sec0[In(0)]
  BY <1>1 DEF OffsetInv, Shape
<1>3. CASE revert
  BY <1>1, <1>2, <1>3 DEF SecHeader, Incoming0, Behind, In, IDX_0
<1>4. CASE ~revert
  BY <1>1, <1>2, <1>4 DEF SecHeader, Incoming0, Behind, In, IDX_0
<1> QED
  BY <1>3, <1>4

(* It finds the header of the outgoing one, except for the last sector of an *)
(* upgrade: there it finds the new one, or none if the swap is of one sector.*)
LEMMA OutgoingHeader ==
    OffsetInv => LET u == Used[PriHeader(bs, swap_size - 1)]
                 IN \/ u = OldSize
                    \/ ~revert /\ bs.idx >= swap_size /\ u = NewSize
                    \/ ~revert /\ swap_size = 1 /\ u = 0
<1> SUFFICES ASSUME OffsetInv
             PROVE  LET h == PriHeader(bs, swap_size - 1)
                    IN \/ h = pri0[0]
                       \/ ~revert /\ bs.idx >= swap_size /\ h = sec0[1]
                       \/ ~revert /\ swap_size = 1 /\ h = Torn
  BY ContentAssumption DEF OldSize, NewSize, Incoming0
<1>1. /\ Typed /\ Position /\ 0 \in 0..OldSize - 1 /\ 0 \in 0..NewSize - 1
      /\ bs.idx \in Nat /\ bs.idx >= 1 /\ swap_size \in Nat \ {0}
      /\ bs.state \in {STATE_0, STATE_1}
  BY Places, Lengths DEF OffsetInv, Position
<1>2. IF SentOut(0) THEN Kept(0) => sec[Out(0)] = pri0[0] ELSE pri[0] = pri0[0]
  BY <1>1 DEF OffsetInv, Shape
<1>3. CASE revert
  <2>1. SentOut(0) <=> \/ bs.idx - 1 > swap_size - 1
                       \/ bs.idx - 1 = swap_size - 1 /\ bs.state = STATE_1
    BY <1>1, <1>3 DEF SentOut, Behind, AtWork
  <2>2. Kept(0) /\ Out(0) = 1
    BY <1>3 DEF Kept, Out
  <2> QED
    BY <1>2, <1>3, <2>1, <2>2 DEF PriHeader, IDX_0
<1>4. CASE ~revert /\ bs.idx <= swap_size - 1
  <2>1. SentOut(0) <=> bs.idx > 1 \/ bs.state = STATE_1
    BY <1>1, <1>4 DEF SentOut, Behind, AtWork
  <2>2. Kept(0) /\ Out(0) = 0
    BY <1>1, <1>4 DEF Kept, Out
  <2> QED
    BY <1>2, <1>4, <2>1, <2>2 DEF PriHeader, IDX_0
<1>5. CASE ~revert /\ ~(bs.idx <= swap_size - 1)
  <2>1. PriHeader(bs, swap_size - 1) = pri[0]
    BY <1>5 DEF PriHeader
  <2>2. bs.idx >= swap_size
    BY <1>1, <1>5
  <2>3. CASE bs.idx > 1
    <3>1. Behind(0) /\ In(0) = 1
      BY <1>1, <1>5, <2>3 DEF Behind, In
    <3>2. pri[0] = sec0[1]
      BY <1>1, <3>1 DEF OffsetInv, Shape
    <3> QED
      BY <1>5, <2>1, <2>2, <3>2
  <2>4. CASE bs.idx = 1
    <3>1. swap_size = 1
      BY <1>1, <2>2, <2>4
    <3>2. pri[0] \in {pri0[0], Torn, sec0[1]}
      <4>1. CASE bs.state = STATE_1
        BY <1>5, <2>4, <4>1 DEF OffsetInv, Working
      <4>2. CASE bs.state = STATE_0
        <5>1. ~SentOut(0)
          BY <1>5, <2>4, <4>2 DEF SentOut, Behind, STATE_0, STATE_1
        <5> QED
          BY <1>2, <5>1
      <4> QED
        BY <1>1, <4>1, <4>2
    <3> QED
      BY <1>5, <2>1, <2>2, <3>1, <3>2
  <2> QED
    BY <1>1, <2>3, <2>4
<1> QED
  BY <1>3, <1>4, <1>5

(* A resume goes on at the sector and the half where the loop was.           *)
LEMMA ResumeStep == OffsetInv /\ ResetAndResume => OffsetInv'
<1> SUFFICES ASSUME OffsetInv, ResetAndResume PROVE OffsetInv'
  OBVIOUS
<1>1. UNCHANGED <<pri, sec, status, swap_size, revert, pri0, sec0>>
  BY DEF ResetAndResume
<1>2. /\ Typed /\ Position /\ bs.idx \in Nat /\ bs.idx >= 1 /\ swap_size \in Nat \ {0}
      /\ bs.state \in {STATE_0, STATE_1} /\ revert \in BOOLEAN
      /\ OldSize \in Nat \ {0} /\ NewSize \in Nat \ {0} /\ find_last_idx(swap_size) = swap_size - 1
  BY Lengths DEF OffsetInv, Position, Typed
<1> DEFINE b == [idx |-> bs.idx, state |-> bs.state]
           up == Used[PriHeader(bs, swap_size - 1)]
<1>3. swap_read_status_bytes(status) = b
  <2>1. status = 2 * (bs.idx - 1) + (bs.state - 1) /\ bs.idx - 1 \in Nat /\ bs.idx - 1 + 1 = bs.idx
    BY <1>2 DEF Position
  <2> QED
    BY <1>2, <2>1, Decode
<1>4. /\ PriHeader(b, swap_size - 1) = PriHeader(bs, swap_size - 1)
      /\ SecHeader(b, swap_size - 1) = SecHeader(bs, swap_size - 1)
  BY DEF PriHeader, SecHeader
<1>5. bs' = [idx |-> bs.idx, state |-> bs.state, swap_size |-> swap_size,
             used_pri |-> up, used_sec |-> NewSize]
  <2>1. bs' = WithHeaders(b, swap_size)
    BY <1>3 DEF ResetAndResume
  <2> QED
    BY <1>2, <1>4, <2>1, IncomingHeader DEF WithHeaders
<1>6. \/ up = OldSize
      \/ ~revert /\ bs.idx >= swap_size /\ up = NewSize
      \/ ~revert /\ swap_size = 1 /\ up = 0
  BY OutgoingHeader
<1> HIDE DEF up
<1>7. /\ bs' \in [idx : Nat, state : {STATE_0, STATE_1}, swap_size : {swap_size},
                  used_pri : Nat, used_sec : Nat]
      /\ bs'.idx = bs.idx /\ bs'.state = bs.state /\ bs'.swap_size = swap_size
      /\ bs'.used_pri = up /\ bs'.used_sec = NewSize
  BY <1>2, <1>5, <1>6
<1>8. pc' = IF up = 0 THEN "given_up"
            ELSE IF bs.idx > swap_size THEN IF revert THEN "clean" ELSE "done"
            ELSE IF bs.state = STATE_0 THEN "out_erase" ELSE "in_erase"
  <2>1. pc' = IF up = 0 THEN "given_up" ELSE LoopPc(bs')
    BY <1>2, <1>7 DEF ResetAndResume
  <2>2. find_last_idx(bs'.swap_size) = swap_size - 1 /\ bs'.idx = bs.idx /\ bs'.state = bs.state
    BY <1>2, <1>7
  <2>3. bs.idx - IDX_0 > swap_size - 1 <=> bs.idx > swap_size
    BY <1>2 DEF IDX_0
  <2>4. bs.idx - IDX_0 <= swap_size - 1 <=> ~(bs.idx > swap_size)
    BY <1>2 DEF IDX_0
  <2>5. LoopPc(bs') = IF bs.idx > swap_size THEN IF revert THEN "clean" ELSE "done"
                      ELSE IF bs.state = STATE_0 THEN "out_erase" ELSE "in_erase"
    BY <2>2, <2>3, <2>4 DEF LoopPc
  <2> QED
    BY <2>1, <2>5
<1>9. /\ OldSize' = OldSize /\ NewSize' = NewSize
      /\ \A k : In(k)' = In(k) /\ Out(k)' = Out(k) /\ Kept(k)' = Kept(k)
  BY <1>1, <1>2, SameSwap
<1>10. Typed'
  BY <1>1, <1>2, <1>9 DEF Typed, Fits, Larger
<1>11. Position'
  <2>1. /\ bs'.idx \in 1..swap_size' + 1
        /\ bs'.state = STATE_1 => bs'.idx <= swap_size'
        /\ status' = 2 * (bs'.idx - 1) + (bs'.state - 1)
    BY <1>1, <1>2, <1>7 DEF Position
  <2>2. /\ pc' \in OutPc \cup InPc \cup EndPc \cup {"given_up"}
        /\ pc' \in OutPc => bs'.state = STATE_0 /\ bs'.idx <= swap_size'
        /\ pc' \in InPc => bs'.state = STATE_1
        /\ pc' = "clean" => revert'
    BY <1>1, <1>2, <1>7, <1>8 DEF OutPc, InPc, EndPc
  <2>3. pc' \in EndPc => bs'.idx = swap_size' + 1
    <3>1. bs.idx \in 1..swap_size + 1
      BY <1>2 DEF Position
    <3> QED
      BY <1>1, <1>2, <1>7, <1>8, <3>1 DEF EndPc
  <2>4. pc' = "given_up" => ~revert' /\ swap_size' = 1
    BY <1>1, <1>2, <1>6, <1>8
  <2> QED
    BY <1>1, <1>7, <2>1, <2>2, <2>3, <2>4 DEF Position
<1>12. Sizes'
  BY <1>1, <1>6, <1>7, <1>8, <1>9 DEF Sizes
<1>13. \A k : Behind(k)' = Behind(k) /\ SentOut(k)' = SentOut(k)
  BY <1>1, <1>7 DEF Behind, SentOut, AtWork
<1>14. Shape'
  BY <1>1, <1>9, <1>13 DEF OffsetInv, Shape
<1>15. Working'
  <2>1. pc' # "out_status" /\ pc' # "in_status"
    BY <1>8
  <2> QED
    BY <1>1, <1>7, <2>1 DEF OffsetInv, Working
<1> QED
  BY <1>10, <1>11, <1>12, <1>14, <1>15 DEF OffsetInv

LEMMA StartInv == Init => OffsetInv
<1> SUFFICES ASSUME Init PROVE OffsetInv
  OBVIOUS
<1>1. /\ pri0 = pri /\ sec0 = sec /\ revert \in BOOLEAN
      /\ OldSize > 0 /\ Fits(OldSize) /\ NewSize > 0 /\ Fits(NewSize)
      /\ swap_size = Larger(OldSize, NewSize)
      /\ status = 0 /\ bs = WithHeaders(swap_read_status_bytes(0), swap_size) /\ pc = "out_erase"
  BY DEF Init, StartState, OldSize, NewSize
<1>2. Typed
  BY <1>1 DEF Init, Typed
<1>3. /\ OldSize \in Nat \ {0} /\ NewSize \in Nat \ {0} /\ swap_size \in Nat \ {0}
      /\ find_last_idx(swap_size) = swap_size - 1
  BY <1>2, Lengths
<1>4. swap_read_status_bytes(0) = [idx |-> 1, state |-> STATE_0]
  <2>1. 0 \div 2 = 0 /\ 0 % 2 = 0
    OBVIOUS
  <2> QED
    BY <2>1 DEF swap_read_status_bytes, IDX_0, STATE_0
<1>5. bs = [idx |-> 1, state |-> STATE_0, swap_size |-> swap_size,
            used_pri |-> OldSize, used_sec |-> NewSize]
  <2> DEFINE b == [idx |-> 1, state |-> STATE_0]
  <2>1. PriHeader(b, swap_size - 1) = pri0[0] /\ SecHeader(b, swap_size - 1) = Incoming0
    BY <1>1, <1>3 DEF PriHeader, SecHeader, Incoming0, IDX_0, STATE_0, STATE_1
  <2> QED
    BY <1>1, <1>3, <1>4, <2>1 DEF WithHeaders, OldSize, NewSize
<1>6. bs.idx = 1 /\ bs.state = STATE_0 /\ bs.used_pri = OldSize /\ bs.used_sec = NewSize
  BY <1>5
<1>7. Position
  <2>1. bs \in [idx : Nat, state : {STATE_0, STATE_1}, swap_size : {swap_size},
                used_pri : Nat, used_sec : Nat]
    BY <1>3, <1>5
  <2> QED
    BY <1>1, <1>3, <1>6, <2>1 DEF Position, OutPc, InPc, EndPc, STATE_0, STATE_1
<1>8. Sizes
  BY <1>6 DEF Sizes
<1>9. Shape
  <2>1. \A k \in 0..NewSize - 1 : ~Behind(k)
    BY <1>2, <1>3, <1>6, Places DEF Behind
  <2>2. \A k \in 0..OldSize - 1 : ~SentOut(k)
    BY <1>2, <1>3, <1>6, Places DEF SentOut, Behind, STATE_0, STATE_1
  <2> QED
    BY <1>1, <2>1, <2>2 DEF Shape
<1>10. Working
  BY <1>1, <1>6 DEF Working, STATE_0, STATE_1
<1> QED
  BY <1>2, <1>7, <1>8, <1>9, <1>10 DEF OffsetInv

-----------------------------------------------------------------------------
(* The loops of swap_offset.c keep the invariant, resets included.           *)
THEOREM OffsetInvariance == Spec => []OffsetInv
<1>1. OffsetInv /\ [Next]_vars => OffsetInv'
  <2> SUFFICES ASSUME OffsetInv, [Next]_vars PROVE OffsetInv'
    OBVIOUS
  <2>1. Typed /\ Position
    BY DEF OffsetInv
  <2>2. Torn \in Content
    BY ContentAssumption
  <2>3. CASE OutErase
    BY <2>2, <2>3, OutWrite DEF OutErase, OutPc
  <2>4. CASE OutCopy
    <3>1. bs.idx <= swap_size
      BY <2>1, <2>4 DEF OutCopy, Position, OutPc
    <3>2. pri[idx] \in Content
      BY <2>1, <3>1, Current DEF Typed
    <3> QED
      BY <2>4, <3>2, OutWrite DEF OutCopy, OutPc
  <2>5. CASE OutStatus
    BY <2>5, OutStatusStep
  <2>6. CASE InErase
    BY <2>6, InWrite DEF InErase, InPc
  <2>7. CASE InCopy
    BY <2>7, InWrite DEF InCopy, InPc
  <2>8. CASE InStatus
    BY <2>8, InStatusStep
  <2>9. CASE CleanFirstSector
    BY <2>9, CleanStep
  <2>10. CASE ResetAndResume
    BY <2>10, ResumeStep
  <2>11. CASE UNCHANGED vars
    <3>1. UNCHANGED <<pri, sec, status, swap_size, revert, bs, pc, pri0, sec0>>
      BY <2>11 DEF vars
    <3>2. Typed' /\ Position' /\ Sizes'
      BY <3>1, SameSwap DEF OffsetInv, Typed, Position, Sizes, Fits, Larger
    <3>3. \A k : /\ Behind(k)' = Behind(k) /\ SentOut(k)' = SentOut(k)
                 /\ In(k)' = In(k) /\ Out(k)' = Out(k) /\ Kept(k)' = Kept(k)
      BY <2>1, <3>1, SameSwap DEF Behind, SentOut, AtWork
    <3>4. Shape'
      BY <2>1, <3>1, <3>3, SameSwap DEF OffsetInv, Shape
    <3>5. Working'
      BY <3>1 DEF OffsetInv, Working, idx, out_idx, in_idx, skip_primary, skip_secondary,
                  last_idx, find_last_idx
    <3> QED
      BY <3>2, <3>4, <3>5 DEF OffsetInv
  <2> QED
    BY <2>3, <2>4, <2>5, <2>6, <2>7, <2>8, <2>9, <2>10, <2>11 DEF Next, SwapStep
<1> QED
  BY <1>1, StartInv, PTL DEF Spec

(* boot_swap_sectors and its revert: at every instant, in the middle of an   *)
(* erase or a copy included, each sector of both images is intact in one of  *)
(* its places, for slots and images of any size.                             *)
THEOREM NothingLost == Spec => []NoSectorLost
<1>1. OffsetInv => NoSectorLost
  <2> SUFFICES ASSUME OffsetInv PROVE NoSectorLost
    OBVIOUS
  <2>1. Typed /\ OldSize \in Nat /\ NewSize \in Nat
    BY Lengths DEF OffsetInv
  <2>2. \A k \in 0..NewSize - 1 : sec0[In(k)] \in {pri[k], sec[In(k)]}
    BY DEF OffsetInv, Shape
  <2>3. LookupHarmless => \A k \in 0..OldSize - 1 : Kept(k)
    BY <2>1 DEF LookupHarmless, Kept
  <2>4. LookupHarmless => \A k \in 0..OldSize - 1 : pri0[k] \in {pri[k], sec[Out(k)]}
    BY <2>3 DEF OffsetInv, Shape
  <2> QED
    BY <2>2, <2>4 DEF NoSectorLost, In, Out
<1> QED
  BY <1>1, OffsetInvariance, PTL

(* swap_run: when the loop ends, the incoming image is whole in the primary  *)
(* slot and, where the header lookup is harmless, the outgoing one is whole  *)
(* in the secondary slot, whatever resets happened on the way.               *)
THEOREM SwapCorrect == Spec => []SwapDone
<1>1. OffsetInv => SwapDone
  <2> SUFFICES ASSUME OffsetInv, pc = "done"
               PROVE  /\ \A k \in 0..NewSize - 1 : pri[k] = sec0[In(k)]
                      /\ LookupHarmless => \A k \in 0..OldSize - 1 : sec[Out(k)] = pri0[k]
    BY DEF SwapDone, NewImageInstalled, OldImageKept, In, Out
  <2>1. /\ Typed /\ OldSize \in Nat /\ NewSize \in Nat /\ swap_size \in Nat
        /\ bs.idx = swap_size + 1
    BY Lengths DEF OffsetInv, Position, EndPc
  <2>2. \A k \in 0..NewSize - 1 : Behind(k)
    BY <2>1, Places DEF Behind
  <2>3. \A k \in 0..OldSize - 1 : SentOut(k)
    BY <2>1, Places DEF Behind, SentOut
  <2>4. LookupHarmless => \A k \in 0..OldSize - 1 : Kept(k)
    BY <2>1 DEF LookupHarmless, Kept
  <2> QED
    BY <2>2, <2>3, <2>4 DEF OffsetInv, Shape
<1> QED
  BY <1>1, OffsetInvariance, PTL

(* boot_read_image_header: where the lookup is harmless no resume misses a   *)
(* header, so that a swap that was begun is never given up.                  *)
THEOREM NeverGivenUp == Spec => [](LookupHarmless => pc # "given_up")
<1>1. OffsetInv => (LookupHarmless => pc # "given_up")
  BY DEF OffsetInv, Position, LookupHarmless
<1> QED
  BY <1>1, OffsetInvariance, PTL

(* bs->idx stays within what the slots have sectors for, and the status      *)
(* entries within what the status area has room for.                         *)
THEOREM TypeCorrect == Spec => []TypeOK
<1>1. OffsetInv => TypeOK
  <2> SUFFICES ASSUME OffsetInv PROVE TypeOK
    OBVIOUS
  <2>1. Typed /\ Position
    BY DEF OffsetInv
  <2>2. /\ swap_size \in Nat \ {0} /\ swap_size <= PriSectors /\ PriSectors \in Nat
    BY <2>1, Lengths
  <2>3. bs.idx \in 1..PriSectors + 1 /\ swap_size \in 1..PriSectors
    BY <2>1, <2>2 DEF Position
  <2>4. status \in 0..(2 * PriSectors)
    BY <2>1, <2>2 DEF Position, STATE_0, STATE_1
  <2>5. bs \in [idx : 1..PriSectors + 1, state : {STATE_0, STATE_1},
                swap_size : {swap_size}, used_pri : Nat, used_sec : Nat]
    BY <2>1, <2>3 DEF Position
  <2>6. pc \in {"out_erase", "out_copy", "out_status", "in_erase", "in_copy",
                "in_status", "clean", "done", "given_up"}
    BY <2>1 DEF Position, OutPc, InPc, EndPc
  <2> QED
    BY <2>1, <2>3, <2>4, <2>5, <2>6 DEF TypeOK, Typed
<1> QED
  BY <1>1, OffsetInvariance, PTL
=============================================================================
