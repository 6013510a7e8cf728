-------------------------- MODULE SwapMove_proofs --------------------------
(* Proofs about the sector loop of swap using move, for slots of any size    *)
(* and any content, and any number of resets.                                *)
EXTENDS SwapMove, TLAPS

USE DEF IDX_0, STATE_0, STATE_1

(* A size that fits leaves room for the sector the move loop uses.           *)
LEMMA LastIdxRange ==
    ASSUME NEW n \in 1..SecSectors, Swappable(n)
    PROVE  /\ find_last_idx(n) \in Nat
           /\ find_last_idx(n) = n
           /\ 1 <= find_last_idx(n)
           /\ find_last_idx(n) < PriSectors
           /\ find_last_idx(n) <= SecSectors
           /\ find_last_idx(n) < MaxImgSectors
  BY GeometryAssumption DEF Swappable, find_last_idx

(* Reading the status area back inverts writing it.                          *)
LEMMA DecodeMove ==
    ASSUME NEW k \in 0..MaxImgSectors - 1
    PROVE  swap_read_status_bytes(k) = [op |-> "MOVE", idx |-> k + 1, state |-> 1]
  BY GeometryAssumption DEF swap_read_status_bytes, StatusReset

LEMMA DecodeSwap ==
    ASSUME NEW k \in 1..MaxImgSectors, NEW s \in {0, 1},
           MaxImgSectors + 2 * (k - 1) + s > 0
    PROVE  swap_read_status_bytes(MaxImgSectors + 2 * (k - 1) + s) =
               [op |-> "SWAP", idx |-> k, state |-> s + 1]
<1> DEFINE f == MaxImgSectors + 2 * (k - 1) + s
<1>1. f \in Nat /\ f # 0 /\ ~(f < MaxImgSectors)
  BY GeometryAssumption
<1>2. f - MaxImgSectors = 2 * (k - 1) + s
  BY GeometryAssumption
<1>3. (2 * (k - 1) + s) \div 2 = k - 1 /\ (2 * (k - 1) + s) % 2 = s
  BY GeometryAssumption
<1>4. (f - MaxImgSectors) \div 2 + 1 = k /\ ((f - MaxImgSectors) % 2) + 1 = s + 1
  BY <1>2, <1>3, GeometryAssumption
<1> QED
  BY <1>1, <1>4 DEF swap_read_status_bytes

(* What every proof below uses about the indices of the loops.               *)
LEMMA IndexFacts ==
    ASSUME TypeOK
    PROVE  /\ last_idx = swap_size
           /\ bs.swap_size = swap_size
           /\ swap_size \in 1..SecSectors /\ Swappable(swap_size)
           /\ find_last_idx(swap_size) = swap_size
           /\ swap_size \in Nat /\ 1 <= swap_size
           /\ swap_size < PriSectors /\ swap_size <= SecSectors
           /\ swap_size < MaxImgSectors
           /\ bs.idx \in Nat
           /\ new_idx = swap_size - bs.idx + 1
<1>1. swap_size \in 1..SecSectors /\ Swappable(swap_size) /\ bs.swap_size = swap_size
  BY DEF TypeOK
<1>2. find_last_idx(swap_size) = swap_size /\ last_idx = swap_size
  BY <1>1, LastIdxRange DEF last_idx
<1> QED
  BY <1>1, <1>2, LastIdxRange, GeometryAssumption DEF TypeOK, new_idx

LEMMA InitEstablishes == Init => SwapInv
<1> SUFFICES ASSUME Init PROVE SwapInv
  OBVIOUS
<1>1. swap_size \in 1..SecSectors /\ Swappable(swap_size)
  BY DEF Init
<1>2. /\ find_last_idx(swap_size) = swap_size /\ 1 <= swap_size
      /\ swap_size < PriSectors /\ swap_size <= SecSectors
      /\ swap_size < MaxImgSectors
  BY <1>1, LastIdxRange
<1>3. bs = [op |-> "MOVE", idx |-> 1, state |-> 1, swap_size |-> swap_size]
  BY <1>1, <1>2 DEF Init, EnterLoop, StatusReset
<1>4. TypeOK
  BY <1>1, <1>3, GeometryAssumption DEF Init, TypeOK, MovePc
<1>5. MoveShape
  BY <1>1, <1>2, <1>3, <1>4, GeometryAssumption, IndexFacts
     DEF Init, MoveShape, MovedUpFrom, SecUntouchedFrom, TypeOK
<1> QED
  BY <1>4, <1>5 DEF Init, SwapInv, Swap0Shape, Swap1Shape, DoneShape

LEMMA MoveEraseStep == SwapInv /\ MoveErase => SwapInv'
<1> SUFFICES ASSUME SwapInv, MoveErase PROVE SwapInv'
  OBVIOUS
<1> USE IndexFacts DEF SwapInv
<1>1. /\ pc = "move_erase" /\ pc' = "move_copy" /\ MoveShape
      /\ pri' = [pri EXCEPT ![new_idx] = Torn]
      /\ UNCHANGED <<sec, status, swap_size, bs, pri0, sec0>>
  BY DEF MoveErase
<1>2. TypeOK'
  BY <1>1, ContentAssumption DEF TypeOK, MovePc
<1>3. MoveShape'
  BY <1>1, <1>2 DEF MoveShape, MovePc, MovedUpFrom, SecUntouchedFrom, new_idx, last_idx, TypeOK
<1> QED
  BY <1>1, <1>2, <1>3 DEF Swap0Shape, Swap1Shape, DoneShape

LEMMA MoveCopyStep == SwapInv /\ MoveCopy => SwapInv'
<1> SUFFICES ASSUME SwapInv, MoveCopy PROVE SwapInv'
  OBVIOUS
<1> USE IndexFacts DEF SwapInv
<1>1. /\ pc = "move_copy" /\ pc' = "move_status" /\ MoveShape
      /\ pri' = [pri EXCEPT ![new_idx] = pri[new_idx - 1]]
      /\ UNCHANGED <<sec, status, swap_size, bs, pri0, sec0>>
  BY DEF MoveCopy
<1>2. bs.idx \in 1..swap_size /\ new_idx \in 1..swap_size
  BY <1>1 DEF MoveShape, MovePc
<1>3. TypeOK'
  BY <1>1, <1>2, GeometryAssumption DEF TypeOK, MovePc
<1>4. MoveShape'
  BY <1>1, <1>2, <1>3 DEF MoveShape, MovePc, MovedUpFrom, SecUntouchedFrom, new_idx, last_idx, TypeOK
<1> QED
  BY <1>1, <1>3, <1>4 DEF Swap0Shape, Swap1Shape, DoneShape

LEMMA MoveStatusStep == SwapInv /\ MoveStatus => SwapInv'
<1> SUFFICES ASSUME SwapInv, MoveStatus PROVE SwapInv'
  OBVIOUS
<1> USE IndexFacts DEF SwapInv
<1>1. /\ pc = "move_status" /\ MoveShape /\ status' = bs.idx
      /\ bs' = EnterLoop([bs EXCEPT !.idx = bs.idx + 1], bs.swap_size)
      /\ pc' = LoopPc(bs')
      /\ UNCHANGED <<pri, sec, swap_size, pri0, sec0>>
  BY DEF MoveStatus, boot_status_internal_off, MoveShape, MovePc
<1>2. bs.op = "MOVE" /\ bs.state = 1 /\ bs.idx \in 1..swap_size
  BY <1>1 DEF MoveShape, MovePc
<1>3. bs \in [op : {"MOVE", "SWAP"}, idx : 1..MaxImgSectors,
              state : {STATE_0, STATE_1}, swap_size : {swap_size}]
  BY DEF TypeOK
<1>4. CASE bs.idx < swap_size
  <2>1. bs' = [op |-> "MOVE", idx |-> bs.idx + 1, state |-> 1, swap_size |-> swap_size]
    BY <1>1, <1>2, <1>3, <1>4 DEF EnterLoop
  <2>2. pc' = "move_erase"
    BY <1>1, <2>1 DEF LoopPc
  <2>3. bs.idx + 1 \in 1..MaxImgSectors /\ status' \in 0..(3 * MaxImgSectors)
    BY <1>1, <1>2, <1>4, GeometryAssumption
  <2>4. bs' \in [op : {"MOVE", "SWAP"}, idx : 1..MaxImgSectors,
                 state : {1, 2}, swap_size : {swap_size'}]
    BY <1>1, <2>1, <2>3
  <2>5. TypeOK'
    BY <1>1, <2>2, <2>3, <2>4 DEF TypeOK, MovePc
  <2>6. MoveShape'
    BY <1>1, <1>2, <1>4, <2>1, <2>2 DEF MoveShape, MovePc, MovedUpFrom, SecUntouchedFrom, new_idx, last_idx
  <2> QED
    BY <2>2, <2>5, <2>6 DEF Swap0Shape, Swap1Shape, DoneShape
<1>5. CASE bs.idx = swap_size
  <2>1. bs' = [op |-> "SWAP", idx |-> 1, state |-> 1, swap_size |-> swap_size]
    BY <1>1, <1>2, <1>3, <1>5 DEF EnterLoop
  <2>2. pc' = "swap0_erase"
    BY <1>1, <2>1 DEF LoopPc
  <2>3. TypeOK'
    BY <1>1, <1>2, <1>5, <2>1, <2>2, GeometryAssumption DEF TypeOK, SwapPc
  <2>4. Swap0Shape'
    BY <1>1, <1>2, <1>5, <2>1, <2>2
       DEF MoveShape, MovePc, Swap0Shape, Exchanged, MovedUpFrom, SecUntouchedFrom, new_idx, last_idx
  <2> QED
    BY <2>2, <2>3, <2>4 DEF MoveShape, MovePc, Swap1Shape, DoneShape
<1> QED
  BY <1>2, <1>4, <1>5

LEMMA Swap0EraseStep == SwapInv /\ Swap0Erase => SwapInv'
<1> SUFFICES ASSUME SwapInv, Swap0Erase PROVE SwapInv'
  OBVIOUS
<1> USE IndexFacts DEF SwapInv
<1>1. /\ pc = "swap0_erase" /\ pc' = "swap0_copy" /\ Swap0Shape
      /\ pri' = [pri EXCEPT ![bs.idx - 1] = Torn]
      /\ UNCHANGED <<sec, status, swap_size, bs, pri0, sec0>>
  BY DEF Swap0Erase
<1>2. bs.idx \in 1..swap_size
  BY <1>1 DEF Swap0Shape
<1>3. TypeOK'
  BY <1>1, <1>2, GeometryAssumption, ContentAssumption DEF TypeOK, SwapPc
<1>4. Exchanged(bs.idx - 1)'
  BY <1>1, <1>2, GeometryAssumption DEF Swap0Shape, Exchanged, TypeOK
<1>5. MovedUpFrom(bs.idx)'
  BY <1>1, <1>2, GeometryAssumption DEF Swap0Shape, MovedUpFrom, last_idx, TypeOK
<1>6. SecUntouchedFrom(bs.idx - 1)'
  BY <1>1, <1>2, GeometryAssumption DEF Swap0Shape, SecUntouchedFrom, last_idx, TypeOK
<1>8. Swap0Shape'
  BY <1>1, <1>2, <1>4, <1>5, <1>6 DEF Swap0Shape, last_idx
<1> QED
  BY <1>1, <1>3, <1>8 DEF MoveShape, MovePc, Swap0Shape, Swap1Shape, DoneShape

LEMMA Swap0CopyStep == SwapInv /\ Swap0Copy => SwapInv'
<1> SUFFICES ASSUME SwapInv, Swap0Copy PROVE SwapInv'
  OBVIOUS
<1> USE IndexFacts DEF SwapInv
<1>1. /\ pc = "swap0_copy" /\ pc' = "swap0_status" /\ Swap0Shape
      /\ pri' = [pri EXCEPT ![bs.idx - 1] = sec[bs.idx - 1]]
      /\ UNCHANGED <<sec, status, swap_size, bs, pri0, sec0>>
  BY DEF Swap0Copy
<1>2. bs.idx \in 1..swap_size
  BY <1>1 DEF Swap0Shape
<1>3. TypeOK'
  BY <1>1, <1>2, GeometryAssumption, ContentAssumption DEF TypeOK, SwapPc
<1>4. Exchanged(bs.idx - 1)'
  BY <1>1, <1>2, GeometryAssumption DEF Swap0Shape, Exchanged, TypeOK
<1>5. MovedUpFrom(bs.idx)'
  BY <1>1, <1>2, GeometryAssumption DEF Swap0Shape, MovedUpFrom, last_idx, TypeOK
<1>6. SecUntouchedFrom(bs.idx - 1)'
  BY <1>1, <1>2, GeometryAssumption DEF Swap0Shape, SecUntouchedFrom, last_idx, TypeOK
<1>7. pri'[bs.idx - 1] = sec0[bs.idx - 1]
  <2>1. SecUntouchedFrom(bs.idx - 1)
    BY <1>1 DEF Swap0Shape
  <2>2. sec[bs.idx - 1] = sec0[bs.idx - 1]
    BY <1>2, <2>1 DEF SecUntouchedFrom
  <2>3. pri'[bs.idx - 1] = sec[bs.idx - 1]
    <3>1. bs.idx - 1 \in 0..PriSectors - 1 /\ bs.idx - 1 \in 0..SecSectors - 1
      BY <1>2, GeometryAssumption
    <3> QED
      BY <1>1, <3>1 DEF TypeOK
  <2> QED
    BY <2>2, <2>3
<1>8. Swap0Shape'
  BY <1>1, <1>2, <1>4, <1>5, <1>6, <1>7 DEF Swap0Shape, last_idx
<1> QED
  BY <1>1, <1>3, <1>8 DEF MoveShape, MovePc, Swap0Shape, Swap1Shape, DoneShape

LEMMA Swap0StatusStep == SwapInv /\ Swap0Status => SwapInv'
<1> SUFFICES ASSUME SwapInv, Swap0Status PROVE SwapInv'
  OBVIOUS
<1> USE IndexFacts DEF SwapInv
<1>1. /\ pc = "swap0_status" /\ pc' = "swap1_erase" /\ Swap0Shape
      /\ status' = MaxImgSectors + 2 * (bs.idx - 1) + 1
      /\ bs' = [bs EXCEPT !.state = 2]
      /\ UNCHANGED <<pri, sec, swap_size, pri0, sec0>>
  BY DEF Swap0Status, boot_status_internal_off, Swap0Shape
<1>2. bs.idx \in 1..swap_size /\ bs.op = "SWAP"
  BY <1>1 DEF Swap0Shape
<1>3. status' \in 0..(3 * MaxImgSectors)
  BY <1>1, <1>2, GeometryAssumption
<1>4. bs' = [op |-> "SWAP", idx |-> bs.idx, state |-> 2, swap_size |-> swap_size]
  BY <1>1, <1>2 DEF TypeOK
<1>5. TypeOK'
  BY <1>1, <1>2, <1>3, <1>4, GeometryAssumption DEF TypeOK, SwapPc
<1>6. Swap1Shape'
  BY <1>1, <1>2, <1>4, GeometryAssumption
     DEF Swap0Shape, Swap1Shape, Exchanged, MovedUpFrom, SecUntouchedFrom, last_idx
<1> QED
  BY <1>1, <1>5, <1>6 DEF MoveShape, MovePc, Swap0Shape, DoneShape

LEMMA Swap1EraseStep == SwapInv /\ Swap1Erase => SwapInv'
<1> SUFFICES ASSUME SwapInv, Swap1Erase PROVE SwapInv'
  OBVIOUS
<1> USE IndexFacts DEF SwapInv
<1>1. /\ pc = "swap1_erase" /\ pc' = "swap1_copy" /\ Swap1Shape
      /\ sec' = [sec EXCEPT ![bs.idx - 1] = Torn]
      /\ UNCHANGED <<pri, status, swap_size, bs, pri0, sec0>>
  BY DEF Swap1Erase
<1>2. bs.idx \in 1..swap_size
  BY <1>1 DEF Swap1Shape
<1>3. TypeOK'
  BY <1>1, <1>2, GeometryAssumption, ContentAssumption DEF TypeOK, SwapPc
<1>4. Exchanged(bs.idx - 1)'
  BY <1>1, <1>2, GeometryAssumption DEF Swap1Shape, Exchanged, TypeOK
<1>5. MovedUpFrom(bs.idx)'
  BY <1>1, <1>2, GeometryAssumption DEF Swap1Shape, MovedUpFrom, last_idx, TypeOK
<1>6. SecUntouchedFrom(bs.idx)'
  <2>1. SecUntouchedFrom(bs.idx)
    BY <1>1 DEF Swap1Shape
  <2>2. \A j \in bs.idx..swap_size - 1 : sec'[j] = sec[j]
    BY <1>1, <1>2 DEF TypeOK
  <2> QED
    BY <1>1, <2>1, <2>2 DEF SecUntouchedFrom, last_idx
<1>8. Swap1Shape'
  BY <1>1, <1>2, <1>4, <1>5, <1>6 DEF Swap1Shape, last_idx
<1> QED
  BY <1>1, <1>3, <1>8 DEF MoveShape, MovePc, Swap0Shape, Swap1Shape, DoneShape

LEMMA Swap1CopyStep == SwapInv /\ Swap1Copy => SwapInv'
<1> SUFFICES ASSUME SwapInv, Swap1Copy PROVE SwapInv'
  OBVIOUS
<1> USE IndexFacts DEF SwapInv
<1>1. /\ pc = "swap1_copy" /\ pc' = "swap1_status" /\ Swap1Shape
      /\ sec' = [sec EXCEPT ![bs.idx - 1] = pri[bs.idx]]
      /\ UNCHANGED <<pri, status, swap_size, bs, pri0, sec0>>
  BY DEF Swap1Copy
<1>2. bs.idx \in 1..swap_size
  BY <1>1 DEF Swap1Shape
<1>3. TypeOK'
  BY <1>1, <1>2, GeometryAssumption, ContentAssumption DEF TypeOK, SwapPc
<1>4. Exchanged(bs.idx - 1)'
  BY <1>1, <1>2, GeometryAssumption DEF Swap1Shape, Exchanged, TypeOK
<1>5. MovedUpFrom(bs.idx)'
  BY <1>1, <1>2, GeometryAssumption DEF Swap1Shape, MovedUpFrom, last_idx, TypeOK
<1>6. SecUntouchedFrom(bs.idx)'
  <2>1. SecUntouchedFrom(bs.idx)
    BY <1>1 DEF Swap1Shape
  <2>2. \A j \in bs.idx..swap_size - 1 : sec'[j] = sec[j]
    BY <1>1, <1>2 DEF TypeOK
  <2> QED
    BY <1>1, <2>1, <2>2 DEF SecUntouchedFrom, last_idx
<1>7. sec'[bs.idx - 1] = pri0[bs.idx - 1]
  <2>1. MovedUpFrom(bs.idx)
    BY <1>1 DEF Swap1Shape
  <2>2. pri[bs.idx] = pri0[bs.idx - 1]
    BY <1>2, <2>1 DEF MovedUpFrom
  <2>3. sec'[bs.idx - 1] = pri[bs.idx]
    <3>1. bs.idx - 1 \in 0..PriSectors - 1 /\ bs.idx - 1 \in 0..SecSectors - 1
      BY <1>2, GeometryAssumption
    <3> QED
      BY <1>1, <3>1 DEF TypeOK
  <2> QED
    BY <2>2, <2>3
<1>8. Swap1Shape'
  BY <1>1, <1>2, <1>4, <1>5, <1>6, <1>7 DEF Swap1Shape, last_idx
<1> QED
  BY <1>1, <1>3, <1>8 DEF MoveShape, MovePc, Swap0Shape, Swap1Shape, DoneShape

LEMMA Swap1StatusStep == SwapInv /\ Swap1Status => SwapInv'
<1> SUFFICES ASSUME SwapInv, Swap1Status PROVE SwapInv'
  OBVIOUS
<1> USE IndexFacts DEF SwapInv
<1>1. /\ pc = "swap1_status" /\ pc' = LoopPc(bs') /\ Swap1Shape
      /\ status' = MaxImgSectors + 2 * (bs.idx - 1) + 2
      /\ bs' = [bs EXCEPT !.idx = bs.idx + 1, !.state = 1]
      /\ UNCHANGED <<pri, sec, swap_size, pri0, sec0>>
  BY DEF Swap1Status, boot_status_internal_off, Swap1Shape
<1>2. bs.idx \in 1..swap_size /\ bs.op = "SWAP"
  BY <1>1 DEF Swap1Shape
<1>3. /\ status' = MaxImgSectors + 2 * bs.idx /\ status' \in 0..(3 * MaxImgSectors)
      /\ bs.idx + 1 \in 1..MaxImgSectors
  BY <1>1, <1>2, GeometryAssumption
<1>4. bs' = [op |-> "SWAP", idx |-> bs.idx + 1, state |-> 1, swap_size |-> swap_size]
  BY <1>1, <1>2 DEF TypeOK
<1>5. bs' \in [op : {"MOVE", "SWAP"}, idx : 1..MaxImgSectors,
              state : {1, 2}, swap_size : {swap_size'}]
  BY <1>1, <1>3, <1>4
<1>6. CASE bs.idx < swap_size
  <2>1. pc' = "swap0_erase"
    BY <1>1, <1>2, <1>4, <1>6 DEF LoopPc
  <2>2. TypeOK'
    BY <1>1, <1>3, <1>5, <2>1 DEF TypeOK, SwapPc
  <2>3. Swap0Shape'
    BY <1>1, <1>2, <1>3, <1>4, <1>6, <2>1, GeometryAssumption
       DEF Swap0Shape, Swap1Shape, Exchanged, MovedUpFrom, SecUntouchedFrom, last_idx
  <2> QED
    BY <2>1, <2>2, <2>3 DEF MoveShape, MovePc, Swap1Shape, DoneShape
<1>7. CASE bs.idx = swap_size
  <2>1. pc' = "done"
    BY <1>1, <1>2, <1>4, <1>7 DEF LoopPc
  <2>2. TypeOK'
    BY <1>1, <1>3, <1>5, <2>1 DEF TypeOK
  <2>3. DoneShape'
    BY <1>1, <1>2, <1>3, <1>4, <1>7, <2>1, GeometryAssumption
       DEF DoneShape, Swap1Shape, Exchanged, last_idx
  <2> QED
    BY <2>1, <2>2, <2>3 DEF MoveShape, MovePc, Swap0Shape, Swap1Shape
<1> QED
  BY <1>2, <1>6, <1>7

(* The status area always decodes to the boot status held in RAM.            *)
LEMMA ResumeExact ==
    ASSUME SwapInv
    PROVE  EnterLoop(swap_read_status_bytes(status), swap_size) = bs
<1> USE IndexFacts DEF SwapInv
<1>1. \A o, i, s : bs.op = o /\ bs.idx = i /\ bs.state = s =>
          bs = [op |-> o, idx |-> i, state |-> s, swap_size |-> swap_size]
  BY DEF TypeOK
<1>2. CASE pc \in MovePc
  <2>1. bs.op = "MOVE" /\ bs.state = 1 /\ bs.idx \in 1..swap_size /\ status = bs.idx - 1
    BY <1>2 DEF MoveShape
  <2>2. status \in 0..MaxImgSectors - 1
    BY <2>1, GeometryAssumption
  <2>3. swap_read_status_bytes(status) = [op |-> "MOVE", idx |-> bs.idx, state |-> 1]
    BY <2>1, <2>2, DecodeMove
  <2> QED
    BY <1>1, <2>1, <2>3 DEF EnterLoop
<1>3. CASE pc \in {"swap0_erase", "swap0_copy", "swap0_status"}
  <2>1. /\ bs.op = "SWAP" /\ bs.state = 1 /\ bs.idx \in 1..swap_size
        /\ status = IF bs.idx = 1 THEN swap_size ELSE MaxImgSectors + 2 * (bs.idx - 1)
    BY <1>3 DEF Swap0Shape
  <2>2. CASE bs.idx = 1
    <3>1. status \in 0..MaxImgSectors - 1
      BY <2>1, <2>2, GeometryAssumption
    <3>2. swap_read_status_bytes(status) = [op |-> "MOVE", idx |-> swap_size + 1, state |-> 1]
      BY <2>1, <2>2, <3>1, DecodeMove
    <3> QED
      BY <1>1, <2>1, <2>2, <3>2 DEF EnterLoop
  <2>3. CASE bs.idx # 1
    <3>1. /\ bs.idx \in 1..MaxImgSectors
          /\ status = MaxImgSectors + 2 * (bs.idx - 1) + 0
          /\ MaxImgSectors + 2 * (bs.idx - 1) + 0 > 0
      BY <2>1, <2>3, GeometryAssumption
    <3>2. swap_read_status_bytes(status) = [op |-> "SWAP", idx |-> bs.idx, state |-> 0 + 1]
      BY <3>1, DecodeSwap
    <3> QED
      BY <1>1, <2>1, <3>2 DEF EnterLoop
  <2> QED
    BY <2>2, <2>3
<1>4. CASE pc \in {"swap1_erase", "swap1_copy", "swap1_status"}
  <2>1. /\ bs.op = "SWAP" /\ bs.state = 2 /\ bs.idx \in 1..swap_size
        /\ status = MaxImgSectors + 2 * (bs.idx - 1) + 1
    BY <1>4 DEF Swap1Shape
  <2>2. bs.idx \in 1..MaxImgSectors /\ MaxImgSectors + 2 * (bs.idx - 1) + 1 > 0
    BY <2>1, GeometryAssumption
  <2>3. swap_read_status_bytes(status) = [op |-> "SWAP", idx |-> bs.idx, state |-> 1 + 1]
    BY <2>1, <2>2, DecodeSwap
  <2> QED
    BY <1>1, <2>1, <2>3 DEF EnterLoop
<1>5. CASE pc = "done"
  <2>1. /\ bs.op = "SWAP" /\ bs.state = 1 /\ bs.idx = swap_size + 1
        /\ status = MaxImgSectors + 2 * swap_size
    BY <1>5 DEF DoneShape
  <2>2. /\ bs.idx \in 1..MaxImgSectors
        /\ status = MaxImgSectors + 2 * (bs.idx - 1) + 0
        /\ MaxImgSectors + 2 * (bs.idx - 1) + 0 > 0
    BY <2>1, GeometryAssumption
  <2>3. swap_read_status_bytes(status) = [op |-> "SWAP", idx |-> bs.idx, state |-> 0 + 1]
    BY <2>2, DecodeSwap
  <2> QED
    BY <1>1, <2>1, <2>3 DEF EnterLoop
<1> QED
  BY <1>2, <1>3, <1>4, <1>5 DEF TypeOK, SwapPc

LEMMA ResumeStep == SwapInv /\ ResetAndResume => SwapInv'
<1> SUFFICES ASSUME SwapInv, ResetAndResume PROVE SwapInv'
  OBVIOUS
<1>1. /\ bs' = bs /\ pc' = LoopPc(bs)
      /\ UNCHANGED <<pri, sec, status, swap_size, pri0, sec0>>
  BY ResumeExact DEF ResetAndResume
<1> USE IndexFacts, <1>1 DEF SwapInv
<1>2. CASE pc \in MovePc
  <2>1. pc' = "move_erase"
    BY <1>2 DEF MoveShape, LoopPc
  <2>2. TypeOK' /\ MoveShape'
    BY <1>2, <2>1 DEF MoveShape, MovePc, MovedUpFrom, SecUntouchedFrom, new_idx, last_idx, TypeOK
  <2> QED
    BY <2>1, <2>2 DEF Swap0Shape, Swap1Shape, DoneShape
<1>3. CASE pc \in {"swap0_erase", "swap0_copy", "swap0_status"}
  <2>1. pc' = "swap0_erase"
    BY <1>3 DEF Swap0Shape, LoopPc
  <2>2. TypeOK' /\ Swap0Shape'
    BY <1>3, <2>1 DEF Swap0Shape, SwapPc, Exchanged, MovedUpFrom, SecUntouchedFrom, last_idx, TypeOK
  <2> QED
    BY <2>1, <2>2 DEF MoveShape, MovePc, Swap1Shape, DoneShape
<1>4. CASE pc \in {"swap1_erase", "swap1_copy", "swap1_status"}
  <2>1. pc' = "swap1_erase"
    BY <1>4 DEF Swap1Shape, LoopPc
  <2>2. TypeOK' /\ Swap1Shape'
    BY <1>4, <2>1 DEF Swap1Shape, SwapPc, Exchanged, MovedUpFrom, SecUntouchedFrom, last_idx, TypeOK
  <2> QED
    BY <2>1, <2>2 DEF MoveShape, MovePc, Swap0Shape, DoneShape
<1>5. CASE pc = "done"
  <2>1. pc' = "done"
    BY <1>5 DEF DoneShape, LoopPc
  <2>2. TypeOK' /\ DoneShape'
    BY <1>5, <2>1 DEF DoneShape, Exchanged, last_idx, TypeOK
  <2> QED
    BY <2>1, <2>2 DEF MoveShape, MovePc, Swap0Shape, Swap1Shape
<1> QED
  BY <1>2, <1>3, <1>4, <1>5 DEF TypeOK, SwapPc

(* The invariant of the swap: after any number of steps and resets the       *)
(* status area and boot status say exactly where each sector of both images  *)
(* is.                                                                       *)
THEOREM SwapInvariance == Spec => []SwapInv
<1>1. SwapInv /\ [Next]_vars => SwapInv'
  <2> SUFFICES ASSUME SwapInv, [Next]_vars PROVE SwapInv'
    OBVIOUS
  <2>1. CASE SwapStep
    BY <2>1, MoveEraseStep, MoveCopyStep, MoveStatusStep, Swap0EraseStep, Swap0CopyStep,
       Swap0StatusStep, Swap1EraseStep, Swap1CopyStep, Swap1StatusStep DEF SwapStep
  <2>2. CASE ResetAndResume
    BY <2>2, ResumeStep
  <2>3. CASE UNCHANGED vars
    BY <2>3 DEF vars, SwapInv, TypeOK, MoveShape, Swap0Shape, Swap1Shape, DoneShape,
                Exchanged, MovedUpFrom, SecUntouchedFrom, new_idx, last_idx
  <2> QED
    BY <2>1, <2>2, <2>3 DEF Next
<1> QED
  BY InitEstablishes, <1>1, PTL DEF Spec

(* The variables keep their types; in particular the loops never index       *)
(* outside the slots or past the status area.                                *)
THEOREM TypeCorrect == Spec => []TypeOK
  BY SwapInvariance, PTL DEF SwapInv

(* Power failure at any instant of swap_run leaves every sector of both      *)
(* images in flash.                                                          *)
THEOREM NothingLost == Spec => []NoSectorLost
<1>1. SwapInv => NoSectorLost
  <2> SUFFICES ASSUME SwapInv, NEW k \in 0..find_last_idx(swap_size) - 1
               PROVE  /\ pri0[k] \in {pri[k], pri[k + 1], sec[k]}
                      /\ sec0[k] \in {sec[k], pri[k]}
    BY DEF NoSectorLost
  <2> USE IndexFacts DEF SwapInv
  <2>1. CASE pc \in MovePc
    <3>1. k \in 0..new_idx - 1 \/ k + 1 \in new_idx + 1..swap_size
      BY <2>1 DEF MoveShape
    <3> QED
      BY <2>1, <3>1 DEF MoveShape, MovedUpFrom, SecUntouchedFrom
  <2>2. CASE pc \in {"swap0_erase", "swap0_copy", "swap0_status"}
    BY <2>2 DEF Swap0Shape, Exchanged, MovedUpFrom, SecUntouchedFrom
  <2>3. CASE pc \in {"swap1_erase", "swap1_copy", "swap1_status"}
    BY <2>3 DEF Swap1Shape, Exchanged, MovedUpFrom, SecUntouchedFrom
  <2>4. CASE pc = "done"
    BY <2>4 DEF DoneShape, Exchanged
  <2> QED
    BY <2>1, <2>2, <2>3, <2>4 DEF TypeOK, SwapPc
<1> QED
  BY <1>1, SwapInvariance, PTL

(* When swap_run returns, the images have changed places.                    *)
THEOREM SwapCorrect == Spec => []SwapDone
<1>1. SwapInv => SwapDone
  BY IndexFacts DEF SwapInv, DoneShape, Exchanged, SwapDone
<1> QED
  BY <1>1, SwapInvariance, PTL

(* A resume redoes at most the sector that was in progress.                  *)
THEOREM ResumeCorrect == Spec => []ResumeLosesNoProgress
<1>1. SwapInv => ResumeLosesNoProgress
  BY ResumeExact DEF ResumeLosesNoProgress
<1> QED
  BY <1>1, SwapInvariance, PTL
=============================================================================
