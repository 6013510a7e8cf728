------------------------ MODULE SerialUpload_proofs ------------------------
(* A proof that bs_upload keeps what it acknowledged, for any slot, sectors,  *)
(* write unit, files and chunks, and any number of losses, faults and resets. *)
EXTENDS SerialUpload, TLAPS

-----------------------------------------------------------------------------
(* The inductive invariant.                                                  *)

Requests == [seq : Nat, file : Files, off : Nat, len : Nat, size : Nat]
Answers == [seq : Nat, rc : {0, EINVAL}, off : Nat]

Typed ==
    /\ conf \in [progressive : BOOLEAN, start_off : {0, sector_size}]
    /\ flash = [b \in Bytes |-> flash[b]]
    /\ up \in [img_size : Nat, curr_off : Nat, not_yet_erased : Nat \cup {EINVAL}]
    /\ client \in [seq : Nat, file : Files, off : Nat, waits : BOOLEAN, errors : Nat]
    /\ reqs \in Seq(Requests) /\ rsps \in Seq(Answers)
    /\ file \in Files

(* A request is for a chunk of a file; none is newer than the client's       *)
(* session, and they arrive in the order of the sessions.                    *)
Line ==
    /\ \A k \in 1..Len(reqs) :
           LET r == reqs[k]
           IN /\ r.len = FileSize[r.file] /\ r.size # 0 /\ r.off + r.size <= r.len
              /\ r.seq <= client.seq
              /\ r.seq = client.seq => r.file = client.file
    /\ \A k \in 1..Len(reqs) : \A j \in 1..k : reqs[j].seq <= reqs[k].seq
    /\ \A k \in 1..Len(rsps) :
           /\ rsps[k].seq <= client.seq
           /\ rsps[k].seq = client.seq => rsps[k].off <= FileSize[client.file]
    /\ client.off <= FileSize[client.file]

(* The device and everything on the way to it are at file f.                 *)
AtFile(f) == file = f /\ \A k \in 1..Len(reqs) : reqs[k].file = f

(* A chunk other than the first meets the file it belongs to: only an answer *)
(* of the device makes the client go on.                                     *)
Follows ==
    /\ client.off # 0 => AtFile(client.file)
    /\ \A k \in 1..Len(rsps) : rsps[k].seq = client.seq => AtFile(client.file)
    /\ \A k \in 1..Len(reqs) : reqs[k].off # 0 =>
           file = reqs[k].file /\ \A j \in 1..k : reqs[j].file = reqs[k].file

(* The bytes of the slot that are still to be written may be.                *)
Writable(b) == flash[b] \in {Erased, <<file, b - conf.start_off>>}

Ahead ==
    up.curr_off # 0 =>
        /\ up.img_size = FileSize[file] /\ up.curr_off <= up.img_size
        /\ conf.progressive /\ up.not_yet_erased # EINVAL =>
               up.curr_off + conf.start_off <= up.not_yet_erased
        /\ Fits(file) =>
               \A b \in Bytes :
                   /\ b >= up.curr_off + conf.start_off
                   /\ conf.progressive => b < up.not_yet_erased
                   => Writable(b)

UploadInv == Typed /\ Line /\ Follows /\ Ahead /\ PrefixWritten

-----------------------------------------------------------------------------
(* Queues.                                                                   *)
LEMMA TailOf ==
    ASSUME NEW S, NEW q \in Seq(S), q # <<>>
    PROVE  /\ Head(q) = q[1] /\ Head(q) \in S /\ 1 \in 1..Len(q)
           /\ Tail(q) \in Seq(S) /\ Len(Tail(q)) = Len(q) - 1
           /\ \A k \in 1..Len(Tail(q)) :
                  Tail(q)[k] = q[k + 1] /\ k + 1 \in 1..Len(q) /\ k \in Nat
  OBVIOUS

LEMMA AppendOf ==
    ASSUME NEW S, NEW q \in Seq(S), NEW e \in S
    PROVE  /\ Append(q, e) \in Seq(S) /\ Len(Append(q, e)) = Len(q) + 1
           /\ Append(q, e)[Len(q) + 1] = e
           /\ \A k \in 1..Len(q) : Append(q, e)[k] = q[k]
           /\ \A k \in 1..Len(q) + 1 : k \in 1..Len(q) \/ k = Len(q) + 1
  OBVIOUS

(* The flash.                                                                *)
LEMMA SectorEnd ==
    ASSUME NEW x \in Nat
    PROVE  ((x \div sector_size) + 1) * sector_size > x
<1>1. sector_size \in Nat \ {0}
  BY UploadAssumption
<1>2. x \div sector_size \in Int /\ x % sector_size \in 0..sector_size - 1
  BY <1>1
<1>3. x = sector_size * (x \div sector_size) + (x % sector_size)
  BY <1>1
<1> QED
  BY <1>1, <1>2, <1>3

(* The trailer starts inside the slot.                                       *)
LEMMA StatusBelow == status_sector \in Int /\ status_sector < area_size /\ area_size \in Nat
<1> DEFINE x == area_size - trailer_sz
           rem == x % sector_size
           low == (x \div sector_size) * sector_size
<1>1. sector_size \in Nat \ {0} /\ area_size \in Nat /\ trailer_sz \in Nat \ {0}
  BY UploadAssumption
<1>2. x \in Int /\ x < area_size
  BY <1>1
<1>3. rem \in 0..sector_size - 1 /\ x = low + rem /\ low \in Int
  BY <1>1, <1>2
<1> HIDE DEF x, rem, low
<1>4. low < area_size
  BY <1>1, <1>2, <1>3
<1> QED
  BY <1>1, <1>3, <1>4 DEF status_sector, boot_status_off, low, x

LEMMA Erasing ==
    ASSUME NEW fl, NEW start, NEW stop
    PROVE  \A b \in Bytes : EraseBytes(fl, start, stop)[b] =
               IF b >= start /\ b < stop THEN Erased ELSE fl[b]
  BY DEF EraseBytes

LEMMA Programming ==
    ASSUME NEW fl, NEW f, NEW off, NEW n
    PROVE  \A b \in Bytes : Program(fl, f, off, n)[b] =
               IF b - conf.start_off \in off..off + n - 1
               THEN IF fl[b] \in {Erased, <<f, b - conf.start_off>>}
                    THEN <<f, b - conf.start_off>> ELSE Old
               ELSE fl[b]
  BY DEF Program

(* What is written of a chunk.                                               *)
LEMMA RemRange ==
    ASSUME NEW len \in Nat
    PROVE  len % align \in 0..len
<1> DEFINE whole == align * (len \div align)
           rem == len % align
<1>1. align \in Nat \ {0}
  BY UploadAssumption
<1>2. rem \in 0..align - 1 /\ len \div align \in Int
  BY <1>1
<1>3. len = whole + rem
  BY <1>1
<1>4. len \div align >= 0
  BY <1>1
<1>5. whole \in Int /\ whole >= 0 /\ rem \in Nat
  BY <1>1, <1>2, <1>4
<1> HIDE DEF whole, rem
<1>6. rem \in 0..len
  BY <1>3, <1>5
<1> QED
  BY <1>6 DEF rem

LEMMA ConsumedRange ==
    ASSUME NEW off \in Nat, NEW len \in Nat, NEW size \in Nat
    PROVE  Consumed(off, len, size) \in 0..len
  BY RemRange DEF Consumed

LEMMA Geometry ==
    Typed => /\ conf.start_off \in Nat /\ conf.progressive \in BOOLEAN /\ area_size \in Nat
             /\ \A b \in Bytes : b \in Nat
             /\ FileSize[file] \in Nat
<1> SUFFICES ASSUME Typed PROVE /\ conf.start_off \in Nat /\ conf.progressive \in BOOLEAN
                                /\ area_size \in Nat
                                /\ \A b \in Bytes : b \in Nat
                                /\ FileSize[file] \in Nat
  OBVIOUS
<1>1. sector_size \in Nat /\ area_size \in Nat /\ \A f \in Files : FileSize[f] \in Nat
  BY UploadAssumption
<1>2. conf.start_off \in {0, sector_size}
  BY DEF Typed
<1>3. conf.progressive \in BOOLEAN /\ file \in Files
  BY DEF Typed
<1>4. conf.start_off \in Nat
  BY <1>1, <1>2
<1>5. \A b \in Bytes : b \in Nat
  BY <1>1 DEF Bytes
<1> QED
  BY <1>1, <1>3, <1>4, <1>5, Zenon

-----------------------------------------------------------------------------
(* An answer takes a request off the line and keeps the order on it.         *)
LEMMA Answered ==
    ASSUME Typed, Line, Follows, reqs # <<>>, UNCHANGED client,
           NEW rc \in {0, EINVAL}, NEW off \in Nat, Answer(Head(reqs), rc, off),
           file' = IF Head(reqs).off = 0 THEN Head(reqs).file ELSE file,
           off <= FileSize[file']
    PROVE  /\ reqs' \in Seq(Requests) /\ rsps' \in Seq(Answers) /\ file' \in Files
           /\ Line' /\ Follows'
<1> DEFINE r == reqs[1]
           a == [seq |-> r.seq, rc |-> rc, off |-> off]
<1>1. reqs \in Seq(Requests) /\ rsps \in Seq(Answers) /\ client.seq \in Nat
  BY DEF Typed
<1>2. /\ Head(reqs) = r /\ r \in Requests /\ 1 \in 1..Len(reqs)
      /\ Tail(reqs) \in Seq(Requests) /\ Len(Tail(reqs)) = Len(reqs) - 1
      /\ \A k \in 1..Len(Tail(reqs)) :
             Tail(reqs)[k] = reqs[k + 1] /\ k + 1 \in 1..Len(reqs) /\ k \in Nat
  BY <1>1, TailOf
<1>3. a \in Answers
  BY <1>2 DEF Answers, Requests
<1>4. reqs' = Tail(reqs) /\ rsps' = Append(rsps, a)
  BY <1>2 DEF Answer
<1> HIDE DEF r, a
<1>5. /\ rsps' \in Seq(Answers) /\ Len(rsps') = Len(rsps) + 1
      /\ rsps'[Len(rsps) + 1] = a
      /\ \A k \in 1..Len(rsps) : rsps'[k] = rsps[k]
      /\ \A k \in 1..Len(rsps') : k \in 1..Len(rsps) \/ k = Len(rsps) + 1
  BY <1>1, <1>3, <1>4, AppendOf
<1>6. /\ reqs' \in Seq(Requests)
      /\ \A k \in 1..Len(reqs') : reqs'[k] = reqs[k + 1] /\ k + 1 \in 1..Len(reqs) /\ k \in Nat
  BY <1>2, <1>4
<1>7. r.off # 0 => file = r.file
  BY <1>2 DEF Follows, r
<1>8. file' = r.file /\ file' \in Files
  BY <1>2, <1>7 DEF Requests
<1>9. a.seq = r.seq /\ a.off = off /\ r.seq \in Nat /\ r.seq <= client.seq
  BY <1>2 DEF Line, r, a, Requests
(* Whatever the client waits for, the rest of the line is at its file.       *)
<1>10. ASSUME r.seq = client.seq PROVE AtFile(client.file)'
  <2>1. r.file = client.file
    BY <1>2, <1>10 DEF Line, r
  <2>2. ASSUME NEW k \in 1..Len(reqs') PROVE reqs'[k].file = client.file
    <3>1. reqs'[k] = reqs[k + 1] /\ k + 1 \in 1..Len(reqs) /\ 1 \in 1..k + 1
      BY <1>6
    <3>2. reqs[k + 1] \in Requests /\ r.seq <= reqs[k + 1].seq /\ reqs[k + 1].seq <= client.seq
      BY <1>1, <3>1 DEF Line, r
    <3>3. reqs[k + 1].seq \in Nat
      BY <3>2 DEF Requests
    <3>4. reqs[k + 1].seq = client.seq
      BY <1>1, <1>10, <3>2, <3>3
    <3> QED
      BY <3>1, <3>4 DEF Line
  <2> QED
    BY <1>8, <2>1, <2>2 DEF AtFile
<1>11. ASSUME AtFile(client.file) PROVE AtFile(client.file)'
  BY <1>2, <1>6, <1>8, <1>11 DEF AtFile, r
<1>12. Line'
  <2>1. ASSUME NEW k \in 1..Len(reqs')
        PROVE  /\ LET q == reqs'[k]
                  IN /\ q.len = FileSize[q.file] /\ q.size # 0 /\ q.off + q.size <= q.len
                     /\ q.seq <= client.seq
                     /\ q.seq = client.seq => q.file = client.file
               /\ \A j \in 1..k : reqs'[j].seq <= reqs'[k].seq
    <3>1. reqs'[k] = reqs[k + 1] /\ k + 1 \in 1..Len(reqs)
      BY <1>6
    <3>2. \A j \in 1..k : reqs'[j] = reqs[j + 1] /\ j + 1 \in 1..k + 1
      BY <1>6
    <3> QED
      BY <3>1, <3>2 DEF Line
  <2>2. ASSUME NEW k \in 1..Len(rsps')
        PROVE  /\ rsps'[k].seq <= client.seq
               /\ rsps'[k].seq = client.seq => rsps'[k].off <= FileSize[client.file]
    <3>1. CASE k \in 1..Len(rsps)
      BY <1>5, <3>1 DEF Line
    <3>2. CASE k = Len(rsps) + 1
      <4>1. r.seq = client.seq => r.file = client.file
        BY <1>2 DEF Line, r
      <4> QED
        BY <1>5, <1>8, <1>9, <3>2, <4>1
    <3> QED
      BY <1>5, <3>1, <3>2
  <2> QED
    BY <2>1, <2>2 DEF Line
<1>13. Follows'
  <2>1. ASSUME NEW k \in 1..Len(rsps'), rsps'[k].seq = client.seq PROVE AtFile(client.file)'
    <3>1. CASE k \in 1..Len(rsps)
      BY <1>5, <1>11, <2>1, <3>1 DEF Follows
    <3>2. CASE k = Len(rsps) + 1
      BY <1>5, <1>9, <1>10, <2>1, <3>2
    <3> QED
      BY <1>5, <3>1, <3>2
  <2>2. ASSUME NEW k \in 1..Len(reqs'), reqs'[k].off # 0
        PROVE  file' = reqs'[k].file /\ \A j \in 1..k : reqs'[j].file = reqs'[k].file
    <3>1. reqs'[k] = reqs[k + 1] /\ k + 1 \in 1..Len(reqs) /\ 1 \in 1..k + 1
      BY <1>6
    <3>2. \A j \in 1..k : reqs'[j] = reqs[j + 1] /\ j + 1 \in 1..k + 1
      BY <1>6
    <3>3. \A j \in 1..k + 1 : reqs[j].file = reqs[k + 1].file
      BY <2>2, <3>1 DEF Follows
    <3> QED
      BY <1>8, <3>1, <3>2, <3>3 DEF r
  <2>3. client'.off # 0 => AtFile(client.file)'
    BY <1>11 DEF Follows
  <2> QED
    BY <2>1, <2>2, <2>3 DEF Follows
<1> QED
  BY <1>5, <1>6, <1>8, <1>12, <1>13

-----------------------------------------------------------------------------
(* A chunk that is next belongs to the file that the device is at, or starts *)
(* that file.                                                                *)
LEMMA NextChunk ==
    ASSUME UploadInv, reqs # <<>>, NEW r, r = Head(reqs), IsNext(r), NEW u, u = Restarted(r)
    PROVE  /\ r \in Requests /\ r.len = FileSize[r.file] /\ r.size \in Nat \ {0}
           /\ u \in [img_size : Nat, curr_off : Nat, not_yet_erased : Nat \cup {EINVAL}]
           /\ u.img_size = FileSize[r.file] /\ u.curr_off + r.size <= FileSize[r.file]
           /\ r.off = 0 => u.curr_off = 0 /\ u.not_yet_erased = 0
           /\ r.off # 0 => u = up /\ file = r.file /\ up.curr_off # 0
<1>1. r = reqs[1] /\ r \in Requests /\ 1 \in 1..Len(reqs)
  BY TailOf DEF UploadInv, Typed
<1>2. /\ r.len = FileSize[r.file] /\ r.size # 0 /\ r.off + r.size <= r.len
      /\ r.off # 0 => file = r.file
  BY <1>1 DEF UploadInv, Line, Follows
<1>3. r.size \in Nat /\ r.len \in Nat /\ r.off \in Nat
  BY <1>1 DEF Requests
<1>4. CASE r.off = 0
  <2>1. u = [img_size |-> r.len, curr_off |-> 0, not_yet_erased |-> 0]
    BY <1>4 DEF Restarted
  <2> QED
    BY <1>1, <1>2, <1>3, <1>4, <2>1
<1>5. CASE r.off # 0
  <2>1. u = up /\ r.off = up.curr_off /\ up.curr_off + r.size <= up.img_size
    BY <1>5 DEF Restarted, IsNext
  <2>2. up.img_size = FileSize[file]
    BY <1>5, <2>1 DEF UploadInv, Ahead
  <2>3. up \in [img_size : Nat, curr_off : Nat, not_yet_erased : Nat \cup {EINVAL}]
    BY DEF UploadInv, Typed
  <2> QED
    BY <1>1, <1>2, <1>3, <1>5, <2>1, <2>2, <2>3
<1> QED
  BY <1>4, <1>5

(* erase_range stops past the end, or fails.                                 *)
LEMMA EraseStops ==
    ASSUME NEW start \in Nat \cup {EINVAL}, NEW end \in Nat,
           erase_range(start, end) # EINVAL
    PROVE  start \in Nat /\ erase_range(start, end) \in Nat /\ end < erase_range(start, end)
<1>1. area_size \in Nat /\ sector_size \in Nat \ {0}
  BY UploadAssumption
<1>2. start \in Nat /\ ~(end >= area_size)
  BY DEF erase_range, EINVAL
<1>3. CASE end < start
  BY <1>2, <1>3 DEF erase_range, EINVAL
<1>4. CASE ~(end < start)
  <2>1. erase_range(start, end) = ((end \div sector_size) + 1) * sector_size
    BY <1>2, <1>4 DEF erase_range, EINVAL
  <2>2. ((end \div sector_size) + 1) * sector_size > end
    BY SectorEnd
  <2>3. ((end \div sector_size) + 1) * sector_size \in Int
    BY <1>1
  <2> QED
    BY <1>2, <2>1, <2>2, <2>3
<1> QED
  BY <1>3, <1>4

LEMMA NotNextStep == UploadInv /\ NotNext => UploadInv'
<1> SUFFICES ASSUME UploadInv, NotNext PROVE UploadInv'
  OBVIOUS
<1>1. /\ reqs # <<>> /\ Head(reqs).off # 0
      /\ UNCHANGED <<conf, flash, up, client, file, used>>
      /\ \E rc \in {0, EINVAL} : Answer(Head(reqs), rc, up.curr_off)
  BY DEF NotNext, WantedOff
<1>2. up.curr_off \in Nat /\ FileSize[file] \in Nat
  BY Geometry DEF UploadInv, Typed
<1>3. up.curr_off <= FileSize[file]
  BY <1>2 DEF UploadInv, Ahead
<1>4. /\ reqs' \in Seq(Requests) /\ rsps' \in Seq(Answers) /\ Line' /\ Follows'
  BY <1>1, <1>2, <1>3, Answered DEF UploadInv
<1>5. Typed'
  BY <1>1, <1>4 DEF UploadInv, Typed
<1>6. Ahead' /\ PrefixWritten'
  BY <1>1 DEF UploadInv, Ahead, PrefixWritten, Writable, Holds, Fits
<1> QED
  BY <1>4, <1>5, <1>6 DEF UploadInv

LEMMA EraseFailsStep == UploadInv /\ EraseFails => UploadInv'
<1> SUFFICES ASSUME UploadInv, EraseFails PROVE UploadInv'
  OBVIOUS
<1> DEFINE r == Head(reqs)
           u == Restarted(r)
           end == u.curr_off + r.size - 1 + conf.start_off
           stop == IF conf.progressive THEN erase_range(u.not_yet_erased, end)
                   ELSE IF r.off = 0 THEN area_size ELSE u.not_yet_erased
           large == r.off = 0 /\ r.len > area_size
<1>1. /\ reqs # <<>> /\ IsNext(r)
      /\ \/ UNCHANGED flash
         \/ \E at \in u.not_yet_erased..stop - 1 : flash' = EraseBytes(flash, u.not_yet_erased, at)
      /\ up' = IF conf.progressive /\ ~large THEN [u EXCEPT !.not_yet_erased = EINVAL]
               ELSE [up EXCEPT !.curr_off = u.curr_off]
      /\ file' = IF r.off = 0 THEN r.file ELSE file
      /\ Answer(r, EINVAL, u.curr_off) /\ UNCHANGED <<conf, client>>
  BY DEF EraseFails
<1>2. /\ r \in Requests /\ r.size \in Nat \ {0}
      /\ u \in [img_size : Nat, curr_off : Nat, not_yet_erased : Nat \cup {EINVAL}]
      /\ u.curr_off + r.size <= FileSize[r.file]
      /\ r.off = 0 => u.curr_off = 0
      /\ r.off # 0 => u = up /\ file = r.file /\ up.curr_off # 0
  BY <1>1, NextChunk
<1>3. Typed /\ conf.start_off \in Nat /\ conf.progressive \in BOOLEAN
  BY Geometry DEF UploadInv
<1>4. FileSize[r.file] \in Nat /\ file' = r.file
  BY <1>1, <1>2, UploadAssumption DEF Requests
<1>5. u.curr_off \in Nat /\ u.curr_off <= FileSize[file']
  BY <1>2, <1>4
<1>6. /\ reqs' \in Seq(Requests) /\ rsps' \in Seq(Answers) /\ file' \in Files
      /\ Line' /\ Follows'
  BY <1>1, <1>5, Answered DEF UploadInv
<1>7. flash' = [b \in Bytes |-> flash'[b]]
  BY <1>1, <1>3 DEF Typed, EraseBytes
<1>8. /\ up' \in [img_size : Nat, curr_off : Nat, not_yet_erased : Nat \cup {EINVAL}]
      /\ up'.curr_off = u.curr_off
      /\ r.off # 0 => /\ up'.img_size = up.img_size
                      /\ conf.progressive => up'.not_yet_erased = EINVAL
  <2> HIDE DEF u, large
  <2>1. CASE conf.progressive /\ ~large
    BY <1>1, <1>2, <2>1
  <2>2. CASE ~(conf.progressive /\ ~large)
    <3>1. r.off # 0 => ~large
      BY DEF large
    <3> QED
      BY <1>1, <1>2, <1>3, <2>2, <3>1 DEF Typed
  <2> QED
    BY <2>1, <2>2
<1>9. Typed'
  BY <1>1, <1>3, <1>6, <1>7, <1>8 DEF Typed
<1>10. Ahead' /\ PrefixWritten'
  <2>1. CASE r.off = 0
    <3>1. up'.curr_off = 0
      BY <1>2, <1>8, <2>1
    <3> QED
      BY <3>1 DEF Ahead, PrefixWritten
  <2>2. CASE r.off # 0
    <3>1. u = up /\ file' = file /\ up.curr_off # 0 /\ up'.curr_off = up.curr_off
      BY <1>2, <1>8, <1>1, <2>2
    <3>2. CASE UNCHANGED flash
      <4>1. PrefixWritten'
        BY <1>1, <3>1, <3>2 DEF UploadInv, PrefixWritten, Holds, Fits
      <4>2. Ahead'
        <5>1. CASE conf.progressive
          <6>1. up'.not_yet_erased = EINVAL /\ \A b \in Bytes : ~(b < EINVAL)
            BY <1>3, <1>8, <2>2, <5>1, Geometry DEF EINVAL
          <6> QED
            BY <1>1, <1>8, <2>2, <3>1, <5>1, <6>1 DEF UploadInv, Ahead
        <5>2. CASE ~conf.progressive
          BY <1>1, <1>8, <2>2, <3>1, <3>2, <5>2 DEF UploadInv, Ahead, Writable, Fits
        <5> QED
          BY <5>1, <5>2
      <4> QED
        BY <4>1, <4>2
    <3>3. CASE \E at \in u.not_yet_erased..stop - 1 :
                   flash' = EraseBytes(flash, u.not_yet_erased, at)
      <4>1. PICK at \in up.not_yet_erased..stop - 1 : flash' = EraseBytes(flash, up.not_yet_erased, at)
        BY <3>1, <3>3
      <4>2. up.not_yet_erased \in Nat \cup {EINVAL} /\ EINVAL = -1 /\ up.curr_off \in Nat
        BY <1>3 DEF Typed, EINVAL
      <4>3. conf.progressive
        <5> SUFFICES ASSUME ~conf.progressive PROVE FALSE
          OBVIOUS
        <5>1. stop = up.not_yet_erased
          BY <2>2, <3>1
        <5> QED
          BY <4>1, <4>2, <5>1
      <4>4. up.not_yet_erased # EINVAL
        <5> SUFFICES ASSUME up.not_yet_erased = EINVAL PROVE FALSE
          OBVIOUS
        <5>1. stop = EINVAL
          BY <3>1, <4>2, <4>3 DEF erase_range
        <5> QED
          BY <4>1, <4>2, <5>1
      <4>5. up.curr_off + conf.start_off <= up.not_yet_erased
        BY <3>1, <4>3, <4>4 DEF UploadInv, Ahead
      <4>6. PrefixWritten'
        <5> SUFFICES ASSUME Fits(file), NEW b \in 0..up.curr_off - 1
                     PROVE flash'[b + conf.start_off] = <<file, b>>
          BY <1>1, <3>1 DEF PrefixWritten, Holds, Fits
        <5>1. flash[b + conf.start_off] = <<file, b>>
          BY DEF UploadInv, PrefixWritten, Holds
        <5>2. b + conf.start_off \in Bytes
          <6>1. up.curr_off <= FileSize[file] /\ FileSize[file] \in Nat
            BY <1>4, <1>5, <3>1
          <6> QED
            BY <1>3, <4>2, <6>1, StatusBelow DEF Fits, Bytes
        <5>3. ~(b + conf.start_off >= up.not_yet_erased)
          BY <1>3, <4>2, <4>4, <4>5
        <5> QED
          BY <4>1, <5>1, <5>2, <5>3 DEF EraseBytes
      <4>7. Ahead'
        <5>1. up'.not_yet_erased = EINVAL /\ \A b \in Bytes : ~(b < EINVAL)
          BY <1>3, <1>8, <2>2, <4>2, <4>3, Geometry
        <5> QED
          BY <1>1, <1>8, <2>2, <3>1, <4>3, <5>1 DEF UploadInv, Ahead
      <4> QED
        BY <4>6, <4>7
    <3> QED
      BY <1>1, <3>2, <3>3
  <2> QED
    BY <2>1, <2>2
<1> QED
  BY <1>6, <1>9, <1>10 DEF UploadInv

(* Where the erase before a chunk starts and stops, and what it leaves.      *)
ChunkStop(r) ==
    IF conf.progressive
    THEN erase_range(Restarted(r).not_yet_erased,
                     Restarted(r).curr_off + r.size - 1 + conf.start_off)
    ELSE area_size
ChunkStart(r) ==
    IF conf.progressive \/ r.off = 0 THEN Restarted(r).not_yet_erased ELSE area_size
Ready(r) == EraseBytes(flash, ChunkStart(r), ChunkStop(r))

(* What is erased before a chunk is written: what the chunk needs, and none  *)
(* of what was written.                                                      *)
LEMMA ReadyForChunk ==
    LET r == Head(reqs)
    IN  UploadInv /\ reqs # <<>> /\ IsNext(r) /\ ChunkStop(r) # EINVAL /\ Fits(r.file) =>
            /\ \A b \in 0..Restarted(r).curr_off - 1 :
                   Ready(r)[b + conf.start_off] = <<r.file, b>>
            /\ \A b \in Bytes : /\ b >= Restarted(r).curr_off + conf.start_off
                                /\ conf.progressive => b < ChunkStop(r)
                                => Ready(r)[b] \in {Erased, <<r.file, b - conf.start_off>>}
<1> SUFFICES ASSUME UploadInv, reqs # <<>>, NEW r, r = Head(reqs), IsNext(r), Fits(r.file),
                    NEW u, u = Restarted(r), NEW stop, stop = ChunkStop(r), stop # EINVAL
             PROVE  /\ \A b \in 0..u.curr_off - 1 : Ready(r)[b + conf.start_off] = <<r.file, b>>
                    /\ \A b \in Bytes : /\ b >= u.curr_off + conf.start_off
                                        /\ conf.progressive => b < stop
                                        => Ready(r)[b] \in {Erased, <<r.file, b - conf.start_off>>}
  OBVIOUS
<1> DEFINE ready == Ready(r)
           start == ChunkStart(r)
           end == u.curr_off + r.size - 1 + conf.start_off
<1>0. /\ stop = IF conf.progressive THEN erase_range(u.not_yet_erased, end) ELSE area_size
      /\ start = IF conf.progressive \/ r.off = 0 THEN u.not_yet_erased ELSE area_size
      /\ ready = EraseBytes(flash, start, stop)
  BY DEF ChunkStop, ChunkStart, Ready
<1> HIDE DEF start, ready
<1>1. /\ r \in Requests /\ r.size \in Nat \ {0}
      /\ u \in [img_size : Nat, curr_off : Nat, not_yet_erased : Nat \cup {EINVAL}]
      /\ u.curr_off + r.size <= FileSize[r.file]
      /\ r.off = 0 => u.curr_off = 0 /\ u.not_yet_erased = 0
      /\ r.off # 0 => u = up /\ file = r.file /\ up.curr_off # 0
  BY NextChunk
<1>2. Typed /\ conf.start_off \in Nat /\ conf.progressive \in BOOLEAN /\ area_size \in Nat
      /\ \A b \in Bytes : b \in Nat
  BY Geometry DEF UploadInv
<1>3. end \in Nat
  BY <1>1, <1>2
<1>4. \A b \in Bytes : ready[b] = IF b >= start /\ b < stop THEN Erased ELSE flash[b]
  BY <1>0, Erasing
<1>5. FileSize[r.file] \in Nat
  BY <1>1, UploadAssumption DEF Requests
<1>6. ASSUME NEW b \in 0..u.curr_off - 1 PROVE b + conf.start_off \in Bytes
  <2>1. u.curr_off \in Nat /\ u.curr_off <= FileSize[r.file]
    BY <1>1, <1>5
  <2>2. FileSize[r.file] + conf.start_off <= status_sector
    BY DEF Fits
  <2> QED
    BY <1>2, <1>5, <2>1, <2>2, StatusBelow DEF Bytes
<1>7. CASE r.off = 0
  <2>1. start = 0 /\ u.curr_off = 0
    BY <1>1, <1>7, <1>0
  <2>2. \A b \in Bytes : b < area_size
    BY <1>2 DEF Bytes
  <2>3. ASSUME NEW b \in Bytes, conf.progressive => b < stop PROVE ready[b] = Erased
    BY <1>2, <1>4, <1>0, <2>1, <2>2, <2>3
  <2> QED
    BY <2>1, <2>3 DEF ready
<1>8. CASE r.off # 0 /\ conf.progressive
  <2>1. u = up /\ file = r.file /\ start = up.not_yet_erased /\ up.curr_off # 0
    BY <1>1, <1>8, <1>0
  <2>2. up.not_yet_erased \in Nat /\ stop \in Nat
    BY <1>1, <1>3, <1>8, <1>0, <2>1, EraseStops
  <2>3. up.curr_off + conf.start_off <= up.not_yet_erased
    BY <1>8, <2>1, <2>2 DEF UploadInv, Ahead, EINVAL
  <2>4. ASSUME NEW b \in 0..u.curr_off - 1 PROVE ready[b + conf.start_off] = <<r.file, b>>
    <3>1. b + conf.start_off \in Bytes /\ ~(b + conf.start_off >= start)
      BY <1>1, <1>2, <1>6, <2>1, <2>2, <2>3
    <3>2. flash[b + conf.start_off] = <<r.file, b>>
      BY <2>1 DEF UploadInv, PrefixWritten, Holds
    <3> QED
      BY <1>4, <3>1, <3>2
  <2>5. ASSUME NEW b \in Bytes, b >= u.curr_off + conf.start_off, b < stop
        PROVE  ready[b] \in {Erased, <<r.file, b - conf.start_off>>}
    <3>1. CASE b >= start
      BY <1>4, <2>5, <3>1
    <3>2. CASE ~(b >= start)
      <4>1. b < up.not_yet_erased
        BY <1>2, <2>1, <2>2, <3>2
      <4>2. Writable(b)
        BY <2>1, <2>5, <4>1 DEF UploadInv, Ahead
      <4> QED
        BY <1>4, <2>1, <3>2, <4>2 DEF Writable
    <3> QED
      BY <3>1, <3>2
  <2> QED
    BY <1>8, <2>4, <2>5 DEF ready
<1>9. CASE r.off # 0 /\ ~conf.progressive
  <2>1. u = up /\ file = r.file /\ start = area_size /\ up.curr_off # 0
    BY <1>1, <1>9, <1>0
  <2>2. \A b \in Bytes : ready[b] = flash[b]
    <3>1. \A b \in Bytes : ~(b >= area_size)
      BY <1>2 DEF Bytes
    <3> QED
      BY <1>4, <2>1, <3>1
  <2>3. ASSUME NEW b \in 0..u.curr_off - 1 PROVE ready[b + conf.start_off] = <<r.file, b>>
    <3>1. b + conf.start_off \in Bytes /\ b \in 0..up.curr_off - 1
      BY <1>6, <2>1
    <3>2. PrefixWritten /\ Fits(file)
      BY <2>1 DEF UploadInv
    <3>3. flash[b + conf.start_off] = <<file, b>>
      BY <3>1, <3>2 DEF PrefixWritten, Holds
    <3> QED
      BY <2>1, <2>2, <3>1, <3>3
  <2>4. ASSUME NEW b \in Bytes, b >= u.curr_off + conf.start_off
        PROVE  ready[b] \in {Erased, <<r.file, b - conf.start_off>>}
    BY <1>9, <2>1, <2>2, <2>4 DEF UploadInv, Ahead, Writable
  <2> QED
    BY <2>3, <2>4 DEF ready
<1> QED
  BY <1>7, <1>8, <1>9

LEMMA StoreStep == UploadInv /\ Store => UploadInv'
<1> SUFFICES ASSUME UploadInv, Store PROVE UploadInv'
  OBVIOUS
<1> DEFINE r == Head(reqs)
           u == Restarted(r)
           stop == ChunkStop(r)
           ready == Ready(r)
           n == Consumed(u.curr_off, r.size, u.img_size)
           prepared == IF conf.progressive THEN [u EXCEPT !.not_yet_erased = stop] ELSE u
           fits == FileSize[r.file] + conf.start_off <= status_sector
(* In each case the first k bytes of the chunk are programmed and done of    *)
(* them count; the end of the upload may have erased the trailer.            *)
<1>1. /\ reqs # <<>> /\ IsNext(r) /\ stop # EINVAL /\ UNCHANGED <<conf, client>>
      /\ file' = IF r.off = 0 THEN r.file ELSE file
      /\ \E k \in 0..n : \E done \in 0..k : \E rc \in {0, EINVAL} :
             /\ \/ flash' = Program(ready, r.file, u.curr_off, k)
                \/ flash' = TrailerErased(Program(ready, r.file, u.curr_off, k))
             /\ up' = [prepared EXCEPT !.curr_off = @ + done]
             /\ Answer(r, rc, u.curr_off + done)
  <2>1. /\ reqs # <<>> /\ IsNext(r) /\ stop # EINVAL /\ UNCHANGED <<conf, client>>
        /\ file' = IF r.off = 0 THEN r.file ELSE file
    BY DEF Store, ChunkStop, ChunkStart, Ready
  <2>2. n \in Nat /\ u.curr_off \in Nat /\ prepared.curr_off = u.curr_off
    <3>1. /\ r.size \in Nat
          /\ u \in [img_size : Nat, curr_off : Nat, not_yet_erased : Nat \cup {EINVAL}]
      BY <2>1, NextChunk
    <3>2. n \in 0..r.size
      BY <3>1, ConsumedRange
    <3> HIDE DEF u, stop, n
    <3> QED
      BY <3>1, <3>2
  <2>3. align \in Nat \ {0}
    BY UploadAssumption
  <2>4. \/ /\ \/ flash' = Program(ready, r.file, u.curr_off, n)
              \/ flash' = TrailerErased(Program(ready, r.file, u.curr_off, n))
           /\ up' = [prepared EXCEPT !.curr_off = @ + n]
           /\ \E rc \in {0, EINVAL} :
                  Answer(r, rc, [prepared EXCEPT !.curr_off = @ + n].curr_off)
        \/ \E k \in 0..n : \E done \in {0, k - (k % align)} :
              /\ flash' = Program(ready, r.file, u.curr_off, k)
              /\ up' = [prepared EXCEPT !.curr_off = @ + done]
              /\ Answer(r, EINVAL, u.curr_off + done)
    BY DEF Store, ChunkStop, ChunkStart, Ready
  <2>5. [prepared EXCEPT !.curr_off = @ + n].curr_off = u.curr_off + n
    <3>1. u \in [img_size : Nat, curr_off : Nat, not_yet_erased : Nat \cup {EINVAL}]
      BY <2>1, NextChunk
    <3> HIDE DEF u, stop, n
    <3> QED
      BY <2>2, <3>1
  <2> HIDE DEF r, u, stop, ready, n, prepared
  <2>6. \A k \in 0..n : k - (k % align) \in 0..k /\ 0 \in 0..k
    <3> SUFFICES ASSUME NEW k \in 0..n PROVE k - (k % align) \in 0..k /\ 0 \in 0..k
      OBVIOUS
    <3>1. k \in Nat
      BY <2>2
    <3>2. k % align \in 0..k
      BY <3>1, RemRange
    <3> QED
      BY <3>1, <3>2
  <2>7. n \in 0..n
    BY <2>2
  <2> QED
    BY <2>1, <2>4, <2>5, <2>6, <2>7
<1>2. /\ r \in Requests /\ r.size \in Nat \ {0}
      /\ u \in [img_size : Nat, curr_off : Nat, not_yet_erased : Nat \cup {EINVAL}]
      /\ u.img_size = FileSize[r.file] /\ u.curr_off + r.size <= FileSize[r.file]
      /\ r.off # 0 => file = r.file
  BY <1>1, NextChunk
<1>3. Typed /\ conf.start_off \in Nat /\ conf.progressive \in BOOLEAN /\ area_size \in Nat
      /\ \A b \in Bytes : b \in Nat
  BY Geometry DEF UploadInv
<1>4. file' = r.file /\ FileSize[r.file] \in Nat
  BY <1>1, <1>2, UploadAssumption DEF Requests
<1>5. n \in 0..r.size
  BY <1>2, ConsumedRange
<1>6. conf.progressive => stop \in Nat /\ u.curr_off + r.size - 1 + conf.start_off < stop
  <2> SUFFICES ASSUME conf.progressive
               PROVE  stop \in Nat /\ u.curr_off + r.size - 1 + conf.start_off < stop
    OBVIOUS
  <2>1. u.curr_off + r.size - 1 + conf.start_off \in Nat
    BY <1>2, <1>3
  <2> QED
    BY <1>1, <1>2, <2>1, EraseStops DEF ChunkStop
<1>7. PICK k \in 0..n : \E done \in 0..k : \E rc \in {0, EINVAL} :
          /\ \/ flash' = Program(ready, r.file, u.curr_off, k)
             \/ flash' = TrailerErased(Program(ready, r.file, u.curr_off, k))
          /\ up' = [prepared EXCEPT !.curr_off = @ + done]
          /\ Answer(r, rc, u.curr_off + done)
  BY <1>1
<1>8. PICK done \in 0..k, rc \in {0, EINVAL} :
          /\ \/ flash' = Program(ready, r.file, u.curr_off, k)
             \/ flash' = TrailerErased(Program(ready, r.file, u.curr_off, k))
          /\ up' = [prepared EXCEPT !.curr_off = @ + done]
          /\ Answer(r, rc, u.curr_off + done)
  BY <1>7
<1>9. /\ k \in Nat /\ done \in Nat /\ done <= k /\ k <= r.size /\ u.curr_off \in Nat
      /\ u.curr_off + done <= FileSize[r.file] /\ u.curr_off + k <= FileSize[r.file]
  BY <1>2, <1>4, <1>5
<1>10. /\ fits => \A b \in 0..u.curr_off - 1 : ready[b + conf.start_off] = <<r.file, b>>
       /\ fits => \A b \in Bytes :
              /\ b >= u.curr_off + conf.start_off
              /\ conf.progressive => b < stop
              => ready[b] \in {Erased, <<r.file, b - conf.start_off>>}
  <2>1. reqs # <<>> /\ IsNext(r) /\ stop # EINVAL
    BY <1>1
  <2>2. Fits(r.file) <=> fits
    BY DEF Fits
  <2> HIDE DEF fits
  <2> QED
    BY <2>1, <2>2, ReadyForChunk, Zenon
<1>11. /\ up' \in [img_size : Nat, curr_off : Nat, not_yet_erased : Nat \cup {EINVAL}]
       /\ up'.curr_off = u.curr_off + done /\ up'.img_size = FileSize[r.file]
       /\ conf.progressive => up'.not_yet_erased = stop
  <2> HIDE DEF u, stop
  <2> QED
    BY <1>2, <1>3, <1>6, <1>8, <1>9
<1> HIDE DEF r, u, stop, n, prepared, ready
<1>12. /\ reqs' \in Seq(Requests) /\ rsps' \in Seq(Answers) /\ file' \in Files
       /\ Line' /\ Follows'
  BY <1>1, <1>4, <1>8, <1>9, Answered DEF UploadInv, r
<1>13. flash' = [b \in Bytes |-> flash'[b]]
  BY <1>8 DEF TrailerErased, EraseBytes, Program
<1>14. Typed'
  BY <1>1, <1>3, <1>11, <1>12, <1>13 DEF Typed
(* The flash after the step.                                                 *)
<1>15. ASSUME fits, NEW b \in Bytes,
              b >= u.curr_off + conf.start_off, conf.progressive => b < stop
       PROVE  /\ flash'[b] \in {Erased, <<r.file, b - conf.start_off>>}
              /\ b < u.curr_off + k + conf.start_off => flash'[b] = <<r.file, b - conf.start_off>>
  <2> DEFINE data == Program(ready, r.file, u.curr_off, k)
  <2>1. ready[b] \in {Erased, <<r.file, b - conf.start_off>>}
    BY <1>10, <1>15, Zenon
  <2>2. data[b] = IF b - conf.start_off \in u.curr_off..u.curr_off + k - 1
                  THEN IF ready[b] \in {Erased, <<r.file, b - conf.start_off>>}
                       THEN <<r.file, b - conf.start_off>> ELSE Old
                  ELSE ready[b]
    BY Programming
  <2> HIDE DEF data
  <2>3. /\ data[b] \in {Erased, <<r.file, b - conf.start_off>>}
        /\ b < u.curr_off + k + conf.start_off => data[b] = <<r.file, b - conf.start_off>>
    <3>1. CASE b < u.curr_off + k + conf.start_off
      <4>1. b - conf.start_off \in u.curr_off..u.curr_off + k - 1
        BY <1>3, <1>9, <1>15, <3>1
      <4> QED
        BY <2>1, <2>2, <4>1
    <3>2. CASE ~(b < u.curr_off + k + conf.start_off)
      <4>1. ~(b - conf.start_off \in u.curr_off..u.curr_off + k - 1)
        BY <1>3, <1>9, <3>2
      <4> QED
        BY <2>1, <2>2, <3>2, <4>1
    <3> QED
      BY <3>1, <3>2
  <2>4. CASE flash' = data
    BY <2>3, <2>4
  <2>5. CASE flash' = TrailerErased(data)
    <3>1. flash'[b] = data[b] \/ (flash'[b] = Erased /\ b >= status_sector)
      BY <2>5, Erasing DEF TrailerErased
    <3>2. u.curr_off + k + conf.start_off <= status_sector
      BY <1>3, <1>4, <1>9, <1>15, StatusBelow DEF Fits
    <3> QED
      BY <1>3, <1>9, <2>3, <3>1, <3>2, StatusBelow
  <2> QED
    BY <1>8, <2>4, <2>5 DEF data
<1>16. PrefixWritten'
  <2> SUFFICES ASSUME fits, NEW b \in 0..u.curr_off + done - 1
               PROVE flash'[b + conf.start_off] = <<r.file, b>>
    <3>1. conf' = conf /\ up'.curr_off = u.curr_off + done /\ file' = r.file
      BY <1>1, <1>4, <1>11
    <3>2. 0..up'.curr_off - 1 = 0..u.curr_off + done - 1
      BY <1>9, <3>1
    <3>3. Fits(file)' <=> fits
      BY <3>1 DEF Fits, status_sector, boot_status_off
    <3> HIDE DEF fits
    <3> QED
      BY <3>1, <3>2, <3>3 DEF PrefixWritten, Holds
  <2> DEFINE c == b + conf.start_off
  <2>1. c \in Bytes /\ c - conf.start_off = b /\ c < status_sector /\ c \in Nat
    BY <1>3, <1>4, <1>9, StatusBelow DEF Fits, Bytes
  <2>2. CASE b >= u.curr_off
    <3>1. c >= u.curr_off + conf.start_off /\ c < u.curr_off + k + conf.start_off
      BY <1>3, <1>9, <2>2
    <3>2. conf.progressive => c < stop
      BY <1>2, <1>3, <1>6, <1>9, <2>2
    <3> QED
      BY <1>15, <2>1, <3>1, <3>2
  <2>3. CASE b < u.curr_off
    <3>1. ready[c] = <<r.file, b>>
      <4>1. b \in 0..u.curr_off - 1
        BY <1>9, <2>3
      <4> QED
        BY <1>10, <4>1
    <3>2. ~(c - conf.start_off \in u.curr_off..u.curr_off + k - 1)
      BY <1>9, <2>1, <2>3
    <3> HIDE DEF c
    <3>3. Program(ready, r.file, u.curr_off, k)[c] = <<r.file, b>>
      <4>1. Program(ready, r.file, u.curr_off, k)[c] =
                IF c - conf.start_off \in u.curr_off..u.curr_off + k - 1
                THEN IF ready[c] \in {Erased, <<r.file, c - conf.start_off>>}
                     THEN <<r.file, c - conf.start_off>> ELSE Old
                ELSE ready[c]
        BY <2>1, Programming
      <4> QED
        BY <3>1, <3>2, <4>1
    <3>4. ~(c >= status_sector)
      BY <2>1, StatusBelow
    <3>5. flash'[c] = <<r.file, b>>
      BY <1>8, <2>1, <3>3, <3>4, Erasing DEF TrailerErased
    <3> QED
      BY <3>5 DEF c
  <2> QED
    BY <1>9, <2>2, <2>3
<1>17. Ahead'
  <2>1. up'.curr_off <= up'.img_size
    BY <1>9, <1>11
  <2>2. conf.progressive => up'.curr_off + conf.start_off <= up'.not_yet_erased
    BY <1>2, <1>3, <1>6, <1>9, <1>11
  <2>3. ASSUME fits, NEW b \in Bytes, b >= up'.curr_off + conf.start_off,
               conf.progressive => b < up'.not_yet_erased
        PROVE  flash'[b] \in {Erased, <<r.file, b - conf.start_off>>}
    <3>1. b >= u.curr_off + conf.start_off /\ (conf.progressive => b < stop)
      BY <1>3, <1>9, <1>11, <2>3
    <3> QED
      BY <1>15, <2>3, <3>1
  <2> QED
    BY <1>1, <1>4, <1>11, <2>1, <2>2, <2>3 DEF Ahead, Writable, Fits
<1> QED
  BY <1>12, <1>14, <1>16, <1>17 DEF UploadInv

-----------------------------------------------------------------------------
(* The client and the line.                                                  *)
LEMMA InitStep == Init => UploadInv
<1> SUFFICES ASSUME Init PROVE UploadInv
  OBVIOUS
<1>1. PICK f \in Files :
          client = [seq |-> 0, file |-> f, off |-> 0, waits |-> FALSE, errors |-> 0] /\ file = f
  BY DEF Init
<1>2. FileSize[f] \in Nat
  BY UploadAssumption
<1>3. Typed
  BY <1>1 DEF Init, Typed, NoUpload
<1>4. Line /\ Follows
  BY <1>1, <1>2 DEF Init, Line, Follows
<1>5. up.curr_off = 0
  BY DEF Init, NoUpload
<1> QED
  BY <1>3, <1>4, <1>5 DEF UploadInv, Ahead, PrefixWritten

LEMMA ResetStep == UploadInv /\ Reset => UploadInv'
<1> SUFFICES ASSUME UploadInv, Reset PROVE UploadInv'
  OBVIOUS
<1>1. /\ up' = NoUpload /\ reqs' = <<>> /\ rsps' = <<>>
      /\ UNCHANGED <<conf, flash, client, file>>
  BY DEF Reset
<1>2. Typed'
  BY <1>1 DEF UploadInv, Typed, NoUpload
<1>3. Line' /\ Follows'
  BY <1>1 DEF UploadInv, Line, Follows, AtFile
<1>4. up'.curr_off = 0
  BY <1>1 DEF NoUpload
<1> QED
  BY <1>2, <1>3, <1>4 DEF UploadInv, Ahead, PrefixWritten

(* A step of the client or the line leaves the device as it is.              *)
LEMMA DeviceKept ==
    UploadInv /\ UNCHANGED <<conf, flash, up, file>> => Ahead' /\ PrefixWritten'
  BY DEF UploadInv, Ahead, PrefixWritten, Writable, Holds, Fits, status_sector, boot_status_off

(* A client that starts again is ahead of everything on the line.            *)
LEMMA AfreshStep ==
    ASSUME UploadInv, NEW f \in Files, NEW n \in Nat, client' = Afresh(f, n),
           UNCHANGED <<conf, flash, up, reqs, file>>,
           rsps' \in Seq(Answers), \A k \in 1..Len(rsps') : rsps'[k].seq <= client.seq
    PROVE  UploadInv'
<1>1. /\ client \in [seq : Nat, file : Files, off : Nat, waits : BOOLEAN, errors : Nat]
      /\ reqs \in Seq(Requests) /\ FileSize[f] \in Nat
  BY UploadAssumption DEF UploadInv, Typed
<1>2. client' = [seq |-> client.seq + 1, file |-> f, off |-> 0, waits |-> FALSE, errors |-> n]
  BY DEF Afresh
<1>3. Typed'
  BY <1>1, <1>2 DEF UploadInv, Typed
<1>4. \A k \in 1..Len(reqs) : reqs[k].seq \in Nat /\ reqs[k].seq <= client.seq
  <2>1. \A k \in 1..Len(reqs) : reqs[k] \in Requests
    BY <1>1
  <2>2. \A k \in 1..Len(reqs) : reqs[k].seq <= client.seq
    BY DEF UploadInv, Line
  <2> QED
    BY <2>1, <2>2 DEF Requests
<1>5. \A k \in 1..Len(rsps') : rsps'[k].seq \in Nat
  <2>1. \A k \in 1..Len(rsps') : rsps'[k] \in Answers
    OBVIOUS
  <2> QED
    BY <2>1 DEF Answers
<1>6. /\ \A k \in 1..Len(reqs) : reqs[k].seq <= client.seq + 1 /\ reqs[k].seq # client.seq + 1
      /\ \A k \in 1..Len(rsps') : rsps'[k].seq <= client.seq + 1 /\ rsps'[k].seq # client.seq + 1
  BY <1>1, <1>4, <1>5
<1>7. Line'
  BY <1>1, <1>2, <1>6 DEF UploadInv, Line
<1>8. Follows'
  <2>1. client'.seq = client.seq + 1 /\ client'.off = 0
    BY <1>2
  <2>2. \A k \in 1..Len(reqs) : reqs[k].off # 0 =>
            file = reqs[k].file /\ \A j \in 1..k : reqs[j].file = reqs[k].file
    BY DEF UploadInv, Follows
  <2> QED
    BY <1>6, <2>1, <2>2 DEF Follows
<1> QED
  BY <1>3, <1>7, <1>8, DeviceKept DEF UploadInv

LEMMA BeginStep == ASSUME UploadInv, NEW f \in Files, Begin(f) PROVE UploadInv'
<1>1. client' = Afresh(f, 0) /\ UNCHANGED <<conf, flash, up, reqs, rsps, file>>
  BY DEF Begin
<1>2. rsps' \in Seq(Answers) /\ \A k \in 1..Len(rsps') : rsps'[k].seq <= client.seq
  BY <1>1 DEF UploadInv, Typed, Line
<1> QED
  BY <1>1, <1>2, AfreshStep

LEMMA TimeoutStep == UploadInv /\ Timeout => UploadInv'
<1> SUFFICES ASSUME UploadInv, Timeout PROVE UploadInv'
  OBVIOUS
<1>1. /\ client' = [client EXCEPT !.waits = FALSE]
      /\ UNCHANGED <<conf, flash, up, reqs, rsps, file>>
  BY DEF Timeout
<1>2. /\ client' \in [seq : Nat, file : Files, off : Nat, waits : BOOLEAN, errors : Nat]
      /\ client'.seq = client.seq /\ client'.file = client.file /\ client'.off = client.off
  BY <1>1 DEF UploadInv, Typed
<1>3. Typed' /\ Line' /\ Follows'
  BY <1>1, <1>2 DEF UploadInv, Typed, Line, Follows, AtFile
<1> QED
  BY <1>1, <1>3, DeviceKept DEF UploadInv

LEMMA SendStep == UploadInv /\ Send => UploadInv'
<1> SUFFICES ASSUME UploadInv, Send PROVE UploadInv'
  OBVIOUS
<1> DEFINE m == [seq |-> client.seq, file |-> client.file, off |-> client.off,
                 len |-> FileSize[client.file],
                 size |-> Smaller(Chunk, FileSize[client.file] - client.off)]
<1>1. /\ ~Finished /\ reqs' = Append(reqs, m) /\ client' = [client EXCEPT !.waits = TRUE]
      /\ UNCHANGED <<conf, flash, up, rsps, file>>
  BY DEF Send
<1>2. /\ client \in [seq : Nat, file : Files, off : Nat, waits : BOOLEAN, errors : Nat]
      /\ reqs \in Seq(Requests) /\ FileSize[client.file] \in Nat /\ Chunk \in Nat \ {0}
      /\ client.off <= FileSize[client.file]
  BY UploadAssumption DEF UploadInv, Typed, Line
<1>3. /\ client' \in [seq : Nat, file : Files, off : Nat, waits : BOOLEAN, errors : Nat]
      /\ client'.seq = client.seq /\ client'.file = client.file /\ client'.off = client.off
  BY <1>1, <1>2
<1>4. /\ m.size \in Nat \ {0} /\ client.off + m.size <= FileSize[client.file]
  BY <1>1, <1>2 DEF Finished, Smaller
<1>5. /\ m \in Requests /\ m.seq = client.seq /\ m.file = client.file /\ m.off = client.off
      /\ m.len = FileSize[client.file]
  BY <1>2, <1>4 DEF Requests
<1> HIDE DEF m
<1>6. /\ reqs' \in Seq(Requests) /\ Len(reqs') = Len(reqs) + 1
      /\ reqs'[Len(reqs) + 1] = m
      /\ \A k \in 1..Len(reqs) : reqs'[k] = reqs[k]
      /\ \A k \in 1..Len(reqs') : k \in 1..Len(reqs) \/ k = Len(reqs) + 1
      /\ Len(reqs) \in Nat
  BY <1>1, <1>2, <1>5, AppendOf
<1>7. Typed'
  BY <1>1, <1>3, <1>6 DEF UploadInv, Typed
<1>8. Line'
  <2>1. ASSUME NEW k \in 1..Len(reqs')
        PROVE  /\ reqs'[k].len = FileSize[reqs'[k].file] /\ reqs'[k].size # 0
               /\ reqs'[k].off + reqs'[k].size <= reqs'[k].len
               /\ reqs'[k].seq <= client.seq
               /\ reqs'[k].seq = client.seq => reqs'[k].file = client.file
    <3>1. CASE k \in 1..Len(reqs)
      BY <1>6, <3>1 DEF UploadInv, Line
    <3>2. CASE k = Len(reqs) + 1
      BY <1>2, <1>4, <1>5, <1>6, <3>2
    <3> QED
      BY <1>6, <3>1, <3>2
  <2>2. ASSUME NEW k \in 1..Len(reqs'), NEW j \in 1..k PROVE reqs'[j].seq <= reqs'[k].seq
    <3>1. CASE k \in 1..Len(reqs)
      <4>1. j \in 1..Len(reqs)
        BY <1>6, <3>1
      <4> QED
        BY <1>6, <3>1, <4>1 DEF UploadInv, Line
    <3>2. CASE k = Len(reqs) + 1
      <4>1. j \in 1..Len(reqs')
        BY <1>6
      <4> QED
        BY <1>5, <1>6, <2>1, <3>2, <4>1
    <3> QED
      BY <1>6, <3>1, <3>2
  <2>3. /\ \A k \in 1..Len(rsps') :
               /\ rsps'[k].seq <= client'.seq
               /\ rsps'[k].seq = client'.seq => rsps'[k].off <= FileSize[client'.file]
        /\ client'.off <= FileSize[client'.file]
    BY <1>1, <1>3 DEF UploadInv, Line
  <2> QED
    BY <1>3, <2>1, <2>2, <2>3 DEF Line
<1>9. Follows'
  <2>1. AtFile(client.file) => AtFile(client.file)'
    BY <1>1, <1>3, <1>5, <1>6 DEF AtFile
  <2>2. ASSUME NEW k \in 1..Len(reqs'), reqs'[k].off # 0
        PROVE  file' = reqs'[k].file /\ \A j \in 1..k : reqs'[j].file = reqs'[k].file
    <3>1. CASE k \in 1..Len(reqs)
      <4>1. \A j \in 1..k : j \in 1..Len(reqs)
        BY <1>6, <3>1
      <4> QED
        BY <1>1, <1>6, <2>2, <3>1, <4>1 DEF UploadInv, Follows
    <3>2. CASE k = Len(reqs) + 1
      <4>1. AtFile(client.file)'
        BY <1>5, <1>6, <2>1, <2>2, <3>2 DEF UploadInv, Follows
      <4>2. \A j \in 1..k : j \in 1..Len(reqs')
        BY <1>6, <3>2
      <4> QED
        BY <1>3, <1>5, <1>6, <3>2, <4>1, <4>2 DEF AtFile
    <3> QED
      BY <1>6, <3>1, <3>2
  <2>3. /\ client'.off # 0 => AtFile(client.file)'
        /\ \A k \in 1..Len(rsps') : rsps'[k].seq = client'.seq => AtFile(client.file)'
    BY <1>1, <1>3, <2>1 DEF UploadInv, Follows
  <2> QED
    BY <2>2, <2>3 DEF Follows
<1> QED
  BY <1>1, <1>7, <1>8, <1>9, DeviceKept DEF UploadInv

LEMMA ReceiveStep ==
    ASSUME UploadInv, rsps # <<>>, rsps' = Tail(rsps), UNCHANGED <<conf, flash, up, reqs, file>>,
           \/ client' = client
           \/ /\ Head(rsps).seq = client.seq
              /\ client' = [client EXCEPT !.off = Head(rsps).off, !.waits = FALSE]
           \/ client' = Afresh(client.file, client.errors + 1)
    PROVE  UploadInv'
<1>1. /\ client \in [seq : Nat, file : Files, off : Nat, waits : BOOLEAN, errors : Nat]
      /\ reqs \in Seq(Requests) /\ rsps \in Seq(Answers)
  BY DEF UploadInv, Typed
<1>2. /\ Head(rsps) = rsps[1] /\ Head(rsps) \in Answers /\ 1 \in 1..Len(rsps)
      /\ rsps' \in Seq(Answers) /\ Len(rsps') = Len(rsps) - 1
      /\ \A k \in 1..Len(rsps') : rsps'[k] = rsps[k + 1] /\ k + 1 \in 1..Len(rsps)
  BY <1>1, TailOf
<1>3. \A k \in 1..Len(rsps') :
          /\ rsps'[k].seq <= client.seq
          /\ rsps'[k].seq = client.seq => rsps'[k].off <= FileSize[client.file]
          /\ rsps'[k].seq = client.seq => AtFile(client.file)
  BY <1>2 DEF UploadInv, Line, Follows
<1>4. CASE client' = Afresh(client.file, client.errors + 1)
  <2>1. client.file \in Files /\ client.errors + 1 \in Nat
    BY <1>1
  <2> QED
    BY <1>2, <1>3, <1>4, <2>1, AfreshStep
<1>5. CASE /\ client' \in [seq : Nat, file : Files, off : Nat, waits : BOOLEAN, errors : Nat]
           /\ client'.seq = client.seq /\ client'.file = client.file
           /\ client'.off <= FileSize[client.file]
           /\ client'.off # 0 => AtFile(client.file)
  <2>1. Typed'
    BY <1>2, <1>5 DEF UploadInv, Typed
  <2>2. Line'
    BY <1>3, <1>5 DEF UploadInv, Line
  <2>3. Follows'
    BY <1>3, <1>5 DEF UploadInv, Follows, AtFile
  <2> QED
    BY <2>1, <2>2, <2>3, DeviceKept DEF UploadInv
<1>6. CASE client' = client
  BY <1>1, <1>5, <1>6 DEF UploadInv, Line, Follows
<1>7. CASE /\ Head(rsps).seq = client.seq
           /\ client' = [client EXCEPT !.off = Head(rsps).off, !.waits = FALSE]
  <2>1. Head(rsps).off \in Nat
    BY <1>2 DEF Answers
  <2>2. Head(rsps).off <= FileSize[client.file] /\ AtFile(client.file)
    BY <1>2, <1>7 DEF UploadInv, Line, Follows
  <2>3. /\ client' \in [seq : Nat, file : Files, off : Nat, waits : BOOLEAN, errors : Nat]
        /\ client'.seq = client.seq /\ client'.file = client.file
        /\ client'.off = Head(rsps).off
    BY <1>1, <1>7, <2>1
  <2> QED
    BY <1>5, <2>2, <2>3
<1> QED
  BY <1>4, <1>6, <1>7

LEMMA LoseRequest ==
    ASSUME UploadInv, reqs # <<>>, reqs' = Tail(reqs),
           UNCHANGED <<conf, flash, up, client, rsps, file>>
    PROVE  UploadInv'
<1>1. reqs \in Seq(Requests)
  BY DEF UploadInv, Typed
<1>2. /\ reqs' \in Seq(Requests) /\ Len(reqs') = Len(reqs) - 1
      /\ \A k \in 1..Len(reqs') : reqs'[k] = reqs[k + 1] /\ k + 1 \in 1..Len(reqs)
      /\ Len(reqs) \in Nat
  BY <1>1, TailOf
<1>3. Typed'
  BY <1>2 DEF UploadInv, Typed
<1>4. \A k \in 1..Len(reqs') : \A j \in 1..k : j \in 1..Len(reqs') /\ j + 1 \in 1..k + 1
  BY <1>2
<1>5. Line'
  <2>1. \A k \in 1..Len(reqs') : \A j \in 1..k : reqs'[j].seq <= reqs'[k].seq
    BY <1>2, <1>4 DEF UploadInv, Line
  <2> QED
    BY <1>2, <2>1 DEF UploadInv, Line
<1>6. Follows'
  <2>1. AtFile(client.file) => AtFile(client.file)'
    BY <1>2 DEF AtFile
  <2>2. \A k \in 1..Len(reqs') : reqs'[k].off # 0 =>
           file = reqs'[k].file /\ \A j \in 1..k : reqs'[j].file = reqs'[k].file
    BY <1>2, <1>4 DEF UploadInv, Follows
  <2> QED
    BY <2>1, <2>2 DEF UploadInv, Follows
<1> QED
  BY <1>3, <1>5, <1>6, DeviceKept DEF UploadInv

-----------------------------------------------------------------------------
(* bs_upload keeps the invariant in every order of chunks and restarts.      *)
THEOREM UploadInvariance == Spec => []UploadInv
<1>1. UploadInv /\ [Next]_vars => UploadInv'
  <2> SUFFICES ASSUME UploadInv, [Next]_vars PROVE UploadInv'
    OBVIOUS
  <2>1. CASE Device
    BY <2>1, NotNextStep, EraseFailsStep, StoreStep DEF Device
  <2>2. CASE Reset
    BY <2>2, ResetStep
  <2>3. CASE Send
    BY <2>3, SendStep
  <2>4. CASE Receive
    <3>1. /\ rsps # <<>> /\ rsps' = Tail(rsps) /\ UNCHANGED <<conf, flash, up, reqs, file>>
          /\ \/ client' = client
             \/ /\ Head(rsps).seq = client.seq
                /\ client' = [client EXCEPT !.off = Head(rsps).off, !.waits = FALSE]
             \/ client' = Afresh(client.file, client.errors + 1)
      BY <2>4 DEF Receive
    <3> QED
      BY <3>1, ReceiveStep
  <2>5. ASSUME NEW f \in Files, Begin(f) PROVE UploadInv'
    BY <2>5, BeginStep
  <2>6. CASE Timeout
    BY <2>6, TimeoutStep
  <2>7. CASE Lose
    BY <2>7, LoseRequest, ReceiveStep DEF Lose
  <2>8. CASE UNCHANGED vars
    <3>1. Typed' /\ Line' /\ Follows'
      BY <2>8 DEF vars, UploadInv, Typed, Line, Follows, AtFile
    <3> QED
      BY <2>8, <3>1, DeviceKept DEF UploadInv, vars
  <2> QED
    BY <2>1, <2>2, <2>3, <2>4, <2>5, <2>6, <2>7, <2>8 DEF Next, Client
<1> QED
  BY <1>1, InitStep, PTL DEF Spec

(* bs_upload: whatever was lost, sent twice, failed or begun again, the      *)
(* bytes below the offset it asks for next are those of the file that was    *)
(* begun last, for every slot geometry, write unit and file.                 *)
THEOREM PrefixStored == Spec => []PrefixWritten
<1>1. UploadInv => PrefixWritten
  BY DEF UploadInv
<1> QED
  BY <1>1, UploadInvariance, PTL
=============================================================================
