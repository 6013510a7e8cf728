-------------------------- MODULE Uf2Flash_proofs --------------------------
(* Proofs about the UF2 drive, for any table of partitions, any files and    *)
(* any order of sectors, refusals of the driver and resets.                  *)
EXTENDS Uf2Flash, FiniteSetTheorems, WellFoundedInduction, TLAPS

(* Block k of file f is in region r, and the frontier has passed it.         *)
Stored(f, k, r) ==
    /\ uf2_route_block(Blocks[f][k], r)
    /\ Offset(Blocks[f][k], r) + Blocks[f][k].len <= erase_frontier[r]
    /\ \A u \in Span(Blocks[f][k], r) :
           flash[r][u] = Payload(f, k, u - Offset(Blocks[f][k], r))

(* Flash below the frontier is erased or belongs to a block that was stored. *)
BelowFrontier(f) ==
    \A r \in Region : \A u \in 0..erase_frontier[r] - 1 :
        \/ flash[r][u] = Erased
        \/ \E k \in block_map : Stored(f, k, r) /\ u \in Span(Blocks[f][k], r)

(* Nothing happens before a file is dropped.                                 *)
Fresh ==
    dropped = {} =>
        /\ num_blocks = 0 /\ block_map = {} /\ ~complete /\ written = {}
        /\ \A r \in 1..Len(Area) : erase_frontier[r] = 0
        /\ pc = "drive"

(* The count of the blocks is the number of marks.                           *)
Counted ==
    /\ copying \in dropped \cup {None}
    /\ IsFiniteSet(block_map) /\ blocks_received = Cardinality(block_map)

(* As long as one file is copied, what is marked is stored, in the regions   *)
(* that are recorded as written.                                             *)
OneFile(f) ==
    /\ num_blocks \in {0, Len(Blocks[f])}
    /\ \A k \in block_map : \E r \in written : Stored(f, k, r)
    /\ \A r \in written : \E k \in block_map : Stored(f, k, r)
    /\ BelowFrontier(f)
    /\ complete => block_map = 1..Len(Blocks[f])
    /\ pc = "reboot" => complete /\ (pending <=> Slot0 \in written)

FlashInv ==
    /\ TypeOK /\ Fresh /\ Counted
    /\ BeyondFrontierKept
    /\ \A f \in File : dropped = {f} => OneFile(f)

-----------------------------------------------------------------------------

(* A set of naturals has a least element.                                    *)
LEMMA LeastNatural ==
    ASSUME NEW S \in SUBSET Nat, S # {}
    PROVE  \E n \in S : \A m \in S : n <= m
<1>1. PICK n \in S : \A m \in S : ~(<<m, n>> \in OpToRel(<, Nat))
  BY NatLessThanWellFounded, WFMin
<1>2. \A m \in S : ~(m < n)
  BY <1>1 DEF OpToRel
<1> QED
  BY <1>2

(* The table is well defined: every call of uf2_disk_add_region looks at the *)
(* calls before it only.                                                     *)
LEMMA RegionTable ==
    uf2_disk_add_region =
        [i \in 1..Len(Area) |->
            \A j \in 1..i - 1 :
                (address_routed(i) /\ address_routed(j) /\ uf2_disk_add_region[j])
                    => ~Overlap(i, j)]
<1> DEFINE n == Len(Area)
           Rest(f, i) == \A j \in 1..i - 1 :
                             (address_routed(i) /\ address_routed(j) /\ f[j]) => ~Overlap(i, j)
           Good == {m \in 0..n : \E f \in [1..m -> BOOLEAN] : \A i \in 1..m : f[i] = Rest(f, i)}
<1>1. n \in Nat
  BY AreaAssumption
<1>2. 0 \in Good
  <2> DEFINE none == [i \in 1..0 |-> TRUE]
  <2>1. none \in [1..0 -> BOOLEAN]
    OBVIOUS
  <2> HIDE DEF none, Rest
  <2>2. \A i \in 1..0 : none[i] = Rest(none, i)
    OBVIOUS
  <2>3. \E f \in [1..0 -> BOOLEAN] : \A i \in 1..0 : f[i] = Rest(f, i)
    BY <2>1, <2>2
  <2>4. 0 \in 0..n
    BY <1>1
  <2> QED
    BY <2>3, <2>4
<1>3. ASSUME NEW m \in 0..n - 1, m \in Good
      PROVE  m + 1 \in Good
  <2>1. PICK f \in [1..m -> BOOLEAN] : \A i \in 1..m : f[i] = Rest(f, i)
    BY <1>3
  <2> DEFINE last == Rest(f, m + 1)
             g == [i \in 1..m + 1 |-> IF i = m + 1 THEN last ELSE f[i]]
  <2>0. last \in BOOLEAN
    OBVIOUS
  <2> HIDE DEF last
  <2>2. /\ \A i \in 1..m : g[i] = f[i]
        /\ g[m + 1] = last
        /\ g \in [1..m + 1 -> BOOLEAN]
    BY <1>1, <2>0, <2>1
  <2> HIDE DEF g
  <2>3. \A i \in 1..m + 1 : Rest(g, i) = Rest(f, i)
    <3> SUFFICES ASSUME NEW i \in 1..m + 1 PROVE Rest(g, i) = Rest(f, i)
      OBVIOUS
    <3>1. \A j \in 1..i - 1 : g[j] = f[j]
      BY <1>1, <2>2
    <3> QED
      BY <3>1
  <2>4. \A i \in 1..m + 1 : g[i] = Rest(g, i)
    <3>1. g[m + 1] = Rest(f, m + 1)
      BY <2>2 DEF last
    <3> HIDE DEF Rest
    <3> QED
      BY <1>1, <2>1, <2>2, <2>3, <3>1
  <2> HIDE DEF Rest
  <2> QED
    BY <1>1, <2>2, <2>4
<1>4. n \in Good
  <2> SUFFICES ASSUME n \notin Good PROVE FALSE
    OBVIOUS
  <2> HIDE DEF Good
  <2> DEFINE Bad == {m \in 0..n : m \notin Good}
  <2>0. Bad \in SUBSET Nat /\ Bad # {}
    BY <1>1
  <2>1. PICK m \in Bad : \A l \in Bad : m <= l
    <3> HIDE DEF Bad
    <3> QED
      BY <2>0, LeastNatural
  <2>2. m # 0 /\ m - 1 \in 0..n - 1 /\ m - 1 \notin Bad
    BY <1>1, <1>2, <2>1
  <2>3. m - 1 + 1 \in Good
    BY <1>1, <1>3, <2>2
  <2> QED
    BY <2>1, <2>3
<1>5. PICK f \in [1..n -> BOOLEAN] : \A i \in 1..n : f[i] = Rest(f, i)
  BY <1>4
<1>6. f = [i \in 1..n |-> Rest(f, i)]
  BY <1>5
<1> QED
  BY <1>6 DEF uf2_disk_add_region

(* Slot 0 is always in the table.                                            *)
LEMMA Slot0Added == Slot0 \in Region
  BY RegionTable, AreaAssumption DEF Region, Slot0

(* uf2_disk_add_region: no address is in two regions that are reachable by   *)
(* address, in whatever order the partitions are offered.                    *)
THEOREM RegionsDisjoint ==
    \A r, s \in Region :
        (r # s /\ address_routed(r) /\ address_routed(s)) => ~Overlap(r, s)
<1>1. \A r, s \in Region :
          (s < r /\ address_routed(r) /\ address_routed(s)) => ~Overlap(r, s)
  <2> SUFFICES ASSUME NEW r \in Region, NEW s \in Region,
                      s < r, address_routed(r), address_routed(s)
               PROVE  ~Overlap(r, s)
    OBVIOUS
  <2>1. r \in 1..Len(Area) /\ s \in 1..r - 1 /\ uf2_disk_add_region[r] /\ uf2_disk_add_region[s]
    BY AreaAssumption DEF Region
  <2> QED
    BY <2>1, RegionTable
<1>2. \A r, s \in Region : s < r \/ r < s \/ r = s
  BY AreaAssumption DEF Region
<1> QED
  BY <1>1, <1>2 DEF Overlap

(* uf2_route_block finds at most one region.                                 *)
LEMMA RouteUnique ==
    ASSUME NEW b, NEW r \in Region, NEW s \in Region,
           uf2_route_block(b, r), uf2_route_block(b, s)
    PROVE  r = s
<1>1. CASE b.tag # NoTag
  BY <1>1 DEF uf2_route_block
<1>2. CASE b.tag = NoTag
  <2>1. uf2_find_region(b.addr, r) /\ uf2_find_region(b.addr, s)
    BY <1>2 DEF uf2_route_block
  <2>2. ~(r < s) /\ ~(s < r)
    BY <2>1 DEF uf2_find_region
  <2>3. r \in Int /\ s \in Int
    BY AreaAssumption DEF Region
  <2> QED
    BY <2>2, <2>3
<1> QED
  BY <1>1, <1>2

(* What a partition and a block of a file are.                               *)
LEMMA AreaFacts ==
    ASSUME NEW r \in 1..Len(Area)
    PROVE  Area[r].off \in Nat /\ Area[r].size \in Nat /\ Area[r].size > 0
<1> DEFINE Partition == [dev : Nat, off : Nat, size : Nat \ {0}]
<1>1. Area \in Seq(Partition)
  BY AreaAssumption
<1> HIDE DEF Partition
<1>2. Area[r] \in Partition
  BY <1>1
<1> QED
  BY <1>2 DEF Partition

LEMMA BlockFacts ==
    ASSUME NEW f \in File, NEW k \in 1..Len(Blocks[f])
    PROVE  /\ Len(Blocks[f]) \in Nat
           /\ Blocks[f][k].addr \in Nat /\ Blocks[f][k].len \in Nat
           /\ Blocks[f][k].len > 0 /\ Blocks[f][k].exact \in BOOLEAN
<1>1. Blocks[f] \in Seq(Block)
  BY FileAssumption
<1>2. Blocks[f][k] \in Block
  BY <1>1
<1> QED
  BY <1>1, <1>2 DEF Block

(* The erase reaches past the payload, and stays inside of the region.       *)
LEMMA EraseEnd ==
    ASSUME NEW f \in File, NEW k \in 1..Len(Blocks[f]), NEW r \in 1..Len(Area),
           uf2_route_block(Blocks[f][k], r),
           Offset(Blocks[f][k], r) + Blocks[f][k].len <= Area[r].size
    PROVE  /\ Offset(Blocks[f][k], r) \in Nat
           /\ erase_end(Blocks[f][k], r) \in 0..Area[r].size
           /\ Offset(Blocks[f][k], r) + Blocks[f][k].len <= erase_end(Blocks[f][k], r)
<1> DEFINE b == Blocks[f][k]
           end == Offset(b, r) + (IF b.exact THEN b.len ELSE b.len - 1)
           up == (end \div erase_size + 1) * erase_size
<1>1. Offset(b, r) \in Nat
  BY AreaFacts, BlockFacts DEF Offset, uf2_route_block, uf2_find_region, Contains
<1>2. end \in Nat /\ end + 1 >= Offset(b, r) + b.len
  BY <1>1, BlockFacts
<1>3. erase_size \in Nat \ {0}
  BY AreaAssumption
<1>4. \A x \in Nat : \A e \in Nat \ {0} :
          (x \div e + 1) * e > x /\ (x \div e + 1) * e \in Nat
  OBVIOUS
<1>5. up \in Nat /\ up >= Offset(b, r) + b.len
  <2> HIDE DEF end
  <2>1. up \in Nat /\ up > end
    BY <1>2, <1>3, <1>4
  <2> HIDE DEF up
  <2> QED
    BY <1>1, <1>2, <2>1, BlockFacts
<1>6. erase_end(b, r) = IF up > Area[r].size THEN Area[r].size ELSE up
  BY DEF erase_end
<1> HIDE DEF up, b
<1>7. b.len \in Nat /\ Offset(b, r) + b.len <= Area[r].size
  BY BlockFacts DEF b
<1>8. erase_end(b, r) \in 0..Area[r].size /\ Offset(b, r) + b.len <= erase_end(b, r)
  BY <1>1, <1>5, <1>6, <1>7, AreaFacts
<1> QED
  BY <1>1, <1>8 DEF b

(* What the driver is asked to do for an accepted block.                     *)
LEMMA FrontierFacts ==
    ASSUME TypeOK, NEW k \in 1..Len(Blocks[copying]), NEW r \in Region,
           copying \in File, Accepted(copying, k, r)
    PROVE  /\ r \in 1..Len(Area)
           /\ uf2_route_block(Blocks[copying][k], r)
           /\ Offset(Blocks[copying][k], r) \in Nat
           /\ Blocks[copying][k].len \in Nat /\ Blocks[copying][k].len > 0
           /\ erase_frontier[r] \in 0..Area[r].size
           /\ Frontier(copying, k, r) \in erase_frontier[r]..Area[r].size
           /\ Offset(Blocks[copying][k], r) + Blocks[copying][k].len <= Frontier(copying, k, r)
           /\ Area[r].size \in Nat
           /\ flash[r] \in [0..Area[r].size - 1 -> Content]
<1>1. r \in 1..Len(Area)
  BY DEF Region
<1>2. /\ uf2_route_block(Blocks[copying][k], r)
      /\ Offset(Blocks[copying][k], r) + Blocks[copying][k].len <= Area[r].size
  BY DEF Accepted
<1>3. /\ Offset(Blocks[copying][k], r) \in Nat
      /\ erase_end(Blocks[copying][k], r) \in 0..Area[r].size
      /\ Offset(Blocks[copying][k], r) + Blocks[copying][k].len <= erase_end(Blocks[copying][k], r)
  BY <1>1, <1>2, EraseEnd
<1>4. /\ erase_frontier[r] \in 0..Area[r].size
      /\ flash[r] \in [0..Area[r].size - 1 -> Content]
  BY <1>1 DEF TypeOK
<1>5. Blocks[copying][k].len \in Nat /\ Blocks[copying][k].len > 0 /\ Area[r].size \in Nat
  BY <1>1, AreaFacts, BlockFacts
<1>6. Frontier(copying, k, r) = IF erase_frontier[r] < erase_end(Blocks[copying][k], r)
                                THEN erase_end(Blocks[copying][k], r) ELSE erase_frontier[r]
  BY DEF Frontier
<1> QED
  BY <1>1, <1>2, <1>3, <1>4, <1>5, <1>6

(* A payload is a content that flash may have.                               *)
LEMMA PayloadContent ==
    ASSUME NEW f \in File, NEW k \in 1..Len(Blocks[f]), NEW r \in Region,
           Offset(Blocks[f][k], r) \in Nat
    PROVE  \A u \in Span(Blocks[f][k], r) :
               Payload(f, k, u - Offset(Blocks[f][k], r)) \in Content
<1> SUFFICES ASSUME NEW u \in Span(Blocks[f][k], r)
             PROVE  Payload(f, k, u - Offset(Blocks[f][k], r)) \in Content
  OBVIOUS
<1>1. Blocks[f][k].len \in Nat /\ k \in Nat
  BY BlockFacts
<1>2. u - Offset(Blocks[f][k], r) \in Nat
  BY <1>1 DEF Span
<1> QED
  BY <1>1, <1>2 DEF Payload, Content

(* A stored block stays stored when its region is erased further up and the  *)
(* write blocks of others are programmed.                                    *)
LEMMA StoredKept ==
    ASSUME NEW f \in File, NEW l \in 1..Len(Blocks[f]), NEW r \in Region,
           Stored(f, l, r), erase_frontier[r] \in Int, erase_frontier'[r] \in Int,
           erase_frontier[r] <= erase_frontier'[r],
           \A u \in Span(Blocks[f][l], r) : flash'[r][u] = flash[r][u]
    PROVE  Stored(f, l, r)'
<1>1. /\ Offset(Blocks[f][l], r) \in Int
      /\ Blocks[f][l].len \in Nat
  <2>1. r \in 1..Len(Area)
    BY DEF Region
  <2> QED
    BY <2>1, AreaFacts, BlockFacts DEF Offset
<1> QED
  BY <1>1 DEF Stored

(* Where a stored block lies.                                                *)
LEMMA StoredSpan ==
    ASSUME TypeOK, NEW f \in File, NEW l \in 1..Len(Blocks[f]), NEW r \in Region,
           Stored(f, l, r)
    PROVE  \A u \in Span(Blocks[f][l], r) : u \in 0..erase_frontier[r] - 1
<1>1. r \in 1..Len(Area)
  BY DEF Region
<1>2. Offset(Blocks[f][l], r) \in Nat /\ Blocks[f][l].len \in Nat
  BY <1>1, AreaFacts, BlockFacts
     DEF Stored, Offset, uf2_route_block, uf2_find_region, Contains
<1>3. erase_frontier[r] \in Nat
  BY <1>1, AreaFacts DEF TypeOK
<1> QED
  BY <1>2, <1>3 DEF Stored, Span

(* What is marked are blocks of the file.                                    *)
LEMMA MarkedInFile ==
    ASSUME TypeOK, NEW f \in File, OneFile(f)
    PROVE  \A l \in block_map : l \in 1..Len(Blocks[f])
<1>1. block_map \subseteq 1..num_blocks /\ num_blocks \in {0, Len(Blocks[f])}
  BY DEF TypeOK, OneFile
<1> QED
  BY <1>1

LEMMA InitFlash == Init => FlashInv
<1> SUFFICES ASSUME Init PROVE FlashInv
  OBVIOUS
<1>1. TypeOK
  <2>1. \A r \in 1..Len(Area) : [u \in 0..Area[r].size - 1 |-> Old] \in [0..Area[r].size - 1 -> Content]
    BY DEF Content
  <2>2. flash = [r \in 1..Len(Area) |-> [u \in 0..Area[r].size - 1 |-> Old]]
    BY DEF Init
  <2>3. \A r \in 1..Len(Area) : flash[r] \in [0..Area[r].size - 1 -> Content]
    BY <2>1, <2>2
  <2>4. \A r \in 1..Len(Area) : erase_frontier[r] \in 0..Area[r].size
    BY AreaFacts DEF Init
  <2>5. resets \in 0..MaxResets /\ num_blocks \in 0..max_blocks /\ block_map \subseteq 1..num_blocks
    BY AreaAssumption DEF Init
  <2> QED
    BY <2>2, <2>3, <2>4, <2>5 DEF Init, TypeOK
<1>2. Fresh /\ BeyondFrontierKept
  BY DEF Init, Fresh, BeyondFrontierKept
<1>3. Counted
  BY FS_EmptySet DEF Init, Counted
<1>4. \A f \in File : dropped # {f}
  BY DEF Init
<1> QED
  BY <1>1, <1>2, <1>3, <1>4 DEF FlashInv

(* The host drops a file: the first one finds a fresh drive.                 *)
LEMMA DropFlash ==
    ASSUME FlashInv, NEW g \in File, Drop(g)
    PROVE  FlashInv'
<1>1. /\ pc = "drive" /\ copying' = g /\ dropped' = dropped \cup {g}
      /\ UNCHANGED <<flash, num_blocks, blocks_received, block_map, erase_frontier,
                     complete, written, pc, pending, flash0, resets>>
  BY DEF Drop, state
<1>2. TypeOK'
  BY <1>1 DEF FlashInv, TypeOK
<1>3. Fresh' /\ Counted' /\ BeyondFrontierKept'
  BY <1>1 DEF FlashInv, Fresh, Counted, BeyondFrontierKept
<1>4. ASSUME NEW f \in File, dropped' = {f} PROVE OneFile(f)'
  <2>1. f = g /\ (dropped = {} \/ dropped = {f})
    BY <1>1, <1>4
  <2>2. CASE dropped = {f}
    <3>1. OneFile(f)
      BY <2>2 DEF FlashInv
    <3> QED
      BY <1>1, <3>1 DEF OneFile, BelowFrontier, Stored
  <2>3. CASE dropped = {}
    <3>1. /\ num_blocks = 0 /\ block_map = {} /\ ~complete /\ written = {} /\ pc = "drive"
          /\ \A r \in 1..Len(Area) : erase_frontier[r] = 0
      BY <2>3 DEF FlashInv, Fresh
    <3>2. BelowFrontier(f)'
      BY <1>1, <3>1 DEF BelowFrontier, Region
    <3> QED
      BY <1>1, <3>1, <3>2 DEF OneFile
  <2> QED
    BY <2>1, <2>2, <2>3
<1> QED
  BY <1>2, <1>3, <1>4 DEF FlashInv

(* An erase that goes only part of the way, or a write that is refused.      *)
LEMMA StoreFailsFlash ==
    ASSUME FlashInv, NEW k \in BlockNo, StoreFails(k)
    PROVE  FlashInv'
<1>1. /\ pc = "drive" /\ copying # None /\ k \in 1..Len(Blocks[copying])
      /\ copying \in File /\ TypeOK
  BY DEF FlashInv, TypeOK, StoreFails, Sector
<1>2. PICK r \in Region : \E to \in erase_frontier[r]..Frontier(copying, k, r) :
          /\ Accepted(copying, k, r)
          /\ num_blocks' = Len(Blocks[copying])
          /\ erase_frontier' = [erase_frontier EXCEPT ![r] = to]
          /\ flash' = [flash EXCEPT ![r] = flash_area_erase(flash[r], erase_frontier[r], to)]
  BY DEF StoreFails
<1>3. PICK to \in erase_frontier[r]..Frontier(copying, k, r) :
          /\ Accepted(copying, k, r)
          /\ num_blocks' = Len(Blocks[copying])
          /\ erase_frontier' = [erase_frontier EXCEPT ![r] = to]
          /\ flash' = [flash EXCEPT ![r] = flash_area_erase(flash[r], erase_frontier[r], to)]
  BY <1>2
<1>4. UNCHANGED <<blocks_received, block_map, complete, written, pc, pending,
                  copying, dropped, flash0, resets>>
  BY DEF StoreFails, session
<1>5. /\ r \in 1..Len(Area) /\ erase_frontier[r] \in 0..Area[r].size /\ Area[r].size \in Nat
      /\ Frontier(copying, k, r) \in erase_frontier[r]..Area[r].size
      /\ flash[r] \in [0..Area[r].size - 1 -> Content]
  BY <1>1, <1>3, FrontierFacts
<1>6. to \in erase_frontier[r]..Area[r].size
  BY <1>3, <1>5
<1>7. /\ flash_area_erase(flash[r], erase_frontier[r], to) \in [0..Area[r].size - 1 -> Content]
      /\ \A u \in 0..Area[r].size - 1 :
             flash_area_erase(flash[r], erase_frontier[r], to)[u] =
                 IF u \in erase_frontier[r]..to - 1 THEN Erased ELSE flash[r][u]
  BY <1>5, <1>6 DEF flash_area_erase, Content
<1>8. /\ \A s \in 1..Len(Area) : s # r => flash'[s] = flash[s] /\ erase_frontier'[s] = erase_frontier[s]
      /\ erase_frontier'[r] = to
      /\ DOMAIN flash' = 1..Len(Area) /\ DOMAIN erase_frontier' = 1..Len(Area)
      /\ flash'[r] \in [0..Area[r].size - 1 -> Content]
      /\ \A u \in 0..Area[r].size - 1 :
             flash'[r][u] = IF u \in erase_frontier[r]..to - 1 THEN Erased ELSE flash[r][u]
  BY <1>1, <1>3, <1>5, <1>7 DEF TypeOK
<1>9. TypeOK'
  <2>1. num_blocks' \in 0..max_blocks
    BY <1>1, <1>3, AreaAssumption, BlockFacts DEF Accepted
  <2>2. block_map' \subseteq 1..num_blocks'
    BY <1>1, <1>3, <1>4 DEF Accepted, TypeOK
  <2>3. \A s \in 1..Len(Area) : flash'[s] \in [0..Area[s].size - 1 -> Content]
    BY <1>1, <1>8 DEF TypeOK
  <2>4. \A s \in 1..Len(Area) : erase_frontier'[s] \in 0..Area[s].size
    <3>1. to \in 0..Area[r].size
      BY <1>5, <1>6
    <3>2. \A s \in 1..Len(Area) : erase_frontier[s] \in 0..Area[s].size
      BY <1>1 DEF TypeOK
    <3>3. \A s \in 1..Len(Area) : s # r => erase_frontier'[s] = erase_frontier[s]
      BY <1>8
    <3>4. erase_frontier'[r] = to
      BY <1>8
    <3> QED
      BY <3>1, <3>2, <3>3, <3>4
  <2> QED
    BY <1>1, <1>4, <1>8, <2>1, <2>2, <2>3, <2>4 DEF TypeOK
<1>10. Fresh' /\ Counted'
  BY <1>1, <1>4 DEF FlashInv, Fresh, Counted
<1>11. BeyondFrontierKept'
  <2> SUFFICES ASSUME NEW s \in 1..Len(Area), NEW u \in 0..Area[s].size - 1,
                      u >= erase_frontier'[s]
               PROVE  flash'[s][u] = flash0[s][u]
    BY <1>4 DEF BeyondFrontierKept
  <2>1. CASE s # r
    <3>1. flash'[s] = flash[s] /\ erase_frontier'[s] = erase_frontier[s]
      BY <1>8, <2>1
    <3>2. u >= erase_frontier[s] => flash[s][u] = flash0[s][u]
      BY DEF FlashInv, BeyondFrontierKept
    <3> QED
      BY <3>1, <3>2
  <2>2. CASE s = r
    <3>1. erase_frontier'[r] = to /\ erase_frontier[r] \in Int /\ to \in Int /\ erase_frontier[r] <= to
      BY <1>5, <1>6, <1>8
    <3>2. u >= to /\ u \in 0..Area[r].size - 1
      BY <2>2, <3>1
    <3>3. u \notin erase_frontier[r]..to - 1 /\ u >= erase_frontier[r]
      BY <3>1, <3>2
    <3>4. flash'[r][u] = flash[r][u]
      BY <1>8, <3>2, <3>3
    <3>5. flash[r][u] = flash0[r][u]
      BY <1>5, <3>2, <3>3 DEF FlashInv, BeyondFrontierKept
    <3> QED
      BY <2>2, <3>4, <3>5
  <2> QED
    BY <2>1, <2>2
<1>12. \A s \in 1..Len(Area) : \A u \in 0..erase_frontier[s] - 1 : flash'[s][u] = flash[s][u]
  <2> SUFFICES ASSUME NEW u \in 0..erase_frontier[r] - 1 PROVE flash'[r][u] = flash[r][u]
    BY <1>8
  <2>1. u \in 0..Area[r].size - 1 /\ u \notin erase_frontier[r]..to - 1
    BY <1>5, <1>6
  <2> QED
    BY <1>8, <2>1
<1>13. ASSUME NEW f \in File, dropped' = {f} PROVE OneFile(f)'
  <2>1. OneFile(f) /\ copying = f
    BY <1>1, <1>4, <1>13 DEF FlashInv, Counted
  <2>2. \A l \in block_map : l \in 1..Len(Blocks[f])
    BY <1>1, <2>1, MarkedInFile
  <2>3. \A l \in block_map, s \in Region : Stored(f, l, s) => Stored(f, l, s)'
    <3> SUFFICES ASSUME NEW l \in block_map, NEW s \in Region, Stored(f, l, s)
                 PROVE  Stored(f, l, s)'
      OBVIOUS
    <3>1. s \in 1..Len(Area) /\ \A u \in Span(Blocks[f][l], s) : u \in 0..erase_frontier[s] - 1
      BY <1>1, <2>2, StoredSpan DEF Region
    <3>2. /\ erase_frontier[s] \in Int /\ erase_frontier'[s] \in Int
          /\ erase_frontier[s] <= erase_frontier'[s]
      BY <1>1, <1>5, <1>6, <1>8, <3>1 DEF TypeOK
    <3>3. \A u \in Span(Blocks[f][l], s) : flash'[s][u] = flash[s][u]
      BY <1>12, <3>1
    <3> QED
      BY <2>2, <3>2, <3>3, StoredKept
  <2>4. BelowFrontier(f)'
    <3> SUFFICES ASSUME NEW s \in Region, NEW u \in 0..erase_frontier'[s] - 1
                 PROVE  \/ flash'[s][u] = Erased
                        \/ \E l \in block_map : Stored(f, l, s)' /\ u \in Span(Blocks[f][l], s)
      BY <1>4 DEF BelowFrontier
    <3>1. CASE u \in 0..erase_frontier[s] - 1
      <4>1. \/ flash[s][u] = Erased
            \/ \E l \in block_map : Stored(f, l, s) /\ u \in Span(Blocks[f][l], s)
        BY <2>1, <3>1 DEF OneFile, BelowFrontier
      <4>2. flash'[s][u] = flash[s][u]
        BY <1>12, <3>1 DEF Region
      <4> QED
        BY <2>3, <4>1, <4>2
    <3>2. CASE u \notin 0..erase_frontier[s] - 1
      <4>1. s = r
        BY <1>8, <3>2 DEF Region
      <4> QED
        BY <1>5, <1>6, <1>8, <3>2, <4>1
    <3> QED
      BY <3>1, <3>2
  <2>5. num_blocks' \in {0, Len(Blocks[f])}
    BY <1>3, <2>1
  <2>6. /\ \A l \in block_map' : \E s \in written' : Stored(f, l, s)'
        /\ \A s \in written' : \E l \in block_map' : Stored(f, l, s)'
    <3>1. written \subseteq Region
      BY <1>1 DEF TypeOK
    <3> QED
      BY <1>4, <2>1, <2>3, <3>1 DEF OneFile
  <2> QED
    BY <1>1, <1>4, <2>1, <2>4, <2>5, <2>6 DEF OneFile
<1> QED
  BY <1>9, <1>10, <1>11, <1>13 DEF FlashInv

(* A block is stored: the frontier is raised over it, then it is programmed  *)
(* on erased flash.                                                          *)
LEMMA StoreFlash ==
    ASSUME FlashInv, NEW k \in BlockNo, Store(k)
    PROVE  FlashInv'
<1>1. /\ pc = "drive" /\ copying # None /\ k \in 1..Len(Blocks[copying])
      /\ copying \in File /\ TypeOK /\ k \notin block_map
  BY DEF FlashInv, TypeOK, Store, Sector, Duplicate
<1> DEFINE b == Blocks[copying][k]
           to(r) == Frontier(copying, k, r)
           erased(r) == flash_area_erase(flash[r], erase_frontier[r], to(r))
<1>2. PICK r \in Region :
          /\ Accepted(copying, k, r)
          /\ num_blocks' = Len(Blocks[copying])
          /\ erase_frontier' = [erase_frontier EXCEPT ![r] = to(r)]
          /\ flash' = [flash EXCEPT ![r] = uf2_flash_write(erased(r), copying, k, r)]
          /\ written' = written \cup {r}
          /\ block_map' = block_map \cup {k}
          /\ blocks_received' = blocks_received + 1
          /\ complete' = (complete \/ blocks_received' >= num_blocks')
  BY DEF Store, MarkWritten, Completes
<1>3. UNCHANGED <<pc, pending, copying, dropped, flash0, resets>>
  BY DEF Store, session
<1>4. /\ r \in 1..Len(Area) /\ erase_frontier[r] \in 0..Area[r].size /\ Area[r].size \in Nat
      /\ to(r) \in erase_frontier[r]..Area[r].size
      /\ flash[r] \in [0..Area[r].size - 1 -> Content]
      /\ uf2_route_block(b, r)
      /\ Offset(b, r) \in Nat /\ b.len \in Nat /\ b.len > 0
      /\ Offset(b, r) + b.len <= to(r)
  BY <1>1, <1>2, FrontierFacts
<1>5. /\ erased(r) \in [0..Area[r].size - 1 -> Content]
      /\ \A u \in 0..Area[r].size - 1 :
             erased(r)[u] = IF u \in erase_frontier[r]..to(r) - 1 THEN Erased ELSE flash[r][u]
  <2> HIDE DEF to
  <2> QED
    BY <1>4 DEF flash_area_erase, Content
<1> HIDE DEF to, erased
<1>6. /\ uf2_flash_write(erased(r), copying, k, r) \in [0..Area[r].size - 1 -> Content]
      /\ \A u \in 0..Area[r].size - 1 :
             uf2_flash_write(erased(r), copying, k, r)[u] =
                 IF u \notin Span(b, r) THEN erased(r)[u]
                 ELSE IF erased(r)[u] = Erased THEN Payload(copying, k, u - Offset(b, r))
                                               ELSE Mixed
  <2>1. \A u \in Span(b, r) : Payload(copying, k, u - Offset(b, r)) \in Content
    BY <1>1, <1>4, PayloadContent
  <2> QED
    BY <1>5, <2>1 DEF uf2_flash_write, Content
<1> HIDE DEF b
<1>7. /\ \A s \in 1..Len(Area) : s # r => flash'[s] = flash[s] /\ erase_frontier'[s] = erase_frontier[s]
      /\ erase_frontier'[r] = to(r)
      /\ DOMAIN flash' = 1..Len(Area) /\ DOMAIN erase_frontier' = 1..Len(Area)
      /\ flash'[r] = uf2_flash_write(erased(r), copying, k, r)
  BY <1>1, <1>2, <1>4 DEF TypeOK
<1>8. TypeOK'
  <2>1. num_blocks' \in 0..max_blocks
    BY <1>1, <1>2, AreaAssumption, BlockFacts DEF Accepted
  <2>2. block_map' \subseteq 1..num_blocks'
    <3>1. block_map \subseteq 1..num_blocks /\ num_blocks \in {0, Len(Blocks[copying])}
      BY <1>1, <1>2 DEF Accepted, TypeOK
    <3> QED
      BY <1>1, <1>2, <3>1
  <2>3. \A s \in 1..Len(Area) : flash'[s] \in [0..Area[s].size - 1 -> Content]
    BY <1>1, <1>6, <1>7 DEF TypeOK
  <2>4. \A s \in 1..Len(Area) : erase_frontier'[s] \in 0..Area[s].size
    <3>1. to(r) \in 0..Area[r].size
      BY <1>4
    <3>2. \A s \in 1..Len(Area) : erase_frontier[s] \in 0..Area[s].size
      BY <1>1 DEF TypeOK
    <3>3. /\ erase_frontier'[r] = to(r)
          /\ \A s \in 1..Len(Area) : s # r => erase_frontier'[s] = erase_frontier[s]
      BY <1>7
    <3> QED
      BY <3>1, <3>2, <3>3
  <2>5. blocks_received' \in Nat /\ complete' \in BOOLEAN /\ written' \subseteq Region
    <3>1. blocks_received \in Nat /\ complete \in BOOLEAN /\ written \subseteq Region
      BY <1>1 DEF TypeOK
    <3>2. written' = written \cup {r} /\ blocks_received' = blocks_received + 1
      BY <1>2
    <3>3. complete' = (complete \/ blocks_received' >= num_blocks')
      BY <1>2
    <3>4. complete' \in BOOLEAN
      BY <3>1, <3>3
    <3> QED
      BY <3>1, <3>2, <3>4
  <2> QED
    BY <1>1, <1>3, <1>7, <2>1, <2>2, <2>3, <2>4, <2>5 DEF TypeOK
<1>9. Fresh' /\ Counted'
  <2>1. IsFiniteSet(block_map) /\ blocks_received = Cardinality(block_map)
    BY DEF FlashInv, Counted
  <2>2. IsFiniteSet(block_map') /\ blocks_received' = Cardinality(block_map')
    BY <1>1, <1>2, <2>1, FS_AddElement
  <2> QED
    BY <1>1, <1>3, <2>2 DEF FlashInv, Fresh, Counted
<1>10. BeyondFrontierKept'
  <2> SUFFICES ASSUME NEW s \in 1..Len(Area), NEW u \in 0..Area[s].size - 1,
                      u >= erase_frontier'[s]
               PROVE  flash'[s][u] = flash0[s][u]
    BY <1>3 DEF BeyondFrontierKept
  <2>1. CASE s # r
    BY <1>7, <2>1 DEF FlashInv, BeyondFrontierKept
  <2>2. CASE s = r
    <3>1. u \notin Span(b, r) /\ u \notin erase_frontier[r]..to(r) - 1 /\ u >= erase_frontier[r]
      BY <1>4, <1>7, <2>2 DEF Span
    <3>2. flash'[r][u] = flash[r][u]
      BY <1>5, <1>6, <1>7, <2>2, <3>1
    <3> QED
      BY <2>2, <3>1, <3>2 DEF FlashInv, BeyondFrontierKept
  <2> QED
    BY <2>1, <2>2
<1>11. ASSUME NEW f \in File, dropped' = {f} PROVE OneFile(f)'
  <2>1. OneFile(f) /\ copying = f
    BY <1>1, <1>3, <1>11 DEF FlashInv, Counted
  <2>2. \A l \in block_map : l \in 1..Len(Blocks[f])
    BY <1>1, <2>1, MarkedInFile
  <2>3. ASSUME NEW l \in block_map, NEW s \in Region, Stored(f, l, s)
        PROVE  Stored(f, l, s)'
    <3>1. s \in 1..Len(Area) /\ \A u \in Span(Blocks[f][l], s) : u \in 0..erase_frontier[s] - 1
      BY <1>1, <2>2, <2>3, StoredSpan DEF Region
    <3>2. /\ erase_frontier[s] \in Int /\ erase_frontier'[s] \in Int
          /\ erase_frontier[s] <= erase_frontier'[s]
      BY <1>1, <1>4, <1>7, <3>1 DEF TypeOK
    <3>3. ASSUME NEW u \in Span(Blocks[f][l], s) PROVE flash'[s][u] = flash[s][u]
      <4>1. CASE s # r
        BY <1>7, <3>1, <4>1
      <4>2. CASE s = r
        <5>1. u \notin Span(b, r)
          <6>1. l # k /\ uf2_route_block(Blocks[f][l], r)
            BY <1>1, <2>3, <4>2 DEF Stored
          <6> QED
            BY <1>1, <1>4, <2>1, <2>2, <4>2, <6>1, <3>3, DisjointAssumption DEF b
        <5>2. u \in 0..Area[r].size - 1 /\ u \notin erase_frontier[r]..to(r) - 1
          BY <1>4, <3>1, <4>2
        <5> QED
          BY <1>5, <1>6, <1>7, <4>2, <5>1, <5>2
      <4> QED
        BY <4>1, <4>2
    <3> QED
      BY <2>2, <2>3, <3>2, <3>3, StoredKept
  <2>4. ASSUME NEW u \in Span(b, r) PROVE u \in 0..Area[r].size - 1 /\ erased(r)[u] = Erased
    <3>1. u \in 0..to(r) - 1 /\ u \in 0..Area[r].size - 1
      BY <1>4, <2>4 DEF Span
    <3>2. CASE u \in erase_frontier[r]..to(r) - 1
      BY <1>5, <3>1, <3>2
    <3>3. CASE u \notin erase_frontier[r]..to(r) - 1
      <4>1. u \in 0..erase_frontier[r] - 1
        BY <1>4, <3>1, <3>3
      <4>2. \A l \in block_map : ~(Stored(f, l, r) /\ u \in Span(Blocks[f][l], r))
        BY <1>1, <1>4, <2>1, <2>2, <2>4, DisjointAssumption DEF Stored, b
      <4>3. flash[r][u] = Erased
        BY <2>1, <4>1, <4>2 DEF OneFile, BelowFrontier
      <4> QED
        BY <1>5, <3>1, <3>3, <4>3
    <3> QED
      BY <3>2, <3>3
  <2>5. Stored(f, k, r)'
    <3>1. ASSUME NEW u \in Span(b, r) PROVE flash'[r][u] = Payload(f, k, u - Offset(b, r))
      BY <1>6, <1>7, <2>1, <2>4
    <3> QED
      BY <1>4, <1>7, <2>1, <3>1 DEF Stored, b
  <2>6. BelowFrontier(f)'
    <3> SUFFICES ASSUME NEW s \in Region, NEW u \in 0..erase_frontier'[s] - 1
                 PROVE  \/ flash'[s][u] = Erased
                        \/ \E l \in block_map' : Stored(f, l, s)' /\ u \in Span(Blocks[f][l], s)
      BY DEF BelowFrontier
    <3>1. CASE s = r /\ u \in Span(b, r)
      BY <1>2, <2>1, <2>5, <3>1 DEF b
    <3>2. CASE s = r /\ u \notin Span(b, r) /\ u \in erase_frontier[r]..to(r) - 1
      <4>1. u \in 0..Area[r].size - 1
        BY <1>4, <3>2
      <4> QED
        BY <1>5, <1>6, <1>7, <3>2, <4>1
    <3>3. CASE /\ u \in 0..erase_frontier[s] - 1
               /\ ~(s = r /\ u \in Span(b, r))
      <4>1. \/ flash[s][u] = Erased
            \/ \E l \in block_map : Stored(f, l, s) /\ u \in Span(Blocks[f][l], s)
        BY <2>1, <3>3 DEF OneFile, BelowFrontier
      <4>2. flash'[s][u] = flash[s][u]
        <5>1. CASE s # r
          BY <1>7, <5>1 DEF Region
        <5>2. CASE s = r
          <6>1. u \in 0..Area[r].size - 1 /\ u \notin erase_frontier[r]..to(r) - 1
            BY <1>4, <3>3, <5>2
          <6> QED
            BY <1>5, <1>6, <1>7, <3>3, <5>2, <6>1
        <5> QED
          BY <5>1, <5>2
      <4> QED
        BY <1>2, <2>3, <4>1, <4>2
    <3>4. s # r => erase_frontier'[s] = erase_frontier[s]
      BY <1>7 DEF Region
    <3>5. u \in Int /\ erase_frontier[r] \in Int /\ to(r) \in Int /\ erase_frontier'[r] = to(r)
      BY <1>4, <1>7
    <3>6. s = r => u \in 0..erase_frontier[r] - 1 \/ u \in erase_frontier[r]..to(r) - 1
      BY <3>5
    <3>7. CASE s # r
      BY <3>3, <3>4, <3>7
    <3>8. CASE s = r
      BY <3>1, <3>2, <3>3, <3>6, <3>8
    <3> QED
      BY <3>7, <3>8
  <2>7. /\ \A l \in block_map' : \E s \in written' : Stored(f, l, s)'
        /\ \A s \in written' : \E l \in block_map' : Stored(f, l, s)'
    <3>1. written \subseteq Region
      BY <1>1 DEF TypeOK
    <3> QED
      BY <1>2, <2>1, <2>3, <2>5, <3>1 DEF OneFile
  <2>8. complete' => block_map' = 1..Len(Blocks[f])
    <3> SUFFICES ASSUME complete' PROVE block_map' = 1..Len(Blocks[f])
      OBVIOUS
    <3>1. ~complete
      BY <1>1, <2>1 DEF OneFile
    <3>2. Len(Blocks[f]) \in Nat
      BY <1>1, <2>1, BlockFacts
    <3>3. Cardinality(block_map') >= Len(Blocks[f]) /\ IsFiniteSet(block_map')
      BY <1>2, <1>9, <2>1, <3>1 DEF Counted
    <3>4. block_map' \subseteq 1..Len(Blocks[f])
      BY <1>1, <1>2, <2>1, <2>2
    <3>5. IsFiniteSet(1..Len(Blocks[f])) /\ Cardinality(1..Len(Blocks[f])) = Len(Blocks[f])
      BY <3>2, FS_Interval
    <3>6. /\ Cardinality(block_map') <= Cardinality(1..Len(Blocks[f]))
          /\ Cardinality(block_map') = Cardinality(1..Len(Blocks[f])) =>
                 block_map' = 1..Len(Blocks[f])
      BY <3>4, <3>5, FS_Subset
    <3>7. Cardinality(block_map') \in Nat
      BY <3>3, FS_CardinalityType
    <3> QED
      BY <3>2, <3>3, <3>5, <3>6, <3>7
  <2>9. num_blocks' \in {0, Len(Blocks[f])} /\ pc' # "reboot"
    BY <1>1, <1>2, <1>3, <2>1
  <2> QED
    BY <2>6, <2>7, <2>8, <2>9 DEF OneFile
<1> QED
  BY <1>8, <1>9, <1>10, <1>11 DEF FlashInv

(* The end of the wait for a transfer.                                       *)
LEMMA PollFlash ==
    ASSUME FlashInv, Poll
    PROVE  FlashInv'
<1>1. /\ complete /\ pc' = "reboot" /\ pending' = (Slot0 \in written)
      /\ UNCHANGED <<flash, num_blocks, blocks_received, block_map, erase_frontier,
                     complete, written, copying, dropped, flash0, resets>>
  BY DEF Poll, state, session
<1>2. TypeOK' /\ Counted' /\ BeyondFrontierKept'
  BY <1>1 DEF FlashInv, TypeOK, Counted, BeyondFrontierKept
<1>3. Fresh'
  BY <1>1 DEF FlashInv, Fresh
<1>4. ASSUME NEW f \in File, dropped' = {f} PROVE OneFile(f)'
  <2>1. OneFile(f)
    BY <1>1, <1>4 DEF FlashInv
  <2> QED
    BY <1>1, <2>1 DEF OneFile, BelowFrontier, Stored
<1> QED
  BY <1>2, <1>3, <1>4 DEF FlashInv

(* The drive appears again.                                                  *)
LEMMA ResetFlash ==
    ASSUME FlashInv, Reset
    PROVE  FlashInv'
<1>1. TypeOK'
  <2>1. \A r \in 1..Len(Area) : erase_frontier'[r] \in 0..Area[r].size
    BY AreaFacts DEF Reset
  <2>2. resets' \in 0..MaxResets /\ num_blocks' \in 0..max_blocks /\ block_map' \subseteq 1..num_blocks'
    BY AreaAssumption DEF FlashInv, TypeOK, Reset
  <2> QED
    BY <2>1, <2>2 DEF FlashInv, TypeOK, Reset
<1>2. Fresh' /\ BeyondFrontierKept'
  BY DEF Reset, Fresh, BeyondFrontierKept
<1>3. Counted'
  BY FS_EmptySet DEF Reset, Counted
<1>4. \A f \in File : dropped' # {f}
  BY DEF Reset
<1> QED
  BY <1>1, <1>2, <1>3, <1>4 DEF FlashInv

(* The drive keeps its books: as long as one file is copied, a marked block  *)
(* is in flash, and all other flash below the frontiers is erased.           *)
THEOREM FlashInvariance == Spec => []FlashInv
<1>1. FlashInv /\ [Next]_vars => FlashInv'
  <2> SUFFICES ASSUME FlashInv, [Next]_vars PROVE FlashInv'
    OBVIOUS
  <2>1. ASSUME NEW f \in File, Drop(f) PROVE FlashInv'
    BY <2>1, DropFlash
  <2>2. ASSUME NEW k \in BlockNo, Store(k) PROVE FlashInv'
    BY <2>2, StoreFlash
  <2>3. ASSUME NEW k \in BlockNo, StoreFails(k) PROVE FlashInv'
    BY <2>3, StoreFailsFlash
  <2>4. CASE Poll
    BY <2>4, PollFlash
  <2>5. CASE Reset
    BY <2>5, ResetFlash
  <2>6. CASE UNCHANGED vars
    <3>1. UNCHANGED <<flash, num_blocks, blocks_received, block_map, erase_frontier, complete,
                      written, pc, pending, copying, dropped, flash0, resets>>
      BY <2>6 DEF vars, state, session
    <3>2. TypeOK' /\ Fresh' /\ Counted' /\ BeyondFrontierKept'
      BY <3>1 DEF FlashInv, TypeOK, Fresh, Counted, BeyondFrontierKept
    <3>3. ASSUME NEW f \in File, dropped' = {f} PROVE OneFile(f)'
      <4>1. OneFile(f)
        BY <3>1, <3>3 DEF FlashInv
      <4> QED
        BY <3>1, <4>1 DEF OneFile, BelowFrontier, Stored
    <3> QED
      BY <3>2, <3>3 DEF FlashInv
  <2> QED
    BY <2>1, <2>2, <2>3, <2>4, <2>5, <2>6 DEF Next, Refuse
<1> QED
  BY <1>1, InitFlash, PTL DEF Spec

(* erase_up_to: flash that no frontier has passed is as the drive found it.  *)
THEOREM OthersKept == Spec => []BeyondFrontierKept
<1>1. FlashInv => BeyondFrontierKept
  BY DEF FlashInv
<1> QED
  BY <1>1, FlashInvariance, PTL

(* uf2_process_block: a transfer of one file that is complete is the whole   *)
(* file, as it was sent.                                                     *)
THEOREM FileWritten == Spec => []WholeFileWritten
<1>1. FlashInv => WholeFileWritten
  <2> SUFFICES ASSUME FlashInv, NEW f \in File, complete, dropped = {f},
                      NEW k \in 1..Len(Blocks[f])
               PROVE  InFlash(f, k)
    BY DEF WholeFileWritten
  <2>1. OneFile(f) /\ written \subseteq Region
    BY DEF FlashInv, TypeOK
  <2>2. PICK r \in written : Stored(f, k, r)
    BY <2>1 DEF OneFile
  <2> QED
    BY <2>1, <2>2 DEF Stored, InFlash
<1> QED
  BY <1>1, FlashInvariance, PTL

(* uf2_flash_write: a transfer of one file programs no write block twice     *)
(* between two erases, although refused writes are tried again.              *)
THEOREM NeverTwice == Spec => []ProgrammedOnce
<1>1. FlashInv => ProgrammedOnce
  <2> SUFFICES ASSUME FlashInv, NEW f \in File, NEW r \in Region, NEW u \in 0..Area[r].size - 1,
                      dropped = {f}, flash[r][u] = Mixed
               PROVE  flash0[r][u] = Mixed
    BY DEF ProgrammedOnce
  <2>1. OneFile(f) /\ TypeOK /\ r \in 1..Len(Area)
    BY DEF FlashInv, Region
  <2>2. erase_frontier[r] \in 0..Area[r].size /\ Area[r].size \in Nat
    BY <2>1, AreaFacts DEF TypeOK
  <2>3. CASE u >= erase_frontier[r]
    BY <2>1, <2>3 DEF FlashInv, BeyondFrontierKept
  <2>4. CASE u \in 0..erase_frontier[r] - 1
    <3>1. Mixed # Erased /\ Mixed \notin File \X Nat \X Nat
      BY FileAssumption
    <3>2. PICK k \in block_map : Stored(f, k, r) /\ u \in Span(Blocks[f][k], r)
      BY <2>1, <2>4, <3>1 DEF OneFile, BelowFrontier
    <3>3. k \in 1..Len(Blocks[f])
      BY <2>1, <3>2, MarkedInFile
    <3>4. Offset(Blocks[f][k], r) \in Nat /\ Blocks[f][k].len \in Nat /\ k \in Nat
      BY <2>1, <3>2, <3>3, AreaFacts, BlockFacts
         DEF Stored, Offset, uf2_route_block, uf2_find_region, Contains
    <3>5. u - Offset(Blocks[f][k], r) \in Nat
      BY <3>2, <3>4 DEF Span
    <3>6. flash[r][u] \in File \X Nat \X Nat
      <4>1. flash[r][u] = <<f, k, u - Offset(Blocks[f][k], r)>>
        BY <3>2 DEF Stored, Payload
      <4> QED
        BY <3>4, <3>5, <4>1
    <3> QED
      BY <3>1, <3>6
  <2> QED
    BY <2>2, <2>3, <2>4
<1> QED
  BY <1>1, FlashInvariance, PTL

(* uf2_disk_primary_written: a transfer of one file is marked as an upgrade  *)
(* exactly when a block of that file is addressed to slot 0.                 *)
THEOREM MarkedRight == Spec => []MarkedIfAppWritten
<1>1. FlashInv => MarkedIfAppWritten
  <2> SUFFICES ASSUME FlashInv, pc = "reboot", NEW f \in File, dropped = {f}
               PROVE  pending <=> \E k \in 1..Len(Blocks[f]) :
                                      uf2_route_block(Blocks[f][k], Slot0)
    BY DEF MarkedIfAppWritten
  <2>1. OneFile(f) /\ written \subseteq Region
    BY DEF FlashInv, TypeOK
  <2>2. (pending <=> Slot0 \in written) /\ block_map = 1..Len(Blocks[f])
    BY <2>1 DEF OneFile
  <2>3. Slot0 \in written => \E k \in 1..Len(Blocks[f]) : uf2_route_block(Blocks[f][k], Slot0)
    BY <2>1, <2>2 DEF OneFile, Stored
  <2>4. ASSUME NEW k \in 1..Len(Blocks[f]), uf2_route_block(Blocks[f][k], Slot0)
        PROVE  Slot0 \in written
    <3>1. PICK r \in written : Stored(f, k, r)
      BY <2>1, <2>2 DEF OneFile
    <3>2. r = Slot0
      BY <2>1, <2>4, <3>1, RouteUnique, Slot0Added DEF Stored
    <3> QED
      BY <3>1, <3>2
  <2> QED
    BY <2>2, <2>3, <2>4
<1> QED
  BY <1>1, FlashInvariance, PTL
=============================================================================
