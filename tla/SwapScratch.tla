---------------------------- MODULE SwapScratch ----------------------------
(***************************************************************************)
(* Swap using scratch (boot_swap_sectors and swap_run in swap_scratch.c,   *)
(* swap_status_init in swap_misc.c): each region goes from the secondary   *)
(* slot to scratch, from the primary slot to the secondary one and from    *)
(* scratch to the primary slot.  The trailer that tells how far this got   *)
(* is in the primary slot, except that it is in scratch while the region   *)
(* that shares its sectors with the primary trailer is swapped.            *)
(*                                                                         *)
(* An area of flash is a record: d, the image data by unit; t, its trailer *)
(* (Trailer); n, the end of the first run of status entries; size, the     *)
(* swap_size field.  The status entries are at the start of the trailer,   *)
(* the other fields at its end.  An erase or a copy is one step, which a   *)
(* power failure may cut short after any sector or any unit.               *)
(***************************************************************************)
EXTENDS ScratchLayout, Trailer

CONSTANTS
    Layouts,    \* sector layouts
    Torn,       \* the content of a unit that holds no image data
    TearMagic   \* areas whose trailer magic a power loss may leave half-written

(* The two slots of a device that swaps have the same size (docs/design.md).*)
ASSUME LayoutAssumption ==
    \A l \in Layouts : AreaSize(l.PRI) = AreaSize(l.SEC) /\ l.scrTrailer <= l.trailer

ASSUME TearAssumption == TearMagic \subseteq {"PRI", "SEC", "SCR"}

VARIABLES
    lay,    \* the sector layout of the device, which never changes
    geo,    \* what the boot loader works out from it, every time it needs it
    flash,  \* [PRI |-> area, SEC |-> area, SCR |-> area]
    bs,     \* RAM: struct boot_status
    pc      \* the next write to flash

BOOT_STATUS_STATE_COUNT == 3

StatusReset == [idx |-> 1, state |-> 0, swap_size |-> 0, swap_type |-> "NONE"]

(* The region of an index, and whether its status is in scratch.            *)
RegionsOf(b) == geo.regions[b.swap_size]
RegionOf(b) == RegionsOf(b)[b.idx]
UsesScratch(b) == b.idx = 1 /\ RegionOf(b).copy # RegionOf(b).sz

Region == RegionOf(bs)
use_scratch == UsesScratch(bs)

(* The pc at which the loop of swap_run continues.                          *)
LoopPc(b) ==
    IF b.idx > Len(RegionsOf(b)) THEN "fin_ok"
    ELSE CASE b.state = 0 -> "s0_erase"
           [] b.state = 1 -> IF b.idx = 1 THEN "s1_scramble" ELSE "s1_erase"
           [] b.state = 2 -> IF UsesScratch(b) THEN "s2_scramble" ELSE "s2_erase"

----------------------------------------------------------------------------
(* Erasing takes whole sectors, and with the last one the trailer's fields, *)
(* with the first trailer sector the status entries.                        *)
TrailerSizeOf(area) == IF area = "SCR" THEN lay.scrTrailer ELSE lay.trailer

WithErased(area, sectors) ==
    LET sizes == lay[area]
        first == boot_get_first_trailer_sector(sizes, TrailerSizeOf(area))
        gone == Len(sizes) - 1 \in sectors
    IN [d |-> [u \in DOMAIN flash[area].d |->
                  IF \E k \in sectors : u \in SectorOff(sizes, k)..SectorEnd(sizes, k) - 1
                  THEN Torn ELSE flash[area].d[u]],
        t |-> IF gone THEN ErasedTrailer ELSE flash[area].t,
        n |-> IF first \in sectors THEN 0 ELSE flash[area].n,
        size |-> IF gone THEN 0 ELSE flash[area].size]

PowerFails == pc' = "reset" /\ bs' = StatusReset

(* boot_erase_region and boot_scramble_region on [off, off + sz).           *)
Erase(area, off, sz, backwards, next) ==
    LET sectors == SectorsIn(lay[area], off, sz)
        Done(k) == {s \in sectors : IF backwards THEN s >= k ELSE s <= k}
    IN \/ /\ flash' = [flash EXCEPT ![area] = WithErased(area, sectors)]
          /\ pc' = next /\ UNCHANGED bs
       \/ \E k \in sectors :
             /\ Done(k) # sectors
             /\ flash' = [flash EXCEPT ![area] = WithErased(area, Done(k))]
             /\ PowerFails

(* swap_scramble_trailer_sectors: from the end of the area.                 *)
ScrambleTrailer(area, next) ==
    LET off == geo.trailerOff[area]
    IN Erase(area, off, geo.size[area] - off, TRUE, next)

EraseScratch(backwards, next) == Erase("SCR", 0, geo.size.SCR, backwards, next)

(* boot_copy_region.                                                        *)
Copy(from, to, foff, toff, n, next) ==
    \E m \in 1..n :
        /\ flash' = [flash EXCEPT ![to].d =
               [u \in DOMAIN flash[to].d |->
                   IF u \in toff..toff + m - 1 THEN flash[from].d[u - toff + foff] ELSE flash[to].d[u]]]
        /\ IF m = n THEN pc' = next /\ UNCHANGED bs ELSE PowerFails

Write(area, content, next) ==
    /\ flash' = [flash EXCEPT ![area] = content]
    /\ pc' = next /\ UNCHANGED bs

(* boot_write_magic, or half of it when the power fails.                    *)
WriteMagic(area, next) ==
    \/ Write(area, [flash[area] EXCEPT !.t = boot_write_magic(@)], next)
    \/ /\ area \in TearMagic
       /\ flash' = [flash EXCEPT ![area].t.magic = "BAD"]
       /\ PowerFails

(* swap_status_init up to the magic: swap_info, image_ok as in the          *)
(* secondary slot, swap_size.  Nothing looks at them without the magic.     *)
StatusInit(area, next) ==
    Write(area,
          [flash[area] EXCEPT
              !.t = [boot_write_swap_info(@, bs.swap_type) EXCEPT
                        !.image_ok = IF flash.SEC.t.image_ok = "SET" THEN "SET" ELSE @],
              !.size = bs.swap_size],
          next)

(* boot_write_status, and the state that follows.                           *)
WriteStatus(area, after) ==
    /\ flash' = [flash EXCEPT ![area].n = BOOT_STATUS_STATE_COUNT * (bs.idx - 1) + bs.state + 1]
    /\ bs' = after

----------------------------------------------------------------------------
(* boot_swap_sectors, BOOT_STATUS_STATE_0: secondary slot to scratch.       *)
S0Erase == pc = "s0_erase" /\ EraseScratch(FALSE, IF bs.idx = 1 THEN "s0_init" ELSE "s0_copy")

S0Init == pc = "s0_init" /\ StatusInit("SCR", "s0_magic")
S0Magic == pc = "s0_magic" /\ WriteMagic("SCR", IF use_scratch THEN "s0_copy" ELSE "s0_scramble")

S0Scramble == pc = "s0_scramble" /\ ScrambleTrailer("PRI", "s0_pinit")
S0PriInit == pc = "s0_pinit" /\ StatusInit("PRI", "s0_pmagic")
S0PriMagic == pc = "s0_pmagic" /\ WriteMagic("PRI", "s0_unscratch")
S0EraseAgain == pc = "s0_unscratch" /\ EraseScratch(FALSE, "s0_copy")

S0Copy == pc = "s0_copy" /\ Copy("SEC", "SCR", Region.off, 0, Region.copy, "s0_status")

(* Variant: the first region's status goes to the primary slot as well.     *)
StatusAlwaysInPrimary ==
    /\ pc = "s0_status"
    /\ WriteStatus("PRI", [bs EXCEPT !.state = 1])
    /\ pc' = LoopPc(bs')

S0Status ==
    /\ pc = "s0_status"
    /\ WriteStatus(IF use_scratch THEN "SCR" ELSE "PRI", [bs EXCEPT !.state = 1])
    /\ pc' = LoopPc(bs')

----------------------------------------------------------------------------
(* BOOT_STATUS_STATE_1: primary slot to secondary slot.                     *)
S1Scramble == pc = "s1_scramble" /\ ScrambleTrailer("SEC", "s1_erase")

(* What is left of the region below the sectors scrambled already.          *)
EraseSize(area) == IF use_scratch THEN geo.trailerOff[area] - Region.off ELSE Region.sz

(* A negative size wraps around, the erase fails and an assertion halts.    *)
EraseRegion(area, next) ==
    \/ EraseSize(area) > 0 /\ Erase(area, Region.off, EraseSize(area), FALSE, next)
    \/ EraseSize(area) = 0 /\ pc' = next /\ UNCHANGED <<flash, bs>>
    \/ EraseSize(area) < 0 /\ pc' = "no_boot" /\ UNCHANGED <<flash, bs>>

S1Erase == pc = "s1_erase" /\ EraseRegion("SEC", "s1_copy")
S1Copy ==
    pc = "s1_copy" /\ Copy("PRI", "SEC", Region.off, Region.off, Region.copy, "s1_status")

S1Status ==
    /\ pc = "s1_status"
    /\ WriteStatus(IF use_scratch THEN "SCR" ELSE "PRI", [bs EXCEPT !.state = 2])
    /\ pc' = LoopPc(bs')

----------------------------------------------------------------------------
(* BOOT_STATUS_STATE_2: scratch to primary slot.                            *)
S2Scramble == pc = "s2_scramble" /\ ScrambleTrailer("PRI", "s2_erase")
S2Erase == pc = "s2_erase" /\ EraseRegion("PRI", "s2_copy")
S2Copy ==
    /\ pc = "s2_copy"
    /\ Copy("SCR", "PRI", 0, Region.off, Region.copy,
            IF use_scratch THEN "s2_trailer" ELSE "s2_status")

(* The trailer moves from scratch to the primary slot: two status entries,  *)
(* which go behind the data copied and so miss the status area where the    *)
(* copy was shortened, image_ok, swap_info and swap_size, then the magic.   *)
S2Trailer ==
    /\ pc = "s2_trailer"
    /\ Write("PRI",
             [flash.PRI EXCEPT
                 !.n = IF Region.off + Region.copy = geo.size.PRI - lay.trailer
                       THEN BOOT_STATUS_STATE_COUNT - 1 ELSE @,
                 !.t = [@ EXCEPT
                     !.image_ok = IF flash.SCR.t.image_ok = "SET" THEN "SET" ELSE @,
                     !.swap_info = flash.SCR.t.swap_info],
                 !.size = bs.swap_size],
             "s2_magic")

S2Magic == pc = "s2_magic" /\ WriteMagic("PRI", "s2_status")

(* Variant: the status never moves on to the next region.                   *)
RegionRepeated ==
    /\ pc = "s2_status"
    /\ WriteStatus("PRI", [bs EXCEPT !.state = 0])
    /\ pc' = IF use_scratch THEN "s2_unscratch" ELSE LoopPc(bs')

(* use_scratch is cleared before the last status entry is written.          *)
S2Status ==
    /\ pc = "s2_status"
    /\ WriteStatus("PRI", [bs EXCEPT !.idx = @ + 1, !.state = 0])
    /\ pc' = IF use_scratch THEN "s2_unscratch" ELSE LoopPc(bs')

(* Variant: the scratch area is erased from its start.                      *)
ScratchErasedForwards == pc = "s2_unscratch" /\ EraseScratch(FALSE, LoopPc(bs))

S2EraseScratch == pc = "s2_unscratch" /\ EraseScratch(TRUE, LoopPc(bs))

SwapStep ==
    \/ S0Erase \/ S0Init \/ S0Magic \/ S0Scramble \/ S0PriInit \/ S0PriMagic
    \/ S0EraseAgain \/ S0Copy \/ S0Status
    \/ S1Scramble \/ S1Erase \/ S1Copy \/ S1Status
    \/ S2Scramble \/ S2Erase \/ S2Copy \/ S2Trailer \/ S2Magic \/ S2Status
    \/ S2EraseScratch
=============================================================================
