--------------------------- MODULE ScratchLayout ---------------------------
(***************************************************************************)
(* The arithmetic of swap using scratch on sector sizes (swap_scratch.c):  *)
(* which slots can be swapped at all, the largest image they take, and the *)
(* regions an image is swapped in.  A layout is a record                   *)
(*   PRI, SEC, SCR : the sector sizes of the two slots and of scratch,     *)
(*   trailer       : the size of a slot's trailer,                         *)
(*   scrTrailer    : the size of the trailer kept in scratch,              *)
(* all in one unit, such as the write size.  Sectors are numbered from 0.  *)
(***************************************************************************)
EXTENDS Integers, Sequences

(* boot_img_sector_off, and with k = Len(sizes) the size of the area.       *)
SectorOff(sizes, k) ==
    LET off[j \in 0..k] == IF j = 0 THEN 0 ELSE off[j - 1] + sizes[j] IN off[k]
AreaSize(sizes) == SectorOff(sizes, Len(sizes))
SectorEnd(sizes, k) == SectorOff(sizes, k + 1)
Sectors(sizes) == 0..Len(sizes) - 1

(* The sectors an erase of [off, off + sz) takes, whole as sectors are.     *)
SectorsIn(sizes, off, sz) ==
    {k \in Sectors(sizes) : SectorOff(sizes, k) < off + sz /\ SectorEnd(sizes, k) > off}

SmallerOf(a, b) == IF a < b THEN a ELSE b
LargerOf(a, b) == IF a > b THEN a ELSE b
LeastOf(S) == CHOOSE x \in S : \A y \in S : x <= y

(* The offsets at which a sector ends in both slots.                        *)
CommonEnds(lay) ==
    {SectorEnd(lay.PRI, k) : k \in Sectors(lay.PRI)} \cap {SectorEnd(lay.SEC, k) : k \in Sectors(lay.SEC)}

(* The scan of boot_slots_compatible and app_max_size grows the smaller     *)
(* side until the two meet.  Each stretch it gathers has to fit into        *)
(* scratch, and one of its sides has to be a single sector.                 *)
boot_slots_compatible(lay) ==
    /\ AreaSize(lay.PRI) = AreaSize(lay.SEC)
    /\ \A e \in CommonEnds(lay) :
          LET from == CHOOSE b \in CommonEnds(lay) \cup {0} :
                          b < e /\ \A c \in CommonEnds(lay) : c < e => c <= b
              Single(sizes) == \E k \in Sectors(sizes) : SectorOff(sizes, k) = from /\ SectorEnd(sizes, k) = e
          IN e - from <= AreaSize(lay.SCR) /\ (Single(lay.PRI) \/ Single(lay.SEC))

(* The first sector that holds trailer data.                                *)
boot_get_first_trailer_sector(sizes, trailer) ==
    CHOOSE k \in Sectors(sizes) :
        /\ SectorOff(sizes, k) <= AreaSize(sizes) - trailer
        /\ SectorEnd(sizes, k) > AreaSize(sizes) - trailer

FirstTrailerSector(lay, slot) == boot_get_first_trailer_sector(lay[slot], lay.trailer)
FirstTrailerOff(lay, slot) == SectorOff(lay[slot], FirstTrailerSector(lay, slot))

(* app_max_size with app_max_size_adjust_to_trailer: what is left below the *)
(* trailer, and below where the trailer in scratch will be.                 *)
app_max_size(lay) ==
    LET slot_trailer_off == AreaSize(lay.PRI) - lay.trailer
        end_off == LargerOf(SectorEnd(lay.PRI, FirstTrailerSector(lay, "PRI")),
                            SectorEnd(lay.SEC, FirstTrailerSector(lay, "SEC")))
        in_first_sector == end_off - slot_trailer_off
    IN slot_trailer_off - LargerOf(0, lay.scrTrailer - in_first_sector)

(* find_last_sector_idx: both slots grow until they hold copy_size and end  *)
(* on a common boundary.                                                    *)
find_last_sector_idx(lay, copy_size) ==
    LET end == LeastOf({e \in CommonEnds(lay) \cup {0} : e >= copy_size})
    IN CHOOSE k \in -1..Len(lay.PRI) - 1 : SectorEnd(lay.PRI, k) = end

(* boot_copy_sz: the first sector of the region that ends with sector last, *)
(* as many as scratch takes.                                                *)
boot_copy_first(lay, last) ==
    LeastOf({i \in 0..last : SectorEnd(lay.PRI, last) - SectorOff(lay.PRI, i) <= AreaSize(lay.SCR)})

(* How much of a region boot_swap_sectors copies: less than all of it where *)
(* the region reaches into the trailer.                                     *)
CopySize(lay, off, sz) ==
    IF off + sz > FirstTrailerOff(lay, "PRI")
    THEN SmallerOf(AreaSize(lay.PRI) - off - lay.trailer, AreaSize(lay.SCR) - lay.scrTrailer)
    ELSE sz

(* The regions swap_run goes through, from the end of the slot to its       *)
(* start; find_swap_count is their number.                                  *)
Regions(lay, copy_size) ==
    LET UpTo[last \in -1..Len(lay.PRI) - 1] ==
            IF last < 0 THEN << >>
            ELSE LET first == boot_copy_first(lay, last)
                     off == SectorOff(lay.PRI, first)
                     sz == SectorEnd(lay.PRI, last) - off
                 IN <<[off |-> off, sz |-> sz, copy |-> CopySize(lay, off, sz)]>> \o UpTo[first - 1]
    IN UpTo[find_last_sector_idx(lay, copy_size)]

(* Whether every region begins where a sector of the secondary slot does,   *)
(* which boot_copy_sz does not check.                                       *)
RegionsAligned(lay) ==
    \A s \in 1..app_max_size(lay) : \A r \in 1..Len(Regions(lay, s)) :
        \E k \in Sectors(lay.SEC) : SectorOff(lay.SEC, k) = Regions(lay, s)[r].off

(* All that the boot loader works out from a layout.                        *)
Geometry(lay) ==
    [max |-> app_max_size(lay),
     regions |-> [s \in 1..app_max_size(lay) |-> Regions(lay, s)],
     size |-> [PRI |-> AreaSize(lay.PRI), SEC |-> AreaSize(lay.SEC), SCR |-> AreaSize(lay.SCR)],
     trailerOff |-> [PRI |-> FirstTrailerOff(lay, "PRI"), SEC |-> FirstTrailerOff(lay, "SEC")]]
=============================================================================
