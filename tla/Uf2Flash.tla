------------------------------ MODULE Uf2Flash ------------------------------
(***************************************************************************)
(* The UF2 drive of the update mode: the table of writable partitions      *)
(* (boot/zephyr/uf2_disk.c), the block processor behind the virtual FAT    *)
(* volume (boot/boot_uf2/src/boot_uf2.c, ghostfat.c) and the loop of       *)
(* boot_uf2_enter (boot/zephyr/main.c) that waits for a complete transfer. *)
(*                                                                         *)
(* The host writes the sectors of a file in any order, repeats them,       *)
(* abandons one file and copies another; the flash driver may refuse an    *)
(* erase or a write; power may be lost between two sectors.                *)
(*                                                                         *)
(* Flash is counted in write blocks of the device.  The payload of a UF2   *)
(* block fills len of them; when it is shorter (exact is FALSE) the write  *)
(* callback pads the last one.                                             *)
(***************************************************************************)
EXTENDS Integers, Sequences, FiniteSets

CONSTANTS
    Area,        \* partitions offered to uf2_disk_add_region, in order:
                 \*   dev (flash device), off, size; the first is slot 0
    erase_size,  \* cfg->erase_size
    max_blocks,  \* CONFIG_MCUBOOT_UF2_MAX_BLOCKS
    File,        \* the UF2 files a host may copy
    Blocks,      \* Blocks[f]: the sequence of blocks of file f
    NoTag,       \* tag of a block without a partition-name tag
    None,        \* no file is being copied
    Erased,      \* content of an erased write block
    Mixed,       \* content of a write block programmed twice
    Old,         \* content left by earlier firmware
    MaxFiles,    \* bound on the files dropped between two resets
    MaxResets    \* bound on the resets of a behaviour

Slot0 == 1

(* Only the flash device of slot 0 is reachable by address.                 *)
address_routed(i) == Area[i].dev = Area[Slot0].dev

Overlap(i, j) ==
    /\ Area[i].off < Area[j].off + Area[j].size
    /\ Area[j].off < Area[i].off + Area[i].size

(* uf2_disk_add_region refuses an area that overlaps an earlier region when *)
(* both are reachable by address.                                           *)
uf2_disk_add_region[i \in 1..Len(Area)] ==
    \A j \in 1..i - 1 :
        (address_routed(i) /\ address_routed(j) /\ uf2_disk_add_region[j])
            => ~Overlap(i, j)

(* The region table; a region has the index of its area, and its label.     *)
Region == {i \in 1..Len(Area) : uf2_disk_add_region[i]}

Contains(r, addr) ==
    Area[r].off <= addr /\ addr < Area[r].off + Area[r].size

Block == [addr : Nat, len : Nat \ {0}, exact : BOOLEAN, mine : BOOLEAN,
          tag : (1..Len(Area)) \cup {NoTag}]

Offset(b, r) == b.addr - Area[r].off

(* The write blocks of region r that block b fills.                         *)
Span(b, r) == Offset(b, r)..Offset(b, r) + b.len - 1

Payload(f, k, j) == <<f, k, j>>

Content ==
    {Erased, Mixed, Old} \cup (File \X Nat \X Nat)

ASSUME AreaAssumption ==
    /\ Area \in Seq([dev : Nat, off : Nat, size : Nat \ {0}])
    /\ Len(Area) > 0
    /\ erase_size \in Nat \ {0}
    /\ max_blocks \in Nat
    /\ MaxFiles \in Nat /\ MaxResets \in Nat

ASSUME FileAssumption ==
    /\ Blocks \in [File -> Seq(Block)]
    /\ \A f \in File : Len(Blocks[f]) > 0
    /\ None \notin File
    /\ NoTag \notin 1..Len(Area)
    /\ \A v \in {Erased, Mixed, Old} : v \notin File \X Nat \X Nat
    /\ Mixed # Erased

VARIABLES
    flash,           \* flash[r][u]: content of write block u of partition r
    num_blocks,      \* struct uf2_state: blocks of the transfer, 0 at first
    blocks_received, \*   how many were stored
    block_map,       \*   which ones
    erase_frontier,  \*   per region, erased up to here
    complete,        \*   every block was stored
    written,         \* regions with bytes_written > 0
    pc,              \* "drive" while waiting, "reboot" when it is over
    pending,         \* boot_set_pending(0) was called at the end
    copying,         \* the file the host is copying
    dropped,         \* the files copied since the drive appeared (ghost)
    flash0,          \* flash when the drive appeared (ghost)
    resets           \* times the drive went away and came back

state == <<num_blocks, blocks_received, block_map, erase_frontier, complete>>
session == <<copying, dropped, flash0, resets>>
vars == <<flash, state, written, pc, pending, session>>

(* Variants of the operators below, with a fault each.                      *)
LastSectorLeftOut(b, r) ==
    LET end == Offset(b, r) + (IF b.exact THEN b.len ELSE b.len - 1)
        up == (end \div erase_size) * erase_size
    IN  IF up > Area[r].size THEN Area[r].size ELSE up

CompleteOneEarly(n, total) == n + 1 >= total

CompleteOneLate(n, total) == n > total

LastWriterOnly(r, w) == {r}

NothingIsDuplicate(k) == FALSE

(* uf2_find_region: the first region reachable by address holding addr.     *)
uf2_find_region(addr, r) ==
    /\ address_routed(r) /\ Contains(r, addr)
    /\ \A i \in Region :
           i < r => ~(address_routed(i) /\ Contains(i, addr))

(* A tag names the region, which must also hold the address.                *)
uf2_route_block(b, r) ==
    IF b.tag # NoTag THEN r = b.tag /\ Contains(r, b.addr)
                     ELSE uf2_find_region(b.addr, r)

(* A generator never gives two blocks of a file the same piece of flash.    *)
ASSUME DisjointAssumption ==
    \A f \in File : \A k, l \in 1..Len(Blocks[f]) : \A r \in Region :
        (k # l /\ uf2_route_block(Blocks[f][k], r) /\ uf2_route_block(Blocks[f][l], r))
            => Span(Blocks[f][k], r) \cap Span(Blocks[f][l], r) = {}

(* The checks of uf2_process_block before it changes anything.  A block of  *)
(* another family or board is ignored, any other failure is an error to the *)
(* host; neither leaves a trace.                                            *)
Accepted(f, k, r) ==
    LET b == Blocks[f][k]
    IN  /\ b.mine
        /\ Len(Blocks[f]) <= max_blocks
        /\ uf2_route_block(b, r)
        /\ Offset(b, r) + b.len <= Area[r].size
        /\ num_blocks \in {0, Len(Blocks[f])}

(* How far erase_up_to erases for a block: past the sector that holds the   *)
(* first byte after the payload, but not past the region.                   *)
erase_end(b, r) ==
    LET end == Offset(b, r) + (IF b.exact THEN b.len ELSE b.len - 1)
        up == (end \div erase_size + 1) * erase_size
    IN  IF up > Area[r].size THEN Area[r].size ELSE up

flash_area_erase(content, from, to) ==
    [u \in DOMAIN content |->
        IF u \in from..to - 1 THEN Erased ELSE content[u]]

uf2_flash_write(content, f, k, r) ==
    LET b == Blocks[f][k]
    IN  [u \in DOMAIN content |->
            IF u \notin Span(b, r) THEN content[u]
            ELSE IF content[u] = Erased
                 THEN Payload(f, k, u - Offset(b, r))
                 ELSE Mixed]

(* Where the frontier of region r is once block k is under it.              *)
Frontier(f, k, r) ==
    LET to == erase_end(Blocks[f][k], r)
    IN  IF erase_frontier[r] < to THEN to ELSE erase_frontier[r]

Duplicate(k) == k \in block_map

Completes(n, total) == n >= total

MarkWritten(r, w) == w \cup {r}

-----------------------------------------------------------------------------

Init ==
    /\ flash = [r \in 1..Len(Area) |-> [u \in 0..Area[r].size - 1 |-> Old]]
    /\ num_blocks = 0 /\ blocks_received = 0 /\ block_map = {}
    /\ erase_frontier = [r \in 1..Len(Area) |-> 0]
    /\ complete = FALSE
    /\ written = {}
    /\ pc = "drive"
    /\ copying = None /\ dropped = {}
    /\ flash0 = flash
    /\ pending = FALSE
    /\ resets = 0

(* The user drops a file on the drive; an unfinished copy is abandoned.     *)
Drop(f) ==
    /\ pc = "drive"
    /\ Cardinality(dropped \cup {f}) <= MaxFiles
    /\ copying' = f
    /\ dropped' = dropped \cup {f}
    /\ UNCHANGED <<flash, state, written, pc, pending, flash0, resets>>

(* The host writes the sector that holds block k of the file.  Sectors      *)
(* below the data area and other files never reach the block processor.     *)
Sector(k) ==
    /\ pc = "drive" /\ copying # None
    /\ k \in 1..Len(Blocks[copying])

(* Block k of the file goes through uf2_process_block: nothing happens to a *)
(* block that is not accepted or was stored before.                         *)
Refuse(k) ==
    /\ Sector(k)
    /\ \A r \in Region : ~Accepted(copying, k, r) \/ Duplicate(k)
    /\ UNCHANGED vars

(* The block is stored: the region is erased as far as the block needs, the *)
(* payload is written, the block is marked and counted.                     *)
Store(k) ==
    /\ Sector(k)
    /\ ~Duplicate(k)
    /\ \E r \in Region :
        LET b == Blocks[copying][k]
            erased == flash_area_erase(flash[r], erase_frontier[r],
                                       Frontier(copying, k, r))
        IN
        /\ Accepted(copying, k, r)
        /\ num_blocks' = Len(Blocks[copying])
        /\ erase_frontier' = [erase_frontier EXCEPT ![r] = Frontier(copying, k, r)]
        /\ flash' = [flash EXCEPT ![r] = uf2_flash_write(erased, copying, k, r)]
        /\ written' = MarkWritten(r, written)
        /\ block_map' = block_map \cup {k}
        /\ blocks_received' = blocks_received + 1
        /\ complete' = (complete \/ Completes(blocks_received', num_blocks'))
    /\ UNCHANGED <<pc, pending, session>>

(* The driver refuses an erase, with the frontier left where the previous   *)
(* one got to, or refuses the write.  The block is not marked.              *)
StoreFails(k) ==
    /\ Sector(k)
    /\ ~Duplicate(k)
    /\ \E r \in Region : \E to \in erase_frontier[r]..Frontier(copying, k, r) :
        /\ Accepted(copying, k, r)
        /\ \/ to = Frontier(copying, k, r)
           \/ (to - erase_frontier[r]) % erase_size = 0
        /\ num_blocks' = Len(Blocks[copying])
        /\ erase_frontier' = [erase_frontier EXCEPT ![r] = to]
        /\ flash' = [flash EXCEPT ![r] =
                        flash_area_erase(flash[r], erase_frontier[r], to)]
    /\ UNCHANGED <<blocks_received, block_map, complete, written, pc, pending,
                   session>>

(* The polling loop sees the complete transfer; only one that wrote slot 0  *)
(* is marked as an upgrade.  The system is rebooted.                        *)
Poll ==
    /\ pc = "drive" /\ complete
    /\ pc' = "reboot"
    /\ pending' = (Slot0 \in written)
    /\ UNCHANGED <<flash, state, written, session>>

(* The drive appears again, after the reboot or after a power failure.      *)
Reset ==
    /\ resets < MaxResets
    /\ resets' = resets + 1
    /\ num_blocks' = 0 /\ blocks_received' = 0 /\ block_map' = {}
    /\ erase_frontier' = [r \in 1..Len(Area) |-> 0]
    /\ complete' = FALSE
    /\ written' = {}
    /\ pc' = "drive"
    /\ copying' = None /\ dropped' = {}
    /\ flash0' = flash
    /\ UNCHANGED <<flash, pending>>

BlockNo == UNION {1..Len(Blocks[f]) : f \in File}

Next ==
    \/ \E f \in File : Drop(f)
    \/ \E k \in BlockNo : Refuse(k) \/ Store(k) \/ StoreFails(k)
    \/ Poll
    \/ Reset

Spec == Init /\ [][Next]_vars

(* The host repeats a sector until the drive takes it; the polling loop     *)
(* runs.                                                                    *)
Fairness == WF_vars(Poll) /\ \A k \in BlockNo : WF_vars(Store(k))

FairSpec == Spec /\ Fairness

-----------------------------------------------------------------------------

(* Every variable has its type: in particular a frontier stays within its   *)
(* region, and only blocks of the transfer are marked.                      *)
TypeOK ==
    /\ DOMAIN flash = 1..Len(Area)
    /\ \A r \in 1..Len(Area) : flash[r] \in [0..Area[r].size - 1 -> Content]
    /\ num_blocks \in 0..max_blocks
    /\ block_map \subseteq 1..num_blocks
    /\ blocks_received \in Nat
    /\ DOMAIN erase_frontier = 1..Len(Area)
    /\ \A r \in 1..Len(Area) : erase_frontier[r] \in 0..Area[r].size
    /\ complete \in BOOLEAN /\ pending \in BOOLEAN
    /\ written \subseteq Region
    /\ pc \in {"drive", "reboot"}
    /\ copying \in File \cup {None}
    /\ dropped \subseteq File
    /\ DOMAIN flash0 = 1..Len(Area)
    /\ resets \in 0..MaxResets

(* Block k of file f is in the flash of the region it is addressed to.      *)
InFlash(f, k) ==
    \E r \in Region :
        /\ uf2_route_block(Blocks[f][k], r)
        /\ \A u \in Span(Blocks[f][k], r) :
               flash[r][u] = Payload(f, k, u - Offset(Blocks[f][k], r))

(* uf2_process_block: when the transfer is complete and only one file was   *)
(* dropped, each of its blocks is in flash as it was sent, whatever the     *)
(* order of the sectors, however often they were repeated, and whichever    *)
(* erase or write the driver refused on the way.                            *)
WholeFileWritten ==
    \A f \in File :
        (complete /\ dropped = {f}) =>
            \A k \in 1..Len(Blocks[f]) : InFlash(f, k)

(* erase_up_to: flash that the frontier of its region has not passed is as  *)
(* it was when the drive appeared, so a transfer for one partition leaves   *)
(* every other one alone.                                                   *)
BeyondFrontierKept ==
    \A r \in 1..Len(Area) : \A u \in 0..Area[r].size - 1 :
        u >= erase_frontier[r] => flash[r][u] = flash0[r][u]

(* uf2_disk_primary_written: a transfer of one file is marked as an upgrade *)
(* exactly when a block of that file is addressed to slot 0.                *)
MarkedIfAppWritten ==
    (pc = "reboot") =>
        \A f \in File :
            dropped = {f} =>
                (pending <=> \E k \in 1..Len(Blocks[f]) :
                                uf2_route_block(Blocks[f][k], Slot0))

(* A write block is programmed once between two erases as long as one file  *)
(* is copied, although a write that was refused is tried again: the erase   *)
(* frontier is always ahead of the writes and no stored block is repeated.  *)
ProgrammedOnce ==
    \A f \in File : \A r \in Region : \A u \in 0..Area[r].size - 1 :
        (dropped = {f} /\ flash[r][u] = Mixed) => flash0[r][u] = Mixed

(* uf2_is_complete becomes true: a host that copies one acceptable file     *)
(* and repeats what was refused does not wait for the reboot for ever.      *)
Acceptable(f) ==
    /\ Len(Blocks[f]) <= max_blocks
    /\ \A k \in 1..Len(Blocks[f]) :
          /\ Blocks[f][k].mine
          /\ \E r \in Region :
                /\ uf2_route_block(Blocks[f][k], r)
                /\ Offset(Blocks[f][k], r) + Blocks[f][k].len <= Area[r].size

CopyCompletes ==
    \A f \in File :
        Acceptable(f) =>
            []<>~(copying = f /\ dropped = {f} /\ pc = "drive")

(* docs/uf2.md: "Once all UF2 blocks have been received, MCUboot reboots    *)
(* the device to run the new firmware": what is in flash then is a file.    *)
(* It does not hold when a copy was abandoned for another file with as many *)
(* blocks.                                                                  *)
CompleteIsOneFile ==
    complete =>
        \E f \in dropped : \A k \in 1..Len(Blocks[f]) : InFlash(f, k)
=============================================================================
