# adaboot in TLA+

adaboot is Adafruit's fork of MCUboot: a boot loader that keeps firmware in
flash slots, upgrades it by exchanging slots in a way that survives a power
failure at any instant, and adds a USB drive (UF2), a serial recovery mode and
a set of ways to enter them. This directory holds TLA+ models of that code, the
TLC runs that check them on small instances, and TLAPS proofs of most of their
safety properties for every size, number and content. `PROJECT.json` lists, machine-readably, every
component, run, property, mutant, hazard, finding and theorem, and the source
lines each definition stands for.

Run a model with `tlc -config X.cfg MCX`, the proofs with `tlapm X_proofs.tla`.

## 1. The system

| Part | Source | State | Operations | Model |
|---|---|---|---|---|
| Trailers | `bootutil_public.c`, `bootutil_misc.c`, `swap_misc.c` | magic, image_ok, copy_done, swap_info, swap_size at the end of each slot | read, write a field, schedule (`boot_set_pending`), confirm (`boot_set_confirmed`), the swap tables | `Trailer` |
| Swap using move | `swap_move.c` | sectors of both slots, status entries; RAM `bs` (op, idx, state) | move up, exchange, write status, resume, `fixup_revert` | `SwapMove`, `MoveBoot` |
| Swap using offset (default of a two-slot build) | `swap_offset.c` | as above, with the new image one sector up in the secondary slot | exchange upwards, revert downwards, header lookup, `fixup_revert` | `SwapOffset`, `OffsetBoot` |
| Swap using scratch | `swap_scratch.c` | as above, and a scratch area with a trailer of its own | regions of sectors in three steps, the trailer moving between scratch and slot, compatible slots, largest image | `ScratchLayout`, `SwapScratch`, `ScratchBoot` |
| Boot control | `loader.c`, `bootutil_loader.c`, `bootutil_area.c` | `bs`, swap type; the trailers | `context_boot_go` and what it calls, for one image | `MoveBoot`, `OffsetBoot`, `ScratchBoot` |
| Several images, overwriting | `loader.c` | swap type of each image, security counters | the three loops, dependencies, downgrade prevention, counters, bootstrapping, `boot_copy_image` | `MultiBoot` |
| Direct-XIP and RAM load | `loader.c`, `ram_load.c`, `bootutil_public.c` | `slot_usage` of each image, security counters | choice by version, `boot_select_or_erase`, loading, dependencies, counters, `boot_set_next` | `XipBoot` |
| The promise to the application | `bootutil_public.h`, `docs/design.md` | what runs, whether it is confirmed, what is asked for | boot, revert, download, schedule, confirm | `UpgradeContract` |
| UF2 writer | `boot_uf2.c`, `uf2_disk.c` | block map, count, erase frontier per region, flash | process a block, poll for completion, register partitions | `Uf2Flash` |
| UF2 drive beside the swap | `main.c`, `uf2_disk.c` | slots and trailers | enter the drive, transfer, `boot_set_pending(0)` | `Uf2Boot` |
| Update mode | `main.c`, `io.c`, `update_mode.c`, Kconfig | retained boot-mode flag, reset cause, button | window, entrances, sessions, timeouts | `UpdateMode` |
| Serial upload | `boot_serial.c` | `img_size`, `curr_off`, `not_yet_erased`, flash | `bs_upload`, `erase_range`; client and line | `SerialUpload` |

What is not modelled, and why, is in section 8.

How the parts interact. The application stores an image in the secondary slot
and writes a trailer there. At boot, the loader reads both trailers, decides on
a swap type, validates the secondary image, writes the primary trailer and runs
the sector loop, adding a status entry to the primary trailer after each step.
After a reset it finds those entries and goes on from there. Before, or after,
the update mode may be entered, where the UF2 drive overwrites the primary slot
and serial recovery writes whichever slot the client names.

What makes it hard: a reset between any two flash writes, including the writes
that prepare for resets; a revert, which starts from the trailer of the swap it
undoes; image sizes that are read back from flash that is being exchanged;
three parties (application, drive, serial client) that change the same slots;
hosts and clients that repeat, reorder and abandon what they send; and a flag
that survives resets and must be consumed exactly once.

## 2. The modules

**`SwapMove`** models the two loops of `swap_run` in `swap_move.c` write by
write. `pri` and `sec` are the sectors, `status` the number of status entries,
`bs` the position in RAM, `pc` the write that comes next. An erase leaves
`Torn`, and each erase, copy and status write is an action of its own, so
`ResetAndResume` can come between any two. It decodes the entries with
`swap_read_status_bytes` and enters the loop there. `pri0` and `sec0` are the
contents at the start (ghosts). The slot sizes are constants; `Swappable` is
what `app_max_size` and the check at the start of `swap_run` let through.

**`SwapOffset`** does the same for `swap_offset.c`: upgrades run upwards and
reverts downwards (the mirrored index), copies outside an image are skipped, and
a resume reads both headers where `boot_read_image_header` looks for them.
`Used` gives the size in the header a sector holds. If a header is not found the
partial swap is given up, as `boot_prepare_image_for_update` does.

**`Trailer`** has the fields of a trailer with the values the code can read
(`GOOD`, `BAD`, `UNSET`), the two tables that decide on a swap type and on the
source of the status, and the scheduling calls.

**`MoveBoot`** and **`OffsetBoot`** extend these to a device with one image:
`boot_prepare_image_for_update` (resume, nothing to do, start, erased slot,
invalid image), the writes before the loop (`fixup_revert`, `swap_status_init`)
one action each, the loop itself, the writes after it, validation and start of
the application, and the application's own calls. `Reset` is enabled everywhere,
and `TearMagic` lets a reset leave a magic half written. A panic (`assert`) is
a state nothing but a reset leaves. In `OffsetBoot` the ghost `mishap` records
power failures at the four places where that code goes wrong (section 7), so that
its properties can name them as exceptions instead of a run leaving them out.

**`ScratchLayout`** has the arithmetic of `swap_scratch.c` as operators on sector
sizes: which slots can be swapped, the largest image, the regions. The scans of
the code, which grow two sides until they meet, are stated as what they look
for: the offsets at which sectors of both slots end.

**`SwapScratch`** is `boot_swap_sectors`, write by write. An area of flash has
its data by unit, its trailer and its status entries; an erase takes whole
sectors, and the power may fail after any of them, as it may after any unit of a
copy. **`ScratchBoot`** puts the boot control and the application around it, like
`MoveBoot`, with `swap_status_source` over the trailers of the primary slot and
of scratch. `lay` is the layout of the device, chosen initially; `geo` is what
follows from it.

**`MultiBoot`** is `context_boot_go` for several images: the first loop with
`boot_review_image_swap_types` and the completion of partial swaps, the
dependency check, the second loop with the downgrade check and the updates, the
third with validation and security counters. A slot holds a version and whether
the image is good, and exchanging the sectors is one step, since `MoveBoot` has
them one by one, and so is making or marking a trailer; every other write is a
step. `build` is the set of options:
swap using move or overwrite, the kind of downgrade prevention, bootstrapping,
and whether the application is careful not to start an upgrade while an image
runs unconfirmed.

**`XipBoot`** is the other `context_boot_go`, for images that stay where they
are: `boot_get_slot_usage`, the search for a slot per image
(`find_slot_with_highest_version`, address check, `boot_select_or_erase`, loading
and validation), the dependency check that sends it back to the search, and the
counters. An application of a build with the revert mechanism stores images only
when all that run are confirmed: it would otherwise overwrite what it may have
to go back to.

**`UpgradeContract`** says what all this amounts to for an application: each
boot is one atomic step that starts the running image again, the requested one,
or the one to revert to. A reset just before a test image starts counts as its
one boot, so that the contract allows going straight back (`BootTestMissed`).
The three boot modules implement it under a refinement mapping in which the device
is up while `pc` is in `AppPc`.

**`Uf2Flash`** models `uf2_process_block`: routing by family tag and address to
the partitions `uf2_disk_register` finds, progressive erase, duplicate blocks,
completion. The host drops files, sends their blocks in any order and more than
once, and abandons them; the driver refuses erases and writes. Flash units are
write blocks, and programming a unit that is not erased gives `Mixed`.

**`Uf2Boot`** composes the drive with `OffsetBoot`. A transfer overwrites the
primary slot a sector at a time, then `boot_set_pending(0)` marks the secondary
slot. `dropped` remembers the transfer and whether the slots were quiet (no
image in the secondary slot), idle (nothing scheduled or under way) or busy.

**`UpdateMode`** is `main.c` around `boot_go`: `boot_wait_for_update` with its
window, the entrances, the retained flag, the reset cause, the sessions and how
they end. `expect` is the session that ended last, until the application runs or
somebody presses or sends something: an entrance the device takes by itself, the
reset pin included, does not excuse it. The build is a variable, chosen initially from the builds Kconfig allows.

**`SerialUpload`** is `bs_upload` with both erase strategies and both places an
image may start, and a client (external) that sends a file over a line that
loses packets and gives up after `MaxErrors` errors. Bytes, write units and
sectors are kept apart, because the handler drops the bytes that do not fill a
unit and asks for them again. An erase may fail after some of its sectors and a
write after some of its bytes; what an unaligned buffer got written before that
counts. `Fits` says that a file leaves room for the trailer, which `bs_upload`
does not check.

Each module with a mutant also defines the faulty variants (`IdxNotAdvanced`,
`TrailerKept`, ...) that show that its properties can fail.

## 3. The runs

| Run | What it checks | Distinct states |
|---|---|---|
| `swap_move` | loops of swap using move: nothing lost at any instant (`NoSectorLost`), exchanged at the end (`SwapDone`), a resume goes on exactly where the status says (`ResumeLosesNoProgress`), the inductive invariant (`SwapInv`) | 154 |
| `swap_offset` | loops of swap using offset for all sizes of both images, in both directions: nothing lost, new image installed and old one kept where the header lookup is harmless (`SwapDone`), termination | 1,160 |
| `move_boot` | a device using move: an image to boot at all times (`NeverBricked`), the loops entered with fresh status (`LoopsEnteredRight`), the contract (`ImplementsContract`), `EventuallyUp` | 34,621 |
| `offset_boot` | for offset, resets anywhere: an image to boot except after two kinds of mishap (`NeverBricked`), the contract except after two others (`ImplementsContract`), `EventuallyUp` | 413,104 |
| `scratch_boot` | the same for scratch; both headers are found in the middle of a swap (`HeadersFound`) | 455,159 |
| `multi_boot` | several images: always bootable, what runs has what it depends on (`DependenciesMet`), an unconfirmed image can be reverted (`RevertPossible`), `EventuallyUp` | 917,276 |
| `xip_boot` | direct-XIP and RAM load: always bootable, an unconfirmed image runs once (`RunsOnce`), the image to go back to is there, is kept and is allowed by its counter (`RevertPossible`), the search ends (`EventuallyUp`) | 208,111 |
| `xip_ram_revert` | violation, finding 1 | |
| `uf2_flash` | a complete transfer of one file is that file (`WholeFileWritten`); flash the frontier has not passed is untouched; nothing is programmed twice; marked for `boot_set_pending` iff slot 0 was written; a copy completes | 15,194 |
| `uf2_boot` | with an empty secondary slot a dropped file runs next, nothing is swapped, a cut-off transfer leads back to the drive | 3,727,006 |
| `update_mode` | requests are served before the application runs again, a session that left no request and no pin reset pending ends in the application, the flag brings the device into the update mode only when asked, a device left alone settles | 11,474 |
| `serial_upload` | acknowledged bytes are in flash, a client told its upload is complete has its file in the slot with no stale header or trailer, uploads complete, for files that leave room for the trailer | 660,311 |

The type invariants (`TypeOK`, `BootTypeOK`, `Uf2TypeOK`) are in the modules and
hold; those of `SwapMove`, `SwapOffset` and `MoveBoot` are theorems.

## 4. Bounds, and why they are enough

* `swap_move`: five primary and four secondary sectors, every size that fits.
  The loops treat sectors alike except the first and the last; the theorems
  remove the bound. Sector contents name their origin, so a misplaced sector
  shows.
* `swap_offset`: all pairs of sizes from one to four sectors in both
  directions, so that each image may be the shorter one by one, two or three
  sectors, which is where the skipped copies and the header lookup differ.
* `move_boot`: images of one and two sectors and an invalid one, in slots of
  three and two sectors; `offset_boot`: images of one, two and three sectors and an
  invalid one, in slots of three and four, so that upgrades may take one sector
  and sizes differ by two, which is where the header lookup goes wrong. The number of resets, downloads,
  schedules and confirms is not bounded.
* `scratch_boot`: every way to divide slots of three units into sectors, with
  scratch areas of one to three units, as far as `boot_slots_compatible` lets
  them through and regions begin with a sector in both slots (`RegionsAligned`),
  and one layout whose trailer takes three sectors. Images of one and two units
  and an invalid one. A power failure may leave any magic half written.
* `multi_boot`: two images, versions 1 and 2, each of which needs the other in
  version 2, so that neither can be upgraded or reverted alone; one counter that
  follows the version and one that does not; four builds. The number of resets,
  upgrades and confirms is not bounded.
* `xip_boot`: two images, versions 1 and 2 with the same dependencies, an image
  that is not valid and one for another address; three builds: direct-XIP with
  the revert mechanism and counters, RAM load with the revert mechanism and
  dependencies, direct-XIP with counters and dependencies.
* `uf2_flash`: three partitions (the application slot; a neighbour which the
  overlap check keeps out; one on another device), erase sectors of two units, a
  slot that is not a multiple of them, files of up to three blocks: an
  application, a file system image, both in one, one that reaches past the slot,
  one for another board. `MaxFiles = 2` files are dropped between resets,
  `MaxResets = 1`.
* `uf2_boot`: `MaxDrops = 2` transfers, so that one may be cut off and repeated;
  resets are not bounded. An image does not end on a sector boundary, so that
  the progressive erase does not pass it.
* `update_mode`: no bound; every combination of options Kconfig allows.
* `serial_upload`: files of 7 and 13 bytes, chunks of 5, write units of 2, four
  sectors of 4: the last unit is partial, a chunk is cut, a file crosses a
  sector, and the larger one runs into the trailer or, in a secondary slot, past
  the end. `MaxSessions = 2`, `MaxErrors`, `MaxLost`, `MaxResets` and `MaxFaults`
  (failed erases and writes, the last erase included) = 1, and two packets on the
  line each way.

Deadlock is checked except in `uf2_flash`, which may end after its last file,
in `serial_upload`, which ends when the client is done, and with
`MCSwapOffsetOld.cfg`, where a swap that was given up stays so.

## 5. Fairness

The boot loader is the only code that runs until it starts the application, so
weak fairness of its next step is what the hardware gives (`BootStep`,
and the loop of `swap_offset`). Liveness is stated relative to the resets: `PowerStaysOn` and
`NoMoreResets` say that they stop. Nothing is assumed of the application.
In `uf2_flash` the polling loop runs on and the host repeats a block that was
refused (`WF` of `Poll` and of each `Store`). In `serial_upload` the
line does not stand still: while the device can serve a request, or the client
can send, receive or time out, one of these happens. In
`update_mode` the loader goes on (`BootStep`); no input has to come, and
`Settles` is about devices that are left alone.

## 6. What is proved

Seven modules of proofs (7,400 obligations, checked by Z3, Zenon and LS4) turn
what TLC finds on small instances into theorems for every value of the
constants. Each extends the module it is about, gives its inductive invariant
first, has a lemma per action and ends with the theorems. TLC has checked each
inductive invariant on the instance of the run before it was proved.

| Module | Theorem | States | Run property |
|---|---|---|---|
| `SwapMove_proofs` | `SwapInvariance`, `NothingLost`, `SwapCorrect`, `ResumeCorrect`, `TypeCorrect` | `[]` of `SwapInv`, `NoSectorLost`, `SwapDone`, `ResumeLosesNoProgress`, `TypeOK` | all but the last |
| `SwapOffset_proofs` | `OffsetInvariance`, `NothingLost`, `SwapCorrect`, `NeverGivenUp`, `TypeCorrect` | `[]` of `OffsetInv`, `NoSectorLost`, `SwapDone`, `LookupHarmless => pc # "given_up"`, `TypeOK` | second and third |
| `MoveBoot_proofs` | `BootInvariance`, `AlwaysBoots`, `LoopsSound`, `BootTypeCorrect`, `ContractImplemented` | `[]` of `BootInv`, `NeverBricked`, `LoopsEnteredRight`, `BootTypeOK`; the refinement `ImplementsContract` | `AlwaysBoots`, `LoopsSound`, `ContractImplemented` |
| `XipBoot_proofs` | `XipInvariance`, `UnconfirmedRunsOnce`, `AlwaysBoots`, `RevertStaysPossible` | `[]` of `Inv`, `RunsOnce`, `CounterSafe => NeverBricked`, `CounterSafe => RevertPossible` | last three |
| `Uf2Flash_proofs` | `RegionsDisjoint`, `FlashInvariance`, `OthersKept`, `FileWritten`, `NeverTwice`, `MarkedRight` | regions of `uf2_disk_register`; `[]` of `FlashInv`, `BeyondFrontierKept`, `WholeFileWritten`, `ProgrammedOnce`, `MarkedIfAppWritten` | last four |
| `UpdateMode_proofs` | `ModeInvariance`, `RequestsServed`, `SessionsEnd`, `FlagEntries` | `[]` of `ModeInv`, `RequestHonoured`, `SessionEndsInApp`; the action property `FlagEntryWasAsked` | last three |
| `SerialUpload_proofs` | `UploadInvariance`, `PrefixStored` | `[]` of `UploadInv`, `PrefixWritten` | second |

The arguments:

* **Move loops.** That the images are exchanged at the end does not say where
  sectors are on the way. `SwapInv` does: for each loop it gives the sectors
  that are already moved or exchanged, those still untouched, what the sector in
  progress holds, and how many status entries there are. `MoveShape`,
  `Swap0Shape` and `Swap1Shape` differ in what the sector in progress may hold,
  because an erase has destroyed one copy of it and the loop relies on the other.
  `DecodeMove` and `DecodeSwap` say that reading the status back inverts writing it.
* **Offset loops.** `OffsetInv` treats both directions at once: `Behind(k)` says
  that the iteration of sector `k` is over, `In(k)` and `Out(k)` where its
  incoming and outgoing contents are in the secondary slot. `Sizes` is what the
  header lookup can have given: the two sizes, or, in the last sector of an
  upgrade, the new size twice. `Kept` are the outgoing sectors that this mistake
  cannot make the loop leave out, and with `LookupHarmless` these are all.
  `IncomingHeader` and `OutgoingHeader` prove what `boot_read_image_header` finds
  at each position; in an upgrade of a single sector it may find nothing, and
  that is the only way a swap is given up.
* **The device using move.** `BootInv` says that the flash holds a pair of
  images and an operation still to be done with them (`Durable`, either `Idle` or
  `Busy` with the sectors as the status tells), that the pair and the operation
  are one of the `Stage`s that lead from the contract's state before the boot to
  its state after it, and what each place of the boot loader adds. A power failure keeps
  `Durable`, which is what the proof turns on. The sector loops are not proved
  again: their invariant holds whenever they are entered (`LoopsSound`), and its
  shape gives back `Durable`. `ContractImplemented` then shows that a step is a
  step of `UpgradeContract` or leaves its variables alone. It holds for every
  `TearMagic`, with `forgets` of the contract mapped to `"SEC" \in TearMagic`:
  only half-written secondary magics can make the device forget a revert.
* **Direct-XIP and RAM load.** The invariant behind `NeverBricked` is that
  `Fallback(f)` holds for some choice `f` of a slot per image: those images run
  together and neither `boot_select_or_erase` nor `boot_validate_slot` erases one
  of them. The search for it cannot pass them by, because dependencies are lower
  bounds on versions and the search goes downwards. `CounterSafe` leaves out the
  builds in which the properties do fail (section 7): the revert mechanism with
  security counters and either RAM load or dependencies.
* **UF2.** As long as one file is copied (`FlashInv`), a marked block is in flash,
  whatever else is below the erase frontier is erased, and the number of blocks
  counted is that of the marked ones.
* **Update mode.** `ModeInv` gives, for each place of `main`, the reasons for which
  the retained flag can be set, and that a boot which got past the reset pin, or
  follows a session that should end in the application, has no pin reset to serve.
* **Serial upload.** `PrefixWritten` needs that what follows the prefix can still be
  programmed (`Ahead`), and that a chunk other than the first belongs to the file
  that was begun last, although chunks of abandoned sessions are still on the
  line: `Follows` and `Line` say that only an answer makes a client go on, so
  that everything behind it in the queue is of the same file.

Assumptions on constants, all named and evaluated by TLC in the runs: the slots
have sectors, the primary slot of a move build one to spare and a status area
with entries for all of them (`GeometryAssumption`); the first sectors of images
can be told from a torn sector (`ContentAssumption`, `ImagesAssumption`);
the factory versions of direct-XIP devices do not need newer ones
(`OldAssumption`); blocks of a UF2 file that go to one partition do not overlap
(`DisjointAssumption`); slots are whole sectors and sectors whole write units
(`UploadAssumption`); the builds are those Kconfig allows (`ConfigAssumption`).

Only model-checked:

* liveness (`SwapCompletes`, `EventuallyUp`, `CopyCompletes`, `Settles`,
  `UploadCompletes`): out of reach of these provers;
* `ToldMeansStored` of `SerialUpload`. What a client has been told depends on the
  order in which answers about the same offsets, from before and after a repeated
  first chunk, are on the line; the invariant that gives this order is not found
  yet. A larger instance (five packets each way, three losses and faults) agrees;
* `OffsetBoot`, `SwapScratch`, `ScratchBoot`, `MultiBoot` and `Uf2Boot`.

## 7. What the code does not keep

1. **Security counters defeat the revert mechanism of RAM load**
   (`xip_ram_revert`, `loader.c:2326`). The counter waits for the image to be
   confirmed in direct-XIP builds only. In a RAM-load build it follows the new
   image the first time it runs; if that is not confirmed, the next boot erases
   it, refuses the one to go back to and erases that as well, as the slots are
   equivalent. `NeverBricked` fails with the same configuration.

Other statements of docs and comments that do not hold, met while modelling.
Each row names a configuration to run:

| Property | Run | What happens |
|---|---|---|
| `SwapOffset!OldImageKept` | `MCSwapOffsetOld.cfg` | `swap_offset.c:146` compares a 1-based index with a 0-based one. Resumed in its last sector, an upgrade takes the new header for the outgoing one and leaves out the end of an outgoing image more than a sector longer. "the bootloader must work properly even when it is reset during the middle of an image swap" (`docs/design.md:401`) |
| `OffsetBoot!AlwaysBoots` | `MCOffsetBootSingle.cfg` | the same comparison in an upgrade of a single sector: after a reset between the erase and the copy of the primary sector no outgoing header is found, the swap is given up, and no boot ever finds an image (`mishap` "missed") |
| `OffsetBoot!AlwaysBoots` | `MCOffsetBootRefix.cfg` | `swap_offset.c:580`: a revert reset twice in its first sector panics for ever; `fixup_revert` does not tell a revert that starts from one that is resumed ("refixed") |
| `OffsetBoot!ContractKept` | `offset_boot` | the first row seen from the application: the image to revert to is not whole, and the test image stays ("left_out"). Also, with images of one sector: a slot refused for a header in its first sector (`loader.c:600`) is scrambled from there, and a power failure after that sector uncovers the image an earlier upgrade left in the second one, which is then installed ("uncovered") |
| `ScratchBoot!NeverBricked` | `MCScratchBootUneven.cfg` | `boot_copy_sz` cuts regions by the sectors of the primary slot. If one begins inside a larger sector of the secondary slot, erasing it takes what was swapped before. The comment at `swap_scratch.c:568` relies on `boot_slots_compatible`, which does not look at regions |
| `MultiBoot!RevertSpared` | `MCMultiBootDowngrade.cfg` | `fixup_revert` makes a revert look like a permanent upgrade; after a reset there, the downgrade check, a "test swap" check by its comment (`loader.c:1629`), erases the image to revert to |
| `Uf2Boot!IdleDropRuns` | `MCUf2BootRuns.cfg` | `main.c:300`: `boot_set_pending(0)` schedules whatever is in the secondary slot, and that runs instead of the dropped file. "The device automatically reboots into the new firmware" (`docs/uf2.md:307`) |
| `UpdateMode!WindowSessionEndsInApp` | `MCUpdateModeWindow.cfg` | `main.c:554`: the button pressed in the wait window leaves the first-tap flag set, and the session ends in the update mode again |
| `UpdateMode!HeldSessionEndsInApp` | `MCUpdateModePin.cfg` | `main.c:486` looks at the button before the reset pin, and only `io_detect_pin_reset` (`io.c:285`) clears the cause. A session entered with the button held during a pin reset is followed by another one |
| `UpgradeContract` without `BootForgets` | `TearMagic <- MCTearBoth` in `move_boot`, `forgets <- FALSE` | a half-written secondary magic makes `fixup_revert` skip, the revert is forgotten |
| `OffsetBoot!NeverBricked` | `ReplaceBackup = TRUE` in `offset_boot`, this property alone | an unconfirmed application stores an image without scheduling it; the revert validates one sector and copies another |
| `Uf2Flash!CompleteIsOneFile` | `File = {"app", "app2"}` in `uf2_flash` | an abandoned copy is completed by another file with as many blocks |
| `Uf2Boot!NeverPanics` | `uf2_boot` | a transfer cut off while an upgrade is scheduled leaves a header without TLVs: assert on each boot |
| `UpdateMode!IdleSessionEndsInApp` | `Config <- IdleBoard` | the inactivity reset leaves the flag set |
| `UpdateMode!IdleSerialEnds` | `Config <- IdleBoard` | a session the application asked for has no timeout in a build with a window |
| `UpdateMode!DoubleTapHonoured` | `Config <- TapBoard` | the flag is set and never read |

What the passing runs leave out on account of such behaviour:

* `offset_boot`: nothing of the resets. `NeverBricked` and `EventuallyUp` are not
  about a device after "missed" or "refixed", and `ImplementsContract` not about
  one after "left_out" or "uncovered", until the application has seen an empty
  secondary slot.
* `update_mode`: `SessionEndsInApp` is about sessions entered through the flag, by
  the button alone, by the reset pin or for want of an application; not about one
  that was entered with a request or a pin reset still pending, or from the window.
* `scratch_boot`: where a swap can leave the trailer's sectors alone, two power
  failures as a revert begins make the device forget the revert (`forgets` of the
  contract): the primary trailer is erased, and `boot_swap_sectors` then erases
  the copy of it in scratch.
* `multi_boot`: `boot_status_reset` (`loader.c:1797`) clears the source of the
  status, so with several images a swap that has to begin again erases the
  only trailer that asks for it; a power failure there loses the upgrade
  (`forgotten`), after which dependencies may be unmet. The downgrade check of
  swapping builds comes after the dependency check, so an image it refuses may
  be one that another needs (`RefusesLate`). An application that is not careful
  combines an upgrade with a pending revert, and `DependenciesMet` is not about it.
* `xip_boot`: with the revert mechanism, counters and dependencies all at once, a
  confirmed image that needs an unconfirmed one has raised its counter when the
  other is given up, and no combination is left; that build is left out.
* `serial_upload`: the trailer need not be erased when that last erase failed: the
  offset has advanced, and a client that asks again is told all is well. A file that
  fits in one request is left out: the request sent twice starts the upload over
  after the answer to the first said it was complete, and may then fail.

Two smaller disagreements between text and code: `docs/design.md:1390` says a
failed dependency check changes one swap type and starts again, while
`boot_verify_dependencies` calls all upgrades off; `docs/design.md:1411` says
downgrade prevention is for overwriting builds only, while
`check_downgrade_prevention` serves the swapping ones.

Assumptions worth knowing: a flash write is atomic except where `TearMagic` says
otherwise; an erase that is cut short leaves a sector that no header is read
from; a write the driver refuses has no effect (except in `serial_upload`, where it
may stop half way); a trailer fits in one sector (`serial_upload`); validation
decides the same way each time.

## 8. Not modelled

* Hashes, signatures, encryption, key handling (`image_*.c`, `encrypted*.c`, the
  vendored crypto libraries): an image is valid or it is not. What a model would
  add lies in arithmetic that TLC cannot enumerate.
* The FAT presented to the host, CBOR, SMP framing, the list and info commands:
  parsing and formatting, without effect on the state modelled.
* `boot_record.c`, fault-injection hardening, logging, image masks and hooks: no
  state of the boot loader depends on them in a fault-free run with default
  hooks.
* The single-slot loaders: they validate one slot and jump.
* Drivers, boards, ports to other systems, the simulator, the signing tools and
  their test data. They are most of the lines of the repository (vendored
  libraries, generated tables and configuration headers among them), so that the
  lines mapped are a small share of all lines although nearly every function of
  `bootutil` that writes flash has a definition here.

## 9. Plan

What is left is proof: `OffsetBoot` (the invariant of `MoveBoot_proofs` over that
of `SwapOffset_proofs`), `MultiBoot` for any number of images, `SwapScratch` (a
region in three steps), and the order of answers behind `ToldMeansStored`.
