----------------------------- MODULE MultiBoot -----------------------------
(***************************************************************************)
(* A device with several images that depend on one another: the three      *)
(* loops of context_boot_go (boot/bootutil/src/loader.c), with dependency  *)
(* checks, downgrade prevention, security counters and bootstrapping, for  *)
(* a build that swaps using move and for one that overwrites.              *)
(*                                                                         *)
(* An image takes one step to move between slots: how its sectors get      *)
(* there is the subject of MoveBoot.  A slot holds [v, ok]: the version in *)
(* the header, 0 if there is none, and whether the image is complete and   *)
(* properly signed.  The fields of a trailer that is made or marked are    *)
(* one step (MoveBoot writes them one by one); every other write to flash  *)
(* is a step of its own, and the power may fail between any two steps.     *)
(***************************************************************************)
EXTENDS Trailer, Integers

CONSTANTS
    BOOT_IMAGE_NUMBER,
    Versions,  \* version numbers
    Needs,     \* the least version of image o that image m needs in version v: Needs[m][v][o]
    SecCnt,    \* the security counter of image m in version v: SecCnt[m][v]
    Stored,    \* what applications store in secondary slots
    Builds     \* build options, and whether the application is careful to
               \* start no upgrade while an image runs unconfirmed

ImageIds == 0..BOOT_IMAGE_NUMBER - 1

ASSUME MultiAssumption ==
    /\ BOOT_IMAGE_NUMBER \in Nat \ {0, 1}
    /\ Versions \subseteq Nat \ {0}
    /\ Needs \in [ImageIds -> [Versions -> [ImageIds -> Nat]]]
    /\ SecCnt \in [ImageIds -> [Versions -> Nat]]
    /\ Stored \subseteq [v : Versions, ok : BOOLEAN]
    /\ Builds \subseteq [overwrite : BOOLEAN, downgrade : {"off", "hw", "version", "counter"},
                         bootstrap : BOOLEAN, careful : BOOLEAN]

VARIABLES
    build,       \* the options of this device, which never change
    pri, sec,    \* the two slots of each image
    tr,          \* their trailers
    st,          \* the status area of the primary trailer: "none", "begun" or "done"
    counter,     \* the security counters stored
    pc, loop, cur,     \* where context_boot_go is, in which loop, at which image
    type,        \* RAM: BOOT_SWAP_TYPE of each image
    has_upgrade, \* RAM
    untouched,   \* history: the application left the image it replaced alone
    forgotten    \* history: an upgrade was lost with the only trailer that asked for it

slots == <<pri, sec, tr, st>>
history == <<untouched, forgotten>>
vars == <<build, slots, counter, pc, loop, cur, type, has_upgrade, history>>

Erased == [v |-> 0, ok |-> FALSE]
AllNone == [m \in ImageIds |-> "NONE"]

(* boot_check_image; with MCUBOOT_HW_ROLLBACK_PROT it looks at the counter. *)
Bootable(m, c) == c.ok /\ SecCnt[m][c.v] >= counter[m]

(* Variant: the counter is updated for an unconfirmed image as well.        *)
CounterForAny(t) == TRUE

(* When boot_update_hw_rollback_protection updates the counter.             *)
CounterFollows(t) == t.magic # "GOOD" \/ t.image_ok = "SET"

(* boot_update_security_counter: it never goes down.                        *)
Raised(m, v) ==
    [counter EXCEPT ![m] = IF build.downgrade = "hw" /\ SecCnt[m][v] > @ THEN SecCnt[m][v] ELSE @]

SwapType(m) == boot_swap_type_multi(tr[m].PRI, tr[m].SEC, FALSE)

----------------------------------------------------------------------------
(* The first loop: boot_prepare_image_for_update for image cur.             *)

(* swap_read_status; a build that overwrites has no status.                 *)
Source == IF build.overwrite THEN "NONE" ELSE swap_status_source(tr[cur].PRI, tr[cur].SEC)
Recorded == IF Source = "PRIMARY" THEN tr[cur].PRI.swap_info ELSE "NONE"
Partial == Source = "PRIMARY" /\ st[cur] # "none"
Wanted == IF Recorded # "NONE" THEN Recorded ELSE SwapType(cur)

(* Variant: the swap types of earlier images are taken as they are.         *)
ReviewNothing(types, aborted) == types

boot_review_image_swap_types(types, aborted) ==
    IF aborted \/ types[cur] \notin {"NONE", "REVERT"}
    THEN [i \in ImageIds |-> IF i < cur /\ types[i] = "REVERT" THEN "NONE" ELSE types[i]]
    ELSE types

Advance(next) ==
    IF cur + 1 < BOOT_IMAGE_NUMBER
    THEN cur' = cur + 1 /\ UNCHANGED <<pc, loop>>
    ELSE cur' = 0 /\ pc' = next /\ loop' = loop + 1

Prepared(types) ==
    /\ type' = types
    /\ has_upgrade' = (has_upgrade \/ BOOT_IS_UPGRADE(types[cur]))
    /\ pc = "image" /\ loop = 1 /\ Advance("deps")

RamReset ==
    /\ pc' = "reset" /\ loop' = 1 /\ cur' = 0
    /\ type' = AllNone /\ has_upgrade' = FALSE

(* boot_state_clear leaves no swap type.                                    *)
Start ==
    /\ pc = "reset" /\ pc' = "image"
    /\ UNCHANGED <<build, slots, counter, loop, cur, type, has_upgrade, history>>

(* A partial swap is completed, whatever the dependencies.                  *)
PrepareResume ==
    /\ pc = "image" /\ loop = 1 /\ Partial
    /\ type' = [boot_review_image_swap_types(type, TRUE) EXCEPT ![cur] = Recorded]
    /\ pc' = IF st[cur] = "begun" THEN "sectors" ELSE "set_ok"
    /\ UNCHANGED <<build, slots, counter, loop, cur, has_upgrade, history>>

(* boot_validate_slot on the secondary slot.                                *)
TooOld == build.overwrite /\ build.downgrade = "version" /\ sec[cur].v < pri[cur].v

(* Variant: the security counter of the secondary image is not checked.     *)
CounterNotChecked == sec[cur].v # 0 /\ ~TooOld /\ sec[cur].ok

Acceptable == sec[cur].v # 0 /\ ~TooOld /\ Bootable(cur, sec[cur])

PrepareUpgrade ==
    /\ ~Partial /\ BOOT_IS_UPGRADE(Wanted) /\ Acceptable
    /\ Prepared(boot_review_image_swap_types([type EXCEPT ![cur] = Wanted], FALSE))
    /\ UNCHANGED <<build, slots, counter, history>>

(* boot_scramble_slot; the power may fail before it gets to the trailer.    *)
ScrambleSecondary(next) ==
    /\ sec' = [sec EXCEPT ![cur] = Erased]
    /\ \/ tr' = [tr EXCEPT ![cur].SEC = ErasedTrailer] /\ next
       \/ UNCHANGED tr /\ RamReset
    /\ UNCHANGED <<pri, st>>

(* What is left of a slot that was erased before is its trailer, which a    *)
(* build that swaps erases too, and with it a revert that cannot happen.    *)
DropTrailer ==
    LET stuck == "REVERT" \in {Recorded, boot_swap_type_multi(tr[cur].PRI, ErasedTrailer, FALSE)}
    IN /\ tr' = [tr EXCEPT ![cur] = [PRI |-> IF stuck THEN ErasedTrailer ELSE @.PRI, SEC |-> ErasedTrailer]]
       /\ st' = [st EXCEPT ![cur] = IF stuck THEN "none" ELSE @]
       /\ UNCHANGED <<pri, sec>>

Refuse ==
    Prepared(boot_review_image_swap_types(
                 [type EXCEPT ![cur] = IF Recorded # "NONE" THEN "FAIL" ELSE "NONE"], FALSE))

PrepareRefused ==
    /\ pc = "image" /\ loop = 1
    /\ ~Partial /\ BOOT_IS_UPGRADE(Wanted) /\ ~Acceptable
    /\ \/ sec[cur].v # 0 /\ ScrambleSecondary(Refuse)
       \/ sec[cur].v = 0 /\ ~build.overwrite /\ DropTrailer /\ Refuse
       \/ sec[cur].v = 0 /\ build.overwrite /\ UNCHANGED slots /\ Refuse
    /\ UNCHANGED <<build, counter, history>>

(* Nothing is asked for.  A build that bootstraps replaces a primary image  *)
(* that is not bootable all the same, or drops the secondary one as well.   *)
Bootstraps == build.bootstrap /\ ~Bootable(cur, pri[cur])

PrepareIdle ==
    /\ ~Partial /\ Wanted = "NONE"
    /\ Prepared([type EXCEPT ![cur] = IF Bootstraps /\ Acceptable THEN "REVERT" ELSE "NONE"])
    /\ sec' = IF Bootstraps /\ ~Acceptable THEN [sec EXCEPT ![cur] = Erased] ELSE sec
    /\ UNCHANGED <<build, pri, tr, st, counter, history>>

----------------------------------------------------------------------------
(* boot_verify_dependencies, if some image is to be upgraded: the version   *)
(* that counts is the one each image will have, and a single unmet          *)
(* dependency calls every upgrade off.                                      *)
Becomes(m) == IF BOOT_IS_UPGRADE(type[m]) THEN sec[m] ELSE pri[m]

Satisfied(img) ==
    \A m \in ImageIds : img[m].ok /\ \A o \in ImageIds : img[o].v >= Needs[m][img[m].v][o]

(* Variant: the check is repeated until it succeeds.                        *)
RecheckedUntilMet ==
    /\ pc = "deps"
    /\ LET met == has_upgrade => Satisfied([m \in ImageIds |-> Becomes(m)])
       IN type' = (IF met THEN type ELSE AllNone) /\ pc' = IF met THEN "image" ELSE "deps"
    /\ UNCHANGED <<build, slots, counter, loop, cur, has_upgrade, history>>

VerifyDependencies ==
    /\ pc = "deps"
    /\ type' = IF has_upgrade /\ ~Satisfied([m \in ImageIds |-> Becomes(m)]) THEN AllNone ELSE type
    /\ pc' = "image"
    /\ UNCHANGED <<build, slots, counter, loop, cur, has_upgrade, history>>

----------------------------------------------------------------------------
(* The second loop.                                                         *)

UpdateNothing ==
    /\ pc = "image" /\ loop = 2 /\ type[cur] \in {"NONE", "FAIL"}
    /\ tr' = IF type[cur] = "FAIL" /\ ~build.overwrite
             THEN [tr EXCEPT ![cur].PRI = boot_write_image_ok(@)] ELSE tr
    /\ Advance("image")
    /\ UNCHANGED <<build, pri, sec, st, counter, type, has_upgrade, history>>

(* check_downgrade_prevention.                                              *)
Downgrade ==
    /\ ~build.overwrite /\ type[cur] \in {"TEST", "PERM"}
    /\ \/ build.downgrade = "version" /\ sec[cur].v < pri[cur].v
       \/ build.downgrade = "counter" /\ SecCnt[cur][sec[cur].v] < SecCnt[cur][pri[cur].v]

UpdateDowngrade ==
    /\ pc = "image" /\ loop = 2 /\ Downgrade
    /\ ScrambleSecondary(/\ type' = [type EXCEPT ![cur] = "NONE"]
                         /\ Advance("image") /\ UNCHANGED has_upgrade)
    /\ UNCHANGED <<build, counter, history>>

(* boot_perform_update copies or swaps.  boot_status_reset has cleared the  *)
(* source of the status, so that swap_run always begins with the trailer.   *)
UpdateImage ==
    /\ pc = "image" /\ loop = 2 /\ BOOT_IS_UPGRADE(type[cur]) /\ ~Downgrade
    /\ pc' = CASE build.overwrite \/ Bootstraps -> "copy_erase"
               [] ~(build.overwrite \/ Bootstraps) /\ type[cur] = "REVERT"
                  /\ tr[cur].SEC.magic = "UNSET" -> "fix"
               [] OTHER -> "init_erase"
    /\ UNCHANGED <<build, slots, counter, loop, cur, type, has_upgrade, history>>

(* One write to the slots of the current image.                             *)
Step(from, to) ==
    /\ pc = from /\ pc' = to
    /\ UNCHANGED <<build, loop, cur, type, has_upgrade>>

(* boot_copy_image.                                                         *)
CopyErase ==
    /\ Step("copy_erase", "copy")
    /\ pri' = [pri EXCEPT ![cur] = Erased]
    /\ tr' = [tr EXCEPT ![cur].PRI = ErasedTrailer]
    /\ st' = [st EXCEPT ![cur] = "none"]
    /\ UNCHANGED <<sec, counter, history>>

(* Half of the image, then all of it, then, unless the build overwrites,    *)
(* the magic.                                                               *)
CopyHalf ==
    /\ Step("copy", "copy_rest")
    /\ pri' = [pri EXCEPT ![cur] = [sec[cur] EXCEPT !.ok = FALSE]]
    /\ UNCHANGED <<sec, tr, st, counter, history>>

CopyRest ==
    /\ Step("copy_rest", IF build.overwrite THEN "copy_counter" ELSE "copy_magic")
    /\ pri' = [pri EXCEPT ![cur] = sec[cur]]
    /\ UNCHANGED <<sec, tr, st, counter, history>>

CopyMagic ==
    /\ Step("copy_magic", "copy_counter")
    /\ tr' = [tr EXCEPT ![cur].PRI = boot_write_magic(@)]
    /\ UNCHANGED <<pri, sec, st, counter, history>>

CopyCounter ==
    /\ Step("copy_counter", IF build.overwrite THEN "copy_header" ELSE "copy_trailer")
    /\ counter' = Raised(cur, sec[cur].v)
    /\ UNCHANGED <<slots, history>>

CopyDropHeader ==
    /\ Step("copy_header", "copy_trailer")
    /\ sec' = [sec EXCEPT ![cur] = Erased]
    /\ UNCHANGED <<pri, tr, st, counter, history>>

CopyDropTrailer ==
    /\ Step("copy_trailer", IF build.overwrite THEN "updated" ELSE "set_ok")
    /\ tr' = [tr EXCEPT ![cur].SEC = ErasedTrailer]
    /\ UNCHANGED <<pri, sec, st, counter, history>>

(* swap_run: fixup_revert, swap_status_init, the secondary trailer, then    *)
(* the sectors.                                                             *)
FixupRevert ==
    /\ Step("fix", "init_erase")
    /\ tr' = [tr EXCEPT ![cur].SEC = boot_write_magic(boot_write_image_ok(ErasedTrailer))]
    /\ UNCHANGED <<pri, sec, st, counter, history>>

InitErase ==
    /\ Step("init_erase", "init_magic")
    /\ tr' = [tr EXCEPT ![cur].PRI = ErasedTrailer]
    /\ st' = [st EXCEPT ![cur] = "none"]
    /\ UNCHANGED <<pri, sec, counter, history>>

InitMagic ==
    /\ Step("init_magic", "sec_scramble")
    /\ tr' = [tr EXCEPT ![cur].PRI =
                 boot_write_magic(boot_write_swap_info([@ EXCEPT !.image_ok = tr[cur].SEC.image_ok], type[cur]))]
    /\ UNCHANGED <<pri, sec, st, counter, history>>

SecScramble ==
    /\ Step("sec_scramble", "first_sector")
    /\ tr' = [tr EXCEPT ![cur].SEC = ErasedTrailer]
    /\ UNCHANGED <<pri, sec, st, counter, history>>

FirstSector ==
    /\ Step("first_sector", "sectors")
    /\ st' = [st EXCEPT ![cur] = "begun"]
    /\ UNCHANGED <<pri, sec, tr, counter, history>>

SwapSectors ==
    /\ Step("sectors", "set_ok")
    /\ pri' = [pri EXCEPT ![cur] = sec[cur]]
    /\ sec' = [sec EXCEPT ![cur] = pri[cur]]
    /\ st' = [st EXCEPT ![cur] = "done"]
    /\ untouched' = [untouched EXCEPT ![cur] = TRUE]
    /\ UNCHANGED <<tr, counter, forgotten>>

SetImageOk ==
    /\ Step("set_ok", IF loop = 2 /\ type[cur] = "PERM" THEN "set_counter" ELSE "set_done")
    /\ tr' = IF type[cur] \in {"REVERT", "PERM"}
             THEN [tr EXCEPT ![cur].PRI = boot_write_image_ok(@)] ELSE tr
    /\ UNCHANGED <<pri, sec, st, counter, history>>

SetCounter ==
    /\ Step("set_counter", "set_done")
    /\ counter' = Raised(cur, pri[cur].v)
    /\ UNCHANGED <<slots, history>>

SetCopyDone ==
    /\ Step("set_done", "updated")
    /\ tr' = [tr EXCEPT ![cur].PRI = boot_write_copy_done(@)]
    /\ UNCHANGED <<pri, sec, st, counter, history>>

(* A resumed swap ends in the first loop, with nothing left to do.          *)
Updated ==
    /\ pc = "updated"
    /\ type' = IF loop = 1 THEN [type EXCEPT ![cur] = "NONE"] ELSE type
    /\ IF cur + 1 < BOOT_IMAGE_NUMBER
       THEN pc' = "image" /\ cur' = cur + 1 /\ UNCHANGED loop
       ELSE pc' = (IF loop = 1 THEN "deps" ELSE "image") /\ cur' = 0 /\ loop' = loop + 1
    /\ UNCHANGED <<build, slots, counter, has_upgrade, history>>

----------------------------------------------------------------------------
(* The third loop validates the primary slot of each image and brings its   *)
(* counter up to date.                                                      *)
Validate ==
    /\ pc = "image" /\ loop = 3
    /\ IF Bootable(cur, pri[cur])
       THEN /\ counter' = IF CounterFollows(tr[cur].PRI) THEN Raised(cur, pri[cur].v) ELSE counter
            /\ Advance("app")
       ELSE pc' = "no_boot" /\ UNCHANGED <<counter, loop, cur>>
    /\ type' = AllNone /\ has_upgrade' = FALSE
    /\ UNCHANGED <<build, slots, history>>

----------------------------------------------------------------------------
(* The application stores an image in a secondary slot, schedules it or     *)
(* confirms a running image.                                                *)
AppKeepsRam == pc = "app" /\ UNCHANGED <<build, pc, loop, cur, type, has_upgrade, counter>>

MayUpgrade == build.careful => \A m \in ImageIds : ~Unconfirmed(tr[m].PRI)

AppStore(m, c) ==
    /\ AppKeepsRam /\ MayUpgrade
    /\ sec' = [sec EXCEPT ![m] = c]
    /\ tr' = [tr EXCEPT ![m].SEC = ErasedTrailer]
    /\ untouched' = [untouched EXCEPT ![m] = FALSE]
    /\ UNCHANGED <<pri, st, forgotten>>

SetPending(m, permanent) ==
    /\ AppKeepsRam /\ MayUpgrade /\ CanSchedule(tr[m].SEC)
    /\ tr' = [tr EXCEPT ![m].SEC =
                 LET good == boot_write_magic(@)
                 IN IF permanent THEN boot_write_swap_info(boot_write_image_ok(good), "PERM")
                    ELSE boot_write_swap_info(good, "TEST")]
    /\ UNCHANGED <<pri, sec, st, history>>

SetConfirmed(m) ==
    /\ AppKeepsRam
    /\ tr' = [tr EXCEPT ![m].PRI = boot_set_next_active(@)]
    /\ UNCHANGED <<pri, sec, st, history>>

(* The swap begins anew, with its primary trailer erased, after a power     *)
(* failure that came when the secondary trailer had been erased already.    *)
Unasked == pc = "init_magic" /\ tr[cur].SEC.magic # "GOOD"

(* A reboot, or a power failure between any two writes.                     *)
Reset ==
    /\ RamReset
    /\ forgotten' = (forgotten \/ Unasked)
    /\ UNCHANGED <<build, slots, counter, untouched>>

----------------------------------------------------------------------------
OldVersion == CHOOSE v \in Versions : \A w \in Versions : v <= w
Old == [v |-> OldVersion, ok |-> TRUE]

(* A device that runs the oldest images, or one to be bootstrapped with     *)
(* them.                                                                    *)
Init ==
    /\ build \in Builds
    /\ \/ pri = [m \in ImageIds |-> Old] /\ sec = [m \in ImageIds |-> Erased]
       \/ build.bootstrap /\ pri = [m \in ImageIds |-> Erased] /\ sec = [m \in ImageIds |-> Old]
    /\ tr = [m \in ImageIds |-> [PRI |-> ErasedTrailer, SEC |-> ErasedTrailer]]
    /\ st = [m \in ImageIds |-> "none"]
    /\ counter = [m \in ImageIds |-> 0]
    /\ pc = "reset" /\ loop = 1 /\ cur = 0
    /\ type = AllNone /\ has_upgrade = FALSE
    /\ untouched = [m \in ImageIds |-> FALSE]
    /\ forgotten = FALSE

BootStep ==
    \/ Start \/ PrepareResume \/ PrepareUpgrade \/ PrepareRefused \/ PrepareIdle
    \/ VerifyDependencies
    \/ UpdateNothing \/ UpdateDowngrade \/ UpdateImage
    \/ CopyErase \/ CopyHalf \/ CopyRest \/ CopyMagic \/ CopyCounter
    \/ CopyDropHeader \/ CopyDropTrailer
    \/ FixupRevert \/ InitErase \/ InitMagic \/ SecScramble \/ FirstSector \/ SwapSectors
    \/ SetImageOk \/ SetCounter \/ SetCopyDone \/ Updated
    \/ Validate

AppStep ==
    \E m \in ImageIds :
        \/ \E c \in Stored : AppStore(m, c)
        \/ \E permanent \in BOOLEAN : SetPending(m, permanent)
        \/ SetConfirmed(m)

Next == BootStep \/ AppStep \/ Reset

Spec == Init /\ [][Next]_vars

(* Nothing but a power failure keeps the boot loader from its next step.    *)
FairSpec == Spec /\ WF_vars(BootStep)

----------------------------------------------------------------------------
(* Whatever is scheduled and wherever the power fails, every image can be   *)
(* booted: context_boot_go never ends with an image it cannot validate.     *)
NeverBricked == pc # "no_boot"

(* The downgrade check comes after the dependency check and on reverts that *)
(* fixup_revert made look like upgrades; its refusals are another matter.   *)
RefusesLate == ~build.overwrite /\ build.downgrade \in {"version", "counter"}

(* The images that run have what they depend on, although dependencies are  *)
(* only looked at when something is to be upgraded, a partial swap is       *)
(* completed without looking, and the power may fail between the upgrades.  *)
DependenciesMet == pc = "app" /\ build.careful /\ ~forgotten /\ ~RefusesLate => Satisfied(pri)

(* As long as an image runs unconfirmed, the one it replaced can be         *)
(* reverted to: it is intact and the security counter does not forbid it.   *)
Replaceable == \A m \in ImageIds : Unconfirmed(tr[m].PRI) /\ untouched[m] => Bootable(m, sec[m])

RevertPossible == pc = "app" /\ ~RefusesLate => Replaceable

(* The downgrade check is for new images, and spares the one a careful      *)
(* application may yet revert to.  (It does not.)                           *)
RevertSpared == pc = "app" /\ build.careful => Replaceable

(* Once the resets stop, the device runs its images.                        *)
NoMoreResets == <>[][pc' # "reset"]_vars
EventuallyUp == NoMoreResets => <>[](pc = "app")
=============================================================================
