------------------------------ MODULE XipBoot ------------------------------
(***************************************************************************)
(* Images that run from either of their two slots, or are loaded to RAM    *)
(* from either: the context_boot_go of MCUBOOT_DIRECT_XIP and              *)
(* MCUBOOT_RAM_LOAD (boot/bootutil/src/loader.c, ram_load.c), with the     *)
(* revert mechanism, dependencies between images and security counters.    *)
(*                                                                         *)
(* Nothing is moved.  The newest image that passes the tests runs; with    *)
(* the revert mechanism, one that was selected before and has not been     *)
(* confirmed since is erased.  A slot holds [v, ok, fits]: the version in  *)
(* the header, 0 if there is none, whether the image is properly signed,   *)
(* and whether it was built for this address.                              *)
(***************************************************************************)
EXTENDS Trailer, Integers

CONSTANTS
    BOOT_IMAGE_NUMBER,
    Versions,
    Needs,     \* the least version of image o that image m needs in version v: Needs[m][v][o]
    SecCnt,    \* the security counter that comes with a version
    Stored,    \* what applications store
    Builds     \* build options, and whether images depend on each other

ImageIds == 0..BOOT_IMAGE_NUMBER - 1
Slots == {0, 1}
BOOT_SLOT_NONE == 2

ASSUME XipAssumption ==
    /\ BOOT_IMAGE_NUMBER \in Nat \ {0}
    /\ Versions \subseteq Nat \ {0}
    /\ Needs \in [ImageIds -> [Versions -> [ImageIds -> Nat]]]
    /\ SecCnt \in [Versions -> Nat]
    /\ Stored \subseteq [v : Versions, ok : BOOLEAN, fits : BOOLEAN]
    /\ Builds \subseteq [ram : BOOLEAN, revert : BOOLEAN, hw : BOOLEAN, deps : BOOLEAN]

VARIABLES
    build,       \* the options of this device, which never change
    img, tr,     \* content and trailer of slot s of image m: img[m][s], tr[m][s]
    counter,     \* the security counters stored
    pc, cur,     \* where context_boot_go is, at which image
    slot_available, active_slot,  \* RAM: slot_usage of each image
    image_ok,    \* RAM: the flag of slot_usage[m].swap_state
    ran          \* history: how often each slot ran unconfirmed

flash == <<img, tr>>
ram == <<slot_available, active_slot, image_ok>>
vars == <<build, flash, counter, pc, cur, ram, ran>>

Erased == [v |-> 0, ok |-> FALSE, fits |-> FALSE]
Confirmed == boot_write_copy_done(boot_write_image_ok(boot_write_magic(ErasedTrailer)))

(* boot_check_image; with MCUBOOT_HW_ROLLBACK_PROT it looks at the counter. *)
Bootable(m, c) == c.ok /\ SecCnt[c.v] >= counter[m]

Active == active_slot[cur]
NoRam ==
    /\ slot_available' = [m \in ImageIds |-> {}]
    /\ active_slot' = [m \in ImageIds |-> BOOT_SLOT_NONE]
    /\ image_ok' = [m \in ImageIds |-> "UNSET"]

Reboot == pc' = "reset" /\ cur' = 0 /\ NoRam

----------------------------------------------------------------------------
(* boot_get_slot_usage.                                                     *)
GetSlotUsage ==
    /\ pc = "reset" /\ pc' = "find"
    /\ slot_available' = [m \in ImageIds |-> {s \in Slots : img[m][s].v # 0}]
    /\ UNCHANGED <<build, flash, counter, cur, active_slot, image_ok, ran>>

(* boot_load_and_validate_images for one image.                             *)
NextImage == IF cur + 1 < BOOT_IMAGE_NUMBER THEN cur' = cur + 1 /\ pc' = "find" ELSE cur' = 0 /\ pc' = "deps"

AlreadyActive ==
    /\ pc = "find" /\ Active # BOOT_SLOT_NONE
    /\ NextImage
    /\ UNCHANGED <<build, flash, counter, ram, ran>>

find_slot_with_highest_version(m) ==
    CHOOSE s \in slot_available[m] :
        \A t \in slot_available[m] : img[m][t].v < img[m][s].v \/ (img[m][t].v = img[m][s].v /\ s <= t)

FindSlot ==
    /\ pc = "find" /\ Active = BOOT_SLOT_NONE
    /\ IF slot_available[cur] = {}
       THEN pc' = "no_boot" /\ UNCHANGED active_slot
       ELSE /\ pc' = IF build.ram THEN "select" ELSE "address"
            /\ active_slot' = [active_slot EXCEPT ![cur] = find_slot_with_highest_version(cur)]
    /\ UNCHANGED <<build, flash, counter, cur, slot_available, image_ok, ran>>

(* The slot is of no use for the rest of this boot.                         *)
TryAnother ==
    /\ slot_available' = [slot_available EXCEPT ![cur] = @ \ {Active}]
    /\ active_slot' = [active_slot EXCEPT ![cur] = BOOT_SLOT_NONE]
    /\ pc' = "find"
    /\ UNCHANGED <<cur, image_ok>>

(* boot_rom_address_check, of MCUBOOT_DIRECT_XIP only.                      *)
RomAddressCheck ==
    /\ pc = "address"
    /\ IF img[cur][Active].fits
       THEN pc' = "select" /\ UNCHANGED <<cur, ram>>
       ELSE TryAnother
    /\ UNCHANGED <<build, flash, counter, ran>>

(* A slot is erased from its start; the power may fail before the trailer.  *)
EraseSlot ==
    /\ img' = [img EXCEPT ![cur][Active] = Erased]
    /\ \/ tr' = [tr EXCEPT ![cur][Active] = ErasedTrailer] /\ TryAnother
       \/ UNCHANGED tr /\ Reboot
    /\ UNCHANGED <<build, counter, ran>>

(* Variant: any image that was selected before is taken for a failed one.   *)
FaultyOnceSelected(t) == t.magic # "GOOD" \/ t.copy_done = "SET"

(* boot_select_or_erase, with the revert mechanism only.                    *)
Faulty(t) == t.magic # "GOOD" \/ (t.copy_done = "SET" /\ t.image_ok # "SET")

(* Variant: the slot is not marked as selected.                             *)
NotMarked ==
    /\ pc = "select"
    /\ ~(build.revert /\ Faulty(tr[cur][Active]))
    /\ image_ok' = [image_ok EXCEPT ![cur] = tr[cur][Active].image_ok]
    /\ pc' = "load"
    /\ UNCHANGED <<build, flash, counter, cur, slot_available, active_slot, ran>>

Select ==
    /\ pc = "select"
    /\ ~(build.revert /\ Faulty(tr[cur][Active]))
    /\ pc' = "load"
    /\ IF build.revert
       THEN /\ tr' = [tr EXCEPT ![cur][Active] = boot_write_copy_done(@)]
            /\ image_ok' = [image_ok EXCEPT ![cur] = tr[cur][Active].image_ok]
       ELSE UNCHANGED <<tr, image_ok>>
    /\ UNCHANGED <<build, img, counter, cur, slot_available, active_slot, ran>>

EraseFaulty ==
    /\ pc = "select" /\ build.revert /\ Faulty(tr[cur][Active])
    /\ EraseSlot

(* boot_load_image_to_sram, of MCUBOOT_RAM_LOAD only, and                   *)
(* boot_validate_slot; what cannot be loaded or is not valid is removed     *)
(* from flash: ARE_SLOTS_EQUIVALENT.                                        *)
Valid == (build.ram => img[cur][Active].fits) /\ Bootable(cur, img[cur][Active])

LoadAndValidate ==
    /\ pc = "load" /\ Valid
    /\ NextImage
    /\ UNCHANGED <<build, flash, counter, ram, ran>>

RemoveInvalid ==
    /\ pc = "load" /\ ~Valid
    /\ EraseSlot

(* boot_verify_dependencies: the first image with an unmet dependency has   *)
(* to make do with its other slot, and the search goes on.                  *)
Running == [m \in ImageIds |-> IF active_slot[m] \in Slots THEN img[m][active_slot[m]] ELSE Erased]
Unmet(m) == build.deps /\ \E o \in ImageIds : Running[o].v < Needs[m][Running[m].v][o]

(* Variant: the slot stays available.                                       *)
SlotTriedAgain ==
    /\ pc = "deps" /\ \E m \in ImageIds : Unmet(m)
    /\ LET m == CHOOSE m \in ImageIds : Unmet(m) /\ \A k \in 0..m - 1 : ~Unmet(k)
       IN active_slot' = [active_slot EXCEPT ![m] = BOOT_SLOT_NONE]
    /\ pc' = "find"
    /\ UNCHANGED <<build, flash, counter, cur, slot_available, image_ok, ran>>

DependencyUnmet ==
    /\ pc = "deps" /\ \E m \in ImageIds : Unmet(m)
    /\ LET m == CHOOSE m \in ImageIds : Unmet(m) /\ \A k \in 0..m - 1 : ~Unmet(k)
       IN /\ slot_available' = [slot_available EXCEPT ![m] = @ \ {active_slot[m]}]
          /\ active_slot' = [active_slot EXCEPT ![m] = BOOT_SLOT_NONE]
    /\ pc' = "find"
    /\ UNCHANGED <<build, flash, counter, cur, image_ok, ran>>

DependenciesMet ==
    /\ pc = "deps" /\ \A m \in ImageIds : ~Unmet(m)
    /\ pc' = "counter"
    /\ UNCHANGED <<build, flash, counter, cur, ram, ran>>

(* Variant: the counter does not wait for anything.                         *)
CounterAtOnce(m) == TRUE

(* boot_update_hw_rollback_protection.  Only MCUBOOT_DIRECT_XIP_REVERT      *)
(* waits for the image to be confirmed.                                     *)
CounterFollows(m) == ~build.ram /\ build.revert => image_ok[m] = "SET"

UpdateCounter ==
    /\ pc = "counter"
    /\ LET c == SecCnt[img[cur][Active].v]
       IN counter' = IF build.hw /\ CounterFollows(cur) /\ c > counter[cur]
                     THEN [counter EXCEPT ![cur] = c] ELSE counter
    /\ IF cur + 1 < BOOT_IMAGE_NUMBER
       THEN cur' = cur + 1 /\ UNCHANGED <<pc, ran>>
       ELSE /\ cur' = 0 /\ pc' = "app"
            /\ ran' = [m \in ImageIds |-> [s \in Slots |->
                          IF s = active_slot[m] /\ tr[m][s].image_ok # "SET" /\ ran[m][s] < 2
                          THEN ran[m][s] + 1 ELSE ran[m][s]]]
    /\ UNCHANGED <<build, flash, ram>>

----------------------------------------------------------------------------
(* The application stores an image in the slot it does not run from, though *)
(* not while an image it may have to go back to is there.                   *)
MayStore == build.revert => \A m \in ImageIds : tr[m][active_slot[m]].image_ok = "SET"

AppStays == pc = "app" /\ UNCHANGED <<build, pc, cur, ram, counter>>

AppStore(m, c) ==
    LET other == 1 - active_slot[m]
    IN /\ AppStays /\ MayStore
       /\ img' = [img EXCEPT ![m][other] = c]
       /\ tr' = [tr EXCEPT ![m][other] = ErasedTrailer]
       /\ ran' = [ran EXCEPT ![m][other] = 0]

(* boot_set_next, which only matters to the revert mechanism: magic, then,  *)
(* to confirm the slot, copy_done and image_ok; the power may fail between. *)
SetNext(m, s, confirm) ==
    LET marked == boot_write_magic(tr[m][s])
        begun == boot_write_copy_done(marked)
    IN /\ pc = "app" /\ build.revert
       /\ \/ /\ AppStays
             /\ tr' = [tr EXCEPT ![m][s] = IF confirm THEN boot_write_image_ok(begun) ELSE marked]
          \/ /\ confirm /\ tr[m][s].image_ok # "SET"
             /\ \E t \in {marked, begun} : tr' = [tr EXCEPT ![m][s] = t]
             /\ Reboot /\ UNCHANGED <<build, counter>>
       /\ UNCHANGED <<img, ran>>

(* A reboot, or a power failure between any two writes.                     *)
Reset ==
    /\ Reboot
    /\ UNCHANGED <<build, flash, counter, ran>>

----------------------------------------------------------------------------
OldVersion == CHOOSE v \in Versions : \A w \in Versions : v <= w

(* The images a device starts with run together.                            *)
ASSUME OldAssumption ==
    /\ Versions # {}
    /\ \A m, o \in ImageIds : Needs[m][OldVersion][o] <= OldVersion

Init ==
    /\ build \in Builds
    /\ img = [m \in ImageIds |-> [s \in Slots |->
                 IF s = 0 THEN [v |-> OldVersion, ok |-> TRUE, fits |-> TRUE] ELSE Erased]]
    /\ tr = [m \in ImageIds |-> [s \in Slots |-> IF s = 0 THEN Confirmed ELSE ErasedTrailer]]
    /\ counter = [m \in ImageIds |-> 0]
    /\ pc = "reset" /\ cur = 0
    /\ slot_available = [m \in ImageIds |-> {}]
    /\ active_slot = [m \in ImageIds |-> BOOT_SLOT_NONE]
    /\ image_ok = [m \in ImageIds |-> "UNSET"]
    /\ ran = [m \in ImageIds |-> [s \in Slots |-> 0]]

BootStep ==
    \/ GetSlotUsage \/ AlreadyActive \/ FindSlot \/ RomAddressCheck
    \/ Select \/ EraseFaulty \/ LoadAndValidate \/ RemoveInvalid
    \/ DependencyUnmet \/ DependenciesMet \/ UpdateCounter

AppStep ==
    \E m \in ImageIds :
        \/ \E c \in Stored : AppStore(m, c)
        \/ SetNext(m, active_slot[m], TRUE)
        \/ \E confirm \in BOOLEAN : SetNext(m, 1 - active_slot[m], confirm)

Next == BootStep \/ AppStep \/ Reset

Spec == Init /\ [][Next]_vars

(* Nothing but a power failure keeps the boot loader from its next step.    *)
FairSpec == Spec /\ WF_vars(BootStep)

----------------------------------------------------------------------------
(* The device never loses the last image that runs, wherever the power      *)
(* fails and whatever boot_select_or_erase and boot_validate_slot erase.    *)
NeverBricked == pc # "no_boot"

(* An image that is not confirmed runs once: boot_select_or_erase marks it  *)
(* before it runs and erases it the next time.                              *)
RunsOnce == build.revert => \A m \in ImageIds, s \in Slots : ran[m][s] <= 1

(* While an image runs unconfirmed, the one to fall back on is there,       *)
(* boot_select_or_erase keeps it and the security counter allows it.        *)
RevertPossible ==
    pc = "app" /\ build.revert =>
        \A m \in ImageIds :
            LET s == active_slot[m]
            IN tr[m][s].image_ok # "SET" =>
                   /\ Bootable(m, img[m][1 - s])
                   /\ ~Faulty(tr[m][1 - s])

(* Once the resets stop, the device runs its images: the search for slots   *)
(* that meet the dependencies ends.                                         *)
NoMoreResets == <>[][pc' # "reset"]_vars
EventuallyUp == NoMoreResets => <>[](pc = "app")
=============================================================================
