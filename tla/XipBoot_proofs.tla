--------------------------- MODULE XipBoot_proofs ---------------------------
(* Proofs about images that run from either slot, for any number of images,  *)
(* any versions, dependencies and security counters.                         *)
EXTENDS XipBoot, NaturalsInduction, WellFoundedInduction, TLAPS

-----------------------------------------------------------------------------
(* The inductive invariant.                                                  *)

Contents == [v : Versions \cup {0}, ok : BOOLEAN, fits : BOOLEAN]
Pcs == {"reset", "find", "address", "select", "load", "deps", "counter", "app", "no_boot"}

TypeOK ==
    /\ build \in Builds
    /\ img \in [ImageIds -> [Slots -> Contents]]
    /\ tr \in [ImageIds -> [Slots -> Trailers]]
    /\ counter \in [ImageIds -> Nat]
    /\ pc \in Pcs /\ cur \in ImageIds
    /\ slot_available \in [ImageIds -> SUBSET Slots]
    /\ active_slot \in [ImageIds -> Slots \cup {BOOT_SLOT_NONE}]
    /\ image_ok \in [ImageIds -> {"SET", "UNSET"}]
    /\ ran \in [ImageIds -> [Slots -> 0..2]]

(* Only a slot with a header is available, and the active one is.            *)
Usage ==
    /\ \A m \in ImageIds : \A s \in slot_available[m] : img[m][s].v # 0
    /\ \A m \in ImageIds : active_slot[m] # BOOT_SLOT_NONE => active_slot[m] \in slot_available[m]
    /\ pc = "reset" => \A m \in ImageIds : active_slot[m] = BOOT_SLOT_NONE
    /\ pc = "find" => \A m \in 0..cur - 1 : active_slot[m] # BOOT_SLOT_NONE
    /\ pc \in {"address", "select", "load"} => \A m \in 0..cur : active_slot[m] # BOOT_SLOT_NONE
    /\ pc \in {"deps", "counter", "app"} =>
           \A m \in ImageIds : active_slot[m] # BOOT_SLOT_NONE
    /\ pc \in {"reset", "deps"} => cur = 0

(* How far an image has come.                                                *)
Selected(m) ==
    active_slot[m] # BOOT_SLOT_NONE /\ ~(m = cur /\ pc \in {"address", "select"})
Loaded(m) ==
    active_slot[m] # BOOT_SLOT_NONE /\ ~(m = cur /\ pc \in {"address", "select", "load"})

(* An image that has run unconfirmed is marked as selected; one that this    *)
(* boot has selected has not run before, or is confirmed.                    *)
Marked ==
    build.revert =>
        /\ \A m \in ImageIds, s \in Slots :
               img[m][s].v # 0 /\ ran[m][s] # 0 /\ tr[m][s].image_ok # "SET" =>
                   tr[m][s].copy_done = "SET"
        /\ \A m \in ImageIds, s \in Slots : ran[m][s] <= 1
        /\ \A m \in ImageIds : Selected(m) =>
               LET s == active_slot[m]
               IN /\ tr[m][s].magic = "GOOD" /\ tr[m][s].copy_done = "SET"
                  /\ image_ok[m] = "SET" => tr[m][s].image_ok = "SET"
                  /\ pc = "app" \/ tr[m][s].image_ok = "SET" \/ ran[m][s] = 0

(* What has been checked of the active slots.                                *)
Sound ==
    /\ pc \in {"select", "load"} /\ ~build.ram => img[cur][Active].fits
    /\ \A m \in ImageIds : Loaded(m) =>
           img[m][active_slot[m]].fits /\ Bootable(m, img[m][active_slot[m]])
    /\ pc \in {"counter", "app"} => \A m \in ImageIds : ~Unmet(m)

XipInv == TypeOK /\ Usage /\ Marked /\ Sound

(* The builds whose security counters cannot overtake the images a device    *)
(* may have to go back to.                                                   *)
CounterSafe == ~(build.revert /\ build.hw /\ (build.ram \/ build.deps))

(* A slot for every image, such that these images run together and neither   *)
(* boot_select_or_erase nor boot_validate_slot erases one of them.           *)
Fallback(f) ==
    \A m \in ImageIds :
        LET c == img[m][f[m]]
        IN /\ c.v # 0 /\ c.fits /\ Bootable(m, c)
           /\ build.revert => tr[m][f[m]].magic = "GOOD" /\ tr[m][f[m]].image_ok = "SET"
           /\ build.deps => \A o \in ImageIds : img[o][f[o]].v >= Needs[m][c.v][o]
           /\ pc \notin {"reset", "app"} => f[m] \in slot_available[m]
           /\ pc # "app" /\ active_slot[m] # BOOT_SLOT_NONE => img[m][active_slot[m]].v >= c.v

Recoverable == CounterSafe => pc # "no_boot" /\ \E f \in [ImageIds -> Slots] : Fallback(f)

Inv == XipInv /\ Recoverable

-----------------------------------------------------------------------------
LEMMA Ids ==
    /\ 0 \in ImageIds /\ ImageIds \subseteq Nat
    /\ \A m \in ImageIds : m \in Nat /\ m < BOOT_IMAGE_NUMBER /\ 0..m \subseteq ImageIds
    /\ \A m \in ImageIds : m + 1 < BOOT_IMAGE_NUMBER => m + 1 \in ImageIds
    /\ \A m \in ImageIds : ~(m + 1 < BOOT_IMAGE_NUMBER) => 0..m = ImageIds
    /\ Slots = {0, 1} /\ BOOT_SLOT_NONE \notin Slots
  BY XipAssumption DEF ImageIds, Slots, BOOT_SLOT_NONE

(* A slot of the least version exists.                                       *)
LEMMA OldExists == OldVersion \in Versions /\ OldVersion \in Nat /\ OldVersion # 0
<1>1. Versions \subseteq Nat /\ Versions # {} /\ 0 \notin Versions
  BY XipAssumption, OldAssumption
<1>2. \E v \in Versions : \A w \in Versions : v <= w
  <2>1. PICK v \in Versions : \A w \in Versions : ~(<<w, v>> \in OpToRel(<, Nat))
    BY <1>1, NatLessThanWellFounded, WFMin
  <2>2. \A w \in Versions : ~(w < v)
    BY <1>1, <2>1 DEF OpToRel
  <2> QED
    BY <1>1, <2>2
<1> QED
  BY <1>1, <1>2 DEF OldVersion

(* The types of what the slots hold.                                         *)
LEMMA SlotTypes ==
    ASSUME TypeOK, NEW m \in ImageIds, NEW s \in Slots
    PROVE  /\ img[m][s] \in Contents /\ img[m][s].v \in Nat
           /\ img[m][s].v # 0 => img[m][s].v \in Versions /\ SecCnt[img[m][s].v] \in Nat
           /\ img[m][s].ok \in BOOLEAN /\ img[m][s].fits \in BOOLEAN
           /\ tr[m][s] \in Trailers /\ ran[m][s] \in 0..2
<1>1. img[m][s] \in Contents /\ tr[m][s] \in Trailers /\ ran[m][s] \in 0..2
  BY DEF TypeOK
<1>2. \A v \in Versions \cup {0} : v \in Nat /\ (v # 0 => v \in Versions /\ SecCnt[v] \in Nat)
  BY XipAssumption
<1>3. img[m][s].v \in Versions \cup {0}
  BY <1>1 DEF Contents
<1>4. img[m][s].ok \in BOOLEAN /\ img[m][s].fits \in BOOLEAN
  BY <1>1 DEF Contents
<1>5. /\ img[m][s].v \in Nat
      /\ img[m][s].v # 0 => img[m][s].v \in Versions /\ SecCnt[img[m][s].v] \in Nat
  BY <1>2, <1>3
<1> QED
  BY <1>1, <1>4, <1>5, Zenon

(* Of the slots that are available one has the highest version.              *)
LEMMA HighestVersion ==
    ASSUME TypeOK, NEW m \in ImageIds, slot_available[m] # {}
    PROVE  LET s == find_slot_with_highest_version(m)
           IN /\ s \in slot_available[m] /\ s \in Slots
              /\ \A t \in slot_available[m] : img[m][t].v <= img[m][s].v
<1>1. slot_available[m] \subseteq {0, 1} /\ slot_available[m] # {}
  BY DEF TypeOK, Slots
<1>2. \A t \in {0, 1} : img[m][t].v \in Nat
  BY SlotTypes DEF Slots
<1>3. \E s \in slot_available[m] :
          \A t \in slot_available[m] :
              img[m][t].v < img[m][s].v \/ (img[m][t].v = img[m][s].v /\ s <= t)
  <2>1. CASE slot_available[m] = {0}
    BY <2>1
  <2>2. CASE slot_available[m] = {1}
    BY <2>2
  <2>3. CASE slot_available[m] = {0, 1}
    <3>1. CASE img[m][0].v < img[m][1].v
      BY <1>2, <2>3, <3>1
    <3>2. CASE ~(img[m][0].v < img[m][1].v)
      BY <1>2, <2>3, <3>2
    <3> QED
      BY <3>1, <3>2
  <2> QED
    BY <1>1, <2>1, <2>2, <2>3
<1> DEFINE s == find_slot_with_highest_version(m)
<1>4. /\ s \in slot_available[m]
      /\ \A t \in slot_available[m] :
             img[m][t].v < img[m][s].v \/ (img[m][t].v = img[m][s].v /\ s <= t)
  BY <1>3 DEF find_slot_with_highest_version
<1> HIDE DEF s
<1>5. \A t \in slot_available[m] : img[m][t].v <= img[m][s].v
  BY <1>1, <1>2, <1>4
<1> QED
  BY <1>1, <1>4, <1>5 DEF s, Slots

(* Nothing is known of any slot after a reboot.                              *)
LEMMA RebootForgets ==
    ASSUME Reboot
    PROVE  /\ Usage' /\ Sound' /\ pc' = "reset" /\ cur' \in ImageIds
           /\ slot_available' \in [ImageIds -> SUBSET Slots]
           /\ active_slot' \in [ImageIds -> Slots \cup {BOOT_SLOT_NONE}]
           /\ image_ok' \in [ImageIds -> {"SET", "UNSET"}]
           /\ \A m \in ImageIds : active_slot'[m] = BOOT_SLOT_NONE
<1>1. /\ pc' = "reset" /\ cur' = 0
      /\ slot_available' = [m \in ImageIds |-> {}]
      /\ active_slot' = [m \in ImageIds |-> BOOT_SLOT_NONE]
      /\ image_ok' = [m \in ImageIds |-> "UNSET"]
  BY DEF Reboot, NoRam
<1>2. \A m \in ImageIds : active_slot'[m] = BOOT_SLOT_NONE /\ slot_available'[m] = {}
  BY <1>1
<1>3. Usage'
  BY <1>1, <1>2 DEF Usage
<1>4. Sound'
  BY <1>1, <1>2 DEF Sound, Loaded
<1> QED
  BY <1>1, <1>2, <1>3, <1>4, Ids

LEMMA InitEstablishes == Init => Inv
<1> SUFFICES ASSUME Init PROVE Inv
  OBVIOUS
<1> DEFINE old == [v |-> OldVersion, ok |-> TRUE, fits |-> TRUE]
<1>1. /\ build \in Builds /\ pc = "reset" /\ cur = 0
      /\ img = [m \in ImageIds |-> [s \in Slots |-> IF s = 0 THEN old ELSE Erased]]
      /\ tr = [m \in ImageIds |-> [s \in Slots |-> IF s = 0 THEN Confirmed ELSE ErasedTrailer]]
      /\ counter = [m \in ImageIds |-> 0]
      /\ slot_available = [m \in ImageIds |-> {}]
      /\ active_slot = [m \in ImageIds |-> BOOT_SLOT_NONE]
      /\ image_ok = [m \in ImageIds |-> "UNSET"]
      /\ ran = [m \in ImageIds |-> [s \in Slots |-> 0]]
  BY DEF Init
<1>2. old \in Contents /\ Erased \in Contents
  BY OldExists DEF Contents, Erased
<1>3. /\ Confirmed = [magic |-> "GOOD", image_ok |-> "SET", copy_done |-> "SET", swap_info |-> "NONE"]
      /\ Confirmed \in Trailers /\ ErasedTrailer \in Trailers
  <2>1. boot_write_magic(ErasedTrailer) =
            [magic |-> "GOOD", image_ok |-> "UNSET", copy_done |-> "UNSET", swap_info |-> "NONE"]
    BY DEF ErasedTrailer, boot_write_magic
  <2>2. boot_write_image_ok(boot_write_magic(ErasedTrailer)) =
            [magic |-> "GOOD", image_ok |-> "SET", copy_done |-> "UNSET", swap_info |-> "NONE"]
    BY <2>1 DEF boot_write_image_ok
  <2>3. Confirmed =
            [magic |-> "GOOD", image_ok |-> "SET", copy_done |-> "SET", swap_info |-> "NONE"]
    BY <2>2 DEF Confirmed, boot_write_copy_done
  <2> QED
    BY <2>3 DEF Trailers, ErasedTrailer
<1>4. TypeOK
  BY <1>1, <1>2, <1>3, Ids DEF TypeOK, Pcs
<1>5. Usage /\ Marked /\ Sound
  BY <1>1 DEF Usage, Marked, Sound, Selected, Loaded
<1>6. Fallback([m \in ImageIds |-> 0])
  <2> DEFINE f == [m \in ImageIds |-> 0]
  <2>1. \A m \in ImageIds : f[m] = 0 /\ img[m][f[m]] = old /\ tr[m][f[m]] = Confirmed
    BY <1>1, Ids
  <2>2. \A m \in ImageIds : counter[m] = 0 /\ active_slot[m] = BOOT_SLOT_NONE
    BY <1>1
  <2>3. \A m, o \in ImageIds : OldVersion >= Needs[m][OldVersion][o]
    BY OldAssumption, XipAssumption, OldExists
  <2>4. SecCnt[OldVersion] \in Nat
    BY XipAssumption, OldExists
  <2> HIDE DEF f
  <2>5. \A m \in ImageIds :
            LET c == img[m][f[m]]
            IN c.v = OldVersion /\ c.fits /\ c.ok /\ SecCnt[c.v] >= counter[m]
    BY <2>1, <2>2, <2>4
  <2>6. \A m \in ImageIds : tr[m][f[m]].magic = "GOOD" /\ tr[m][f[m]].image_ok = "SET"
    BY <1>3, <2>1
  <2>7. \A m \in ImageIds : build.deps =>
            \A o \in ImageIds : img[o][f[o]].v >= Needs[m][img[m][f[m]].v][o]
    BY <2>3, <2>5
  <2>8. Fallback(f)
    BY <1>1, <2>2, <2>5, <2>6, <2>7, OldExists DEF Fallback, Bootable
  <2> QED
    BY <2>8 DEF f
<1>7. [m \in ImageIds |-> 0] \in [ImageIds -> Slots]
  BY Ids
<1> QED
  BY <1>1, <1>4, <1>5, <1>6, <1>7 DEF Inv, XipInv, Recoverable

-----------------------------------------------------------------------------
(* One lemma per step of context_boot_go.                                    *)

LEMMA ResetStep == Inv /\ Reset => Inv'
<1> SUFFICES ASSUME Inv, Reset PROVE Inv'
  OBVIOUS
<1>1. UNCHANGED <<build, img, tr, counter, ran>> /\ Reboot
  BY DEF Reset, flash
<1>2. /\ Usage' /\ Sound' /\ pc' = "reset"
      /\ \A m \in ImageIds : active_slot'[m] = BOOT_SLOT_NONE
  BY <1>1, RebootForgets
<1>3. TypeOK'
  BY <1>1, RebootForgets DEF Inv, XipInv, TypeOK, Pcs
<1>4. Marked'
  BY <1>1, <1>2 DEF Inv, XipInv, Marked, Selected
<1>5. Recoverable'
  <2>1. ASSUME NEW f \in [ImageIds -> Slots], Fallback(f) PROVE Fallback(f)'
    BY <1>1, <1>2, <2>1 DEF Fallback, Bootable
  <2> QED
    BY <1>1, <1>2, <2>1 DEF Inv, Recoverable, CounterSafe
<1> QED
  BY <1>2, <1>3, <1>4, <1>5 DEF Inv, XipInv

LEMMA GetSlotUsageStep == Inv /\ GetSlotUsage => Inv'
<1> SUFFICES ASSUME Inv, GetSlotUsage PROVE Inv'
  OBVIOUS
<1>1. /\ pc = "reset" /\ pc' = "find"
      /\ slot_available' = [m \in ImageIds |-> {s \in Slots : img[m][s].v # 0}]
      /\ UNCHANGED <<build, img, tr, counter, cur, active_slot, image_ok, ran>>
  BY DEF GetSlotUsage, flash
<1>2. cur = 0 /\ \A m \in ImageIds : active_slot[m] = BOOT_SLOT_NONE
  BY <1>1 DEF Inv, XipInv, Usage
<1>3. TypeOK'
  BY <1>1 DEF Inv, XipInv, TypeOK, Pcs
<1>4. Usage'
  BY <1>1, <1>2 DEF Usage
<1>5. Marked'
  BY <1>1, <1>2 DEF Inv, XipInv, Marked, Selected
<1>6. Sound'
  BY <1>1, <1>2 DEF Sound, Loaded
<1>7. Recoverable'
  <2>1. ASSUME NEW f \in [ImageIds -> Slots], Fallback(f) PROVE Fallback(f)'
    <3>1. \A m \in ImageIds : img[m][f[m]].v # 0 /\ f[m] \in Slots
      BY <2>1 DEF Fallback
    <3>2. \A m \in ImageIds : f[m] \in slot_available'[m]
      BY <1>1, <3>1
    <3> QED
      BY <1>1, <1>2, <2>1, <3>2 DEF Fallback, Bootable
  <2> QED
    BY <1>1, <2>1 DEF Inv, Recoverable, CounterSafe
<1> QED
  BY <1>3, <1>4, <1>5, <1>6, <1>7 DEF Inv, XipInv

(* The search goes on to the next image, or is complete.                     *)
LEMMA NextImageKeeps ==
    ASSUME Inv, NextImage, UNCHANGED <<build, img, tr, counter, slot_available, active_slot,
                                       image_ok, ran>>,
           pc \in {"find", "load"}, Active # BOOT_SLOT_NONE,
           img[cur][Active].fits /\ Bootable(cur, img[cur][Active])
    PROVE  Inv'
<1>1. /\ cur + 1 < BOOT_IMAGE_NUMBER => cur' = cur + 1 /\ pc' = "find"
      /\ ~(cur + 1 < BOOT_IMAGE_NUMBER) => cur' = 0 /\ pc' = "deps"
  BY DEF NextImage
<1>2. cur \in ImageIds /\ cur' \in ImageIds /\ pc' \in {"find", "deps"}
  BY <1>1, Ids DEF Inv, XipInv, TypeOK
<1>3. TypeOK'
  BY <1>2 DEF Inv, XipInv, TypeOK, Pcs
<1>4. Usage'
  <2>1. \A m \in 0..cur : active_slot[m] # BOOT_SLOT_NONE
    BY <1>2, Ids DEF Inv, XipInv, Usage, Active
  <2>2. CASE cur + 1 < BOOT_IMAGE_NUMBER
    <3>1. cur' - 1 = cur /\ pc' = "find"
      BY <1>1, <1>2, <2>2, Ids
    <3> QED
      BY <2>1, <3>1 DEF Inv, XipInv, Usage
  <2>3. CASE ~(cur + 1 < BOOT_IMAGE_NUMBER)
    <3>1. 0..cur = ImageIds /\ pc' = "deps" /\ cur' = 0
      BY <1>1, <1>2, <2>3, Ids
    <3> QED
      BY <2>1, <3>1 DEF Inv, XipInv, Usage
  <2> QED
    BY <2>2, <2>3
<1>5. \A m \in ImageIds : Selected(m)' <=> Selected(m)
  BY <1>2 DEF Selected, Active
<1>6. Marked'
  BY <1>2, <1>5 DEF Inv, XipInv, Marked
<1>7. Sound'
  <2>1. \A m \in ImageIds : Loaded(m)' => Loaded(m) \/ m = cur
    BY <1>2 DEF Loaded
  <2> QED
    BY <1>2, <2>1 DEF Inv, XipInv, Sound, Bootable, Active
<1>8. Recoverable'
  <2>1. ASSUME NEW f \in [ImageIds -> Slots], Fallback(f) PROVE Fallback(f)'
    BY <1>2, <2>1 DEF Fallback, Bootable
  <2> QED
    BY <1>2, <2>1 DEF Inv, Recoverable, CounterSafe
<1> QED
  BY <1>3, <1>4, <1>6, <1>7, <1>8 DEF Inv, XipInv

LEMMA AlreadyActiveStep == Inv /\ AlreadyActive => Inv'
<1> SUFFICES ASSUME Inv, AlreadyActive PROVE Inv'
  OBVIOUS
<1>1. /\ pc = "find" /\ Active # BOOT_SLOT_NONE /\ NextImage
      /\ UNCHANGED <<build, img, tr, counter, slot_available, active_slot, image_ok, ran>>
  BY DEF AlreadyActive, flash, ram
<1>2. Loaded(cur) /\ cur \in ImageIds
  BY <1>1 DEF Loaded, Active, Inv, XipInv, TypeOK
<1>3. img[cur][Active].fits /\ Bootable(cur, img[cur][Active])
  BY <1>2 DEF Inv, XipInv, Sound, Active
<1> QED
  BY <1>1, <1>3, NextImageKeeps

LEMMA FindSlotStep == Inv /\ FindSlot => Inv'
<1> SUFFICES ASSUME Inv, FindSlot PROVE Inv'
  OBVIOUS
<1>1. /\ pc = "find" /\ Active = BOOT_SLOT_NONE
      /\ UNCHANGED <<build, img, tr, counter, cur, slot_available, image_ok, ran>>
  BY DEF FindSlot, flash
<1>2. TypeOK /\ cur \in ImageIds
  BY DEF Inv, XipInv, TypeOK
<1>3. CASE slot_available[cur] = {}
  <2>1. pc' = "no_boot" /\ UNCHANGED active_slot
    BY <1>3 DEF FindSlot
  <2>2. TypeOK' /\ Usage'
    BY <1>1, <1>2, <2>1 DEF TypeOK, Pcs, Inv, XipInv, Usage
  <2>3. \A m \in ImageIds : (Selected(m)' <=> Selected(m)) /\ (Loaded(m)' <=> Loaded(m))
    BY <1>1, <2>1 DEF Selected, Loaded
  <2>4. Marked'
    BY <1>1, <2>1, <2>3 DEF Inv, XipInv, Marked
  <2>5. Sound'
    BY <1>1, <2>1, <2>3 DEF Inv, XipInv, Sound, Bootable
  <2>6. ~CounterSafe
    BY <1>1, <1>2, <1>3 DEF Inv, Recoverable, Fallback
  <2> QED
    BY <1>1, <2>2, <2>4, <2>5, <2>6 DEF Inv, XipInv, Recoverable, CounterSafe
<1>4. CASE slot_available[cur] # {}
  <2> DEFINE s == find_slot_with_highest_version(cur)
  <2>1. /\ pc' \in {"select", "address"} /\ (~build.ram => pc' = "address")
        /\ active_slot' = [active_slot EXCEPT ![cur] = s]
    BY <1>4 DEF FindSlot
  <2>2. /\ s \in slot_available[cur] /\ s \in Slots /\ s # BOOT_SLOT_NONE
        /\ \A t \in slot_available[cur] : img[cur][t].v <= img[cur][s].v
    BY <1>2, <1>4, HighestVersion, Ids
  <2> HIDE DEF s
  <2>3. /\ active_slot'[cur] = s
        /\ \A m \in ImageIds : m # cur => active_slot'[m] = active_slot[m]
    BY <1>2, <2>1 DEF TypeOK
  <2>4. TypeOK'
    BY <1>1, <1>2, <2>1, <2>2 DEF TypeOK, Pcs
  <2>5. Usage'
    <3>1. \A m \in 0..cur : m \in 0..cur - 1 \/ m = cur
      BY <1>2, Ids
    <3>2. \A m \in 0..cur - 1 : m \in ImageIds /\ m # cur
      BY <1>2, Ids
    <3> QED
      BY <1>1, <1>2, <2>1, <2>2, <2>3, <3>1, <3>2 DEF Inv, XipInv, Usage
  <2>6. \A m \in ImageIds : /\ Selected(m)' => Selected(m) /\ m # cur
                            /\ Loaded(m)' => Loaded(m) /\ m # cur
    BY <1>1, <2>1, <2>3 DEF Selected, Loaded
  <2>7. Marked'
    BY <1>1, <2>1, <2>3, <2>6 DEF Inv, XipInv, Marked
  <2>8. Sound'
    BY <1>1, <2>1, <2>3, <2>6 DEF Inv, XipInv, Sound, Bootable
  <2>9. Recoverable'
    <3>1. ASSUME NEW f \in [ImageIds -> Slots], Fallback(f) PROVE Fallback(f)'
      <4>1. \A m \in ImageIds : f[m] \in slot_available[m]
        BY <1>1, <3>1 DEF Fallback
      <4>2. img[cur][s].v >= img[cur][f[cur]].v
        BY <1>2, <2>2, <4>1, SlotTypes
      <4> QED
        BY <1>1, <1>2, <2>1, <2>3, <3>1, <4>1, <4>2 DEF Fallback, Bootable
    <3> QED
      BY <1>1, <2>1, <3>1 DEF Inv, Recoverable, CounterSafe
  <2> QED
    BY <2>4, <2>5, <2>7, <2>8, <2>9 DEF Inv, XipInv
<1> QED
  BY <1>3, <1>4

(* What changes when the active slot is given up: nothing, or it is erased.  *)
ActiveLost ==
    /\ img' \in [ImageIds -> [Slots -> Contents]] /\ tr' \in [ImageIds -> [Slots -> Trailers]]
    /\ UNCHANGED <<build, counter, ran>>
    /\ \A m \in ImageIds : \A s \in Slots :
           \/ img'[m][s] = img[m][s] /\ tr'[m][s] = tr[m][s]
           \/ m = cur /\ s = Active /\ img'[m][s].v = 0

LEMMA TryAnotherKeeps ==
    ASSUME Inv, TryAnother, ActiveLost, pc \in {"address", "select", "load"},
           \A f \in [ImageIds -> Slots] : Fallback(f) => f[cur] # Active
    PROVE  Inv'
<1>1. /\ slot_available' = [slot_available EXCEPT ![cur] = @ \ {Active}]
      /\ active_slot' = [active_slot EXCEPT ![cur] = BOOT_SLOT_NONE]
      /\ pc' = "find" /\ UNCHANGED <<cur, image_ok>>
  BY DEF TryAnother
<1>2. TypeOK /\ cur \in ImageIds
  BY DEF Inv, XipInv, TypeOK
<1>3. UNCHANGED <<build, counter, ran>>
  BY DEF ActiveLost
<1>4. /\ slot_available'[cur] = slot_available[cur] \ {Active} /\ active_slot'[cur] = BOOT_SLOT_NONE
      /\ \A m \in ImageIds : m # cur =>
             slot_available'[m] = slot_available[m] /\ active_slot'[m] = active_slot[m]
  BY <1>1, <1>2 DEF TypeOK
<1>5. \A m \in ImageIds : \A s \in Slots :
          m # cur \/ s # Active => img'[m][s] = img[m][s] /\ tr'[m][s] = tr[m][s]
  BY DEF ActiveLost
<1>6. TypeOK'
  <2>1. /\ slot_available' \in [ImageIds -> SUBSET Slots]
        /\ active_slot' \in [ImageIds -> Slots \cup {BOOT_SLOT_NONE}]
    BY <1>1, <1>2 DEF TypeOK
  <2> QED
    BY <1>1, <1>2, <1>3, <2>1 DEF TypeOK, Pcs, ActiveLost
<1>7. Usage'
  <2>1. ASSUME NEW m \in ImageIds, NEW s \in slot_available'[m] PROVE img'[m][s].v # 0
    <3>1. s \in slot_available[m] /\ s \in Slots /\ (m # cur \/ s # Active)
      BY <1>2, <1>4, <2>1 DEF TypeOK
    <3> QED
      BY <1>5, <3>1 DEF Inv, XipInv, Usage
  <2>2. ASSUME NEW m \in ImageIds, active_slot'[m] # BOOT_SLOT_NONE
        PROVE active_slot'[m] \in slot_available'[m]
    BY <1>4, <2>2 DEF Inv, XipInv, Usage
  <2>3. ASSUME NEW m \in 0..cur - 1 PROVE active_slot'[m] # BOOT_SLOT_NONE
    <3>1. m \in ImageIds /\ m # cur /\ m \in 0..cur
      BY <1>2, <2>3, Ids
    <3> QED
      BY <1>4, <3>1 DEF Inv, XipInv, Usage
  <2> QED
    BY <1>1, <2>1, <2>2, <2>3 DEF Usage
<1>8. \A m \in ImageIds : /\ Selected(m)' => Selected(m) /\ m # cur
                          /\ Loaded(m)' => Loaded(m) /\ m # cur
  BY <1>1, <1>4 DEF Selected, Loaded
<1>9. ASSUME NEW m \in ImageIds, active_slot'[m] # BOOT_SLOT_NONE, m # cur
      PROVE  /\ img'[m][active_slot'[m]] = img[m][active_slot[m]]
             /\ tr'[m][active_slot'[m]] = tr[m][active_slot[m]]
  <2>1. active_slot'[m] = active_slot[m] /\ active_slot[m] \in Slots
    BY <1>2, <1>4, <1>9 DEF TypeOK
  <2> QED
    BY <1>5, <1>9, <2>1
<1>10. Marked'
  <2> SUFFICES ASSUME build.revert PROVE Marked'
    BY <1>3 DEF Marked
  <2>1. \A m \in ImageIds, s \in Slots :
            img'[m][s].v # 0 /\ ran'[m][s] # 0 /\ tr'[m][s].image_ok # "SET" =>
                tr'[m][s].copy_done = "SET"
    BY <1>3 DEF ActiveLost, Inv, XipInv, Marked
  <2>2. \A m \in ImageIds, s \in Slots : ran'[m][s] <= 1
    BY <1>3 DEF Inv, XipInv, Marked
  <2>3. ASSUME NEW m \in ImageIds, Selected(m)'
        PROVE  LET s == active_slot'[m]
               IN /\ tr'[m][s].magic = "GOOD" /\ tr'[m][s].copy_done = "SET"
                  /\ image_ok'[m] = "SET" => tr'[m][s].image_ok = "SET"
                  /\ pc' = "app" \/ tr'[m][s].image_ok = "SET" \/ ran'[m][s] = 0
    <3>1. Selected(m) /\ m # cur /\ active_slot'[m] # BOOT_SLOT_NONE
      BY <1>8, <2>3 DEF Selected
    <3> QED
      BY <1>1, <1>3, <1>4, <1>9, <3>1 DEF Inv, XipInv, Marked
  <2> QED
    BY <2>1, <2>2, <2>3 DEF Marked
<1>11. Sound'
  <2>1. ASSUME NEW m \in ImageIds, Loaded(m)'
        PROVE  img'[m][active_slot'[m]].fits /\ Bootable(m, img[m][active_slot[m]])'
    <3>1. Loaded(m) /\ m # cur /\ active_slot'[m] # BOOT_SLOT_NONE
      BY <1>8, <2>1 DEF Loaded
    <3> QED
      BY <1>3, <1>9, <3>1 DEF Inv, XipInv, Sound, Bootable
  <2> QED
    BY <1>1, <2>1 DEF Sound
<1>12. Recoverable'
  <2>1. ASSUME NEW f \in [ImageIds -> Slots], Fallback(f) PROVE Fallback(f)'
    <3>1. f[cur] # Active
      BY <2>1
    <3>2. \A m \in ImageIds : img'[m][f[m]] = img[m][f[m]] /\ tr'[m][f[m]] = tr[m][f[m]]
      BY <1>5, <3>1
    <3>3. \A m \in ImageIds : f[m] \in slot_available'[m]
      BY <1>4, <2>1, <3>1 DEF Fallback
    <3>4. \A m \in ImageIds : active_slot'[m] # BOOT_SLOT_NONE =>
              img'[m][active_slot'[m]].v >= img[m][f[m]].v
      BY <1>4, <1>9, <2>1 DEF Fallback
    <3> QED
      BY <1>1, <1>3, <2>1, <3>2, <3>3, <3>4 DEF Fallback, Bootable
  <2> QED
    BY <1>1, <1>3, <2>1 DEF Inv, Recoverable, CounterSafe
<1> QED
  BY <1>6, <1>7, <1>10, <1>11, <1>12 DEF Inv, XipInv

(* The power fails while the active slot is erased.                          *)
LEMMA RebootKeeps ==
    ASSUME Inv, Reboot, ActiveLost, pc \in {"select", "load"},
           \A f \in [ImageIds -> Slots] : Fallback(f) => f[cur] # Active
    PROVE  Inv'
<1>1. /\ Usage' /\ Sound' /\ pc' = "reset"
      /\ \A m \in ImageIds : active_slot'[m] = BOOT_SLOT_NONE
  BY RebootForgets
<1>2. UNCHANGED <<build, counter, ran>>
  BY DEF ActiveLost
<1>3. \A m \in ImageIds : \A s \in Slots :
          m # cur \/ s # Active => img'[m][s] = img[m][s] /\ tr'[m][s] = tr[m][s]
  BY DEF ActiveLost
<1>4. TypeOK'
  BY <1>1, <1>2, RebootForgets DEF Inv, XipInv, TypeOK, Pcs, ActiveLost
<1>5. Marked'
  <2>1. \A m \in ImageIds : ~Selected(m)'
    BY <1>1 DEF Selected
  <2> QED
    BY <1>2, <2>1 DEF Inv, XipInv, Marked, ActiveLost
<1>6. Recoverable'
  <2>1. ASSUME NEW f \in [ImageIds -> Slots], Fallback(f) PROVE Fallback(f)'
    <3>1. \A m \in ImageIds : img'[m][f[m]] = img[m][f[m]] /\ tr'[m][f[m]] = tr[m][f[m]]
      BY <1>3, <2>1
    <3> QED
      BY <1>1, <1>2, <2>1, <3>1 DEF Fallback, Bootable
  <2> QED
    BY <1>1, <1>2, <2>1 DEF Inv, Recoverable, CounterSafe
<1> QED
  BY <1>1, <1>4, <1>5, <1>6 DEF Inv, XipInv

LEMMA EraseSlotKeeps ==
    ASSUME Inv, EraseSlot, pc \in {"select", "load"},
           \A f \in [ImageIds -> Slots] : Fallback(f) => f[cur] # Active
    PROVE  Inv'
<1>1. TypeOK /\ cur \in ImageIds /\ Active \in Slots
  <2>1. cur \in 0..cur /\ cur \in ImageIds
    BY Ids DEF Inv, XipInv, TypeOK
  <2>2. active_slot[cur] # BOOT_SLOT_NONE
    BY <2>1 DEF Inv, XipInv, Usage
  <2> QED
    BY <2>1, <2>2 DEF Inv, XipInv, TypeOK, Active
<1>2. /\ img' = [img EXCEPT ![cur][Active] = Erased]
      /\ tr' = [tr EXCEPT ![cur][Active] = ErasedTrailer] \/ UNCHANGED tr
      /\ UNCHANGED <<build, counter, ran>>
  BY DEF EraseSlot
<1>3. Erased \in Contents /\ Erased.v = 0 /\ ErasedTrailer \in Trailers
  BY DEF Erased, Contents, ErasedTrailer, Trailers
<1>4. ActiveLost
  <2>1. /\ img' \in [ImageIds -> [Slots -> Contents]] /\ img'[cur][Active] = Erased
        /\ \A m \in ImageIds : \A s \in Slots : m # cur \/ s # Active => img'[m][s] = img[m][s]
    BY <1>1, <1>2, <1>3 DEF TypeOK
  <2>2. /\ tr' \in [ImageIds -> [Slots -> Trailers]]
        /\ \A m \in ImageIds : \A s \in Slots : m # cur \/ s # Active => tr'[m][s] = tr[m][s]
    <3>1. CASE tr' = [tr EXCEPT ![cur][Active] = ErasedTrailer]
      BY <1>1, <1>3, <3>1 DEF TypeOK
    <3>2. CASE UNCHANGED tr
      BY <1>1, <3>2 DEF TypeOK
    <3> QED
      BY <1>2, <3>1, <3>2
  <2> QED
    BY <1>2, <1>3, <2>1, <2>2 DEF ActiveLost
<1>5. TryAnother \/ Reboot
  BY DEF EraseSlot
<1> QED
  BY <1>4, <1>5, TryAnotherKeeps, RebootKeeps

LEMMA RomAddressCheckStep == Inv /\ RomAddressCheck => Inv'
<1> SUFFICES ASSUME Inv, RomAddressCheck PROVE Inv'
  OBVIOUS
<1>1. /\ pc = "address" /\ UNCHANGED <<build, img, tr, counter, ran>>
  BY DEF RomAddressCheck, flash
<1>2. CASE img[cur][Active].fits
  <2>1. pc' = "select" /\ UNCHANGED <<cur, slot_available, active_slot, image_ok>>
    BY <1>2 DEF RomAddressCheck, ram
  <2>2. TypeOK' /\ Usage'
    BY <1>1, <2>1 DEF Inv, XipInv, TypeOK, Pcs, Usage
  <2>3. \A m \in ImageIds : (Selected(m)' <=> Selected(m)) /\ (Loaded(m)' <=> Loaded(m))
    BY <1>1, <2>1 DEF Selected, Loaded
  <2>4. Marked' /\ Sound'
    BY <1>1, <1>2, <2>1, <2>3 DEF Inv, XipInv, Marked, Sound, Bootable, Active
  <2>5. Recoverable'
    <3>1. ASSUME NEW f \in [ImageIds -> Slots], Fallback(f) PROVE Fallback(f)'
      BY <1>1, <2>1, <3>1 DEF Fallback, Bootable
    <3> QED
      BY <1>1, <2>1, <3>1 DEF Inv, Recoverable, CounterSafe
  <2> QED
    BY <2>2, <2>4, <2>5 DEF Inv, XipInv
<1>3. CASE ~img[cur][Active].fits
  <2>1. TryAnother
    BY <1>3 DEF RomAddressCheck
  <2>2. ActiveLost
    BY <1>1 DEF ActiveLost, Inv, XipInv, TypeOK
  <2>3. \A f \in [ImageIds -> Slots] : Fallback(f) => f[cur] # Active
    BY <1>3 DEF Fallback, Inv, XipInv, TypeOK
  <2> QED
    BY <1>1, <2>1, <2>2, <2>3, TryAnotherKeeps
<1> QED
  BY <1>2, <1>3

LEMMA EraseFaultyStep == Inv /\ EraseFaulty => Inv'
<1> SUFFICES ASSUME Inv, EraseFaulty PROVE Inv'
  OBVIOUS
<1>1. pc = "select" /\ build.revert /\ Faulty(tr[cur][Active]) /\ EraseSlot
  BY DEF EraseFaulty
<1>2. \A f \in [ImageIds -> Slots] : Fallback(f) => f[cur] # Active
  BY <1>1 DEF Fallback, Faulty, Inv, XipInv, TypeOK
<1> QED
  BY <1>1, <1>2, EraseSlotKeeps

LEMMA RemoveInvalidStep == Inv /\ RemoveInvalid => Inv'
<1> SUFFICES ASSUME Inv, RemoveInvalid PROVE Inv'
  OBVIOUS
<1>1. pc = "load" /\ ~Valid /\ EraseSlot
  BY DEF RemoveInvalid
<1>2. \A f \in [ImageIds -> Slots] : Fallback(f) => f[cur] # Active
  BY <1>1 DEF Fallback, Valid, Inv, XipInv, TypeOK
<1> QED
  BY <1>1, <1>2, EraseSlotKeeps

LEMMA LoadAndValidateStep == Inv /\ LoadAndValidate => Inv'
<1> SUFFICES ASSUME Inv, LoadAndValidate PROVE Inv'
  OBVIOUS
<1>1. /\ pc = "load" /\ Valid /\ NextImage
      /\ UNCHANGED <<build, img, tr, counter, slot_available, active_slot, image_ok, ran>>
  BY DEF LoadAndValidate, flash, ram
<1>2. cur \in ImageIds /\ cur \in 0..cur
  BY Ids DEF Inv, XipInv, TypeOK
<1>3. Active # BOOT_SLOT_NONE
  BY <1>1, <1>2 DEF Inv, XipInv, Usage, Active
<1>4. img[cur][Active].fits /\ Bootable(cur, img[cur][Active])
  BY <1>1 DEF Valid, Inv, XipInv, Sound
<1> QED
  BY <1>1, <1>3, <1>4, NextImageKeeps

(* Trailers only gain flags: what is confirmed stays confirmed.              *)
Grows(t, u) ==
    /\ t.magic = "GOOD" => u.magic = "GOOD"
    /\ t.copy_done = "SET" => u.copy_done = "SET"
    /\ t.image_ok = "SET" => u.image_ok = "SET"

LEMMA Written ==
    ASSUME NEW t \in Trailers
    PROVE  LET marked == boot_write_magic(t)
               begun == boot_write_copy_done(marked)
           IN \A u \in {boot_write_copy_done(t), marked, begun, boot_write_image_ok(begun)} :
                  u \in Trailers /\ Grows(t, u)
<1> DEFINE marked == boot_write_magic(t)
           begun == boot_write_copy_done(marked)
<1>1. boot_write_copy_done(t) \in Trailers /\ Grows(t, boot_write_copy_done(t))
  BY DEF boot_write_copy_done, Trailers, Grows
<1>2. marked \in Trailers /\ Grows(t, marked)
  BY DEF boot_write_magic, Trailers, Grows
<1>3. ASSUME NEW u \in Trailers, Grows(t, u)
      PROVE  /\ boot_write_copy_done(u) \in Trailers /\ Grows(t, boot_write_copy_done(u))
             /\ boot_write_image_ok(u) \in Trailers /\ Grows(t, boot_write_image_ok(u))
  BY <1>3 DEF boot_write_copy_done, boot_write_image_ok, Trailers, Grows
<1>4. begun \in Trailers /\ Grows(t, begun)
  BY <1>2, <1>3
<1>5. boot_write_image_ok(begun) \in Trailers /\ Grows(t, boot_write_image_ok(begun))
  BY <1>3, <1>4
<1> QED
  BY <1>1, <1>2, <1>4, <1>5, Zenon

LEMMA SelectStep == Inv /\ Select => Inv'
<1> SUFFICES ASSUME Inv, Select PROVE Inv'
  OBVIOUS
<1>1. /\ pc = "select" /\ pc' = "load" /\ ~(build.revert /\ Faulty(tr[cur][Active]))
      /\ UNCHANGED <<build, img, counter, cur, slot_available, active_slot, ran>>
  BY DEF Select
<1>2. TypeOK /\ cur \in ImageIds /\ Active \in Slots /\ Active # BOOT_SLOT_NONE
  <2>1. cur \in 0..cur /\ cur \in ImageIds
    BY Ids DEF Inv, XipInv, TypeOK
  <2>2. active_slot[cur] # BOOT_SLOT_NONE
    BY <1>1, <2>1 DEF Inv, XipInv, Usage
  <2> QED
    BY <2>1, <2>2 DEF Inv, XipInv, TypeOK, Active
<1>3. tr[cur][Active] \in Trailers /\ img[cur][Active].v # 0
  BY <1>2, SlotTypes DEF Inv, XipInv, Usage, Active
<1>4. /\ tr' \in [ImageIds -> [Slots -> Trailers]]
      /\ image_ok' \in [ImageIds -> {"SET", "UNSET"}]
      /\ \A m \in ImageIds : \A s \in Slots : Grows(tr[m][s], tr'[m][s])
      /\ \A m \in ImageIds : \A s \in Slots :
             m # cur \/ s # Active => tr'[m][s] = tr[m][s]
      /\ \A m \in ImageIds : m # cur => image_ok'[m] = image_ok[m]
      /\ build.revert => /\ tr'[cur][Active] = boot_write_copy_done(tr[cur][Active])
                         /\ image_ok'[cur] = tr[cur][Active].image_ok
  <2>1. CASE build.revert
    <3>1. /\ tr' = [tr EXCEPT ![cur][Active] = boot_write_copy_done(tr[cur][Active])]
          /\ image_ok' = [image_ok EXCEPT ![cur] = tr[cur][Active].image_ok]
      BY <2>1 DEF Select
    <3>2. /\ boot_write_copy_done(tr[cur][Active]) \in Trailers
          /\ Grows(tr[cur][Active], boot_write_copy_done(tr[cur][Active]))
      BY <1>3, Written
    <3>3. tr[cur][Active].image_ok \in {"SET", "UNSET"}
      BY <1>3 DEF Trailers
    <3>4. /\ tr' \in [ImageIds -> [Slots -> Trailers]]
          /\ tr'[cur][Active] = boot_write_copy_done(tr[cur][Active])
          /\ \A m \in ImageIds : \A s \in Slots :
                 m # cur \/ s # Active => tr'[m][s] = tr[m][s]
      BY <1>2, <3>1, <3>2 DEF TypeOK
    <3>5. /\ image_ok' \in [ImageIds -> {"SET", "UNSET"}]
          /\ image_ok'[cur] = tr[cur][Active].image_ok
          /\ \A m \in ImageIds : m # cur => image_ok'[m] = image_ok[m]
      BY <1>2, <3>1, <3>3 DEF TypeOK
    <3>6. \A m \in ImageIds : \A s \in Slots : Grows(tr[m][s], tr'[m][s])
      BY <3>2, <3>4 DEF Grows
    <3> QED
      BY <3>4, <3>5, <3>6
  <2>2. CASE ~build.revert
    <3>1. UNCHANGED <<tr, image_ok>>
      BY <2>2 DEF Select
    <3> QED
      BY <1>2, <2>2, <3>1 DEF TypeOK, Grows
  <2> QED
    BY <2>1, <2>2
<1>5. TypeOK'
  BY <1>1, <1>2, <1>4 DEF TypeOK, Pcs
<1>6. Usage'
  BY <1>1 DEF Inv, XipInv, Usage
<1>7. Sound'
  <2>1. \A m \in ImageIds : Loaded(m)' <=> Loaded(m)
    BY <1>1 DEF Loaded
  <2> QED
    BY <1>1, <2>1 DEF Inv, XipInv, Sound, Bootable, Active
<1>8. Marked'
  <2> SUFFICES ASSUME build.revert PROVE Marked'
    BY <1>1 DEF Marked
  <2>1. /\ \A m \in ImageIds, s \in Slots :
               img'[m][s].v # 0 /\ ran'[m][s] # 0 /\ tr'[m][s].image_ok # "SET" =>
                   tr'[m][s].copy_done = "SET"
        /\ \A m \in ImageIds, s \in Slots : ran'[m][s] <= 1
    BY <1>1, <1>4 DEF Inv, XipInv, Marked, Grows
  <2>2. ASSUME NEW m \in ImageIds, Selected(m)'
        PROVE  LET s == active_slot'[m]
               IN /\ tr'[m][s].magic = "GOOD" /\ tr'[m][s].copy_done = "SET"
                  /\ image_ok'[m] = "SET" => tr'[m][s].image_ok = "SET"
                  /\ pc' = "app" \/ tr'[m][s].image_ok = "SET" \/ ran'[m][s] = 0
    <3>1. CASE m # cur
      <4>1. Selected(m) /\ active_slot[m] \in Slots
        BY <1>1, <1>2, <2>2, <3>1 DEF Selected, TypeOK
      <4> QED
        BY <1>1, <1>4, <3>1, <4>1 DEF Inv, XipInv, Marked
    <3>2. CASE m = cur
      <4>1. ~Faulty(tr[cur][Active])
        BY <1>1
      <4>2. /\ tr'[cur][Active].magic = tr[cur][Active].magic
            /\ tr'[cur][Active].copy_done = "SET"
            /\ tr'[cur][Active].image_ok = tr[cur][Active].image_ok
        BY <1>3, <1>4 DEF boot_write_copy_done, Trailers
      <4>3. tr[cur][Active].image_ok = "SET" \/ ran[cur][Active] = 0
        BY <1>2, <1>3, <4>1 DEF Faulty, Inv, XipInv, Marked
      <4> QED
        BY <1>1, <1>4, <3>2, <4>1, <4>2, <4>3 DEF Faulty, Active
    <3> QED
      BY <3>1, <3>2
  <2> QED
    BY <2>1, <2>2 DEF Marked
<1>9. Recoverable'
  <2>1. ASSUME NEW f \in [ImageIds -> Slots], Fallback(f) PROVE Fallback(f)'
    <3>1. \A m \in ImageIds : f[m] \in Slots
      OBVIOUS
    <3>2. \A m \in ImageIds : /\ tr[m][f[m]].magic = "GOOD" => tr'[m][f[m]].magic = "GOOD"
                              /\ tr[m][f[m]].image_ok = "SET" => tr'[m][f[m]].image_ok = "SET"
      BY <1>4, <3>1 DEF Grows
    <3>3. \A m \in ImageIds : /\ img[m][f[m]].v # 0 /\ img[m][f[m]].fits
                              /\ Bootable(m, img[m][f[m]])'
      BY <1>1, <2>1 DEF Fallback, Bootable
    <3>4. \A m \in ImageIds : build.revert =>
              tr'[m][f[m]].magic = "GOOD" /\ tr'[m][f[m]].image_ok = "SET"
      BY <2>1, <3>2 DEF Fallback
    <3>5. \A m \in ImageIds : build.deps =>
              \A o \in ImageIds : img[o][f[o]].v >= Needs[m][img[m][f[m]].v][o]
      BY <2>1 DEF Fallback
    <3>6. \A m \in ImageIds :
              /\ f[m] \in slot_available[m]
              /\ active_slot[m] # BOOT_SLOT_NONE => img[m][active_slot[m]].v >= img[m][f[m]].v
      BY <1>1, <2>1 DEF Fallback
    <3> QED
      BY <1>1, <3>3, <3>4, <3>5, <3>6 DEF Fallback
  <2> QED
    BY <1>1, <2>1 DEF Inv, Recoverable, CounterSafe
<1> QED
  BY <1>5, <1>6, <1>7, <1>8, <1>9 DEF Inv, XipInv

(* boot_verify_dependencies never gives up a slot of the fallback.           *)
LEMMA DependencyUnmetStep == Inv /\ DependencyUnmet => Inv'
<1> SUFFICES ASSUME Inv, DependencyUnmet PROVE Inv'
  OBVIOUS
<1> DEFINE M == {k \in ImageIds : Unmet(k)}
           d == CHOOSE m \in ImageIds : Unmet(m) /\ \A k \in 0..m - 1 : ~Unmet(k)
<1>1. /\ pc = "deps" /\ pc' = "find" /\ M # {}
      /\ slot_available' = [slot_available EXCEPT ![d] = @ \ {active_slot[d]}]
      /\ active_slot' = [active_slot EXCEPT ![d] = BOOT_SLOT_NONE]
      /\ UNCHANGED <<build, img, tr, counter, cur, image_ok, ran>>
  BY DEF DependencyUnmet, flash
<1>2. TypeOK /\ cur = 0 /\ \A m \in ImageIds : active_slot[m] \in Slots /\ active_slot[m] # BOOT_SLOT_NONE
  BY <1>1 DEF Inv, XipInv, TypeOK, Usage
<1>3. d \in ImageIds /\ Unmet(d)
  <2> HIDE DEF M
  <2>1. M \subseteq Nat
    BY Ids DEF M
  <2>2. PICK m \in M : \A k \in M : ~(<<k, m>> \in OpToRel(<, Nat))
    BY <1>1, <2>1, NatLessThanWellFounded, WFMin
  <2>3. \A k \in M : ~(k < m)
    BY <2>1, <2>2 DEF OpToRel
  <2>4. m \in ImageIds /\ Unmet(m) /\ \A k \in 0..m - 1 : k < m /\ k \in ImageIds
    BY Ids DEF M
  <2>5. \A k \in 0..m - 1 : ~Unmet(k)
    BY <2>3, <2>4 DEF M
  <2> QED
    BY <2>4, <2>5
<1> HIDE DEF d, M
<1>4. /\ slot_available'[d] = slot_available[d] \ {active_slot[d]} /\ active_slot'[d] = BOOT_SLOT_NONE
      /\ \A m \in ImageIds : m # d =>
             slot_available'[m] = slot_available[m] /\ active_slot'[m] = active_slot[m]
  BY <1>1, <1>2, <1>3 DEF TypeOK
<1>5. TypeOK'
  <2>1. /\ slot_available' \in [ImageIds -> SUBSET Slots]
        /\ active_slot' \in [ImageIds -> Slots \cup {BOOT_SLOT_NONE}]
    BY <1>1, <1>2 DEF TypeOK
  <2> QED
    BY <1>1, <1>2, <2>1 DEF TypeOK, Pcs
<1>6. Usage'
  <2>1. \A m \in ImageIds : /\ slot_available'[m] \subseteq slot_available[m]
                            /\ active_slot'[m] # BOOT_SLOT_NONE => active_slot'[m] \in slot_available'[m]
    BY <1>2, <1>4 DEF Inv, XipInv, Usage
  <2>2. 0..cur' - 1 = {}
    BY <1>1, <1>2
  <2>3. \A m \in ImageIds : \A s \in slot_available'[m] : img'[m][s].v # 0
    BY <1>1, <2>1 DEF Inv, XipInv, Usage
  <2> QED
    BY <1>1, <2>1, <2>2, <2>3 DEF Usage
<1>7. \A m \in ImageIds : /\ Selected(m)' => Selected(m) /\ m # d
                          /\ Loaded(m)' => Loaded(m) /\ m # d
  BY <1>1, <1>4 DEF Selected, Loaded
<1>8. Marked'
  BY <1>1, <1>4, <1>7 DEF Inv, XipInv, Marked
<1>9. Sound'
  BY <1>1, <1>4, <1>7 DEF Inv, XipInv, Sound, Bootable
<1>10. Recoverable'
  <2>1. ASSUME NEW f \in [ImageIds -> Slots], Fallback(f) PROVE Fallback(f)'
    <3>1. build.deps /\ \E o \in ImageIds : Running[o].v < Needs[d][Running[d].v][o]
      BY <1>3 DEF Unmet
    <3>2. PICK o \in ImageIds : Running[o].v < Needs[d][Running[d].v][o]
      BY <3>1
    <3>3. Running[o] = img[o][active_slot[o]] /\ Running[d] = img[d][active_slot[d]]
      BY <1>2, <1>3 DEF Running
    <3>4. f[d] # active_slot[d]
      <4> SUFFICES ASSUME f[d] = active_slot[d] PROVE FALSE
        OBVIOUS
      <4>1. img[o][f[o]].v >= Needs[d][img[d][f[d]].v][o]
        BY <1>3, <2>1, <3>1 DEF Fallback
      <4>2. img[o][active_slot[o]].v >= img[o][f[o]].v
        BY <1>1, <1>2, <2>1 DEF Fallback
      <4>3. img[d][f[d]].v \in Versions
        BY <1>2, <1>3, <2>1, SlotTypes DEF Fallback
      <4>4. img[o][active_slot[o]].v \in Nat /\ img[o][f[o]].v \in Nat
        BY <1>2, SlotTypes
      <4>5. \A v \in Versions : Needs[d][v][o] \in Nat
        BY <1>3, XipAssumption
      <4>6. Needs[d][img[d][f[d]].v][o] \in Nat
        BY <4>3, <4>5
      <4>7. img[o][active_slot[o]].v < Needs[d][img[d][f[d]].v][o]
        BY <3>2, <3>3
      <4>8. \A x, y, z \in Nat : x >= y /\ y >= z => ~(x < z)
        OBVIOUS
      <4> QED
        BY <4>1, <4>2, <4>4, <4>6, <4>7, <4>8
    <3>5. \A m \in ImageIds : f[m] \in slot_available'[m]
      BY <1>1, <1>4, <2>1, <3>4 DEF Fallback
    <3>6. \A m \in ImageIds : active_slot'[m] # BOOT_SLOT_NONE => active_slot'[m] = active_slot[m]
      BY <1>4
    <3> QED
      BY <1>1, <1>2, <2>1, <3>5, <3>6 DEF Fallback, Bootable
  <2> QED
    BY <1>1, <2>1 DEF Inv, Recoverable, CounterSafe
<1> QED
  BY <1>5, <1>6, <1>8, <1>9, <1>10 DEF Inv, XipInv

LEMMA DependenciesMetStep == Inv /\ DependenciesMet => Inv'
<1> SUFFICES ASSUME Inv, DependenciesMet PROVE Inv'
  OBVIOUS
<1>1. /\ pc = "deps" /\ pc' = "counter" /\ \A m \in ImageIds : ~Unmet(m)
      /\ UNCHANGED <<build, img, tr, counter, cur, slot_available, active_slot, image_ok, ran>>
  BY DEF DependenciesMet, flash, ram
<1>2. TypeOK' /\ Usage'
  BY <1>1 DEF Inv, XipInv, TypeOK, Pcs, Usage
<1>3. \A m \in ImageIds : (Selected(m)' <=> Selected(m)) /\ (Loaded(m)' <=> Loaded(m))
  BY <1>1 DEF Selected, Loaded
<1>4. \A m \in ImageIds : ~Unmet(m)'
  BY <1>1 DEF Unmet, Running
<1>5. Marked' /\ Sound'
  BY <1>1, <1>3, <1>4 DEF Inv, XipInv, Marked, Sound, Bootable
<1>6. Recoverable'
  <2>1. ASSUME NEW f \in [ImageIds -> Slots], Fallback(f) PROVE Fallback(f)'
    BY <1>1, <2>1 DEF Fallback, Bootable
  <2> QED
    BY <1>1, <2>1 DEF Inv, Recoverable, CounterSafe
<1> QED
  BY <1>2, <1>5, <1>6 DEF Inv, XipInv

(* The slots that are booted hold images that run together.                  *)
LEMMA ActiveRuns ==
    ASSUME Inv, pc \in {"counter", "app"}
    PROVE  \A m \in ImageIds :
               /\ active_slot[m] \in Slots /\ active_slot[m] # BOOT_SLOT_NONE
               /\ active_slot[m] \in slot_available[m] /\ img[m][active_slot[m]].v # 0
               /\ Selected(m) /\ Loaded(m)
               /\ img[m][active_slot[m]].fits /\ Bootable(m, img[m][active_slot[m]])
               /\ build.deps => \A o \in ImageIds :
                      img[o][active_slot[o]].v >= Needs[m][img[m][active_slot[m]].v][o]
<1>1. \A m \in ImageIds : /\ active_slot[m] \in Slots /\ active_slot[m] # BOOT_SLOT_NONE
                          /\ active_slot[m] \in slot_available[m]
                          /\ img[m][active_slot[m]].v # 0
  BY DEF Inv, XipInv, TypeOK, Usage
<1>2. \A m \in ImageIds : Selected(m) /\ Loaded(m)
  BY <1>1 DEF Selected, Loaded
<1>3. \A m \in ImageIds : img[m][active_slot[m]].fits /\ Bootable(m, img[m][active_slot[m]])
  BY <1>2 DEF Inv, XipInv, Sound
<1>4. ASSUME NEW m \in ImageIds, build.deps, NEW o \in ImageIds
      PROVE  img[o][active_slot[o]].v >= Needs[m][img[m][active_slot[m]].v][o]
  <2>1. Running[o] = img[o][active_slot[o]] /\ Running[m] = img[m][active_slot[m]]
    BY <1>1 DEF Running
  <2>2. ~(img[o][active_slot[o]].v < Needs[m][img[m][active_slot[m]].v][o])
    BY <1>4, <2>1 DEF Inv, XipInv, Sound, Unmet
  <2>3. \A v \in Versions : Needs[m][v][o] \in Nat
    BY XipAssumption
  <2>4. Needs[m][img[m][active_slot[m]].v][o] \in Nat /\ img[o][active_slot[o]].v \in Nat
    BY <1>1, <2>3, SlotTypes DEF Inv, XipInv
  <2> QED
    BY <2>2, <2>4
<1> QED
  BY <1>1, <1>2, <1>3, <1>4

(* boot_update_hw_rollback_protection raises a counter only to that of the   *)
(* slot it boots; the new fallback is the slots that are being booted.       *)
LEMMA UpdateCounterStep == Inv /\ UpdateCounter => Inv'
<1> SUFFICES ASSUME Inv, UpdateCounter PROVE Inv'
  OBVIOUS
<1> DEFINE c == SecCnt[img[cur][Active].v]
           raised == build.hw /\ CounterFollows(cur) /\ c > counter[cur]
<1>1. /\ pc = "counter" /\ UNCHANGED <<build, img, tr, slot_available, active_slot, image_ok>>
      /\ counter' = IF raised THEN [counter EXCEPT ![cur] = c] ELSE counter
      /\ cur + 1 < BOOT_IMAGE_NUMBER => cur' = cur + 1 /\ UNCHANGED <<pc, ran>>
      /\ ~(cur + 1 < BOOT_IMAGE_NUMBER) => cur' = 0 /\ pc' = "app"
  BY DEF UpdateCounter, flash, ram
<1>2. /\ TypeOK /\ cur \in ImageIds
      /\ \A m \in ImageIds : /\ active_slot[m] \in Slots /\ active_slot[m] # BOOT_SLOT_NONE
                             /\ active_slot[m] \in slot_available[m]
                             /\ img[m][active_slot[m]].v # 0
  BY <1>1 DEF Inv, XipInv, TypeOK, Usage
<1>3. Active = active_slot[cur] /\ c \in Nat
  BY <1>2, SlotTypes DEF Active
<1> HIDE DEF c, raised
<1>4. /\ counter' \in [ImageIds -> Nat]
      /\ \A m \in ImageIds : m # cur => counter'[m] = counter[m]
      /\ counter'[cur] = counter[cur] \/ (raised /\ counter'[cur] = c)
  <2>1. CASE raised
    BY <1>1, <1>2, <1>3, <2>1 DEF TypeOK
  <2>2. CASE ~raised
    BY <1>1, <1>2, <2>2 DEF TypeOK
  <2> QED
    BY <2>1, <2>2
<1>5. /\ pc' \in {"counter", "app"} /\ cur' \in ImageIds
      /\ ran' \in [ImageIds -> [Slots -> 0..2]]
      /\ \A m \in ImageIds : \A s \in Slots :
             \/ ran'[m][s] = ran[m][s]
             \/ /\ pc' = "app" /\ s = active_slot[m] /\ tr[m][s].image_ok # "SET"
                /\ ran'[m][s] = ran[m][s] + 1
  <2>1. CASE cur + 1 < BOOT_IMAGE_NUMBER
    BY <1>1, <1>2, <2>1, Ids DEF TypeOK
  <2>2. CASE ~(cur + 1 < BOOT_IMAGE_NUMBER)
    <3>1. ran' = [m \in ImageIds |-> [s \in Slots |->
                     IF s = active_slot[m] /\ tr[m][s].image_ok # "SET" /\ ran[m][s] < 2
                     THEN ran[m][s] + 1 ELSE ran[m][s]]]
      BY <2>2 DEF UpdateCounter
    <3>2. \A m \in ImageIds : \A s \in Slots : ran[m][s] \in 0..2
      BY <1>2 DEF TypeOK
    <3>3. \A m \in ImageIds : \A s \in Slots :
              ran'[m][s] = IF s = active_slot[m] /\ tr[m][s].image_ok # "SET" /\ ran[m][s] < 2
                           THEN ran[m][s] + 1 ELSE ran[m][s]
      BY <3>1
    <3>4. \A m \in ImageIds : \A s \in Slots :
              (IF s = active_slot[m] /\ tr[m][s].image_ok # "SET" /\ ran[m][s] < 2
               THEN ran[m][s] + 1 ELSE ran[m][s]) \in 0..2
      BY <3>2
    <3>5. ran' \in [ImageIds -> [Slots -> 0..2]]
      BY <3>1, <3>4
    <3> QED
      BY <1>1, <2>2, <3>3, <3>5, Ids
  <2> QED
    BY <2>1, <2>2
<1>6. TypeOK'
  BY <1>1, <1>2, <1>4, <1>5 DEF TypeOK, Pcs
<1>7. Usage'
  BY <1>1, <1>5 DEF Inv, XipInv, Usage
<1>8. \A m \in ImageIds : Selected(m) /\ Loaded(m)
  BY <1>1, <1>2 DEF Selected, Loaded
<1>9. Marked'
  <2> SUFFICES ASSUME build.revert PROVE Marked'
    BY <1>1 DEF Marked
  <2>1. ASSUME NEW m \in ImageIds, NEW s \in Slots, ran'[m][s] # ran[m][s]
        PROVE  ran'[m][s] = 1 /\ tr[m][s].copy_done = "SET"
    <3>1. s = active_slot[m] /\ tr[m][s].image_ok # "SET" /\ ran'[m][s] = ran[m][s] + 1
      BY <1>5, <2>1
    <3>2. ran[m][s] = 0 /\ tr[m][s].copy_done = "SET"
      BY <1>1, <1>8, <3>1 DEF Inv, XipInv, Marked
    <3> QED
      BY <3>1, <3>2
  <2>2. /\ \A m \in ImageIds, s \in Slots :
               img'[m][s].v # 0 /\ ran'[m][s] # 0 /\ tr'[m][s].image_ok # "SET" =>
                   tr'[m][s].copy_done = "SET"
        /\ \A m \in ImageIds, s \in Slots : ran'[m][s] <= 1
    BY <1>1, <2>1 DEF Inv, XipInv, Marked
  <2>3. ASSUME NEW m \in ImageIds
        PROVE  LET s == active_slot'[m]
               IN /\ tr'[m][s].magic = "GOOD" /\ tr'[m][s].copy_done = "SET"
                  /\ image_ok'[m] = "SET" => tr'[m][s].image_ok = "SET"
                  /\ pc' = "app" \/ tr'[m][s].image_ok = "SET" \/ ran'[m][s] = 0
    <3>1. pc' = "app" \/ ran'[m][active_slot[m]] = ran[m][active_slot[m]]
      BY <1>2, <1>5
    <3> QED
      BY <1>1, <1>8, <3>1 DEF Inv, XipInv, Marked
  <2> QED
    BY <2>2, <2>3 DEF Marked
<1>10. ASSUME NEW m \in ImageIds
       PROVE  img[m][active_slot[m]].fits /\ Bootable(m, img[m][active_slot[m]])'
  <2>1. img[m][active_slot[m]].fits /\ img[m][active_slot[m]].ok
    BY <1>8 DEF Inv, XipInv, Sound, Bootable
  <2>2. SecCnt[img[m][active_slot[m]].v] >= counter[m]
    BY <1>8 DEF Inv, XipInv, Sound, Bootable
  <2>3. SecCnt[img[m][active_slot[m]].v] >= counter'[m]
    <3>1. CASE m # cur \/ counter'[cur] = counter[cur]
      BY <1>4, <2>2, <3>1
    <3>2. CASE m = cur /\ counter'[cur] = c
      BY <1>3, <3>2 DEF c
    <3> QED
      BY <1>4, <3>1, <3>2
  <2> QED
    BY <1>1, <2>1, <2>3, Zenon DEF Bootable
<1>11. \A m \in ImageIds : ~Unmet(m) /\ ~Unmet(m)'
  <2>1. \A m \in ImageIds : ~Unmet(m)
    BY <1>1 DEF Inv, XipInv, Sound
  <2> QED
    BY <1>1, <2>1 DEF Unmet, Running
<1>12. Sound'
  BY <1>1, <1>5, <1>10, <1>11 DEF Sound
<1>13. Recoverable'
  <2> SUFFICES ASSUME CounterSafe PROVE \E f \in [ImageIds -> Slots] : Fallback(f)'
    BY <1>1, <1>5 DEF Recoverable, CounterSafe
  <2>1. PICK f \in [ImageIds -> Slots] : Fallback(f)
    BY DEF Inv, Recoverable
  <2>2. CASE counter'[cur] = counter[cur]
    <3>1. \A m \in ImageIds : counter'[m] = counter[m]
      BY <1>4, <2>2
    <3>2. Fallback(f)'
      BY <1>1, <1>5, <2>1, <3>1 DEF Fallback, Bootable
    <3> QED
      BY <3>2
  <2>3. CASE raised /\ ~build.revert
    <3>1. active_slot \in [ImageIds -> Slots]
      BY <1>2 DEF TypeOK
    <3>2. \A m \in ImageIds : img[m][active_slot[m]].v \in Nat
      BY <1>2, SlotTypes
    <3>3. \A m \in ImageIds : build.deps =>
              \A o \in ImageIds : img[o][active_slot[o]].v >= Needs[m][img[m][active_slot[m]].v][o]
      BY <1>1, ActiveRuns
    <3>4. Fallback(active_slot)'
      <4>1. UNCHANGED <<build, img, tr, slot_available, active_slot>>
        BY <1>1
      <4>2. \A m \in ImageIds : active_slot[m] \in slot_available[m] /\ img[m][active_slot[m]].v # 0
        BY <1>2
      <4>3. \A m \in ImageIds : img[m][active_slot[m]].v >= img[m][active_slot[m]].v
        BY <3>2
      <4> QED
        BY <1>10, <2>3, <3>3, <4>1, <4>2, <4>3 DEF Fallback
    <3> QED
      BY <1>1, <3>1, <3>4
  <2>4. CASE raised /\ build.revert
    <3>1. ~build.ram /\ ~build.deps
      BY <2>4 DEF raised, CounterSafe
    <3>2. image_ok[cur] = "SET"
      BY <2>4, <3>1 DEF raised, CounterFollows
    <3>3. tr[cur][active_slot[cur]].magic = "GOOD" /\ tr[cur][active_slot[cur]].image_ok = "SET"
      BY <1>2, <1>8, <2>4, <3>2 DEF Inv, XipInv, Marked
    <3>4. PICK g \in [ImageIds -> Slots] : /\ g[cur] = active_slot[cur]
                                           /\ \A m \in ImageIds : m # cur => g[m] = f[m]
      <4>1. [f EXCEPT ![cur] = active_slot[cur]] \in [ImageIds -> Slots]
        BY <1>2
      <4> QED
        BY <1>2, <4>1
    <3>5. ASSUME NEW m \in ImageIds
          PROVE  /\ img[m][g[m]].v # 0 /\ img[m][g[m]].fits /\ Bootable(m, img[m][g[m]])'
                 /\ tr[m][g[m]].magic = "GOOD" /\ tr[m][g[m]].image_ok = "SET"
                 /\ g[m] \in slot_available[m]
                 /\ img[m][active_slot[m]].v >= img[m][g[m]].v
      <4>1. CASE m = cur
        <5>1. img[cur][active_slot[cur]].v \in Nat
          BY <1>2, SlotTypes
        <5> QED
          BY <1>1, <1>2, <1>10, <3>3, <3>4, <4>1, <5>1
      <4>2. CASE m # cur
        BY <1>1, <1>2, <1>4, <2>1, <2>4, <3>4, <4>2 DEF Fallback, Bootable
      <4> QED
        BY <4>1, <4>2
    <3>6. Fallback(g)'
      BY <1>1, <3>1, <3>5 DEF Fallback, Bootable
    <3> QED
      BY <3>6
  <2> QED
    BY <1>4, <2>2, <2>3, <2>4
<1> QED
  BY <1>6, <1>7, <1>9, <1>12, <1>13 DEF Inv, XipInv

-----------------------------------------------------------------------------
(* One lemma per step of the application.                                    *)

LEMMA AppStoreStep ==
    ASSUME Inv, NEW i \in ImageIds, NEW c \in Stored, AppStore(i, c)
    PROVE  Inv'
<1> DEFINE other == 1 - active_slot[i]
<1>1. /\ pc = "app" /\ MayStore /\ UNCHANGED <<build, pc, cur, slot_available, active_slot, image_ok, counter>>
      /\ img' = [img EXCEPT ![i][other] = c]
      /\ tr' = [tr EXCEPT ![i][other] = ErasedTrailer]
      /\ ran' = [ran EXCEPT ![i][other] = 0]
  BY DEF AppStore, AppStays, ram
<1>2. TypeOK /\ \A m \in ImageIds : active_slot[m] \in Slots
  BY <1>1, ActiveRuns DEF Inv, XipInv
<1>3. other \in Slots /\ other # active_slot[i]
  BY <1>2 DEF Slots
<1>4. c \in Contents /\ c.v # 0 /\ ErasedTrailer \in Trailers
  BY XipAssumption DEF Contents, ErasedTrailer, Trailers
<1> HIDE DEF other
<1>5. /\ img' \in [ImageIds -> [Slots -> Contents]] /\ img'[i][other] = c
      /\ \A m \in ImageIds : \A s \in Slots : m # i \/ s # other => img'[m][s] = img[m][s]
  BY <1>1, <1>2, <1>3, <1>4 DEF TypeOK
<1>6. /\ tr' \in [ImageIds -> [Slots -> Trailers]]
      /\ \A m \in ImageIds : \A s \in Slots : m # i \/ s # other => tr'[m][s] = tr[m][s]
  BY <1>1, <1>2, <1>3, <1>4 DEF TypeOK
<1>7. /\ ran' \in [ImageIds -> [Slots -> 0..2]] /\ ran'[i][other] = 0
      /\ \A m \in ImageIds : \A s \in Slots : m # i \/ s # other => ran'[m][s] = ran[m][s]
  BY <1>1, <1>2, <1>3 DEF TypeOK
<1>8. \A m \in ImageIds : LET s == active_slot[m]
                          IN img'[m][s] = img[m][s] /\ tr'[m][s] = tr[m][s] /\ ran'[m][s] = ran[m][s]
  BY <1>2, <1>3, <1>5, <1>6, <1>7
<1>9. TypeOK'
  BY <1>1, <1>2, <1>5, <1>6, <1>7 DEF TypeOK, Pcs
<1>10. Usage'
  <2>1. ASSUME NEW m \in ImageIds, NEW s \in slot_available[m] PROVE img'[m][s].v # 0
    <3>1. s \in Slots /\ img[m][s].v # 0
      BY <1>2 DEF Inv, XipInv, TypeOK, Usage
    <3>2. CASE m = i /\ s = other
      BY <1>4, <1>5, <3>2
    <3>3. CASE m # i \/ s # other
      BY <1>5, <3>1, <3>3
    <3> QED
      BY <3>2, <3>3
  <2> QED
    BY <1>1, <2>1 DEF Inv, XipInv, Usage
<1>11. Marked'
  <2> SUFFICES ASSUME build.revert PROVE Marked'
    BY <1>1 DEF Marked
  <2>1. /\ \A m \in ImageIds, s \in Slots :
               img'[m][s].v # 0 /\ ran'[m][s] # 0 /\ tr'[m][s].image_ok # "SET" =>
                   tr'[m][s].copy_done = "SET"
        /\ \A m \in ImageIds, s \in Slots : ran'[m][s] <= 1
    <3> SUFFICES ASSUME NEW m \in ImageIds, NEW s \in Slots
                 PROVE  /\ img'[m][s].v # 0 /\ ran'[m][s] # 0 /\ tr'[m][s].image_ok # "SET" =>
                               tr'[m][s].copy_done = "SET"
                        /\ ran'[m][s] <= 1
      OBVIOUS
    <3>1. CASE m = i /\ s = other
      BY <1>7, <3>1
    <3>2. CASE m # i \/ s # other
      <4>1. img'[m][s] = img[m][s] /\ tr'[m][s] = tr[m][s] /\ ran'[m][s] = ran[m][s]
        BY <1>5, <1>6, <1>7, <3>2
      <4>2. /\ img[m][s].v # 0 /\ ran[m][s] # 0 /\ tr[m][s].image_ok # "SET" =>
                   tr[m][s].copy_done = "SET"
            /\ ran[m][s] <= 1
        BY DEF Inv, XipInv, Marked
      <4> QED
        BY <4>1, <4>2
    <3> QED
      BY <3>1, <3>2
  <2>2. \A m \in ImageIds : Selected(m)' <=> Selected(m)
    BY <1>1 DEF Selected
  <2> QED
    BY <1>1, <1>8, <2>1, <2>2 DEF Inv, XipInv, Marked
<1>12. \A m \in ImageIds : Running'[m] = Running[m]
  BY <1>1, <1>2, <1>8 DEF Running
<1>13. Sound'
  <2>1. \A m \in ImageIds : ~Unmet(m)'
    BY <1>1, <1>12 DEF Unmet, Inv, XipInv, Sound
  <2>2. \A m \in ImageIds : img'[m][active_slot'[m]].fits /\ Bootable(m, img[m][active_slot[m]])'
    BY <1>1, <1>8, ActiveRuns DEF Bootable
  <2> QED
    BY <1>1, <2>1, <2>2 DEF Sound
<1>14. Recoverable'
  <2>1. active_slot \in [ImageIds -> Slots] /\ UNCHANGED active_slot
    BY <1>1, <1>2 DEF TypeOK
  <2>2. \A m \in ImageIds : build.revert => tr[m][active_slot[m]].magic = "GOOD"
                                            /\ tr[m][active_slot[m]].image_ok = "SET"
    BY <1>1, ActiveRuns DEF MayStore, Inv, XipInv, Marked
  <2>3. \A m \in ImageIds : build.deps => \A o \in ImageIds :
            img[o][active_slot[o]].v >= Needs[m][img[m][active_slot[m]].v][o]
    BY <1>1, ActiveRuns
  <2>4. \A m \in ImageIds : /\ img[m][active_slot[m]].v # 0 /\ img[m][active_slot[m]].fits
                            /\ Bootable(m, img[m][active_slot[m]])
    BY <1>1, ActiveRuns
  <2>5. Fallback(active_slot)'
    <3>1. \A m \in ImageIds : img'[m][active_slot'[m]] = img[m][active_slot[m]]
                              /\ tr'[m][active_slot'[m]] = tr[m][active_slot[m]]
      BY <1>1, <1>8
    <3>2. \A m \in ImageIds : Bootable(m, img[m][active_slot[m]])'
      BY <1>1, <2>4, <3>1 DEF Bootable
    <3> QED
      BY <1>1, <2>2, <2>3, <2>4, <3>1, <3>2 DEF Fallback
  <2> QED
    BY <1>1, <2>1, <2>5 DEF Recoverable
<1> QED
  BY <1>9, <1>10, <1>11, <1>13, <1>14 DEF Inv, XipInv

(* boot_set_next, wherever the power fails: trailers only gain flags.        *)
LEMMA SetNextStep ==
    ASSUME Inv, NEW i \in ImageIds, NEW j \in Slots, NEW confirm \in BOOLEAN,
           SetNext(i, j, confirm)
    PROVE  Inv'
<1> DEFINE marked == boot_write_magic(tr[i][j])
           begun == boot_write_copy_done(marked)
<1>1. /\ pc = "app" /\ UNCHANGED <<build, img, counter, ran>>
      /\ AppStays \/ Reboot
      /\ \E t \in {marked, begun, boot_write_image_ok(begun)} : tr' = [tr EXCEPT ![i][j] = t]
  BY DEF SetNext, AppStays
<1>2. TypeOK /\ tr[i][j] \in Trailers
  BY SlotTypes DEF Inv, XipInv
<1>3. PICK t \in {marked, begun, boot_write_image_ok(begun)} : tr' = [tr EXCEPT ![i][j] = t]
  BY <1>1
<1>4. t \in Trailers /\ Grows(tr[i][j], t)
  BY <1>2, Written
<1> HIDE DEF marked, begun
<1>5. /\ tr' \in [ImageIds -> [Slots -> Trailers]] /\ tr'[i][j] = t
      /\ \A m \in ImageIds : \A s \in Slots : m # i \/ s # j => tr'[m][s] = tr[m][s]
  BY <1>2, <1>3, <1>4 DEF TypeOK
<1>6. \A m \in ImageIds : \A s \in Slots : Grows(tr[m][s], tr'[m][s])
  BY <1>4, <1>5 DEF Grows
<1>7. \A m \in ImageIds, s \in Slots :
          build.revert /\ img'[m][s].v # 0 /\ ran'[m][s] # 0 /\ tr'[m][s].image_ok # "SET" =>
              tr'[m][s].copy_done = "SET"
  BY <1>1, <1>6 DEF Grows, Inv, XipInv, Marked
<1>8. CASE AppStays
  <2>1. UNCHANGED <<pc, cur, slot_available, active_slot, image_ok>>
    BY <1>8 DEF AppStays, ram
  <2>2. TypeOK' /\ Usage'
    BY <1>1, <1>2, <1>5, <2>1 DEF TypeOK, Pcs, Inv, XipInv, Usage
  <2>3. \A m \in ImageIds : (Selected(m)' <=> Selected(m)) /\ (Loaded(m)' <=> Loaded(m))
                            /\ (Unmet(m)' <=> Unmet(m)) /\ active_slot[m] \in Slots
    BY <1>1, <2>1, ActiveRuns DEF Selected, Loaded, Unmet, Running
  <2>4. Marked'
    <3>1. build.revert => \A m \in ImageIds, s \in Slots : ran'[m][s] <= 1
      BY <1>1 DEF Inv, XipInv, Marked
    <3>2. ASSUME build.revert, NEW m \in ImageIds, Selected(m)
          PROVE  LET s == active_slot[m]
                 IN /\ tr'[m][s].magic = "GOOD" /\ tr'[m][s].copy_done = "SET"
                    /\ image_ok[m] = "SET" => tr'[m][s].image_ok = "SET"
                    /\ pc = "app" \/ tr'[m][s].image_ok = "SET" \/ ran[m][s] = 0
      BY <1>1, <1>6, <2>3, <3>2 DEF Inv, XipInv, Marked, Grows
    <3> QED
      BY <1>1, <1>7, <2>1, <2>3, <3>1, <3>2 DEF Marked
  <2>5. Sound'
    BY <1>1, <2>1, <2>3 DEF Inv, XipInv, Sound, Bootable
  <2>6. Recoverable'
    <3>1. ASSUME NEW f \in [ImageIds -> Slots], Fallback(f) PROVE Fallback(f)'
      <4>1. \A m \in ImageIds : f[m] \in Slots
        OBVIOUS
      <4> QED
        BY <1>1, <1>6, <2>1, <3>1, <4>1 DEF Fallback, Bootable, Grows
    <3> QED
      BY <1>1, <2>1, <3>1 DEF Inv, Recoverable, CounterSafe
  <2> QED
    BY <2>2, <2>4, <2>5, <2>6 DEF Inv, XipInv
<1>9. CASE Reboot
  <2>1. /\ Usage' /\ Sound' /\ pc' = "reset"
        /\ \A m \in ImageIds : active_slot'[m] = BOOT_SLOT_NONE
    BY <1>9, RebootForgets
  <2>2. TypeOK'
    BY <1>1, <1>2, <1>5, <1>9, <2>1, RebootForgets DEF TypeOK, Pcs
  <2>3. Marked'
    <3>1. \A m \in ImageIds : ~Selected(m)'
      BY <2>1 DEF Selected
    <3> QED
      BY <1>1, <1>7, <3>1 DEF Inv, XipInv, Marked
  <2>4. Recoverable'
    <3>1. ASSUME NEW f \in [ImageIds -> Slots], Fallback(f) PROVE Fallback(f)'
      <4>1. \A m \in ImageIds : f[m] \in Slots
        OBVIOUS
      <4> QED
        BY <1>1, <1>6, <2>1, <3>1, <4>1 DEF Fallback, Bootable, Grows
    <3> QED
      BY <1>1, <2>1, <3>1 DEF Inv, Recoverable, CounterSafe
  <2> QED
    BY <2>1, <2>2, <2>3, <2>4 DEF Inv, XipInv
<1> QED
  BY <1>1, <1>8, <1>9

-----------------------------------------------------------------------------
(* The inductive invariant holds for every build.                            *)
THEOREM XipInvariance == Spec => []Inv
<1>1. Inv /\ [Next]_vars => Inv'
  <2> SUFFICES ASSUME Inv, [Next]_vars PROVE Inv'
    OBVIOUS
  <2>1. CASE BootStep
    BY <2>1, GetSlotUsageStep, AlreadyActiveStep, FindSlotStep, RomAddressCheckStep, SelectStep,
       EraseFaultyStep, LoadAndValidateStep, RemoveInvalidStep, DependencyUnmetStep,
       DependenciesMetStep, UpdateCounterStep DEF BootStep
  <2>2. CASE AppStep
    <3>1. PICK i \in ImageIds :
              \/ \E c \in Stored : AppStore(i, c)
              \/ SetNext(i, active_slot[i], TRUE)
              \/ \E confirm \in BOOLEAN : SetNext(i, 1 - active_slot[i], confirm)
      BY <2>2 DEF AppStep
    <3>2. CASE \E c \in Stored : AppStore(i, c)
      BY <3>2, AppStoreStep
    <3>3. CASE \E j \in {active_slot[i], 1 - active_slot[i]}, confirm \in BOOLEAN :
                   SetNext(i, j, confirm)
      <4>1. pc = "app"
        BY <3>3 DEF SetNext
      <4>2. active_slot[i] \in Slots /\ 1 - active_slot[i] \in Slots
        BY <4>1, ActiveRuns DEF Slots
      <4> QED
        BY <3>3, <4>2, SetNextStep
    <3> QED
      BY <3>1, <3>2, <3>3
  <2>3. CASE Reset
    BY <2>3, ResetStep
  <2>4. CASE UNCHANGED vars
    <3>1. UNCHANGED <<build, img, tr, counter, pc, cur, slot_available, active_slot, image_ok, ran>>
      BY <2>4 DEF vars, flash, ram
    <3>2. XipInv'
      <4>1. TypeOK' /\ Usage'
        BY <3>1 DEF Inv, XipInv, TypeOK, Usage
      <4>2. Marked'
        BY <3>1 DEF Inv, XipInv, Marked, Selected
      <4>3. Sound'
        BY <3>1 DEF Inv, XipInv, Sound, Loaded, Unmet, Running, Bootable, Active
      <4> QED
        BY <4>1, <4>2, <4>3 DEF XipInv
    <3>3. Recoverable'
      <4>1. ASSUME NEW f \in [ImageIds -> Slots], Fallback(f) PROVE Fallback(f)'
        BY <3>1, <4>1 DEF Fallback, Bootable
      <4> QED
        BY <3>1, <4>1 DEF Inv, Recoverable, CounterSafe
    <3> QED
      BY <3>2, <3>3 DEF Inv
  <2> QED
    BY <2>1, <2>2, <2>3, <2>4 DEF Next
<1> QED
  BY <1>1, InitEstablishes, PTL DEF Spec

(* In every build with the revert mechanism an image that is not confirmed   *)
(* runs once, wherever the power fails.                                      *)
THEOREM UnconfirmedRunsOnce == Spec => []RunsOnce
<1>1. Inv => RunsOnce
  BY DEF Inv, XipInv, Marked, RunsOnce
<1> QED
  BY <1>1, XipInvariance, PTL

(* Whatever boot_select_or_erase and boot_validate_slot erase, images that   *)
(* run together are left, unless the build lets security counters overtake   *)
(* the images to fall back on.                                               *)
THEOREM AlwaysBoots == Spec => [](CounterSafe => NeverBricked)
<1>1. Inv => (CounterSafe => NeverBricked)
  BY DEF Inv, Recoverable, NeverBricked
<1> QED
  BY <1>1, XipInvariance, PTL

(* In the same builds, an unconfirmed image that runs has a bootable image,  *)
(* which will not be erased, in its other slot.                              *)
THEOREM RevertStaysPossible == Spec => [](CounterSafe => RevertPossible)
<1>1. ASSUME Inv, CounterSafe, pc = "app", build.revert, NEW m \in ImageIds,
             tr[m][active_slot[m]].image_ok # "SET"
      PROVE  /\ Bootable(m, img[m][1 - active_slot[m]])
             /\ ~Faulty(tr[m][1 - active_slot[m]])
  <2>1. PICK f \in [ImageIds -> Slots] : Fallback(f)
    BY <1>1 DEF Inv, Recoverable
  <2>2. f[m] # active_slot[m] /\ f[m] \in Slots /\ active_slot[m] \in Slots
    BY <1>1, <2>1, ActiveRuns DEF Fallback
  <2>3. f[m] = 1 - active_slot[m]
    BY <2>2 DEF Slots
  <2> QED
    BY <1>1, <2>1, <2>3 DEF Fallback, Faulty
<1>2. Inv => (CounterSafe => RevertPossible)
  BY <1>1 DEF RevertPossible
<1> QED
  BY <1>2, XipInvariance, PTL
=============================================================================
