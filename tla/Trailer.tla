------------------------------- MODULE Trailer -------------------------------
(***************************************************************************)
(* The image trailer at the end of each slot, and what the boot loader and *)
(* the application read from it and write to it (bootutil_public.c,        *)
(* swap_misc.c).  A trailer is a record of its fields; magic is "GOOD",    *)
(* "UNSET" (erased) or "BAD" (anything else, such as a write cut short).   *)
(* The status area and swap_size of the primary trailer belong to the swap *)
(* modules.                                                                *)
(***************************************************************************)
EXTENDS Naturals

SwapTypes == {"NONE", "TEST", "PERM", "REVERT", "FAIL"}

Trailers == [magic     : {"GOOD", "UNSET", "BAD"},
             image_ok  : {"SET", "UNSET"},
             copy_done : {"SET", "UNSET"},
             swap_info : {"NONE", "TEST", "PERM", "REVERT"}]

ErasedTrailer == [magic |-> "UNSET", image_ok |-> "UNSET",
                  copy_done |-> "UNSET", swap_info |-> "NONE"]

boot_write_magic(t) == [t EXCEPT !.magic = "GOOD"]
boot_write_image_ok(t) == [t EXCEPT !.image_ok = "SET"]
boot_write_copy_done(t) == [t EXCEPT !.copy_done = "SET"]
boot_write_swap_info(t, type) == [t EXCEPT !.swap_info = type]

BOOT_IS_UPGRADE(type) == type \in {"TEST", "REVERT", "PERM"}

(* The rows of boot_swap_tables in order; the first row is only there in a  *)
(* build that swaps using offset.                                           *)
boot_swap_type_multi(p, s, offset) ==
    CASE offset /\ s.magic = "GOOD" /\ s.image_ok = "UNSET" /\ s.copy_done = "SET" -> "REVERT"
      [] s.magic = "GOOD" /\ s.image_ok = "UNSET"
         /\ ~(offset /\ s.copy_done = "SET") -> "TEST"
      [] s.magic = "GOOD" /\ s.image_ok = "SET" -> "PERM"
      [] s.magic # "GOOD" /\ p.magic = "GOOD" /\ p.image_ok = "UNSET"
         /\ p.copy_done = "SET" -> "REVERT"
      [] OTHER -> "NONE"

(* Swap using move and swap using offset: whether an interrupted swap left  *)
(* its status in the primary slot.                                          *)
swap_status_source(p, s) ==
    IF p.magic = "GOOD" /\ p.copy_done = "UNSET" /\ s.magic # "GOOD"
    THEN "PRIMARY" ELSE "NONE"

(* boot_set_next on the active slot: confirm the running image.             *)
boot_set_next_active(t) ==
    IF t.magic = "GOOD" /\ t.image_ok = "UNSET" THEN boot_write_image_ok(t) ELSE t

(* boot_set_next on the other slot does something only on an erased magic.  *)
CanSchedule(t) == t.magic = "UNSET"

(* A test image runs that has not been confirmed.                           *)
Unconfirmed(p) == p.magic = "GOOD" /\ p.copy_done = "SET" /\ p.image_ok = "UNSET"
=============================================================================
