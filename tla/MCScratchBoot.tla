--------------------------- MODULE MCScratchBoot ---------------------------
EXTENDS ScratchBoot

MCImages == {"A", "B", "X"}
MCValid == {"A", "B"}
MCSize == [i \in MCImages |-> IF i = "A" THEN 1 ELSE 2]
MCTallSize == [i \in MCImages |-> IF i = "A" THEN 1 ELSE 3]
MCTorn == <<"torn", 1>>
MCTear == {"PRI", "SEC", "SCR"}

Lay(p, s, c, t, ct) == [PRI |-> p, SEC |-> s, SCR |-> c, trailer |-> t, scrTrailer |-> ct]

(* Every way to split slots of three units into sectors, with a scratch     *)
(* area of up to three units, where the swap is possible and its regions    *)
(* are even; and slots with a trailer of three sectors of which the first   *)
(* one holds less than scratch needs.                                       *)
Splits(n) == {s \in UNION {[1..k -> 1..n] : k \in 1..n} : AreaSize(s) = n}
ThreeUnits ==
    {Lay(p, s, c, 1, 1) : p \in Splits(3), s \in Splits(3), c \in Splits(1) \cup Splits(2) \cup Splits(3)}
MCLayouts ==
    {l \in ThreeUnits : boot_slots_compatible(l) /\ RegionsAligned(l)}
        \cup {Lay(<<4, 1, 1>>, <<4, 1, 1>>, <<2, 2>>, 3, 2)}

(* Scratch takes three sectors of the primary slot, which is one and a half *)
(* of the secondary slot.                                                   *)
MCUnevenLayouts == {Lay(<<1, 1, 1, 1>>, <<2, 2>>, <<1, 1, 1>>, 1, 1)}
=============================================================================
