----------------------------- MODULE MCUf2Boot -----------------------------
(* Two valid images of one and two sectors.                                   *)
EXTENDS Uf2Boot

MCImages == {"A", "B"}
MCSize == [i \in MCImages |-> IF i = "B" THEN 2 ELSE 1]
MCTorn == <<"torn", 1>>
MCContent == (MCImages \X (0..1)) \cup {MCTorn}
MCUsed == [c \in MCContent |-> IF c[2] = 0 THEN MCSize[c[1]] ELSE 0]
MCTear == {}
=============================================================================
