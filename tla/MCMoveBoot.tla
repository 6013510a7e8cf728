----------------------------- MODULE MCMoveBoot -----------------------------
(* Two valid images of one and two sectors and one invalid image.            *)
EXTENDS MoveBoot

MCImages == {"A", "B", "X"}
MCValid == {"A", "B"}
MCSize == [i \in MCImages |-> IF i = "A" THEN 1 ELSE 2]
MCTorn == <<"torn", 1>>
MCContent == (MCImages \X (0..1)) \cup {MCTorn}
MCTearPri == {"PRI"}
MCTearBoth == {"PRI", "SEC"}
=============================================================================
