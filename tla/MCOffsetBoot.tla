---------------------------- MODULE MCOffsetBoot ----------------------------
(* Four images of one, three and two sectors, the last of them not valid.    *)
EXTENDS OffsetBoot

MCImages == {"A", "B", "C", "X"}
MCValid == {"A", "B", "C"}
MCSize == [A |-> 1, B |-> 3, C |-> 2, X |-> 2]
MCLonger == {"B", "C"}
MCLongerSize == [i \in MCLonger |-> MCSize[i]]
MCSingle == {"A"}
MCSingleSize == [i \in MCSingle |-> MCSize[i]]
MCTorn == <<"torn", 1>>
MCContent == (MCImages \X (0..2)) \cup {MCTorn}
MCUsed == [c \in MCContent |-> IF c[2] = 0 THEN MCSize[c[1]] ELSE 0]
MCTearPri == {"PRI"}
MCTearBoth == {"PRI", "SEC"}
=============================================================================
