---------------------------- MODULE MCSwapOffset ----------------------------
(* Instance of SwapOffset for TLC.  A sector holds <<slot, k, n>>: sector k  *)
(* of the n-sector image that starts in that slot, or filler above it.       *)
EXTENDS SwapOffset

MCPriSectors == 4
MCSecSectors == 5
MCTorn == <<"torn", 0, 0>>
MCContent == ({"pri", "sec"} \X (0..4) \X (1..4)) \cup {MCTorn}
MCUsed == [c \in MCContent |-> IF c[1] # "torn" /\ c[2] = 0 THEN c[3] ELSE 0]

MCInit ==
    /\ \E old, new \in 1..PriSectors, base \in {0, 1} :
           /\ revert = (base = 0)
           /\ pri = [k \in 0..PriSectors - 1 |-> <<"pri", k, old>>]
           /\ sec = [k \in 0..SecSectors - 1 |->
                        IF k < base THEN MCTorn
                        ELSE <<"sec", k - base, new>>]
    /\ StartState

MCSpec == MCInit /\ [][Next]_vars /\ WF_vars(SwapStep)
=============================================================================
