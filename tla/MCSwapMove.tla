----------------------------- MODULE MCSwapMove -----------------------------
(* Instance of SwapMove for TLC: the content of a sector names the slot and  *)
(* sector it was in when the swap began, so that a misplaced sector shows.   *)
EXTENDS SwapMove

MCPriSectors == 5
MCSecSectors == 4
MCMaxImgSectors == 5
MCTorn == <<"torn", 0>>
MCContent == ({"pri", "sec"} \X (0..MCPriSectors - 1)) \cup {MCTorn}

MCInit ==
    /\ pri = [k \in 0..PriSectors - 1 |-> <<"pri", k>>]
    /\ sec = [k \in 0..SecSectors - 1 |-> <<"sec", k>>]
    /\ swap_size \in {n \in 1..SecSectors : Swappable(n)}
    /\ status = 0
    /\ bs = EnterLoop(StatusReset, swap_size)
    /\ pc = "move_erase"
    /\ pri0 = pri /\ sec0 = sec

MCSpec == MCInit /\ [][Next]_vars
=============================================================================
