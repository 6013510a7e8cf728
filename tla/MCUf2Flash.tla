----------------------------- MODULE MCUf2Flash -----------------------------
(* Instance of Uf2Flash for TLC: slot 0 of two and a half erase sectors, the *)
(* bootloader partition beside it, which the overlap check keeps out, and a  *)
(* storage partition on another flash device at an offset inside slot 0.     *)
EXTENDS Uf2Flash

MCArea == << [dev |-> 0, off |-> 2, size |-> 5],
             [dev |-> 0, off |-> 0, size |-> 3],
             [dev |-> 1, off |-> 3, size |-> 3] >>

Blk(addr, len, exact, tag) ==
    [addr |-> addr, len |-> len, exact |-> exact, mine |-> TRUE, tag |-> tag]

(* Two applications of the same length, one that also carries a file system *)
(* image, a file system image alone, a file that reaches past slot 0 and a  *)
(* file for another board.                                                  *)
AllBlocks ==
    [app   |-> << Blk(2, 1, TRUE, NoTag), Blk(3, 1, TRUE, 1),
                  Blk(4, 1, FALSE, NoTag) >>,
     app2  |-> << Blk(2, 1, TRUE, NoTag), Blk(3, 1, TRUE, 1),
                  Blk(4, 2, TRUE, NoTag) >>,
     both  |-> << Blk(6, 1, TRUE, 1), Blk(3, 2, TRUE, 3) >>,
     fs    |-> << Blk(4, 1, TRUE, 3) >>,
     long  |-> << Blk(6, 1, TRUE, NoTag), Blk(7, 1, FALSE, NoTag) >>,
     other |-> << [Blk(2, 1, TRUE, NoTag) EXCEPT !.mine = FALSE] >>]

MCBlocks == [f \in File |-> AllBlocks[f]]
=============================================================================
