---------------------------- MODULE MCCommitLog ----------------------------
(***************************************************************************)
(* TbCommitLog on the loop blocks of MCLoops, and on stores behind         *)
(* branches, jumps and loads, which are squashed or delayed.               *)
(***************************************************************************)
EXTENDS TbCommitLog, MCLoops

Before == {beq(0, 0, 8), bne(1, 0, 8), jal(1, 8), lw(1, 0, 0), addi(1, 0, 4)}

StorePrograms ==
  {Program(<<addi(2, 0, 1), a, sw(2, 0, 1), b, sw(1, 4, 0), c, sw(2, 8, 0)>>) :
     a \in Before, b \in Before, c \in Before}

LoggedPrograms == LoopBlocks \cup {p \in StorePrograms : Safe(p)}
=============================================================================
