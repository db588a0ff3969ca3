------------------------------- MODULE MCCore -------------------------------
(***************************************************************************)
(* RiscvCore on programs of up to seven words followed by the epilogue:    *)
(* every mix of arithmetic, loads, stores, branches and jumps in the       *)
(* slots below that satisfies LoopSafe.                                    *)
(***************************************************************************)
EXTENDS RiscvCore, MCPrograms, AluUnit

Start == {addi(1, 0, 8), lw(1, 0, 0)}

Middle == {addi(1, 1, -4), lw(1, 4, 1), sw(1, 0, 2), add(2, 1, 2),
           lui(1, 12), bne(1, 0, 8), jal(1, 8), auipc(2, 4)}

Back == {bne(1, 0, -8), blt(2, 1, -12), bge(2, 1, -8), jal(2, -12),
         sub(1, 2, 1)}

Last == {sw(2, 4, 0), lw(2, 0, 1), srai(2, 1, 1), xor(2, 1, 2)}

(* A register jump whose base was computed or loaded one, two or three     *)
(* words before it: the target is 16, 20, 24 or 28.                        *)
Base == {addi(1, 1, 4), lw(1, 0, 0), sw(1, 4, 0), add(2, 1, 1), bne(1, 2, 8)}

RegisterJumps ==
  {Program(<<addi(1, 0, 8), a, b, jalr(rd, 12, 1), add(2, 2, 1), sw(2, 0, 0),
             f>>) : a \in Base, b \in Base, rd \in 1 .. 2, f \in Last}

MCProgs ==
  {p \in RegisterJumps \cup
           {Program(<<a, b, c, d, e, f>>) :
              a \in Start, b \in Middle, c \in Middle, d \in Middle,
              e \in Back, f \in Last} : Safe(p)}

(* Data memory at power-up: addresses, small numbers and a negative one. *)
MCInitRams == {[w \in 0 .. DMEM_WORDS - 1 |-> IF w % 2 = 0 THEN 4 ELSE 60]}
=============================================================================
