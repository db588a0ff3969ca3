----------------------------- MODULE MCPrograms -----------------------------
(***************************************************************************)
(* Small programs for TLC.  The assembler below fills the register fields  *)
(* a format does not have with bits of the immediate, as the encodings do, *)
(* so that the core also meets the false dependences those bits cause.     *)
(***************************************************************************)
EXTENDS LoopSafe, Sequences

Asm(op, f3, f7, rd, rs1, rs2, imm) ==
  [opcode |-> op, funct3 |-> f3, funct7 |-> f7,
   rd |-> rd, rs1 |-> rs1, rs2 |-> rs2, imm |-> Wrap(imm)]

Bits(imm) == (imm \div 4) % NREGS

add(rd, rs1, rs2) == Asm("OP", 0, 0, rd, rs1, rs2, 0)
sub(rd, rs1, rs2) == Asm("OP", 0, 32, rd, rs1, rs2, 0)
xor(rd, rs1, rs2) == Asm("OP", 4, 0, rd, rs1, rs2, 0)
addi(rd, rs1, imm) == Asm("OP_IMM", 0, 0, rd, rs1, Bits(imm), imm)
srai(rd, rs1, n) == Asm("OP_IMM", 5, 32, rd, rs1, n, n)
lw(rd, imm, rs1) == Asm("LOAD", 2, 0, rd, rs1, Bits(imm), imm)
sw(rs2, imm, rs1) == Asm("STORE", 2, 0, Bits(imm), rs1, rs2, imm)
beq(rs1, rs2, off) == Asm("BRANCH", 0, 0, Bits(off), rs1, rs2, off)
bne(rs1, rs2, off) == Asm("BRANCH", 1, 0, Bits(off), rs1, rs2, off)
blt(rs1, rs2, off) == Asm("BRANCH", 4, 0, Bits(off), rs1, rs2, off)
bge(rs1, rs2, off) == Asm("BRANCH", 5, 0, Bits(off), rs1, rs2, off)
bltu(rs1, rs2, off) == Asm("BRANCH", 6, 0, Bits(off), rs1, rs2, off)
jal(rd, off) == Asm("JAL", 0, 0, rd, Bits(off), Bits(off \div 4), off)
jalr(rd, imm, rs1) == Asm("JALR", 0, 0, rd, rs1, Bits(imm), imm)
lui(rd, imm) == Asm("LUI", 0, 0, rd, Bits(imm), Bits(imm \div 4), imm)
auipc(rd, imm) == Asm("AUIPC", 0, 0, rd, Bits(imm), Bits(imm \div 4), imm)

(* The epilogue every generated program ends with: beq x0, x0, 0. *)
epilogue == beq(0, 0, 0)

(* The program that starts with the words of s. *)
Program(s) ==
  [w \in 0 .. IMEM_WORDS - 1 |-> IF w < Len(s) THEN s[w + 1] ELSE epilogue]
=============================================================================
