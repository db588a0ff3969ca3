------------------------------ MODULE Encoding ------------------------------
(***************************************************************************)
(* The instruction encoders of shared/spike/gen_program.py, and the        *)
(* decoders their output meets: rtl/imm_gen.sv with the field wires of     *)
(* rtl/riscv_core.sv, and the helpers of src/main.cpp.                     *)
(*                                                                         *)
(* A 32-bit word is the set of its bits that are 1, a subset of 0 .. 31.   *)
(***************************************************************************)
EXTENDS Integers, Sequences

(* v & (2^w - 1), for a number of any sign. *)
low_bits(v, w) == {b \in 0 .. w - 1 : (v \div 2^b) % 2 = 1}

(* The 32-bit two's complement of v, -2^30 <= v < 2^30. *)
bits32(v) == low_bits(v, 30) \cup (IF v < 0 THEN {30, 31} ELSE {})

(* Bits lo .. hi of a word, moved so that bit lo becomes bit at. *)
slice(S, lo, hi, at) == {b - lo + at : b \in S \cap (lo .. hi)}

field(v, w, at) == slice(low_bits(v, w), 0, w - 1, at)

-----------------------------------------------------------------------------
(* gen_program.py.  An instruction is a record of its fields; those its    *)
(* format lacks are not used.                                              *)
enc_r(i) == field(i.funct7, 7, 25) \cup field(i.rs2, 5, 20) \cup field(i.rs1, 5, 15)
            \cup field(i.funct3, 3, 12) \cup field(i.rd, 5, 7) \cup field(i.opcode, 7, 0)

enc_i(i) == field(i.imm, 12, 20) \cup field(i.rs1, 5, 15)
            \cup field(i.funct3, 3, 12) \cup field(i.rd, 5, 7) \cup field(i.opcode, 7, 0)

enc_shift(i) == field(i.funct7, 7, 25) \cup field(i.imm, 5, 20) \cup field(i.rs1, 5, 15)
            \cup field(i.funct3, 3, 12) \cup field(i.rd, 5, 7) \cup field(i.opcode, 7, 0)

enc_s(i) ==
  LET imm == low_bits(i.imm, 12)
  IN slice(imm, 5, 11, 25) \cup field(i.rs2, 5, 20) \cup field(i.rs1, 5, 15)
     \cup field(i.funct3, 3, 12) \cup slice(imm, 0, 4, 7) \cup field(i.opcode, 7, 0)

(* Mutant: bits 11 and 12 of the offset change places. *)
enc_b_swapped(i) ==
  LET imm == low_bits(i.imm, 13)
  IN slice(imm, 11, 11, 31) \cup slice(imm, 5, 10, 25) \cup field(i.rs2, 5, 20)
     \cup field(i.rs1, 5, 15) \cup field(i.funct3, 3, 12)
     \cup slice(imm, 1, 4, 8) \cup slice(imm, 12, 12, 7) \cup field(i.opcode, 7, 0)

enc_b(i) ==
  LET imm == low_bits(i.imm, 13)
  IN slice(imm, 12, 12, 31) \cup slice(imm, 5, 10, 25) \cup field(i.rs2, 5, 20)
     \cup field(i.rs1, 5, 15) \cup field(i.funct3, 3, 12)
     \cup slice(imm, 1, 4, 8) \cup slice(imm, 11, 11, 7) \cup field(i.opcode, 7, 0)

enc_u(i) == field(i.imm, 20, 12) \cup field(i.rd, 5, 7) \cup field(i.opcode, 7, 0)

enc_j(i) ==
  LET imm == low_bits(i.imm, 21)
  IN slice(imm, 20, 20, 31) \cup slice(imm, 12, 19, 12) \cup slice(imm, 11, 11, 20)
     \cup slice(imm, 1, 10, 21) \cup field(i.rd, 5, 7) \cup field(i.opcode, 7, 0)

-----------------------------------------------------------------------------
(* The opcodes, functions and registers the generator puts together. *)
R_TYPE == {<<51, f3, 0>> : f3 \in 0 .. 7} \cup {<<51, 0, 32>>, <<51, 5, 32>>}
I_ARITH == {<<19, f3>> : f3 \in {0, 2, 3, 4, 6, 7}}
I_SHIFT == {<<19, 1, 0>>, <<19, 5, 0>>, <<19, 5, 32>>}
BRANCHES == {<<99, f3>> : f3 \in {0, 1, 4, 5}}

-----------------------------------------------------------------------------
(* imm_gen.sv: the sign bit fills everything above the immediate. *)
opcode(w) == w \cap (0 .. 6)
sext(w, top) == IF 31 \in w THEN top .. 31 ELSE {}

imm_gen(w) ==
  CASE opcode(w) \in {bits32(19), bits32(3), bits32(103)} ->
         sext(w, 12) \cup slice(w, 20, 31, 0)
    [] opcode(w) = bits32(35) ->
         sext(w, 12) \cup slice(w, 25, 31, 5) \cup slice(w, 7, 11, 0)
    [] opcode(w) = bits32(99) ->
         sext(w, 12) \cup slice(w, 7, 7, 11) \cup slice(w, 25, 30, 5) \cup slice(w, 8, 11, 1)
    [] opcode(w) = bits32(111) ->
         sext(w, 20) \cup slice(w, 12, 19, 12) \cup slice(w, 20, 20, 11) \cup slice(w, 21, 30, 1)
    [] opcode(w) \in {bits32(55), bits32(23)} -> w \cap (12 .. 31)
    [] OTHER -> {}

(* The fields of an instruction, wired straight to their bits. *)
rd(w) == slice(w, 7, 11, 0)
funct3(w) == slice(w, 12, 14, 0)
rs1(w) == slice(w, 15, 19, 0)
rs2(w) == slice(w, 20, 24, 0)
funct7(w) == slice(w, 25, 31, 0)

(* main.cpp *)
sign_extend_12(imm) == imm \cup (IF 11 \in imm THEN 12 .. 31 ELSE {})

decode_B_imm(w) ==
  LET imm == slice(w, 31, 31, 12) \cup slice(w, 7, 7, 11)
             \cup slice(w, 25, 30, 5) \cup slice(w, 8, 11, 1)
  IN imm \cup (IF 12 \in imm THEN 13 .. 31 ELSE {})

decode_J_imm(w) ==
  LET imm == slice(w, 31, 31, 20) \cup slice(w, 21, 30, 1)
             \cup slice(w, 20, 20, 11) \cup slice(w, 12, 19, 12)
  IN imm \cup (IF 20 \in imm THEN 21 .. 31 ELSE {})

decode_S_imm(w) == sign_extend_12(slice(w, 25, 31, 5) \cup slice(w, 7, 11, 0))
=============================================================================
