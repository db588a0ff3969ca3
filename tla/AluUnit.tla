------------------------------ MODULE AluUnit -------------------------------
(***************************************************************************)
(* rtl/alu.sv: the result of an operation on two words.  This is the value *)
(* the TLC configurations give to the constant Alu of RiscvPkg; the proofs *)
(* know of it only what AluAssumption says.                                *)
(***************************************************************************)
EXTENDS RiscvPkg, Bitwise

CONSTANT SHIFTS   \* shift amounts are b[4:0], that is b % 32, in the RTL

ASSUME ShiftsAssumption == SHIFTS \in Nat /\ SHIFTS > 0

(* >>> on a signed operand: the quotient rounded towards minus infinity. *)
shift_right_arith(a, n) ==
  Wrap((IF Msb(a) THEN a - Modulus ELSE a) \div (2 ^ n))

(* $signed(a) < $signed(b): flipping the sign bits gives the unsigned order. *)
signed_less(a, b) == Wrap(a + HALF) < Wrap(b + HALF)

alu_result(alu_control, a, b) ==
  LET n == b % SHIFTS
  IN CASE alu_control = "ADD" -> Wrap(a + b)
       [] alu_control = "SUB" -> Wrap(a - b)
       [] alu_control = "AND" -> a & b
       [] alu_control = "OR" -> a | b
       [] alu_control = "XOR" -> a ^^ b
       [] alu_control = "SLL" -> Wrap(a * 2 ^ n)
       [] alu_control = "SRL" -> a \div (2 ^ n)
       [] alu_control = "SRA" -> shift_right_arith(a, n)
       [] alu_control = "SLT" -> IF signed_less(a, b) THEN 1 ELSE 0
       [] alu_control = "SLTU" -> IF a < b THEN 1 ELSE 0
=============================================================================
