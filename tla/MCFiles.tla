------------------------------- MODULE MCFiles -------------------------------
(***************************************************************************)
(* Every format with each bit of its immediate alone and the ends of its   *)
(* range; the registers the generator reserves and the first ones.         *)
(***************************************************************************)
EXTENDS ProgramFiles

I(fmt, op, f3, f7, d, s1, s2, imm) ==
  [fmt |-> fmt, opcode |-> op, funct3 |-> f3, funct7 |-> f7,
   rd |-> d, rs1 |-> s1, rs2 |-> s2, imm |-> imm]

(* Immediates of w bits whose lowest bit has value unit. *)
Imms(w, unit) ==
  {unit * v : v \in {2^b : b \in 0 .. w - 2} \cup {-(2^b) : b \in 0 .. w - 1} \cup {0, 2^(w - 1) - 1}}

GenInstructions ==
  {I("R", t[1], t[2], t[3], 1, 29, 16, 0) : t \in R_TYPE}
  \cup {I("I", t[1], t[2], 0, 31, 0, 0, -1) : t \in I_ARITH}
  \cup {I("I", 19, 0, 0, 30, 30, 0, v) : v \in Imms(12, 1)}
  \cup {I("shift", t[1], t[2], t[3], 3, 4, 0, v) : t \in I_SHIFT, v \in {1, 16, 31}}
  \cup {I("S", 35, 2, 0, 0, 31, 29, v) : v \in Imms(12, 1)}
  \cup {I("I", 3, 2, 0, 29, 31, 0, v) : v \in {-32, 0, 32}}
  \cup {I("B", t[1], t[2], 0, 0, 1, 2, 4) : t \in BRANCHES}
  \cup {I("B", 99, 1, 0, 0, 30, 0, v) : v \in Imms(12, 2)}
  \cup {I("U", 23, 0, 0, 31, 0, 0, v) : v \in {0, 1, 2^19, 2^20 - 1}}
  \cup {I("J", 111, 0, 0, 0, 0, 0, v) : v \in Imms(20, 2)}
=============================================================================
