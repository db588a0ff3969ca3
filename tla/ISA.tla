-------------------------------- MODULE ISA ---------------------------------
(***************************************************************************)
(* What the core promises: a machine that executes one instruction per     *)
(* step.  The meaning of an instruction is taken from decode_and_execute   *)
(* of the C++ simulator (src/main.cpp), written to verify the hardware.    *)
(* The memories are the core's (instruction_mem.sv, data_mem.sv), not the  *)
(* simulator's single byte array: instructions and data are separate, an   *)
(* access is a whole word, and a load outside data memory yields some word *)
(* (the simulator skips the register write).  LB, LH, LBU, LHU, SB and SH  *)
(* are not part of this machine: data_mem.sv has no narrower access.       *)
(***************************************************************************)
EXTENDS RiscvPkg

VARIABLES pc, x, dmem, prog

isa_vars == <<pc, x, dmem, prog>>

ISATypeOK == /\ pc \in Word /\ x \in [Regs -> Word]
             /\ dmem \in Rams /\ prog \in Programs

-----------------------------------------------------------------------------
Signed(w) == IF Msb(w) THEN w - Modulus ELSE w

ShiftArith(i) ==
  IF i.opcode = "OP" THEN i.funct7 = 32 ELSE (i.funct7 \div 32) % 2 = 1

(* The ALU operation of an OP or OP_IMM instruction. *)
Operation(i) ==
  CASE i.funct3 = 0 -> IF i.opcode = "OP" /\ i.funct7 = 32 THEN "SUB" ELSE "ADD"
    [] i.funct3 = 1 -> "SLL"
    [] i.funct3 = 2 -> "SLT"
    [] i.funct3 = 3 -> "SLTU"
    [] i.funct3 = 4 -> "XOR"
    [] i.funct3 = 5 -> IF ShiftArith(i) THEN "SRA" ELSE "SRL"
    [] i.funct3 = 6 -> "OR"
    [] i.funct3 = 7 -> "AND"

take_branch(i, a, b) ==
  \/ i.funct3 = 0 /\ a = b
  \/ i.funct3 = 1 /\ a # b
  \/ i.funct3 = 4 /\ Signed(a) < Signed(b)
  \/ i.funct3 = 5 /\ Signed(a) >= Signed(b)
  \/ i.funct3 = 6 /\ a < b
  \/ i.funct3 = 7 /\ a >= b

(* The address of the instruction that executes after i at address at. *)
NextPc(i, at, regs) ==
  LET a == regs[i.rs1]
      t == Wrap(a + i.imm)
  IN CASE i.opcode = "JAL" -> Wrap(at + i.imm)
       [] i.opcode = "JALR" -> t - (t % 2)
       [] i.opcode = "BRANCH" /\ take_branch(i, a, regs[i.rs2]) -> Wrap(at + i.imm)
       [] OTHER -> Plus4(at)

write_reg(regs, rd, value) == IF rd = 0 THEN regs ELSE [regs EXCEPT ![rd] = value]

(* The value an instruction other than a load leaves in rd. *)
Result(i, at, regs) ==
  CASE i.opcode = "OP" -> Alu(Operation(i), regs[i.rs1], regs[i.rs2])
    [] i.opcode = "OP_IMM" -> Alu(Operation(i), regs[i.rs1], i.imm)
    [] i.opcode = "LUI" -> i.imm
    [] i.opcode = "AUIPC" -> Wrap(at + i.imm)
    [] i.opcode \in {"JAL", "JALR"} -> Plus4(at)

Address(i, regs) == Wrap(regs[i.rs1] + i.imm)

-----------------------------------------------------------------------------
Instruction == instruction_mem(prog, pc)

Load ==
  /\ Instruction.opcode = "LOAD" /\ Instruction.funct3 = 2
  /\ \E v \in data_mem_read(dmem, Address(Instruction, x)) :
       x' = write_reg(x, Instruction.rd, v)
  /\ pc' = Plus4(pc)
  /\ UNCHANGED <<dmem, prog>>

Store ==
  /\ Instruction.opcode = "STORE" /\ Instruction.funct3 = 2
  /\ dmem' = data_mem_write(dmem, Address(Instruction, x), x[Instruction.rs2])
  /\ pc' = Plus4(pc)
  /\ UNCHANGED <<x, prog>>

(* Arithmetic, upper immediates and jumps: rd gets a result. *)
Compute ==
  /\ Instruction.opcode \in {"OP", "OP_IMM", "LUI", "AUIPC", "JAL", "JALR"}
  /\ x' = write_reg(x, Instruction.rd, Result(Instruction, pc, x))
  /\ pc' = NextPc(Instruction, pc, x)
  /\ UNCHANGED <<dmem, prog>>

(* Branches, and the words of an unknown opcode, which fall through:       *)
(* neither changes a register.                                             *)
NoResult ==
  /\ Instruction.opcode \in {"BRANCH", "NONE"}
  /\ pc' = NextPc(Instruction, pc, x)
  /\ UNCHANGED <<x, dmem, prog>>

Step == Load \/ Store \/ Compute \/ NoResult

(* Reset clears the program counter and the registers, not data memory. *)
ISAReset ==
  /\ pc' = 0 /\ x' = [r \in Regs |-> 0]
  /\ UNCHANGED <<dmem, prog>>

ISAInit == /\ pc = 0 /\ x = [r \in Regs |-> 0]
           /\ dmem \in Rams /\ prog \in Programs

ISANext == Step \/ ISAReset

ISASpec == ISAInit /\ [][ISANext]_isa_vars
=============================================================================
