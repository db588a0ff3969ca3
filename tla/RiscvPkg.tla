------------------------------ MODULE RiscvPkg ------------------------------
(***************************************************************************)
(* What every module of the core shares: machine words, the abstract       *)
(* instruction word and the types of the pipeline registers                *)
(* (rtl/riscv_pkg.sv), and the two memories as the core addresses them.    *)
(*                                                                         *)
(* A machine word is a natural below 2*HALF, where HALF = 2^(XLEN-1); all  *)
(* arithmetic wraps.  An instruction word is a record of its decoded       *)
(* fields.  rs1, rs2 and rd are fields of every instruction, also of the   *)
(* formats whose immediate occupies those bits: the core slices the bits   *)
(* without looking at the format, so a `register number' that is really a  *)
(* piece of an immediate does reach the hazard and forwarding units.       *)
(***************************************************************************)
EXTENDS Integers

CONSTANTS
  HALF,        \* 2^(XLEN-1): words are 0 .. 2*HALF-1  (2^31 in the RTL)
  NREGS,       \* number of registers, x0 included      (32 in the RTL)
  IMEM_WORDS,  \* words of instruction memory           (1024 in the RTL)
  DMEM_WORDS,  \* words of data memory                  (1024 in the RTL)
  Alu(_, _, _) \* alu_result of alu.sv: Alu(alu_control, a, b)

Modulus == 2 * HALF
Word == 0 .. Modulus - 1
Regs == 0 .. NREGS - 1
Wrap(n) == n % Modulus
Msb(w) == w >= HALF
Plus4(w) == Wrap(w + 4)

AluOps == {"ADD", "SUB", "AND", "OR", "XOR", "SLL", "SRL", "SRA", "SLT", "SLTU"}

Opcodes == {"OP", "OP_IMM", "LOAD", "STORE", "BRANCH",
            "JAL", "JALR", "LUI", "AUIPC", "NONE"}

Instr == [opcode : Opcodes, funct3 : 0 .. 7, funct7 : 0 .. 127,
          rd : Regs, rs1 : Regs, rs2 : Regs, imm : Word]

ASSUME WordAssumption == HALF \in Nat /\ HALF % 4 = 0 /\ HALF > 0
ASSUME RegsAssumption == NREGS \in Nat /\ NREGS > 0
ASSUME MemoryAssumption == /\ IMEM_WORDS \in Nat /\ IMEM_WORDS > 0
                           /\ DMEM_WORDS \in Nat /\ DMEM_WORDS > 0

(* What the control path relies on: alu.sv adds and subtracts modulo       *)
(* 2^XLEN, and every operation yields a word.                              *)
ASSUME AluAssumption ==
  \A a, b \in Word :
    /\ \A op \in AluOps : Alu(op, a, b) \in Word
    /\ Alu("ADD", a, b) = Wrap(a + b)
    /\ Alu("SUB", a, b) = Wrap(a - b)

(* The all-zero word that a squashed IF/ID register holds. *)
NoInstr == [opcode |-> "NONE", funct3 |-> 0, funct7 |-> 0,
            rd |-> 0, rs1 |-> 0, rs2 |-> 0, imm |-> 0]

Programs == [0 .. IMEM_WORDS - 1 -> Instr]
Rams == [0 .. DMEM_WORDS - 1 -> Word]

(* instruction_mem.sv: mem[addr[11:2]], a word index that wraps. *)
instruction_mem(mem, addr) == mem[(addr \div 4) % IMEM_WORDS]

(* data_mem.sv, read port: ram[addr >> 2].  The set of values the read can *)
(* return: outside the array the simulator returns an undefined word.      *)
data_mem_read(mem, addr) ==
  IF addr \div 4 < DMEM_WORDS THEN {mem[addr \div 4]} ELSE Word

(* data_mem.sv, write port: a write outside the array is dropped. *)
data_mem_write(mem, addr, data) ==
  IF addr \div 4 < DMEM_WORDS THEN [mem EXCEPT ![addr \div 4] = data] ELSE mem

(* The control word control_unit.sv derives from an instruction. *)
Controls == [reg_write : BOOLEAN, alu_src : BOOLEAN, alu_control : AluOps,
             mem_to_reg : BOOLEAN, mem_read : BOOLEAN, mem_write : BOOLEAN,
             branch : BOOLEAN, jump : BOOLEAN, jalr : BOOLEAN,
             lui : BOOLEAN, auipc : BOOLEAN]

if_id_t == [valid : BOOLEAN, pc : Word, pc_plus4 : Word, instr : Instr,
            pred_taken : BOOLEAN, pred_target : Word]

id_ex_t == [valid : BOOLEAN, pc : Word, pc_plus4 : Word,
            rs1_data : Word, rs2_data : Word, imm_ext : Word,
            rs1_addr : Regs, rs2_addr : Regs, rd_addr : Regs,
            funct3 : 0 .. 7, pred_taken : BOOLEAN, pred_target : Word,
            ctl : Controls]

ex_mem_t == [valid : BOOLEAN, pc : Word, pc_plus4 : Word, alu_result : Word,
             store_data : Word, imm_ext : Word, rd_addr : Regs,
             reg_write : BOOLEAN, mem_to_reg : BOOLEAN, mem_read : BOOLEAN,
             mem_write : BOOLEAN, jump : BOOLEAN, lui : BOOLEAN]

mem_wb_t == [valid : BOOLEAN, pc : Word, pc_plus4 : Word, alu_result : Word,
             mem_read_data : Word, imm_ext : Word, rd_addr : Regs,
             reg_write : BOOLEAN, mem_to_reg : BOOLEAN, jump : BOOLEAN,
             lui : BOOLEAN]
=============================================================================
