----------------------------- MODULE RiscvCore ------------------------------
(***************************************************************************)
(* rtl/riscv_core.sv: the five-stage pipeline.  One step is one rising     *)
(* clock edge (or an asynchronous reset).  The operators without a prime   *)
(* are the combinational signals of a cycle, under their RTL names; the    *)
(* variables are the registers and memories.                               *)
(***************************************************************************)
EXTENDS BranchPredictor, LoopBuffer

CONSTANTS
  Progs,      \* the programs instruction memory may be loaded with
  InitRams    \* what data memory, which has no reset, may hold at power-up

ASSUME ProgsAssumption == \A p \in Progs : p \in Programs
ASSUME InitRamsAssumption == \A m \in InitRams : m \in Rams

VARIABLES
  imem,                  \* instruction_mem.mem, loaded before reset is released
  pc_if,                 \* u_pc.pc_out
  icache_frozen_addr_q,
  if_id_r, id_ex_r, ex_mem_r, mem_wb_r,
  rf,                    \* u_reg_file.rf
  ram                    \* u_data_mem.ram

pipe_vars == <<pc_if, icache_frozen_addr_q, if_id_r, id_ex_r, ex_mem_r,
               mem_wb_r, rf, ram, imem>>
vars == <<pipe_vars, bp_vars, lb_vars>>

-----------------------------------------------------------------------------
(* The all-zero pipeline registers *)

NoControl == [reg_write |-> FALSE, alu_src |-> FALSE, alu_control |-> "ADD",
              mem_to_reg |-> FALSE, mem_read |-> FALSE, mem_write |-> FALSE,
              branch |-> FALSE, jump |-> FALSE, jalr |-> FALSE,
              lui |-> FALSE, auipc |-> FALSE]

if_id_zero == [valid |-> FALSE, pc |-> 0, pc_plus4 |-> 0, instr |-> NoInstr,
               pred_taken |-> FALSE, pred_target |-> 0]

id_ex_zero == [valid |-> FALSE, pc |-> 0, pc_plus4 |-> 0,
               rs1_data |-> 0, rs2_data |-> 0, imm_ext |-> 0,
               rs1_addr |-> 0, rs2_addr |-> 0, rd_addr |-> 0, funct3 |-> 0,
               pred_taken |-> FALSE, pred_target |-> 0, ctl |-> NoControl]

ex_mem_zero == [valid |-> FALSE, pc |-> 0, pc_plus4 |-> 0, alu_result |-> 0,
                store_data |-> 0, imm_ext |-> 0, rd_addr |-> 0,
                reg_write |-> FALSE, mem_to_reg |-> FALSE, mem_read |-> FALSE,
                mem_write |-> FALSE, jump |-> FALSE, lui |-> FALSE]

mem_wb_zero == [valid |-> FALSE, pc |-> 0, pc_plus4 |-> 0, alu_result |-> 0,
                mem_read_data |-> 0, imm_ext |-> 0, rd_addr |-> 0,
                reg_write |-> FALSE, mem_to_reg |-> FALSE, jump |-> FALSE,
                lui |-> FALSE]

-----------------------------------------------------------------------------
(* WB stage *)

wb_write_data ==
  IF mem_wb_r.lui THEN mem_wb_r.imm_ext
  ELSE IF mem_wb_r.jump THEN mem_wb_r.pc_plus4
  ELSE IF mem_wb_r.mem_to_reg THEN mem_wb_r.mem_read_data
  ELSE mem_wb_r.alu_result

wb_reg_write == mem_wb_r.valid /\ mem_wb_r.reg_write

(* Mutant: no bypass from the write port. *)
read_data_unbypassed(rs) == IF rs = 0 THEN 0 ELSE rf[rs]

(* reg_file.sv, read port: x0 reads 0, and a register that is being written *)
(* in this cycle reads the value being written.                             *)
read_data(rs) ==
  IF rs = 0 THEN 0
  ELSE IF wb_reg_write /\ mem_wb_r.rd_addr = rs THEN wb_write_data
  ELSE rf[rs]

-----------------------------------------------------------------------------
(* ID stage *)

alu_op(i) ==
  CASE i.funct3 = 0 -> IF i.opcode = "OP" /\ i.funct7 = 32 THEN "SUB" ELSE "ADD"
    [] i.funct3 = 1 -> "SLL"
    [] i.funct3 = 2 -> "SLT"
    [] i.funct3 = 3 -> "SLTU"
    [] i.funct3 = 4 -> "XOR"
    [] i.funct3 = 5 -> IF (i.funct7 \div 32) % 2 = 1 THEN "SRA" ELSE "SRL"
    [] i.funct3 = 6 -> "OR"
    [] i.funct3 = 7 -> "AND"

control_unit(i) ==
  [reg_write |-> i.opcode \in {"OP", "OP_IMM", "LOAD", "JAL", "JALR", "LUI", "AUIPC"},
   alu_src |-> i.opcode \in {"OP_IMM", "LOAD", "STORE", "JALR", "AUIPC"},
   alu_control |-> IF i.opcode \in {"OP", "OP_IMM"} THEN alu_op(i)
                   ELSE IF i.opcode = "BRANCH" THEN "SUB" ELSE "ADD",
   mem_to_reg |-> i.opcode = "LOAD",
   mem_read |-> i.opcode = "LOAD",
   mem_write |-> i.opcode = "STORE",
   branch |-> i.opcode = "BRANCH",
   jump |-> i.opcode \in {"JAL", "JALR"},
   jalr |-> i.opcode = "JALR",
   lui |-> i.opcode = "LUI",
   auipc |-> i.opcode = "AUIPC"]

(* imm_gen.sv: the formats without an immediate yield 0. *)
imm_gen(i) == IF i.opcode \in {"OP", "NONE"} THEN 0 ELSE i.imm

(* Mutants: only rs1 is compared; the instruction in EX need not be a load. *)
hazard_unit_rs1_only(id_rs1, id_rs2, ex_mem_read, ex_rd) ==
  ex_mem_read /\ ex_rd # 0 /\ ex_rd = id_rs1

hazard_unit_any_producer(id_rs1, id_rs2, ex_mem_read, ex_rd) ==
  ex_rd # 0 /\ (ex_rd = id_rs1 \/ ex_rd = id_rs2)

(* hazard_unit.sv: the instruction in EX is a load, and the word in ID     *)
(* names its destination in the bits of rs1 or rs2.                        *)
hazard_unit(id_rs1, id_rs2, ex_mem_read, ex_rd) ==
  ex_mem_read /\ ex_rd # 0 /\ (ex_rd = id_rs1 \/ ex_rd = id_rs2)

stall == hazard_unit(if_id_r.instr.rs1, if_id_r.instr.rs2,
                     id_ex_r.ctl.mem_read, id_ex_r.rd_addr)

(* The side effects of an invalid IF/ID register are masked. *)
masked(c, valid) ==
  [reg_write |-> c.reg_write /\ valid, alu_src |-> c.alu_src,
   alu_control |-> c.alu_control, mem_to_reg |-> c.mem_to_reg,
   mem_read |-> c.mem_read /\ valid, mem_write |-> c.mem_write /\ valid,
   branch |-> c.branch /\ valid, jump |-> c.jump /\ valid,
   jalr |-> c.jalr, lui |-> c.lui, auipc |-> c.auipc]

(* What ID/EX latches. *)
id_ex_next ==
  LET i == if_id_r.instr
  IN [valid |-> if_id_r.valid, pc |-> if_id_r.pc, pc_plus4 |-> if_id_r.pc_plus4,
      rs1_data |-> read_data(i.rs1), rs2_data |-> read_data(i.rs2),
      imm_ext |-> imm_gen(i),
      rs1_addr |-> i.rs1, rs2_addr |-> i.rs2, rd_addr |-> i.rd,
      funct3 |-> i.funct3,
      pred_taken |-> if_id_r.pred_taken, pred_target |-> if_id_r.pred_target,
      ctl |-> masked(control_unit(i), if_id_r.valid)]

-----------------------------------------------------------------------------
(* EX stage *)

ex_mem_writes(rs) ==
  ex_mem_r.valid /\ ex_mem_r.reg_write /\ ex_mem_r.rd_addr # 0 /\ ex_mem_r.rd_addr = rs

mem_wb_writes(rs) == wb_reg_write /\ mem_wb_r.rd_addr # 0 /\ mem_wb_r.rd_addr = rs

(* forward_unit.sv: the nearest older producer of register rs wins. *)
forward_unit(rs) ==
  IF ex_mem_writes(rs) THEN "EX_MEM"
  ELSE IF mem_wb_writes(rs) THEN "MEM_WB"
  ELSE "ID_EX"

(* A load's data is deliberately not among the values forwarded from MEM. *)
ex_mem_fwd_value ==
  IF ex_mem_r.lui THEN ex_mem_r.imm_ext
  ELSE IF ex_mem_r.jump THEN ex_mem_r.pc_plus4
  ELSE ex_mem_r.alu_result

forwarded(rs, latched) ==
  IF forward_unit(rs) = "EX_MEM" THEN ex_mem_fwd_value
  ELSE IF forward_unit(rs) = "MEM_WB" THEN wb_write_data
  ELSE latched

fwd_rs1 == forwarded(id_ex_r.rs1_addr, id_ex_r.rs1_data)
fwd_rs2 == forwarded(id_ex_r.rs2_addr, id_ex_r.rs2_data)

alu_operand_a == IF id_ex_r.ctl.auipc THEN id_ex_r.pc ELSE fwd_rs1
alu_operand_b == IF id_ex_r.ctl.alu_src THEN id_ex_r.imm_ext ELSE fwd_rs2
alu_result_ex == Alu(id_ex_r.ctl.alu_control, alu_operand_a, alu_operand_b)

(* alu.sv: the flags of a subtraction a - b with result r. *)
alu_zero(r) == r = 0
alu_negative(r) == Msb(r)
alu_overflow(a, b, r) == Msb(a) # Msb(b) /\ Msb(r) # Msb(a)

(* The condition of a branch, read off the flags of rs1 - rs2. *)
branch_condition(funct3, a, b, r) ==
  \/ funct3 = 0 /\ alu_zero(r)
  \/ funct3 = 1 /\ ~alu_zero(r)
  \/ funct3 = 4 /\ alu_negative(r) # alu_overflow(a, b, r)
  \/ funct3 = 5 /\ alu_negative(r) = alu_overflow(a, b, r)

branch_taken_ex ==
  /\ id_ex_r.ctl.branch
  /\ branch_condition(id_ex_r.funct3, alu_operand_a, alu_operand_b, alu_result_ex)

actual_taken_ex == id_ex_r.valid /\ (id_ex_r.ctl.jump \/ branch_taken_ex)

actual_target_ex ==
  IF id_ex_r.ctl.jalr THEN alu_result_ex - (alu_result_ex % 2)
  ELSE Wrap(id_ex_r.pc + id_ex_r.imm_ext)

is_control_flow_ex == id_ex_r.valid /\ (id_ex_r.ctl.branch \/ id_ex_r.ctl.jump)

(* Mutant: a branch that was predicted taken and falls through is missed. *)
mispredict_ex_taken_only ==
  /\ is_control_flow_ex
  /\ actual_taken_ex
  /\ ~id_ex_r.pred_taken \/ actual_target_ex # id_ex_r.pred_target

mispredict_ex ==
  /\ is_control_flow_ex
  /\ \/ actual_taken_ex # id_ex_r.pred_taken
     \/ actual_taken_ex /\ actual_target_ex # id_ex_r.pred_target

flush == mispredict_ex
flush_target == IF actual_taken_ex THEN actual_target_ex ELSE id_ex_r.pc_plus4

ex_mem_next ==
  [valid |-> id_ex_r.valid, pc |-> id_ex_r.pc, pc_plus4 |-> id_ex_r.pc_plus4,
   alu_result |-> alu_result_ex, store_data |-> fwd_rs2,
   imm_ext |-> id_ex_r.imm_ext, rd_addr |-> id_ex_r.rd_addr,
   reg_write |-> id_ex_r.ctl.reg_write, mem_to_reg |-> id_ex_r.ctl.mem_to_reg,
   mem_read |-> id_ex_r.ctl.mem_read, mem_write |-> id_ex_r.ctl.mem_write,
   jump |-> id_ex_r.ctl.jump, lui |-> id_ex_r.ctl.lui]

-----------------------------------------------------------------------------
(* MEM stage *)

mem_read_data_mem ==
  IF ex_mem_r.mem_read THEN data_mem_read(ram, ex_mem_r.alu_result) ELSE {0}

mem_wb_next(data) ==
  [valid |-> ex_mem_r.valid, pc |-> ex_mem_r.pc, pc_plus4 |-> ex_mem_r.pc_plus4,
   alu_result |-> ex_mem_r.alu_result, mem_read_data |-> data,
   imm_ext |-> ex_mem_r.imm_ext, rd_addr |-> ex_mem_r.rd_addr,
   reg_write |-> ex_mem_r.reg_write, mem_to_reg |-> ex_mem_r.mem_to_reg,
   jump |-> ex_mem_r.jump, lui |-> ex_mem_r.lui]

-----------------------------------------------------------------------------
(* IF stage *)

predict_taken_if == predict_taken(pc_if)
predict_target_if == predict_target(pc_if)

icache_addr_mux == IF gate_icache_clk THEN icache_frozen_addr_q ELSE pc_if
instr_if == instruction_mem(imem, icache_addr_mux)
instr_if_final == instruction_out(pc_if, instr_if)

if_id_next ==
  [valid |-> TRUE, pc |-> pc_if, pc_plus4 |-> Plus4(pc_if),
   instr |-> instr_if_final,
   pred_taken |-> predict_taken_if, pred_target |-> predict_target_if]

-----------------------------------------------------------------------------
Init ==
  /\ imem \in Progs
  /\ pc_if = 0 /\ icache_frozen_addr_q = 0
  /\ if_id_r = if_id_zero /\ id_ex_r = id_ex_zero
  /\ ex_mem_r = ex_mem_zero /\ mem_wb_r = mem_wb_zero
  /\ rf = [r \in Regs |-> 0]
  /\ ram \in InitRams
  /\ BPInit /\ LBInit

(* The front end on a clock edge: a misprediction squashes the two younger *)
(* instructions and redirects fetch, and outranks a load-use stall, which  *)
(* holds PC and IF/ID and puts a bubble into ID/EX.                        *)
Flush ==
  /\ flush
  /\ pc_if' = flush_target /\ if_id_r' = if_id_zero /\ id_ex_r' = id_ex_zero

(* Mutants: the load stays in EX; the bubble keeps its control signals. *)
Stall_without_bubble ==
  /\ ~flush /\ stall
  /\ UNCHANGED <<pc_if, if_id_r, id_ex_r>>

Stall_bubble_keeps_control ==
  /\ ~flush /\ stall
  /\ id_ex_r' = [id_ex_r EXCEPT !.valid = FALSE]
  /\ UNCHANGED <<pc_if, if_id_r>>

Stall ==
  /\ ~flush /\ stall
  /\ id_ex_r' = id_ex_zero
  /\ UNCHANGED <<pc_if, if_id_r>>

Advance ==
  /\ ~flush /\ ~stall
  /\ pc_if' = IF predict_taken_if THEN predict_target_if ELSE Plus4(pc_if)
  /\ if_id_r' = if_id_next /\ id_ex_r' = id_ex_next

(* The back end on the same edge: EX/MEM and MEM/WB never stall. *)
BackEnd ==
  /\ ex_mem_r' = ex_mem_next
  /\ \E data \in mem_read_data_mem : mem_wb_r' = mem_wb_next(data)
  /\ ram' = IF ex_mem_r.mem_write
            THEN data_mem_write(ram, ex_mem_r.alu_result, ex_mem_r.store_data)
            ELSE ram
  /\ rf' = IF wb_reg_write /\ mem_wb_r.rd_addr # 0
           THEN [rf EXCEPT ![mem_wb_r.rd_addr] = wb_write_data]
           ELSE rf

Clock ==
  /\ Flush \/ Stall \/ Advance
  /\ BackEnd
  /\ icache_frozen_addr_q' = IF gate_icache_clk THEN icache_frozen_addr_q ELSE pc_if
  /\ BPClock(is_control_flow_ex, id_ex_r.pc, actual_taken_ex, actual_target_ex)
  /\ LBClock(pc_if, instr_if, predict_taken_if, predict_target_if, flush, stall)
  /\ UNCHANGED imem

(* Mutant: MEM/WB, with the write it holds, survives the reset. *)
Reset_keeps_mem_wb ==
  /\ pc_if' = 0 /\ icache_frozen_addr_q' = 0
  /\ if_id_r' = if_id_zero /\ id_ex_r' = id_ex_zero
  /\ ex_mem_r' = ex_mem_zero
  /\ rf' = [r \in Regs |-> 0]
  /\ BPReset /\ LBReset
  /\ UNCHANGED <<mem_wb_r, ram, imem>>

(* rst_n falls: every register but the two memories' storage is cleared. *)
Reset ==
  /\ pc_if' = 0 /\ icache_frozen_addr_q' = 0
  /\ if_id_r' = if_id_zero /\ id_ex_r' = id_ex_zero
  /\ ex_mem_r' = ex_mem_zero /\ mem_wb_r' = mem_wb_zero
  /\ rf' = [r \in Regs |-> 0]
  /\ BPReset /\ LBReset
  /\ UNCHANGED <<ram, imem>>

Next == Clock \/ Reset

Spec == Init /\ [][Next]_vars

(* The clock keeps ticking and reset stays released. *)
FairSpec == Init /\ [][Clock]_vars /\ WF_vars(Clock)

-----------------------------------------------------------------------------
(* The architectural state the pipeline stands for.  An instruction takes  *)
(* effect on the edge that moves it from MEM to WB: memory is written on   *)
(* that edge, and its register result is the pending write of MEM/WB.  The *)
(* next instruction to take effect is the oldest one before that point.    *)

arch_x == IF wb_reg_write /\ mem_wb_r.rd_addr # 0
          THEN [rf EXCEPT ![mem_wb_r.rd_addr] = wb_write_data]
          ELSE rf

arch_pc == IF ex_mem_r.valid THEN ex_mem_r.pc
           ELSE IF id_ex_r.valid THEN id_ex_r.pc
           ELSE IF if_id_r.valid THEN if_id_r.pc
           ELSE pc_if

Arch == INSTANCE ISA WITH pc <- arch_pc, x <- arch_x, dmem <- ram, prog <- imem

(* The pipeline implements the one-instruction-at-a-time machine: with all *)
(* its forwarding, stalls, squashes, predictions and replayed fetches, a   *)
(* clock edge retires one instruction exactly as decode_and_execute        *)
(* executes it, or retires nothing.                                        *)
RefinesISA == Arch!ISASpec

-----------------------------------------------------------------------------
(* Every register holds a value of its width. *)
TypeOK ==
  /\ imem \in Programs /\ ram \in Rams /\ rf \in [Regs -> Word]
  /\ pc_if \in Word /\ icache_frozen_addr_q \in Word
  /\ if_id_r \in if_id_t /\ id_ex_r \in id_ex_t
  /\ ex_mem_r \in ex_mem_t /\ mem_wb_r \in mem_wb_t
  /\ BPTypeOK /\ LBTypeOK

(* The comment on ID/EX: a flush and a stall never happen in the same      *)
(* cycle, so the order in which the registers test them does not matter.   *)
NoFlushWithStall == ~(flush /\ stall)

(* The comment on ex_mem_fwd_value: the instruction in EX never takes an   *)
(* operand from a load that is still in MEM, whose data is not there yet.  *)
NoLoadForwarded ==
  \A rs \in {id_ex_r.rs1_addr, id_ex_r.rs2_addr} :
    forward_unit(rs) = "EX_MEM" => ~ex_mem_r.mem_read

(* hazard_unit.sv: a load-use pair stalls the pipeline for exactly one     *)
(* cycle.                                                                  *)
StallLastsOneCycle == [][stall => ~stall']_vars

(* Every instruction in ID is the word that instruction memory holds at    *)
(* its address, whether it was fetched or replayed by the loop buffer.     *)
FetchFaithful ==
  if_id_r.valid => if_id_r.instr = instruction_mem(imem, if_id_r.pc)

(* branch_predictor.sv: fetch is never redirected off an instruction that  *)
(* is no branch or jump, a redirection EX would not correct.               *)
OnlyControlFlowPredicted ==
  id_ex_r.valid /\ id_ex_r.pred_taken => id_ex_r.ctl.branch \/ id_ex_r.ctl.jump

(* riscv_core.sv, on the address freeze: while the fetch address is frozen *)
(* the loop buffer never lets the stale word through.                      *)
FrozenReadUnused == gate_icache_clk => read_idx_valid(pc_if)

(* The slots recorded so far hold the words of instruction memory from     *)
(* loop_start on, and a replay covers the body up to and with its branch.  *)
RecordingFaithful ==
  state_q \in {"RECORDING", "LOOPING"} =>
    /\ \A k \in 0 .. write_ptr_q - 1 :
         buffer[k] = instruction_mem(imem, Wrap(loop_start_q + 4 * k))
    /\ state_q = "LOOPING" => 4 * write_ptr_q = loop_end_q - loop_start_q

(* With the clock running, instructions keep retiring: neither stalls nor  *)
(* repeated mispredictions stop the pipeline.                              *)
Progress == []<>(mem_wb_r.valid)
=============================================================================
