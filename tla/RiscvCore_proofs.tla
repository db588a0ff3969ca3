-------------------------- MODULE RiscvCore_proofs --------------------------
(***************************************************************************)
(* Theorems about RiscvCore for every word width, register count, memory   *)
(* size, predictor size, buffer depth and program.                         *)
(***************************************************************************)
EXTENDS RiscvCore, TLAPS

-----------------------------------------------------------------------------
(* Words *)

LEMMA ModulusFacts ==
  /\ Modulus \in Nat /\ Modulus > 4 /\ HALF \in Nat /\ HALF > 0 /\ Modulus = 2 * HALF
  /\ 0 \in Word
BY WordAssumption DEF Modulus, Word

LEMMA WrapWord == ASSUME NEW n \in Int PROVE Wrap(n) \in Word
BY ModulusFacts DEF Wrap, Word

LEMMA Plus4Word == ASSUME NEW w \in Word PROVE Plus4(w) \in Word
BY ModulusFacts, WrapWord DEF Plus4, Word

LEMMA ZeroReg == 0 \in Regs
BY RegsAssumption DEF Regs

(* What instruction memory returns is an instruction, at every address. *)
LEMMA FetchType ==
  ASSUME NEW p \in Programs, NEW a \in Word PROVE instruction_mem(p, a) \in Instr
<1>1. a \div 4 \in Int
  BY ModulusFacts DEF Word
<1>2. (a \div 4) % IMEM_WORDS \in 0 .. IMEM_WORDS - 1
  BY <1>1, MemoryAssumption
<1> QED
  BY <1>2 DEF Programs, instruction_mem

(* The control unit yields a control word for every instruction. *)
LEMMA ControlType == ASSUME NEW i \in Instr PROVE control_unit(i) \in Controls
<1>1. alu_op(i) \in AluOps
  BY DEF alu_op, AluOps, Instr
<1> QED
  BY <1>1 DEF control_unit, Controls, AluOps

-----------------------------------------------------------------------------
(* Type correctness *)

(* The combinational signals of a cycle carry values of their width. *)
LEMMA WritebackType == ASSUME TypeOK PROVE wb_write_data \in Word
BY DEF TypeOK, wb_write_data, mem_wb_t

LEMMA ReadType == ASSUME TypeOK, NEW rs \in Regs PROVE read_data(rs) \in Word
BY WritebackType, ModulusFacts DEF TypeOK, read_data

LEMMA ForwardedType ==
  ASSUME TypeOK, NEW rs \in Regs, NEW v \in Word PROVE forwarded(rs, v) \in Word
<1>1. ex_mem_fwd_value \in Word
  BY DEF TypeOK, ex_mem_fwd_value, ex_mem_t
<1> QED
  BY <1>1, WritebackType DEF forwarded

LEMMA OperandTypes ==
  ASSUME TypeOK
  PROVE /\ fwd_rs1 \in Word /\ fwd_rs2 \in Word
        /\ alu_operand_a \in Word /\ alu_operand_b \in Word
        /\ alu_result_ex \in Word
<1>1. /\ id_ex_r.rs1_addr \in Regs /\ id_ex_r.rs2_addr \in Regs
      /\ id_ex_r.rs1_data \in Word /\ id_ex_r.rs2_data \in Word
      /\ id_ex_r.pc \in Word /\ id_ex_r.imm_ext \in Word
      /\ id_ex_r.ctl.alu_control \in AluOps
  BY DEF TypeOK, id_ex_t, Controls
<1>2. fwd_rs1 \in Word /\ fwd_rs2 \in Word
  BY <1>1, ForwardedType DEF fwd_rs1, fwd_rs2
<1>3. alu_operand_a \in Word /\ alu_operand_b \in Word
  BY <1>1, <1>2 DEF alu_operand_a, alu_operand_b
<1>4. alu_result_ex \in Word
  BY <1>1, <1>3, AluAssumption DEF alu_result_ex
<1> QED
  BY <1>2, <1>3, <1>4

LEMMA TargetTypes ==
  ASSUME TypeOK PROVE actual_target_ex \in Word /\ flush_target \in Word
<1>1. /\ id_ex_r.pc \in Word /\ id_ex_r.imm_ext \in Word /\ id_ex_r.pc_plus4 \in Word
  BY DEF TypeOK, id_ex_t
<1>2. alu_result_ex - (alu_result_ex % 2) \in Word
  BY OperandTypes, ModulusFacts DEF Word
<1>3. Wrap(id_ex_r.pc + id_ex_r.imm_ext) \in Word
  BY <1>1, WrapWord, ModulusFacts DEF Word
<1>4. actual_target_ex \in Word
  BY <1>2, <1>3 DEF actual_target_ex
<1> QED
  BY <1>1, <1>4 DEF flush_target

LEMMA PredictionType ==
  ASSUME TypeOK
  PROVE predict_target_if \in Word /\ predict_taken_if \in BOOLEAN
<1>1. idx(pc_if) \in Entries
  BY EntriesAssumption, ModulusFacts DEF TypeOK, idx, Entries, Word
<1> QED
  BY <1>1 DEF TypeOK, BPTypeOK, predict_target_if, predict_target,
              predict_taken_if, predict_taken

(* The value each pipeline register latches has the register's type. *)
LEMMA IfIdType == ASSUME TypeOK PROVE if_id_next \in if_id_t
<1>1. icache_addr_mux \in Word
  BY DEF TypeOK, icache_addr_mux
<1>2. instr_if \in Instr
  BY <1>1, FetchType DEF TypeOK, instr_if
<1>3. read_idx(pc_if) \in Slots
  <2>1. Wrap(pc_if - loop_start_q) \in Word
    BY WrapWord, ModulusFacts DEF TypeOK, LBTypeOK, Word
  <2> QED
    BY <2>1, DepthAssumption, ModulusFacts DEF read_idx, Slots, Word
<1>4. instr_if_final \in Instr
  BY <1>2, <1>3 DEF TypeOK, LBTypeOK, instr_if_final, instruction_out
<1>5. Plus4(pc_if) \in Word
  BY Plus4Word DEF TypeOK
<1> QED
  BY <1>4, <1>5, PredictionType DEF TypeOK, if_id_next, if_id_t

LEMMA IdExType == ASSUME TypeOK PROVE id_ex_next \in id_ex_t
<1> DEFINE i == if_id_r.instr
           c == control_unit(i)
<1>1. /\ i \in Instr /\ if_id_r.valid \in BOOLEAN
      /\ if_id_r.pc \in Word /\ if_id_r.pc_plus4 \in Word
      /\ if_id_r.pred_taken \in BOOLEAN /\ if_id_r.pred_target \in Word
  BY DEF TypeOK, if_id_t
<1>2. /\ i.rs1 \in Regs /\ i.rs2 \in Regs /\ i.rd \in Regs
      /\ i.funct3 \in 0 .. 7 /\ i.imm \in Word
  BY <1>1 DEF Instr
<1>3. imm_gen(i) \in Word
  BY <1>2, ModulusFacts DEF imm_gen
<1>4. read_data(i.rs1) \in Word /\ read_data(i.rs2) \in Word
  BY <1>2, ReadType
<1>5. c \in Controls
  BY <1>1, ControlType
<1>6. masked(c, if_id_r.valid) \in Controls
  BY <1>1, <1>5 DEF Controls, masked
<1> QED
  BY <1>1, <1>2, <1>3, <1>4, <1>6 DEF id_ex_next, id_ex_t

LEMMA ExMemType == ASSUME TypeOK PROVE ex_mem_next \in ex_mem_t
BY OperandTypes DEF TypeOK, ex_mem_next, ex_mem_t, id_ex_t, Controls

LEMMA MemWbType ==
  ASSUME TypeOK, NEW data \in mem_read_data_mem PROVE mem_wb_next(data) \in mem_wb_t
<1>1. ex_mem_r.alu_result \in Word
  BY DEF TypeOK, ex_mem_t
<1>2. ASSUME ex_mem_r.alu_result \div 4 < DMEM_WORDS
      PROVE ram[ex_mem_r.alu_result \div 4] \in Word
  BY <1>1, <1>2, MemoryAssumption, ModulusFacts DEF TypeOK, Rams, Word
<1>3. data \in Word
  BY <1>1, <1>2, ModulusFacts DEF mem_read_data_mem, data_mem_read
<1> QED
  BY <1>3 DEF TypeOK, mem_wb_next, mem_wb_t, ex_mem_t

LEMMA ZeroTypes ==
  /\ if_id_zero \in if_id_t /\ id_ex_zero \in id_ex_t
  /\ ex_mem_zero \in ex_mem_t /\ mem_wb_zero \in mem_wb_t
  /\ NoInstr \in Instr
<1>1. NoInstr \in Instr
  BY ZeroReg, ModulusFacts DEF NoInstr, Instr, Opcodes
<1>2. if_id_zero \in if_id_t
  BY <1>1, ModulusFacts DEF if_id_zero, if_id_t
<1>3. NoControl \in Controls
  BY DEF NoControl, Controls, AluOps
<1>4. id_ex_zero \in id_ex_t
  BY <1>3, ZeroReg, ModulusFacts DEF id_ex_zero, id_ex_t
<1>5. ex_mem_zero \in ex_mem_t
  BY ZeroReg, ModulusFacts DEF ex_mem_zero, ex_mem_t
<1>6. mem_wb_zero \in mem_wb_t
  BY ZeroReg, ModulusFacts DEF mem_wb_zero, mem_wb_t
<1> QED
  BY <1>1, <1>2, <1>4, <1>5, <1>6

LEMMA TypeInit == Init => TypeOK
<1> SUFFICES ASSUME Init PROVE TypeOK
  OBVIOUS
<1>1. imem \in Programs /\ ram \in Rams
  BY ProgsAssumption, InitRamsAssumption DEF Init
<1>2. rf \in [Regs -> Word] /\ pc_if \in Word /\ icache_frozen_addr_q \in Word
  BY ModulusFacts DEF Init
<1>3. /\ if_id_r \in if_id_t /\ id_ex_r \in id_ex_t
      /\ ex_mem_r \in ex_mem_t /\ mem_wb_r \in mem_wb_t
  BY ZeroTypes DEF Init
<1>4. BPTypeOK
  BY ModulusFacts DEF Init, BPInit, BPTypeOK
<1>5. LBTypeOK
  BY ZeroTypes, ModulusFacts, DepthAssumption DEF Init, LBInit, LBTypeOK
<1> QED
  BY <1>1, <1>2, <1>3, <1>4, <1>5 DEF TypeOK

(* Training keeps the predictor's tables well typed: the counters saturate. *)
LEMMA BPTypeStep ==
  ASSUME BPTypeOK, NEW v, NEW a \in Word, NEW t, NEW g \in Word,
         BPClock(v, a, t, g)
  PROVE  BPTypeOK'
<1>1. idx(a) \in Entries /\ tag(a) \in Nat
  BY EntriesAssumption, ModulusFacts DEF idx, tag, Entries, Word
<1>2. CASE BPTrainTaken(a, g)
  <2>1. bht[idx(a)] \in 0 .. 3
    BY <1>1 DEF BPTypeOK
  <2>2. (IF bht[idx(a)] # 3 THEN bht[idx(a)] + 1 ELSE bht[idx(a)]) \in 0 .. 3
    BY <2>1
  <2> QED
    BY <1>1, <1>2, <2>2 DEF BPTypeOK, BPTrainTaken
<1>3. CASE BPTrainNotTaken(a)
  <2>1. bht[idx(a)] \in 0 .. 3
    BY <1>1 DEF BPTypeOK
  <2>2. (IF bht[idx(a)] # 0 THEN bht[idx(a)] - 1 ELSE bht[idx(a)]) \in 0 .. 3
    BY <2>1
  <2> QED
    BY <1>1, <1>3, <2>2 DEF BPTypeOK, BPTrainNotTaken
<1>4. CASE UNCHANGED bp_vars
  BY <1>4 DEF BPTypeOK, bp_vars
<1> QED
  BY <1>2, <1>3, <1>4 DEF BPClock

(* The write pointer of the loop buffer never passes the last slot. *)
LEMMA LBTypeStep ==
  ASSUME LBTypeOK, NEW a \in Word, NEW i \in Instr, NEW t, NEW g \in Word,
         NEW f, NEW h, LBClock(a, i, t, g, f, h)
  PROVE  LBTypeOK'
<1>1. Plus4(a) \in Word
  BY Plus4Word
<1>2. CASE LBIdle(a, t, g, f)
  BY <1>1, <1>2, DepthAssumption DEF LBTypeOK, LBIdle
<1>3. CASE LBRecord(a, i, f, h)
  <2>1. write_ptr_q < BUFFER_DEPTH =>
          write_ptr_q \in Slots /\ write_ptr_q + 1 \in 0 .. BUFFER_DEPTH
    BY DepthAssumption DEF LBTypeOK, Slots
  <2> QED
    BY <1>3, <2>1 DEF LBTypeOK, LBRecord
<1>4. CASE LBLoop(a, f)
  BY <1>4 DEF LBTypeOK, LBLoop
<1>5. CASE LBInvalid
  BY <1>5, DepthAssumption, ModulusFacts DEF LBTypeOK, LBInvalid
<1> QED
  BY <1>2, <1>3, <1>4, <1>5 DEF LBClock

LEMMA BackEndType ==
  ASSUME TypeOK, BackEnd
  PROVE  /\ ex_mem_r' \in ex_mem_t /\ mem_wb_r' \in mem_wb_t
         /\ ram' \in Rams /\ rf' \in [Regs -> Word]
<1>1. ex_mem_r' \in ex_mem_t
  BY ExMemType DEF BackEnd
<1>2. mem_wb_r' \in mem_wb_t
  BY MemWbType DEF BackEnd
<1>3. ram' \in Rams
  <2>1. ex_mem_r.alu_result \in Word /\ ex_mem_r.store_data \in Word
    BY DEF TypeOK, ex_mem_t
  <2> QED
    BY <2>1 DEF TypeOK, BackEnd, data_mem_write, Rams
<1>4. rf' \in [Regs -> Word]
  BY WritebackType DEF TypeOK, BackEnd
<1> QED
  BY <1>1, <1>2, <1>3, <1>4

LEMMA FrontEndType ==
  ASSUME TypeOK, Flush \/ Stall \/ Advance
  PROVE  pc_if' \in Word /\ if_id_r' \in if_id_t /\ id_ex_r' \in id_ex_t
<1>1. CASE Flush
  BY <1>1, TargetTypes, ZeroTypes DEF Flush
<1>2. CASE Stall
  BY <1>2, ZeroTypes DEF TypeOK, Stall
<1>3. CASE Advance
  <2>1. Plus4(pc_if) \in Word
    BY Plus4Word DEF TypeOK
  <2> QED
    BY <1>3, <2>1, PredictionType, IfIdType, IdExType DEF Advance
<1> QED
  BY <1>1, <1>2, <1>3

LEMMA TypeStep == TypeOK /\ [Next]_vars => TypeOK'
<1> SUFFICES ASSUME TypeOK, [Next]_vars PROVE TypeOK'
  OBVIOUS
<1>1. CASE Clock
  <2>1. imem' \in Programs /\ icache_frozen_addr_q' \in Word
    BY <1>1 DEF TypeOK, Clock
  <2>2. pc_if' \in Word /\ if_id_r' \in if_id_t /\ id_ex_r' \in id_ex_t
    BY <1>1, FrontEndType DEF Clock
  <2>3. /\ ex_mem_r' \in ex_mem_t /\ mem_wb_r' \in mem_wb_t
        /\ ram' \in Rams /\ rf' \in [Regs -> Word]
    BY <1>1, BackEndType DEF Clock
  <2>4. BPTypeOK'
    <3>1. id_ex_r.pc \in Word
      BY DEF TypeOK, id_ex_t
    <3>2. BPTypeOK
      BY DEF TypeOK
    <3> QED
      BY <1>1, <3>1, <3>2, TargetTypes, BPTypeStep DEF Clock
  <2>5. LBTypeOK'
    <3>1. icache_addr_mux \in Word
      BY DEF TypeOK, icache_addr_mux
    <3>2. instr_if \in Instr
      BY <3>1, FetchType DEF TypeOK, instr_if
    <3>3. LBTypeOK /\ pc_if \in Word
      BY DEF TypeOK
    <3> QED
      BY <1>1, <3>2, <3>3, PredictionType, LBTypeStep DEF Clock
  <2> QED
    BY <2>1, <2>2, <2>3, <2>4, <2>5 DEF TypeOK
<1>2. CASE Reset
  <2>1. /\ imem' \in Programs /\ ram' \in Rams /\ rf' \in [Regs -> Word]
        /\ pc_if' \in Word /\ icache_frozen_addr_q' \in Word
        /\ if_id_r' \in if_id_t /\ id_ex_r' \in id_ex_t
        /\ ex_mem_r' \in ex_mem_t /\ mem_wb_r' \in mem_wb_t
    BY <1>2, ZeroTypes, ModulusFacts DEF TypeOK, Reset
  <2>2. BPTypeOK'
    BY <1>2, ModulusFacts DEF Reset, BPReset, BPTypeOK
  <2>3. LBTypeOK'
    BY <1>2, ModulusFacts, DepthAssumption DEF TypeOK, Reset, LBReset, LBTypeOK
  <2> QED
    BY <2>1, <2>2, <2>3 DEF TypeOK
<1>3. CASE UNCHANGED vars
  BY <1>3 DEF TypeOK, BPTypeOK, LBTypeOK, vars, pipe_vars, bp_vars, lb_vars
<1> QED
  BY <1>1, <1>2, <1>3 DEF Next

(* Every register, table and memory of the core always holds values of its *)
(* width: the counters of the predictor saturate, the write pointer of the *)
(* loop buffer stays within its depth, and every address wraps.            *)
THEOREM TypeCorrect == Spec => []TypeOK
BY TypeInit, TypeStep, PTL DEF Spec

-----------------------------------------------------------------------------
(* Stalls and flushes *)

(* What makes a flush exclude a stall: the control unit never marks one    *)
(* instruction both as a load and as control flow, and a bubble is neither. *)
LoadIsNotControlFlow ==
  id_ex_r.ctl.mem_read => ~id_ex_r.ctl.branch /\ ~id_ex_r.ctl.jump

LEMMA ZeroControl ==
  /\ id_ex_zero.ctl.mem_read = FALSE /\ id_ex_zero.valid = FALSE
  /\ id_ex_zero.ctl.branch = FALSE /\ id_ex_zero.ctl.jump = FALSE
  /\ id_ex_zero.rs1_addr = 0 /\ id_ex_zero.rs2_addr = 0 /\ id_ex_zero.rd_addr = 0
  /\ ex_mem_zero.mem_read = FALSE /\ ex_mem_zero.valid = FALSE
BY DEF id_ex_zero, NoControl, ex_mem_zero

(* The next content of ID/EX: a bubble, or the decoded instruction. *)
LEMMA IdExStep ==
  ASSUME [Next]_vars
  PROVE  \/ id_ex_r' = id_ex_zero
         \/ Advance /\ Clock /\ id_ex_r' = id_ex_next
         \/ UNCHANGED vars
BY DEF Next, Clock, Flush, Stall, Advance, Reset

LEMMA DecodedFields ==
  /\ id_ex_next.rs1_addr = if_id_r.instr.rs1
  /\ id_ex_next.rs2_addr = if_id_r.instr.rs2
  /\ id_ex_next.ctl = masked(control_unit(if_id_r.instr), if_id_r.valid)
BY DEF id_ex_next

LEMMA ExclusiveStep ==
  ASSUME LoadIsNotControlFlow, [Next]_vars PROVE LoadIsNotControlFlow'
<1>1. CASE id_ex_r' = id_ex_zero
  BY <1>1, ZeroControl DEF LoadIsNotControlFlow
<1>2. CASE id_ex_r' = id_ex_next
  <2>1. masked(control_unit(if_id_r.instr), if_id_r.valid).mem_read
          => if_id_r.instr.opcode = "LOAD"
    BY DEF masked, control_unit
  <2>2. if_id_r.instr.opcode = "LOAD" =>
          /\ ~masked(control_unit(if_id_r.instr), if_id_r.valid).branch
          /\ ~masked(control_unit(if_id_r.instr), if_id_r.valid).jump
    BY DEF masked, control_unit
  <2> QED
    BY <1>2, <2>1, <2>2, DecodedFields DEF LoadIsNotControlFlow
<1>3. CASE UNCHANGED vars
  BY <1>3 DEF LoadIsNotControlFlow, vars, pipe_vars
<1> QED
  BY <1>1, <1>2, <1>3, IdExStep

(* The comment on the ID/EX register holds: no cycle both flushes and      *)
(* stalls, so IF/ID, ID/EX and the program counter may test them in any    *)
(* order.                                                                  *)
THEOREM FlushExcludesStall == Spec => []NoFlushWithStall
<1>1. Init => LoadIsNotControlFlow
  BY ZeroControl DEF Init, LoadIsNotControlFlow
<1>2. LoadIsNotControlFlow /\ [Next]_vars => LoadIsNotControlFlow'
  BY ExclusiveStep
<1>3. LoadIsNotControlFlow => NoFlushWithStall
  BY DEF LoadIsNotControlFlow, NoFlushWithStall, flush, mispredict_ex,
         is_control_flow_ex, stall, hazard_unit
<1> QED
  BY <1>1, <1>2, <1>3, PTL DEF Spec

-----------------------------------------------------------------------------
(* The load-use hazard *)

LEMMA LoadForwardStep ==
  ASSUME NoLoadForwarded, [Next]_vars PROVE NoLoadForwarded'
<1>1. CASE UNCHANGED vars
  BY <1>1 DEF NoLoadForwarded, forward_unit, ex_mem_writes, mem_wb_writes,
              wb_reg_write, vars, pipe_vars
<1>2. CASE id_ex_r' = id_ex_zero
  <2>1. \A rs \in {id_ex_r.rs1_addr, id_ex_r.rs2_addr}' : rs = 0
    BY <1>2, ZeroControl
  <2> QED
    BY <2>1 DEF NoLoadForwarded, forward_unit, ex_mem_writes, mem_wb_writes
<1>3. CASE Advance /\ Clock /\ id_ex_r' = id_ex_next
  <2>1. /\ ex_mem_r'.mem_read = id_ex_r.ctl.mem_read
        /\ ex_mem_r'.rd_addr = id_ex_r.rd_addr
    BY <1>3 DEF Clock, BackEnd, ex_mem_next
  <2>2. ~stall
    BY <1>3 DEF Advance
  <2>3. ASSUME NEW rs \in {id_ex_r'.rs1_addr, id_ex_r'.rs2_addr},
               ex_mem_r'.rd_addr # 0, ex_mem_r'.rd_addr = rs
        PROVE  ~ex_mem_r'.mem_read
    BY <1>3, <2>1, <2>2, <2>3, DecodedFields DEF stall, hazard_unit
  <2> QED
    BY <2>3 DEF NoLoadForwarded, forward_unit, ex_mem_writes, mem_wb_writes
<1> QED
  BY <1>1, <1>2, <1>3, IdExStep

(* The comment on ex_mem_fwd_value holds: an operand is never forwarded    *)
(* from a load that is still in MEM, whatever the program and although the *)
(* hazard unit compares register fields that may be bits of an immediate.  *)
THEOREM LoadNeverForwarded == Spec => []NoLoadForwarded
<1>1. Init => NoLoadForwarded
  BY ZeroControl DEF Init, NoLoadForwarded, forward_unit, ex_mem_writes
<1>2. NoLoadForwarded /\ [Next]_vars => NoLoadForwarded'
  BY LoadForwardStep
<1> QED
  BY <1>1, <1>2, PTL DEF Spec

(* hazard_unit.sv: one stall cycle is enough.  The cycle after a stall has *)
(* a bubble in EX and cannot stall.                                        *)
THEOREM StallIsOneCycle == Spec => StallLastsOneCycle
<1>1. [Next]_vars => [stall => ~stall']_vars
  <2> SUFFICES ASSUME Next, stall PROVE ~stall'
    BY DEF vars
  <2>1. id_ex_r' = id_ex_zero
    BY DEF Next, Clock, Flush, Stall, Advance, Reset
  <2> QED
    BY <2>1, ZeroControl DEF stall, hazard_unit
<1> QED
  BY <1>1, PTL DEF Spec, StallLastsOneCycle
=============================================================================
