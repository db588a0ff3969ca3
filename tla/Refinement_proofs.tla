------------------------- MODULE Refinement_proofs --------------------------
(***************************************************************************)
(* The pipeline of RiscvCore implements ISA, for every word width, size    *)
(* and program, as long as what is fetched is what instruction memory      *)
(* holds (FetchFaithful).  Forwarding, stalls, squashes and predictions    *)
(* are all in here; the loop buffer, which is what can make a fetch        *)
(* unfaithful, is the subject of Fetch_proofs.                             *)
(***************************************************************************)
EXTENDS RiscvCore_proofs

-----------------------------------------------------------------------------
(* The inductive invariant, part by part *)

InstrAt(a) == instruction_mem(imem, a)

IsBranchOrJump(i) == i.opcode \in {"BRANCH", "JAL", "JALR"}

(* Where fetch went after the instruction in pipeline register r. *)
Successor(r) == IF r.pred_taken THEN r.pred_target ELSE Plus4(r.pc)

(* A valid predictor entry was trained by a branch or jump: whatever       *)
(* address matches its index and tag holds one.                            *)
EntriesTrained ==
  \A a \in Word :
    btb_valid[idx(a)] /\ btb_tag[idx(a)] = tag(a) => IsBranchOrJump(InstrAt(a))

(* IF/ID: a squashed register is all zero; fetch went on from a valid one. *)
FetchedPath ==
  /\ ~if_id_r.valid => if_id_r = if_id_zero
  /\ if_id_r.valid =>
       /\ if_id_r.pc_plus4 = Plus4(if_id_r.pc)
       /\ if_id_r.pred_taken => IsBranchOrJump(InstrAt(if_id_r.pc))
       /\ pc_if = Successor(if_id_r)

(* ID/EX: it holds a bubble without side effects, or the decoding of the   *)
(* word at its address, and IF/ID holds what was fetched next.             *)
DecodedPath ==
  LET i == InstrAt(id_ex_r.pc)
  IN IF id_ex_r.valid
     THEN /\ id_ex_r.ctl = control_unit(i) /\ id_ex_r.imm_ext = imm_gen(i)
          /\ id_ex_r.rs1_addr = i.rs1 /\ id_ex_r.rs2_addr = i.rs2
          /\ id_ex_r.rd_addr = i.rd /\ id_ex_r.funct3 = i.funct3
          /\ id_ex_r.pc_plus4 = Plus4(id_ex_r.pc)
          /\ id_ex_r.pred_taken => IsBranchOrJump(i)
          /\ if_id_r.valid /\ if_id_r.pc = Successor(id_ex_r)
     ELSE /\ ~id_ex_r.ctl.reg_write /\ ~id_ex_r.ctl.mem_read
          /\ ~id_ex_r.ctl.mem_write

PathInv == EntriesTrained /\ FetchedPath /\ DecodedPath

(* The values ID/EX latched are those of the register file now; x0 is 0. *)
OperandsLatched ==
  /\ rf[0] = 0
  /\ id_ex_r.rs1_data = rf[id_ex_r.rs1_addr]
  /\ id_ex_r.rs2_data = rf[id_ex_r.rs2_addr]

(* The address of the instruction after the one in EX/MEM. *)
following == IF id_ex_r.valid THEN id_ex_r.pc
             ELSE IF if_id_r.valid THEN if_id_r.pc
             ELSE pc_if

(* EX/MEM: a bubble without side effects, or the instruction at its        *)
(* address executed on the architectural registers, followed by the        *)
(* instruction that executes next.                                         *)
Executed ==
  LET i == InstrAt(ex_mem_r.pc)
      c == control_unit(i)
      a == IF c.auipc THEN ex_mem_r.pc ELSE arch_x[i.rs1]
      b == IF c.alu_src THEN imm_gen(i) ELSE arch_x[i.rs2]
  IN IF ex_mem_r.valid
     THEN /\ ex_mem_r.alu_result = Alu(c.alu_control, a, b)
          /\ ex_mem_r.store_data = arch_x[i.rs2]
          /\ ex_mem_r.imm_ext = imm_gen(i) /\ ex_mem_r.rd_addr = i.rd
          /\ ex_mem_r.pc_plus4 = Plus4(ex_mem_r.pc)
          /\ ex_mem_r.reg_write = c.reg_write
          /\ ex_mem_r.mem_to_reg = c.mem_to_reg
          /\ ex_mem_r.mem_read = c.mem_read /\ ex_mem_r.mem_write = c.mem_write
          /\ ex_mem_r.jump = c.jump /\ ex_mem_r.lui = c.lui
          /\ following = Arch!NextPc(i, ex_mem_r.pc, arch_x)
     ELSE ~ex_mem_r.reg_write /\ ~ex_mem_r.mem_read /\ ~ex_mem_r.mem_write

DataInv == OperandsLatched /\ Executed

(* The instructions the core has: data memory is accessed in words, the    *)
(* unsigned branches are missing (UnsignedBranch.cfg), and of a shift      *)
(* right only the defined values of funct7 are decoded alike.              *)
ImplementedInstr(i) ==
  /\ i.opcode \in {"LOAD", "STORE"} => i.funct3 = 2
  /\ i.opcode = "BRANCH" => i.funct3 \notin {6, 7}
  /\ i.opcode = "OP" /\ i.funct3 = 5 => ((i.funct7 \div 32) % 2 = 1 <=> i.funct7 = 32)

Implemented(p) == \A w \in DOMAIN p : ImplementedInstr(p[w])

-----------------------------------------------------------------------------
(* The path through the pipeline *)

LEMMA QuotientRemainder ==
  ASSUME NEW m \in Nat, NEW n \in Nat, NEW d \in Nat, d > 0,
         m % d = n % d, m \div d = n \div d
  PROVE  m = n
OBVIOUS

(* Index and tag of a predictor entry determine the word address. *)
LEMMA SameEntry ==
  ASSUME NEW a \in Word, NEW b \in Word, idx(a) = idx(b), tag(a) = tag(b)
  PROVE  a \div 4 = b \div 4
<1>1. a \div 4 \in Nat /\ b \div 4 \in Nat
  BY ModulusFacts DEF Word
<1> QED
  BY <1>1, EntriesAssumption, QuotientRemainder, Zenon DEF idx, tag

LEMMA EntryIndex == ASSUME NEW a \in Word PROVE idx(a) \in Entries /\ tag(a) \in Nat
BY EntriesAssumption, ModulusFacts DEF idx, tag, Entries, Word

LEMMA SameInstruction ==
  ASSUME NEW a \in Word, NEW b \in Word, idx(a) = idx(b), tag(a) = tag(b)
  PROVE  InstrAt(a) = InstrAt(b)
BY SameEntry DEF InstrAt, instruction_mem

LEMMA ControlFields ==
  ASSUME NEW i
  PROVE  /\ control_unit(i).branch <=> i.opcode = "BRANCH"
         /\ control_unit(i).jump <=> i.opcode \in {"JAL", "JALR"}
         /\ control_unit(i).jalr <=> i.opcode = "JALR"
         /\ control_unit(i).mem_read <=> i.opcode = "LOAD"
         /\ control_unit(i).mem_to_reg <=> i.opcode = "LOAD"
         /\ control_unit(i).mem_write <=> i.opcode = "STORE"
         /\ control_unit(i).lui <=> i.opcode = "LUI"
         /\ control_unit(i).auipc <=> i.opcode = "AUIPC"
         /\ control_unit(i).reg_write <=>
              i.opcode \in {"OP", "OP_IMM", "LOAD", "JAL", "JALR", "LUI", "AUIPC"}
         /\ control_unit(i).alu_src <=>
              i.opcode \in {"OP_IMM", "LOAD", "STORE", "JALR", "AUIPC"}
         /\ control_unit(i).alu_control =
              IF i.opcode \in {"OP", "OP_IMM"} THEN alu_op(i)
              ELSE IF i.opcode = "BRANCH" THEN "SUB" ELSE "ADD"
BY DEF control_unit

(* What EX trains the predictor with is a branch or jump. *)
LEMMA TrainedByBranchOrJump ==
  ASSUME DecodedPath, is_control_flow_ex PROVE IsBranchOrJump(InstrAt(id_ex_r.pc))
<1>1. id_ex_r.valid /\ (id_ex_r.ctl.branch \/ id_ex_r.ctl.jump)
  BY DEF is_control_flow_ex
<1>2. id_ex_r.ctl = control_unit(InstrAt(id_ex_r.pc))
  BY <1>1 DEF DecodedPath
<1> QED
  BY <1>1, <1>2, ControlFields DEF IsBranchOrJump

LEMMA TrainedStep ==
  ASSUME TypeOK, DecodedPath, EntriesTrained, [Next]_vars PROVE EntriesTrained'
<1>1. CASE Clock
  <2>1. imem' = imem
    BY <1>1 DEF Clock
  <2>2. id_ex_r.pc \in Word
    BY DEF TypeOK, id_ex_t
  <2>3. CASE is_control_flow_ex /\ BPTrainTaken(id_ex_r.pc, actual_target_ex)
    <3> SUFFICES ASSUME NEW a \in Word,
                        btb_valid'[idx(a)], btb_tag'[idx(a)] = tag(a)
                 PROVE  IsBranchOrJump(InstrAt(a))
      BY <2>1 DEF EntriesTrained, InstrAt, idx, tag
    <3>1. CASE idx(a) = idx(id_ex_r.pc)
      <4>1. btb_tag'[idx(a)] = tag(id_ex_r.pc)
        BY <2>2, <2>3, <3>1, EntryIndex DEF BPTrainTaken, TypeOK, BPTypeOK
      <4>2. InstrAt(a) = InstrAt(id_ex_r.pc)
        BY <2>2, <3>1, <4>1, SameInstruction
      <4> QED
        BY <2>3, <4>2, TrainedByBranchOrJump
    <3>2. CASE idx(a) # idx(id_ex_r.pc)
      <4>1. btb_valid[idx(a)] /\ btb_tag[idx(a)] = tag(a)
        BY <2>3, <3>2, EntryIndex DEF BPTrainTaken, TypeOK, BPTypeOK
      <4> QED
        BY <4>1 DEF EntriesTrained
    <3> QED
      BY <3>1, <3>2
  <2>4. CASE UNCHANGED <<btb, btb_valid, btb_tag>>
    BY <2>1, <2>4 DEF EntriesTrained, InstrAt, idx, tag
  <2> QED
    BY <1>1, <2>3, <2>4 DEF Clock, BPClock, BPTrainNotTaken, bp_vars
<1>2. CASE Reset
  BY <1>2, EntryIndex DEF Reset, BPReset, EntriesTrained
<1>3. CASE UNCHANGED vars
  BY <1>3 DEF vars, pipe_vars, bp_vars, EntriesTrained, InstrAt, idx, tag
<1> QED
  BY <1>1, <1>2, <1>3 DEF Next

(* The steps of the front end, with what they do to the registers. *)
LEMMA FrontSteps ==
  ASSUME [Next]_vars
  PROVE  /\ imem' = imem
         /\ \/ if_id_r' = if_id_zero /\ id_ex_r' = id_ex_zero
            \/ id_ex_r' = id_ex_zero /\ UNCHANGED <<pc_if, if_id_r>>
            \/ Clock /\ Advance
            \/ UNCHANGED vars
BY DEF Next, Clock, Flush, Stall, Reset, vars, pipe_vars

LEMMA ZeroFields ==
  /\ if_id_zero.valid = FALSE /\ id_ex_zero.valid = FALSE
  /\ id_ex_zero.ctl.reg_write = FALSE /\ id_ex_zero.ctl.mem_read = FALSE
  /\ id_ex_zero.ctl.mem_write = FALSE
  /\ id_ex_zero.rs1_addr = 0 /\ id_ex_zero.rs2_addr = 0
  /\ id_ex_zero.rs1_data = 0 /\ id_ex_zero.rs2_data = 0
  /\ if_id_zero.instr.rs1 = 0 /\ if_id_zero.instr.rs2 = 0
BY DEF if_id_zero, id_ex_zero, NoControl, NoInstr

(* A taken prediction is made only for an address that holds a branch or   *)
(* jump.                                                                   *)
LEMMA PredictionTrained ==
  ASSUME TypeOK, EntriesTrained, predict_taken_if PROVE IsBranchOrJump(InstrAt(pc_if))
BY DEF TypeOK, EntriesTrained, predict_taken_if, predict_taken

LEMMA FetchedStep ==
  ASSUME TypeOK, EntriesTrained, FetchedPath, [Next]_vars PROVE FetchedPath'
<1>0. imem' = imem
  BY FrontSteps
<1>1. CASE if_id_r' = if_id_zero
  BY <1>1, ZeroFields DEF FetchedPath
<1>2. CASE UNCHANGED <<pc_if, if_id_r>>
  BY <1>0, <1>2 DEF FetchedPath, Successor, InstrAt
<1>3. CASE Clock /\ Advance
  <2>1. /\ if_id_r' = if_id_next
        /\ pc_if' = IF predict_taken_if THEN predict_target_if ELSE Plus4(pc_if)
    BY <1>3 DEF Advance
  <2>2. /\ if_id_next.valid = TRUE /\ if_id_next.pc = pc_if
        /\ if_id_next.pc_plus4 = Plus4(pc_if)
        /\ if_id_next.pred_taken = predict_taken_if
        /\ if_id_next.pred_target = predict_target_if
    BY DEF if_id_next
  <2>3. predict_taken_if => IsBranchOrJump(InstrAt(pc_if))
    BY PredictionTrained
  <2> QED
    BY <1>0, <2>1, <2>2, <2>3 DEF FetchedPath, Successor, InstrAt
<1> QED
  BY <1>1, <1>2, <1>3, FrontSteps DEF vars, pipe_vars

(* Masking with a valid register changes nothing. *)
LEMMA MaskedValid ==
  ASSUME NEW c \in Controls PROVE masked(c, TRUE) = c
BY DEF masked, Controls

LEMMA MaskedInvalid ==
  ASSUME NEW c
  PROVE  /\ ~masked(c, FALSE).reg_write /\ ~masked(c, FALSE).mem_read
         /\ ~masked(c, FALSE).mem_write
BY DEF masked

LEMMA DecodedStep ==
  ASSUME TypeOK, FetchFaithful, FetchedPath, DecodedPath, [Next]_vars
  PROVE  DecodedPath'
<1>0. imem' = imem
  BY FrontSteps
<1>1. CASE id_ex_r' = id_ex_zero
  BY <1>1, ZeroFields DEF DecodedPath
<1>2. CASE UNCHANGED vars
  BY <1>2 DEF DecodedPath, Successor, InstrAt, vars, pipe_vars
<1>3. CASE Clock /\ Advance
  <2> DEFINE i == if_id_r.instr
  <2>1. if_id_r' = if_id_next /\ id_ex_r' = id_ex_next
    BY <1>3 DEF Advance
  <2>2. if_id_next.valid = TRUE /\ if_id_next.pc = pc_if
    BY DEF if_id_next
  <2>3. /\ id_ex_next.valid = if_id_r.valid /\ id_ex_next.pc = if_id_r.pc
        /\ id_ex_next.pc_plus4 = if_id_r.pc_plus4
        /\ id_ex_next.pred_taken = if_id_r.pred_taken
        /\ id_ex_next.pred_target = if_id_r.pred_target
        /\ id_ex_next.imm_ext = imm_gen(i)
        /\ id_ex_next.rs1_addr = i.rs1 /\ id_ex_next.rs2_addr = i.rs2
        /\ id_ex_next.rd_addr = i.rd /\ id_ex_next.funct3 = i.funct3
        /\ id_ex_next.ctl = masked(control_unit(i), if_id_r.valid)
    BY DEF id_ex_next
  <2>4. if_id_r.valid \in BOOLEAN
    BY DEF TypeOK, if_id_t
  <2>5. CASE if_id_r.valid = TRUE
    <3>1. i = InstrAt(if_id_r.pc)
      BY <2>5 DEF FetchFaithful, InstrAt
    <3>2. id_ex_r'.ctl = control_unit(i)
      BY <2>1, <2>3, <2>5, MaskedValid, ControlType DEF TypeOK, if_id_t
    <3>3. /\ if_id_r.pc_plus4 = Plus4(if_id_r.pc)
          /\ if_id_r.pred_taken => IsBranchOrJump(InstrAt(if_id_r.pc))
          /\ pc_if = Successor(if_id_r)
      BY <2>5 DEF FetchedPath
    <3>4. Successor(id_ex_r)' = Successor(if_id_r)
      BY <2>1, <2>3 DEF Successor
    <3>5. InstrAt(id_ex_r.pc)' = i
      BY <1>0, <2>1, <2>3, <3>1 DEF InstrAt
    <3> HIDE DEF i
    <3> QED
      BY <2>1, <2>2, <2>3, <2>5, <3>1, <3>2, <3>3, <3>4, <3>5 DEF DecodedPath
  <2>6. CASE if_id_r.valid = FALSE
    BY <2>1, <2>3, <2>6, MaskedInvalid DEF DecodedPath
  <2> QED
    BY <2>4, <2>5, <2>6
<1> QED
  BY <1>1, <1>2, <1>3, FrontSteps

LEMMA PathInit == Init => PathInv
<1> SUFFICES ASSUME Init PROVE PathInv
  OBVIOUS
<1>1. EntriesTrained
  BY EntryIndex DEF Init, BPInit, EntriesTrained
<1>2. FetchedPath /\ DecodedPath
  BY ZeroFields DEF Init, FetchedPath, DecodedPath
<1> QED
  BY <1>1, <1>2 DEF PathInv

LEMMA PathStep ==
  TypeOK /\ FetchFaithful /\ PathInv /\ [Next]_vars => PathInv'
BY TrainedStep, FetchedStep, DecodedStep DEF PathInv

(* As long as fetches are faithful, the predictor redirects fetch only off *)
(* branches and jumps: the tag kept with every target rules out that an    *)
(* entry is used for another address, however addresses alias.             *)
THEOREM PredictionsAreControlFlow ==
  Spec /\ []FetchFaithful => []OnlyControlFlowPredicted
<1>1. PathInv => OnlyControlFlowPredicted
  <2> SUFFICES ASSUME PathInv, id_ex_r.valid, id_ex_r.pred_taken
               PROVE  id_ex_r.ctl.branch \/ id_ex_r.ctl.jump
    BY DEF OnlyControlFlowPredicted
  <2>1. /\ IsBranchOrJump(InstrAt(id_ex_r.pc))
        /\ id_ex_r.ctl = control_unit(InstrAt(id_ex_r.pc))
    BY DEF PathInv, DecodedPath
  <2> QED
    BY <2>1, ControlFields DEF IsBranchOrJump
<1> QED
  BY <1>1, PathInit, PathStep, TypeCorrect, PTL DEF Spec

-----------------------------------------------------------------------------
(* The data path *)

LEMMA ArchType == ASSUME TypeOK PROVE arch_x \in [Regs -> Word]
BY WritebackType DEF TypeOK, arch_x

LEMMA ArchZero == ASSUME TypeOK, rf[0] = 0 PROVE arch_x[0] = 0
BY ZeroReg DEF TypeOK, arch_x

(* The write port completes the pending write. *)
LEMMA RegFileStep == ASSUME BackEnd PROVE rf' = arch_x
BY DEF BackEnd, arch_x

(* The bypassed read port reads the architectural registers. *)
LEMMA ReadIsArch ==
  ASSUME TypeOK, rf[0] = 0, NEW rs \in Regs PROVE read_data(rs) = arch_x[rs]
<1>1. mem_wb_r.rd_addr \in Regs /\ rf \in [Regs -> Word]
  BY DEF TypeOK, mem_wb_t
<1> QED
  BY <1>1 DEF read_data, arch_x

LEMMA LatchedStep ==
  ASSUME TypeOK, OperandsLatched, [Next]_vars PROVE OperandsLatched'
<1>1. CASE Clock
  <2>1. rf' = arch_x
    BY <1>1, RegFileStep DEF Clock
  <2>2. rf'[0] = 0
    BY <2>1, ArchZero DEF OperandsLatched
  <2>3. CASE id_ex_r' = id_ex_zero
    BY <2>2, <2>3, ZeroFields DEF OperandsLatched
  <2>4. CASE Advance
    <3>1. if_id_r.instr.rs1 \in Regs /\ if_id_r.instr.rs2 \in Regs
      BY DEF TypeOK, if_id_t, Instr
    <3>2. id_ex_r' = id_ex_next
      BY <2>4 DEF Advance
    <3>3. /\ id_ex_r'.rs1_addr = if_id_r.instr.rs1
          /\ id_ex_r'.rs1_data = read_data(if_id_r.instr.rs1)
          /\ id_ex_r'.rs2_addr = if_id_r.instr.rs2
          /\ id_ex_r'.rs2_data = read_data(if_id_r.instr.rs2)
      BY <3>2 DEF id_ex_next
    <3> QED
      BY <2>1, <2>2, <3>1, <3>3, ReadIsArch DEF OperandsLatched
  <2> QED
    BY <1>1, <2>3, <2>4 DEF Clock, Flush, Stall
<1>2. CASE Reset
  <2>1. rf' = [r \in Regs |-> 0] /\ id_ex_r' = id_ex_zero
    BY <1>2 DEF Reset
  <2> QED
    BY <2>1, ZeroFields, ZeroReg DEF OperandsLatched
<1>3. CASE UNCHANGED vars
  BY <1>3 DEF OperandsLatched, vars, pipe_vars
<1> QED
  BY <1>1, <1>2, <1>3 DEF Next

(* The instruction in MEM adds its write to the architectural registers.   *)
(* A load adds the data it reads, any other the value MEM can forward.     *)
LEMMA ArchStep ==
  ASSUME TypeOK, BackEnd
  PROVE  /\ arch_x' = IF ex_mem_r.valid /\ ex_mem_r.reg_write /\ ex_mem_r.rd_addr # 0
                      THEN [arch_x EXCEPT ![ex_mem_r.rd_addr] = wb_write_data']
                      ELSE arch_x
         /\ ~ex_mem_r.mem_to_reg => wb_write_data' = ex_mem_fwd_value
         /\ ~ex_mem_r.lui /\ ~ex_mem_r.jump /\ ex_mem_r.mem_to_reg =>
              wb_write_data' \in mem_read_data_mem
<1>1. PICK data \in mem_read_data_mem : mem_wb_r' = mem_wb_next(data)
  BY DEF BackEnd
<1>2. /\ mem_wb_r'.valid = ex_mem_r.valid /\ mem_wb_r'.reg_write = ex_mem_r.reg_write
      /\ mem_wb_r'.rd_addr = ex_mem_r.rd_addr /\ mem_wb_r'.lui = ex_mem_r.lui
      /\ mem_wb_r'.jump = ex_mem_r.jump /\ mem_wb_r'.mem_to_reg = ex_mem_r.mem_to_reg
      /\ mem_wb_r'.imm_ext = ex_mem_r.imm_ext
      /\ mem_wb_r'.pc_plus4 = ex_mem_r.pc_plus4
      /\ mem_wb_r'.alu_result = ex_mem_r.alu_result
      /\ mem_wb_r'.mem_read_data = data
  BY <1>1 DEF mem_wb_next
<1>3. rf' = arch_x
  BY RegFileStep
<1>4. arch_x' = IF ex_mem_r.valid /\ ex_mem_r.reg_write /\ ex_mem_r.rd_addr # 0
                THEN [arch_x EXCEPT ![ex_mem_r.rd_addr] = wb_write_data']
                ELSE arch_x
  <2>1. arch_x' = IF wb_reg_write' /\ mem_wb_r'.rd_addr # 0
                  THEN [rf' EXCEPT ![mem_wb_r'.rd_addr] = wb_write_data']
                  ELSE rf'
    BY DEF arch_x
  <2> QED
    BY <2>1, <1>2, <1>3 DEF wb_reg_write
<1>5. wb_write_data' = IF ex_mem_r.lui THEN ex_mem_r.imm_ext
                       ELSE IF ex_mem_r.jump THEN ex_mem_r.pc_plus4
                       ELSE IF ex_mem_r.mem_to_reg THEN data
                       ELSE ex_mem_r.alu_result
  BY <1>2 DEF wb_write_data
<1> QED
  BY <1>4, <1>5 DEF ex_mem_fwd_value

(* In MEM, only loads take their result from memory. *)
LEMMA OnlyLoadsReadMemory ==
  ASSUME Executed, ex_mem_r.valid
  PROVE  /\ ex_mem_r.mem_to_reg <=> InstrAt(ex_mem_r.pc).opcode = "LOAD"
         /\ ex_mem_r.mem_read <=> InstrAt(ex_mem_r.pc).opcode = "LOAD"
<1> DEFINE c == control_unit(InstrAt(ex_mem_r.pc))
<1>1. ex_mem_r.mem_to_reg = c.mem_to_reg /\ ex_mem_r.mem_read = c.mem_read
  BY DEF Executed
<1> HIDE DEF c
<1> QED
  BY <1>1, ControlFields DEF c

(* Forwarding is right: an operand of the instruction in EX is the value   *)
(* its register has once the instruction in MEM is done.                   *)
LEMMA ForwardedIsArch ==
  ASSUME TypeOK, OperandsLatched, Executed, NoLoadForwarded, BackEnd,
         NEW rs \in {id_ex_r.rs1_addr, id_ex_r.rs2_addr}
  PROVE  forwarded(rs, rf[rs]) = arch_x'[rs]
<1>1. /\ rs \in Regs /\ rf \in [Regs -> Word] /\ ex_mem_r.rd_addr \in Regs
      /\ mem_wb_r.rd_addr \in Regs
  BY DEF TypeOK, id_ex_t, ex_mem_t, mem_wb_t
<1>2. arch_x \in [Regs -> Word]
  BY ArchType
<1>3. CASE ex_mem_writes(rs)
  <2>1. forward_unit(rs) = "EX_MEM"
    BY <1>3 DEF forward_unit
  <2>2. ~ex_mem_r.mem_to_reg
    BY <1>3, <2>1, OnlyLoadsReadMemory DEF NoLoadForwarded, ex_mem_writes
  <2>3. arch_x'[rs] = wb_write_data'
    BY <1>1, <1>2, <1>3, ArchStep DEF ex_mem_writes
  <2> QED
    BY <2>1, <2>2, <2>3, ArchStep DEF forwarded
<1>4. CASE ~ex_mem_writes(rs)
  <2>1. arch_x'[rs] = arch_x[rs]
    BY <1>1, <1>2, <1>4, ArchStep DEF ex_mem_writes
  <2>2. forwarded(rs, rf[rs]) = arch_x[rs]
    <3>1. forwarded(rs, rf[rs]) = IF mem_wb_writes(rs) THEN wb_write_data ELSE rf[rs]
      BY <1>4 DEF forwarded, forward_unit
    <3> QED
      BY <3>1, <1>1 DEF mem_wb_writes, arch_x
  <2> QED
    BY <2>1, <2>2
<1> QED
  BY <1>3, <1>4

LEMMA OperandsAreArch ==
  ASSUME TypeOK, OperandsLatched, Executed, NoLoadForwarded, BackEnd
  PROVE  fwd_rs1 = arch_x'[id_ex_r.rs1_addr] /\ fwd_rs2 = arch_x'[id_ex_r.rs2_addr]
BY ForwardedIsArch DEF OperandsLatched, fwd_rs1, fwd_rs2

-----------------------------------------------------------------------------
(* The next instruction *)

(* A difference that wraps *)
LEMMA WrapDifference ==
  ASSUME NEW a \in Word, NEW b \in Word
  PROVE  Wrap(a - b) = IF a >= b THEN a - b ELSE a - b + Modulus
BY ModulusFacts DEF Wrap, Word

(* The flags of the subtraction give equality and the signed order. *)
LEMMA FlagsGiveOrder ==
  ASSUME NEW a \in Word, NEW b \in Word, NEW r, r = Wrap(a - b)
  PROVE  /\ alu_zero(r) <=> a = b
         /\ (alu_negative(r) # alu_overflow(a, b, r))
               <=> (Arch!Signed(a) < Arch!Signed(b))
<1>1. r = IF a >= b THEN a - b ELSE a - b + Modulus
  BY WrapDifference
<1>2. a \in Nat /\ b \in Nat /\ a < Modulus /\ b < Modulus /\ r \in Nat
  BY <1>1, ModulusFacts DEF Word
<1>3. /\ Arch!Signed(a) = IF a >= HALF THEN a - Modulus ELSE a
      /\ Arch!Signed(b) = IF b >= HALF THEN b - Modulus ELSE b
  BY DEF Arch!Signed, Arch!Msb, Arch!Modulus, Modulus
<1>4. alu_zero(r) <=> a = b
  BY <1>1, <1>2, ModulusFacts DEF alu_zero
<1>5. CASE a >= HALF
  BY <1>1, <1>2, <1>3, <1>4, <1>5, ModulusFacts DEF alu_negative, alu_overflow, Msb
<1>6. CASE ~(a >= HALF)
  BY <1>1, <1>2, <1>3, <1>4, <1>6, ModulusFacts DEF alu_negative, alu_overflow, Msb
<1> QED
  BY <1>5, <1>6

LEMMA BranchDecision ==
  ASSUME NEW i, i.funct3 \in 0 .. 7, i.funct3 \notin {6, 7},
         NEW a \in Word, NEW b \in Word, NEW r, r = Wrap(a - b)
  PROVE  branch_condition(i.funct3, a, b, r) <=> Arch!take_branch(i, a, b)
<1>1. Arch!Signed(a) \in Int /\ Arch!Signed(b) \in Int
  BY ModulusFacts DEF Arch!Signed, Arch!Msb, Arch!Modulus, Word
<1> QED
  BY <1>1, FlagsGiveOrder DEF branch_condition, Arch!take_branch

LEMMA NextPcCases ==
  ASSUME NEW i, NEW at, NEW regs
  PROVE  /\ i.opcode = "JAL" => Arch!NextPc(i, at, regs) = Wrap(at + i.imm)
         /\ i.opcode = "JALR" =>
              Arch!NextPc(i, at, regs)
                = Wrap(regs[i.rs1] + i.imm) - (Wrap(regs[i.rs1] + i.imm) % 2)
         /\ i.opcode = "BRANCH" =>
              Arch!NextPc(i, at, regs)
                = IF Arch!take_branch(i, regs[i.rs1], regs[i.rs2])
                  THEN Wrap(at + i.imm) ELSE Plus4(at)
         /\ ~IsBranchOrJump(i) => Arch!NextPc(i, at, regs) = Plus4(at)
BY DEF Arch!NextPc, Arch!Wrap, Arch!Plus4, Arch!Modulus, Wrap, Plus4, Modulus,
       IsBranchOrJump

(* A mispredicted branch or jump redirects fetch, any other was followed   *)
(* by the right instruction already.                                       *)
LEMMA Redirection ==
  ASSUME TypeOK, DecodedPath, is_control_flow_ex
  PROVE  (IF flush THEN flush_target ELSE if_id_r.pc)
           = IF actual_taken_ex THEN actual_target_ex ELSE Plus4(id_ex_r.pc)
<1>1. /\ id_ex_r.pc_plus4 = Plus4(id_ex_r.pc) /\ if_id_r.pc = Successor(id_ex_r)
  BY DEF is_control_flow_ex, DecodedPath
<1>2. actual_taken_ex \in BOOLEAN /\ id_ex_r.pred_taken \in BOOLEAN
  BY DEF TypeOK, id_ex_t, actual_taken_ex
<1>3. CASE flush
  BY <1>1, <1>3 DEF flush_target
<1>4. CASE ~flush
  <2>1. /\ actual_taken_ex = id_ex_r.pred_taken
        /\ actual_taken_ex => actual_target_ex = id_ex_r.pred_target
    BY <1>2, <1>4 DEF flush, mispredict_ex
  <2> QED
    BY <1>1, <1>4, <2>1 DEF Successor
<1> QED
  BY <1>3, <1>4

LEMMA NextResolved ==
  ASSUME TypeOK, DecodedPath, OperandsLatched, Executed, NoLoadForwarded, BackEnd,
         id_ex_r.valid, ImplementedInstr(InstrAt(id_ex_r.pc))
  PROVE  (IF flush THEN flush_target ELSE if_id_r.pc)
           = Arch!NextPc(InstrAt(id_ex_r.pc), id_ex_r.pc, arch_x')
<1> DEFINE i == InstrAt(id_ex_r.pc)
           c == id_ex_r.ctl
           a == arch_x'[i.rs1]
           b == arch_x'[i.rs2]
<1>1. /\ c = control_unit(i) /\ id_ex_r.imm_ext = imm_gen(i)
      /\ id_ex_r.rs1_addr = i.rs1 /\ id_ex_r.rs2_addr = i.rs2
      /\ id_ex_r.funct3 = i.funct3
      /\ id_ex_r.pred_taken => IsBranchOrJump(i)
      /\ if_id_r.pc = Successor(id_ex_r)
  BY DEF DecodedPath
<1>2. fwd_rs1 = a /\ fwd_rs2 = b /\ a \in Word /\ b \in Word
  BY <1>1, OperandsAreArch, OperandTypes
<1>3. i \in Instr /\ i.imm \in Word /\ i.funct3 \in 0 .. 7
  BY FetchType DEF TypeOK, id_ex_t, InstrAt, Instr
<1>4. ImplementedInstr(i)
  OBVIOUS
<1>5. is_control_flow_ex <=> IsBranchOrJump(i)
  BY <1>1, ControlFields DEF is_control_flow_ex, IsBranchOrJump
<1> HIDE DEF i, a, b
<1>6. CASE ~IsBranchOrJump(i)
  <2>1. ~flush /\ if_id_r.pc = Plus4(id_ex_r.pc)
    BY <1>1, <1>5, <1>6 DEF flush, mispredict_ex, Successor
  <2> QED
    BY <1>6, <2>1, NextPcCases DEF i
<1>7. CASE i.opcode = "JAL"
  <2>1. actual_taken_ex
    BY <1>1, <1>7, ControlFields DEF actual_taken_ex
  <2>2. actual_target_ex = Wrap(id_ex_r.pc + i.imm)
    BY <1>1, <1>7, ControlFields DEF actual_target_ex, imm_gen
  <2> QED
    BY <1>5, <1>7, <2>1, <2>2, Redirection, NextPcCases DEF i, IsBranchOrJump
<1>8. CASE i.opcode = "JALR"
  <2>1. actual_taken_ex
    BY <1>1, <1>8, ControlFields DEF actual_taken_ex
  <2>2. alu_operand_a = a /\ alu_operand_b = i.imm
    BY <1>1, <1>2, <1>8, ControlFields DEF alu_operand_a, alu_operand_b, imm_gen
  <2>3. alu_result_ex = Wrap(a + i.imm)
    BY <1>1, <1>2, <1>3, <1>8, <2>2, ControlFields, AluAssumption DEF alu_result_ex
  <2>4. actual_target_ex = Wrap(a + i.imm) - (Wrap(a + i.imm) % 2)
    BY <1>1, <1>8, <2>3, ControlFields DEF actual_target_ex
  <2> QED
    BY <1>5, <1>8, <2>1, <2>4, Redirection, NextPcCases DEF i, a, IsBranchOrJump
<1>9. CASE i.opcode = "BRANCH"
  <2>1. alu_operand_a = a /\ alu_operand_b = b
    BY <1>1, <1>2, <1>9, ControlFields DEF alu_operand_a, alu_operand_b
  <2>2. alu_result_ex = Wrap(a - b)
    BY <1>1, <1>2, <1>9, <2>1, ControlFields, AluAssumption DEF alu_result_ex
  <2>3. branch_condition(i.funct3, a, b, Wrap(a - b)) <=> Arch!take_branch(i, a, b)
    BY <1>2, <1>3, <1>4, <1>9, BranchDecision DEF ImplementedInstr
  <2>4. actual_taken_ex <=> Arch!take_branch(i, a, b)
    BY <1>1, <1>9, <2>1, <2>2, <2>3, ControlFields DEF actual_taken_ex, branch_taken_ex
  <2>5. actual_target_ex = Wrap(id_ex_r.pc + i.imm)
    BY <1>1, <1>9, ControlFields DEF actual_target_ex, imm_gen
  <2> QED
    BY <1>5, <1>9, <2>4, <2>5, Redirection, NextPcCases DEF i, a, b, IsBranchOrJump
<1> QED
  BY <1>6, <1>7, <1>8, <1>9 DEF IsBranchOrJump

-----------------------------------------------------------------------------
(* One clock edge *)

(* A bubble in EX neither flushes nor stalls. *)
LEMMA BubbleAdvances ==
  ASSUME DecodedPath, ~id_ex_r.valid PROVE ~flush /\ ~stall
BY DEF DecodedPath, flush, mispredict_ex, is_control_flow_ex, stall, hazard_unit

LEMMA LatchedFields ==
  /\ ex_mem_next.valid = id_ex_r.valid /\ ex_mem_next.pc = id_ex_r.pc
  /\ id_ex_next.valid = if_id_r.valid /\ id_ex_next.pc = if_id_r.pc
  /\ if_id_next.valid = TRUE /\ if_id_next.pc = pc_if
BY DEF ex_mem_next, id_ex_next, if_id_next

(* The oldest instruction that has not taken effect after the edge is the  *)
(* one after MEM before it.                                                *)
LEMMA FollowingRetires ==
  ASSUME TypeOK, DecodedPath, Clock PROVE arch_pc' = following
<1>1. ex_mem_r'.valid = id_ex_r.valid /\ ex_mem_r'.pc = id_ex_r.pc
  BY LatchedFields DEF Clock, BackEnd
<1>2. CASE id_ex_r.valid
  BY <1>1, <1>2 DEF arch_pc, following
<1>3. CASE ~id_ex_r.valid
  <2>1. Advance
    BY <1>3, BubbleAdvances DEF Clock, Flush, Stall
  <2>2. /\ id_ex_r'.valid = if_id_r.valid /\ id_ex_r'.pc = if_id_r.pc
        /\ if_id_r'.valid /\ if_id_r'.pc = pc_if
    BY <2>1, LatchedFields DEF Advance
  <2> QED
    BY <1>1, <1>3, <2>2 DEF arch_pc, following
<1> QED
  BY <1>2, <1>3

(* What follows the instruction in EX once it is in MEM. *)
LEMMA FollowingResolved ==
  ASSUME TypeOK, DecodedPath, Clock, id_ex_r.valid
  PROVE  following' = IF flush THEN flush_target ELSE if_id_r.pc
<1>1. if_id_r.valid
  BY DEF DecodedPath
<1>2. CASE Flush
  BY <1>2, ZeroFields DEF Flush, following
<1>3. CASE Stall
  BY <1>1, <1>3, ZeroFields DEF Stall, following
<1>4. CASE Advance
  <2>1. id_ex_r'.valid = if_id_r.valid /\ id_ex_r'.pc = if_id_r.pc
    BY <1>4, LatchedFields DEF Advance
  <2> QED
    BY <1>1, <1>4, <2>1 DEF Advance, following
<1> QED
  BY <1>2, <1>3, <1>4 DEF Clock

LEMMA ExecutedStep ==
  ASSUME TypeOK, DecodedPath, OperandsLatched, Executed, NoLoadForwarded,
         Implemented(imem), [Next]_vars
  PROVE  Executed'
<1>1. CASE Clock /\ id_ex_r.valid
  <2> DEFINE i == InstrAt(id_ex_r.pc)
             c == control_unit(i)
             a == IF c.auipc THEN id_ex_r.pc ELSE arch_x'[i.rs1]
             b == IF c.alu_src THEN imm_gen(i) ELSE arch_x'[i.rs2]
  <2>1. BackEnd /\ imem' = imem /\ ex_mem_r' = ex_mem_next
    BY <1>1 DEF Clock, BackEnd
  <2>2. /\ id_ex_r.ctl = c /\ id_ex_r.imm_ext = imm_gen(i)
        /\ id_ex_r.rs1_addr = i.rs1 /\ id_ex_r.rs2_addr = i.rs2
        /\ id_ex_r.rd_addr = i.rd /\ id_ex_r.pc_plus4 = Plus4(id_ex_r.pc)
    BY <1>1 DEF DecodedPath
  <2>3. fwd_rs1 = arch_x'[i.rs1] /\ fwd_rs2 = arch_x'[i.rs2]
    BY <2>1, <2>2, OperandsAreArch
  <2>4. ImplementedInstr(i)
    <3>1. (id_ex_r.pc \div 4) % IMEM_WORDS \in DOMAIN imem
      BY ModulusFacts, MemoryAssumption DEF TypeOK, Programs, id_ex_t, Word
    <3> QED
      BY <3>1 DEF Implemented, InstrAt, instruction_mem
  <2>5. following' = Arch!NextPc(i, id_ex_r.pc, arch_x')
    BY <1>1, <2>1, <2>4, FollowingResolved, NextResolved
  <2>6. InstrAt(ex_mem_r.pc)' = i /\ ex_mem_r'.pc = id_ex_r.pc
    BY <2>1, LatchedFields DEF InstrAt
  <2> HIDE DEF i
  <2>7. alu_result_ex = Alu(c.alu_control, a, b)
    BY <2>2, <2>3 DEF alu_result_ex, alu_operand_a, alu_operand_b
  <2>8. /\ ex_mem_r'.valid = id_ex_r.valid
        /\ ex_mem_r'.alu_result = Alu(c.alu_control, a, b)
        /\ ex_mem_r'.store_data = arch_x'[i.rs2]
        /\ ex_mem_r'.imm_ext = imm_gen(i) /\ ex_mem_r'.rd_addr = i.rd
        /\ ex_mem_r'.pc_plus4 = Plus4(id_ex_r.pc)
        /\ ex_mem_r'.reg_write = c.reg_write /\ ex_mem_r'.mem_to_reg = c.mem_to_reg
        /\ ex_mem_r'.mem_read = c.mem_read /\ ex_mem_r'.mem_write = c.mem_write
        /\ ex_mem_r'.jump = c.jump /\ ex_mem_r'.lui = c.lui
    <3> HIDE DEF c, a, b
    <3> QED
      BY <2>1, <2>2, <2>3, <2>7 DEF ex_mem_next
  <2> QED
    BY <1>1, <2>5, <2>6, <2>8 DEF Executed
<1>2. CASE Clock /\ ~id_ex_r.valid
  <2>1. /\ ex_mem_r'.valid = id_ex_r.valid
        /\ ex_mem_r'.reg_write = id_ex_r.ctl.reg_write
        /\ ex_mem_r'.mem_read = id_ex_r.ctl.mem_read
        /\ ex_mem_r'.mem_write = id_ex_r.ctl.mem_write
    BY <1>2 DEF Clock, BackEnd, ex_mem_next
  <2> QED
    BY <1>2, <2>1 DEF Executed, DecodedPath
<1>3. CASE Reset
  <2>1. ex_mem_r' = ex_mem_zero
    BY <1>3 DEF Reset
  <2> QED
    BY <2>1 DEF Executed, ex_mem_zero
<1>4. CASE UNCHANGED vars
  <2>1. UNCHANGED <<imem, ex_mem_r, following, arch_x>>
    BY <1>4 DEF vars, pipe_vars, following, arch_x, wb_reg_write, wb_write_data
  <2> QED
    BY <2>1 DEF Executed, InstrAt
<1> QED
  BY <1>1, <1>2, <1>3, <1>4 DEF Next

LEMMA DataInit == Init => DataInv
<1> SUFFICES ASSUME Init PROVE DataInv
  OBVIOUS
<1>1. OperandsLatched
  BY ZeroReg, ZeroFields DEF Init, OperandsLatched
<1>2. Executed
  BY DEF Init, Executed, ex_mem_zero
<1> QED
  BY <1>1, <1>2 DEF DataInv

LEMMA DataStep ==
  TypeOK /\ PathInv /\ NoLoadForwarded /\ Implemented(imem) /\ DataInv /\ [Next]_vars
    => DataInv'
BY LatchedStep, ExecutedStep DEF DataInv, PathInv

-----------------------------------------------------------------------------
(* The refinement *)

(* ISA has its own copies of the operators of RiscvPkg. *)
LEMMA SameOperators ==
  /\ \A n : Arch!Wrap(n) = Wrap(n) /\ Arch!Plus4(n) = Plus4(n)
  /\ \A m, a : /\ Arch!instruction_mem(m, a) = instruction_mem(m, a)
               /\ Arch!data_mem_read(m, a) = data_mem_read(m, a)
  /\ \A m, a, v : Arch!data_mem_write(m, a, v) = data_mem_write(m, a, v)
  /\ Arch!Word = Word /\ Arch!Regs = Regs /\ Arch!Rams = Rams
  /\ Arch!Programs = Programs
BY DEF Arch!Wrap, Arch!Plus4, Arch!Modulus, Arch!instruction_mem, Arch!data_mem_read,
       Arch!data_mem_write, Arch!Word, Arch!Regs, Arch!Rams, Arch!Programs,
       Arch!Instr, Arch!Opcodes, Wrap, Plus4, Modulus, instruction_mem,
       data_mem_read, data_mem_write, Word, Regs, Rams, Programs, Instr, Opcodes

(* The control unit selects the operation the simulator executes. *)
LEMMA SameOperation ==
  ASSUME NEW i \in Instr, ImplementedInstr(i), i.opcode \in {"OP", "OP_IMM"}
  PROVE  alu_op(i) = Arch!Operation(i)
<1>1. i.funct3 \in 0 .. 7
  BY DEF Instr
<1>2. i.funct3 = 5 => (Arch!ShiftArith(i) <=> (i.funct7 \div 32) % 2 = 1)
  BY DEF Arch!ShiftArith, ImplementedInstr
<1> QED
  BY <1>1, <1>2 DEF alu_op, Arch!Operation

(* An instruction leaves MEM exactly as ISA executes it. *)
LEMMA RetireStep ==
  ASSUME TypeOK, PathInv, DataInv, Implemented(imem), Clock, ex_mem_r.valid
  PROVE  Arch!Step
<1> DEFINE i == InstrAt(ex_mem_r.pc)
           c == control_unit(i)
           a == arch_x[i.rs1]
           b == arch_x[i.rs2]
<1>1. BackEnd /\ imem' = imem
  BY DEF Clock
<1>2. arch_pc = ex_mem_r.pc /\ arch_pc' = following
  BY FollowingRetires DEF PathInv, arch_pc
<1>3. Arch!Instruction = i
  BY <1>2, SameOperators DEF Arch!Instruction, InstrAt
<1>4. /\ ex_mem_r.alu_result = Alu(c.alu_control, IF c.auipc THEN ex_mem_r.pc ELSE a,
                                   IF c.alu_src THEN imm_gen(i) ELSE b)
      /\ ex_mem_r.store_data = b
      /\ ex_mem_r.imm_ext = imm_gen(i) /\ ex_mem_r.rd_addr = i.rd
      /\ ex_mem_r.pc_plus4 = Plus4(ex_mem_r.pc)
      /\ ex_mem_r.reg_write = c.reg_write /\ ex_mem_r.mem_to_reg = c.mem_to_reg
      /\ ex_mem_r.mem_read = c.mem_read /\ ex_mem_r.mem_write = c.mem_write
      /\ ex_mem_r.jump = c.jump /\ ex_mem_r.lui = c.lui
      /\ following = Arch!NextPc(i, ex_mem_r.pc, arch_x)
  BY DEF DataInv, Executed
<1>5. /\ i \in Instr /\ i.imm \in Word /\ i.rs1 \in Regs /\ i.rs2 \in Regs
      /\ i.opcode \in Opcodes /\ ex_mem_r.pc \in Word
  BY FetchType DEF TypeOK, ex_mem_t, InstrAt, Instr
<1>6. a \in Word /\ b \in Word
  BY <1>5, ArchType
<1>7. ImplementedInstr(i)
  <2>1. (ex_mem_r.pc \div 4) % IMEM_WORDS \in DOMAIN imem
    BY <1>5, ModulusFacts, MemoryAssumption DEF TypeOK, Programs, Word
  <2> QED
    BY <2>1 DEF Implemented, InstrAt, instruction_mem
<1> HIDE DEF i
<1>8. arch_pc' = Arch!NextPc(i, arch_pc, arch_x)
  BY <1>2, <1>4
<1>9. ~IsBranchOrJump(i) => arch_pc' = Arch!Plus4(arch_pc)
  BY <1>8, NextPcCases, SameOperators
<1>10. ~c.mem_write => ram' = ram
  BY <1>1, <1>4 DEF BackEnd
<1>11. \A v : c.reg_write /\ wb_write_data' = v =>
              arch_x' = Arch!write_reg(arch_x, i.rd, v)
  BY <1>1, <1>4, ArchStep DEF Arch!write_reg
<1>12. CASE i.opcode = "LOAD"
  <2>1. /\ c.mem_read /\ c.mem_to_reg /\ c.reg_write /\ c.alu_src /\ ~c.auipc
        /\ ~c.lui /\ ~c.jump /\ ~c.mem_write /\ c.alu_control = "ADD"
    BY <1>12, ControlFields
  <2>2. ex_mem_r.alu_result = Arch!Address(i, arch_x)
    BY <1>4, <1>5, <1>6, <1>12, <2>1, AluAssumption, SameOperators
       DEF Arch!Address, imm_gen
  <2>3. wb_write_data' \in Arch!data_mem_read(ram, Arch!Address(i, arch_x))
    BY <1>1, <1>4, <2>1, <2>2, ArchStep, SameOperators DEF mem_read_data_mem
  <2>4. arch_x' = Arch!write_reg(arch_x, i.rd, wb_write_data')
    BY <1>11, <2>1
  <2> QED
    BY <1>1, <1>3, <1>7, <1>9, <1>10, <1>12, <2>1, <2>3, <2>4
       DEF Arch!Step, Arch!Load, ImplementedInstr, IsBranchOrJump
<1>13. CASE i.opcode = "STORE"
  <2>1. /\ c.mem_write /\ ~c.reg_write /\ c.alu_src /\ ~c.auipc
        /\ c.alu_control = "ADD"
    BY <1>13, ControlFields
  <2>2. ex_mem_r.alu_result = Arch!Address(i, arch_x)
    BY <1>4, <1>5, <1>6, <1>13, <2>1, AluAssumption, SameOperators
       DEF Arch!Address, imm_gen
  <2>3. ram' = Arch!data_mem_write(ram, Arch!Address(i, arch_x), arch_x[i.rs2])
    BY <1>1, <1>4, <2>1, <2>2, SameOperators DEF BackEnd
  <2>4. arch_x' = arch_x
    BY <1>1, <1>4, <2>1, ArchStep
  <2> QED
    BY <1>1, <1>3, <1>7, <1>9, <1>13, <2>3, <2>4
       DEF Arch!Step, Arch!Store, ImplementedInstr, IsBranchOrJump
<1>14. CASE i.opcode \in {"OP", "OP_IMM", "LUI", "AUIPC", "JAL", "JALR"}
  <2>1. /\ c.reg_write /\ ~c.mem_write /\ ~c.mem_to_reg
        /\ c.lui <=> i.opcode = "LUI"
        /\ c.jump <=> i.opcode \in {"JAL", "JALR"}
    BY <1>14, ControlFields
  <2>2. wb_write_data' = IF c.lui THEN imm_gen(i)
                         ELSE IF c.jump THEN Plus4(arch_pc) ELSE ex_mem_r.alu_result
    BY <1>1, <1>2, <1>4, <2>1, ArchStep DEF ex_mem_fwd_value
  <2>3. wb_write_data' = Arch!Result(i, arch_pc, arch_x)
    <3>1. CASE i.opcode = "OP"
      <4>1. ~c.auipc /\ ~c.alu_src /\ c.alu_control = alu_op(i)
        BY <3>1, ControlFields
      <4> QED
        BY <1>4, <1>5, <1>7, <2>1, <2>2, <3>1, <4>1, SameOperation DEF Arch!Result
    <3>2. CASE i.opcode = "OP_IMM"
      <4>1. ~c.auipc /\ c.alu_src /\ c.alu_control = alu_op(i)
        BY <3>2, ControlFields
      <4> QED
        BY <1>4, <1>5, <1>7, <2>1, <2>2, <3>2, <4>1, SameOperation
           DEF Arch!Result, imm_gen
    <3>3. CASE i.opcode = "AUIPC"
      <4>1. c.auipc /\ c.alu_src /\ c.alu_control = "ADD"
        BY <3>3, ControlFields
      <4>2. ex_mem_r.alu_result = Wrap(ex_mem_r.pc + i.imm)
        BY <1>4, <1>5, <3>3, <4>1, AluAssumption DEF imm_gen
      <4> QED
        BY <1>2, <2>1, <2>2, <3>3, <4>2, SameOperators DEF Arch!Result
    <3>4. CASE i.opcode = "LUI"
      BY <2>1, <2>2, <3>4 DEF Arch!Result, imm_gen
    <3>5. CASE i.opcode \in {"JAL", "JALR"}
      BY <2>1, <2>2, <3>5, SameOperators DEF Arch!Result
    <3> QED
      BY <1>14, <3>1, <3>2, <3>3, <3>4, <3>5
  <2>4. arch_x' = Arch!write_reg(arch_x, i.rd, Arch!Result(i, arch_pc, arch_x))
    BY <1>11, <2>1, <2>3
  <2> QED
    BY <1>1, <1>3, <1>8, <1>10, <1>14, <2>1, <2>4 DEF Arch!Step, Arch!Compute
<1>15. CASE i.opcode \in {"BRANCH", "NONE"}
  <2>1. ~c.reg_write /\ ~c.mem_write
    BY <1>15, ControlFields
  <2>2. arch_x' = arch_x
    BY <1>1, <1>4, <2>1, ArchStep
  <2> QED
    BY <1>1, <1>3, <1>8, <1>10, <1>15, <2>1, <2>2 DEF Arch!Step, Arch!NoResult
<1> QED
  BY <1>5, <1>12, <1>13, <1>14, <1>15 DEF Opcodes

(* A bubble leaves MEM without a trace. *)
LEMMA BubbleStep ==
  ASSUME TypeOK, PathInv, DataInv, Clock, ~ex_mem_r.valid
  PROVE  UNCHANGED <<arch_pc, arch_x, ram, imem>>
<1>1. BackEnd /\ imem' = imem
  BY DEF Clock
<1>2. ~ex_mem_r.reg_write /\ ~ex_mem_r.mem_write
  BY DEF DataInv, Executed
<1>3. arch_x' = arch_x
  BY <1>1, <1>2, ArchStep
<1>4. ram' = ram
  BY <1>1, <1>2 DEF BackEnd
<1>5. arch_pc' = arch_pc
  BY FollowingRetires DEF PathInv, arch_pc, following
<1> QED
  BY <1>1, <1>3, <1>4, <1>5

LEMMA ResetStep == ASSUME Reset PROVE Arch!ISAReset
<1>1. /\ ex_mem_r'.valid = FALSE /\ id_ex_r'.valid = FALSE /\ if_id_r'.valid = FALSE
      /\ mem_wb_r'.valid = FALSE
  BY ZeroFields, ZeroControl DEF Reset, mem_wb_zero
<1>2. arch_pc' = 0
  BY <1>1 DEF Reset, arch_pc
<1>3. arch_x' = [r \in Regs |-> 0]
  BY <1>1 DEF Reset, arch_x, wb_reg_write
<1> QED
  BY <1>2, <1>3, SameOperators DEF Reset, Arch!ISAReset

LEMMA RefinementStep ==
  TypeOK /\ PathInv /\ DataInv /\ Implemented(imem) /\ [Next]_vars
    => [Arch!ISANext]_(Arch!isa_vars)
<1> SUFFICES ASSUME TypeOK, PathInv, DataInv, Implemented(imem), [Next]_vars
             PROVE  Arch!ISANext \/ UNCHANGED Arch!isa_vars
  OBVIOUS
<1>1. CASE Clock /\ ex_mem_r.valid
  BY <1>1, RetireStep DEF Arch!ISANext
<1>2. CASE Clock /\ ~ex_mem_r.valid
  BY <1>2, BubbleStep DEF Arch!isa_vars
<1>3. CASE Reset
  BY <1>3, ResetStep DEF Arch!ISANext
<1>4. CASE UNCHANGED vars
  BY <1>4 DEF vars, pipe_vars, arch_pc, arch_x, wb_reg_write, wb_write_data,
              Arch!isa_vars
<1> QED
  BY <1>1, <1>2, <1>3, <1>4 DEF Next

LEMMA RefinementInit == Init => Arch!ISAInit
<1> SUFFICES ASSUME Init PROVE Arch!ISAInit
  OBVIOUS
<1>1. /\ ex_mem_r.valid = FALSE /\ id_ex_r.valid = FALSE /\ if_id_r.valid = FALSE
      /\ mem_wb_r.valid = FALSE
  BY ZeroFields, ZeroControl DEF Init, mem_wb_zero
<1>2. arch_pc = 0 /\ arch_x = [r \in Regs |-> 0]
  BY <1>1 DEF Init, arch_pc, arch_x, wb_reg_write
<1>3. ram \in Rams /\ imem \in Programs
  BY ProgsAssumption, InitRamsAssumption DEF Init
<1> QED
  BY <1>2, <1>3, SameOperators DEF Arch!ISAInit

(* The programs that only use instructions the core has. *)
ProgsImplemented == \A p \in Progs : Implemented(p)

(* The pipeline implements the one-instruction-at-a-time machine.  For     *)
(* every program of instructions the core has, every content of data       *)
(* memory and any number of resets: as long as what is fetched is what     *)
(* instruction memory holds, each clock edge retires one instruction with  *)
(* the effect decode_and_execute gives it, or retires nothing.             *)
THEOREM PipelineImplementsISA ==
  ProgsImplemented => (Spec /\ []FetchFaithful => RefinesISA)
<1> SUFFICES ASSUME ProgsImplemented PROVE Spec /\ []FetchFaithful => RefinesISA
  OBVIOUS
<1>1. Init => Implemented(imem)
  BY DEF Init, ProgsImplemented
<1>2. Implemented(imem) /\ [Next]_vars => Implemented(imem)'
  BY FrontSteps DEF Implemented
<1> QED
  BY <1>1, <1>2, TypeCorrect, LoadNeverForwarded, PathInit, PathStep, DataInit,
     DataStep, RefinementInit, RefinementStep, PTL
     DEF Spec, RefinesISA, Arch!ISASpec
=============================================================================
