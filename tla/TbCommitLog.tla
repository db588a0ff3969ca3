---------------------------- MODULE TbCommitLog ----------------------------
(***************************************************************************)
(* rtl/tb_commit_log.sv watching RiscvCore: the two retirement counters of *)
(* its always block.  A store is logged from EX/MEM with one counter, the  *)
(* rest of the instruction one cycle later from MEM/WB with the other.     *)
(***************************************************************************)
EXTENDS RiscvCore, Sequences

CONSTANT INDEX_BOUND    \* indices are counted modulo this

ASSUME IndexAssumption == INDEX_BOUND \in Nat /\ INDEX_BOUND > 2

VARIABLES mem_commit_idx, wb_commit_idx,
          mem_line    \* the MEM line of the last edge, <<>> if there was none

log_vars == <<mem_commit_idx, wb_commit_idx, mem_line>>

(* Mutant: only stores are counted in the MEM stage. *)
mem_counted_stores_only == ex_mem_r.valid /\ ex_mem_r.mem_write

mem_counted == ex_mem_r.valid

LogInit == mem_commit_idx = 0 /\ wb_commit_idx = 0 /\ mem_line = <<>>

LogEdge ==
  /\ mem_line' = IF ex_mem_r.valid /\ ex_mem_r.mem_write
                 THEN <<mem_commit_idx, ex_mem_r.alu_result, ex_mem_r.store_data>>
                 ELSE <<>>
  /\ mem_commit_idx' = (mem_commit_idx + (IF mem_counted THEN 1 ELSE 0)) % INDEX_BOUND
  /\ wb_commit_idx' = (wb_commit_idx + (IF mem_wb_r.valid THEN 1 ELSE 0)) % INDEX_BOUND

(* The testbench's clock drives the core and the log. *)
LoggedSpec ==
  /\ Init /\ LogInit
  /\ [][Clock /\ LogEdge]_<<vars, log_vars>> /\ WF_<<vars, log_vars>>(Clock /\ LogEdge)

(* tb_commit_log.sv, on lockstep counters: through every stall, squash and *)
(* replayed fetch, the MEM line of the last edge belongs to the            *)
(* instruction whose PC line is next, carries the same index, and tells    *)
(* what memory now holds; an instruction that is no store has none.        *)
MemLineJoined ==
  LET retiring == instruction_mem(imem, mem_wb_r.pc)
  IN IF mem_wb_r.valid /\ retiring.opcode = "STORE"
     THEN /\ Len(mem_line) = 3 /\ mem_line[1] = wb_commit_idx
          /\ mem_line[2] \div 4 < DMEM_WORDS => ram[mem_line[2] \div 4] = mem_line[3]
     ELSE mem_line = <<>>
=============================================================================
