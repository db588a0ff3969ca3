-------------------------- MODULE CommitLog_proofs --------------------------
(***************************************************************************)
(* The two counters of rtl/tb_commit_log.sv stay one retirement apart, so  *)
(* that a MEM line and the PC line it belongs to carry the same index, for *)
(* every program whose fetches are faithful and any bound on the indices.  *)
(***************************************************************************)
EXTENDS TbCommitLog, Fetch_proofs

(* What is in MEM writes memory iff it is a store. *)
StoreInMem ==
  ex_mem_r.mem_write <=> ex_mem_r.valid /\ InstrAt(ex_mem_r.pc).opcode = "STORE"

(* The MEM counter is ahead by the instruction that waits in MEM/WB. *)
CountersApart ==
  /\ wb_commit_idx \in 0 .. INDEX_BOUND - 1
  /\ mem_commit_idx = (wb_commit_idx + (IF mem_wb_r.valid THEN 1 ELSE 0)) % INDEX_BOUND

LogInv == StoreInMem /\ CountersApart /\ MemLineJoined

LoggedNext == Clock /\ LogEdge

-----------------------------------------------------------------------------
LEMMA LogInitially == Init /\ LogInit => LogInv
<1> SUFFICES ASSUME Init, LogInit PROVE LogInv
  OBVIOUS
<1>1. /\ ex_mem_r.valid = FALSE /\ ex_mem_r.mem_write = FALSE
      /\ mem_wb_r.valid = FALSE
  BY DEF Init, ex_mem_zero, mem_wb_zero
<1>2. CountersApart
  <2>1. 0 \in 0 .. INDEX_BOUND - 1 /\ (0 + 0) % INDEX_BOUND = 0
    BY IndexAssumption
  <2> QED
    BY <1>1, <2>1 DEF LogInit, CountersApart
<1> QED
  BY <1>1, <1>2, Zenon DEF LogInit, LogInv, StoreInMem, MemLineJoined

LEMMA StoreStep ==
  ASSUME TypeOK, PathInv, Clock PROVE StoreInMem'
<1>1. ex_mem_r' = ex_mem_next /\ imem' = imem
  BY DEF Clock, BackEnd
<1>2. /\ ex_mem_r'.valid = id_ex_r.valid /\ ex_mem_r'.pc = id_ex_r.pc
      /\ ex_mem_r'.mem_write = id_ex_r.ctl.mem_write
  BY <1>1 DEF ex_mem_next
<1>3. id_ex_r.ctl.mem_write \in BOOLEAN
  BY DEF TypeOK, id_ex_t, Controls
<1>4. CASE id_ex_r.valid
  BY <1>1, <1>2, <1>3, <1>4, ControlFields
     DEF PathInv, DecodedPath, StoreInMem, InstrAt
<1>5. CASE ~id_ex_r.valid
  BY <1>1, <1>2, <1>5 DEF PathInv, DecodedPath, StoreInMem
<1> QED
  BY <1>4, <1>5

LEMMA CountersStep ==
  ASSUME TypeOK, CountersApart, LoggedNext
  PROVE  CountersApart' /\ wb_commit_idx' = mem_commit_idx
<1>1. mem_wb_r'.valid = ex_mem_r.valid
  BY DEF LoggedNext, Clock, BackEnd, mem_wb_next
<1>2. wb_commit_idx' = mem_commit_idx
  BY DEF LoggedNext, LogEdge, CountersApart
<1>3. mem_commit_idx \in 0 .. INDEX_BOUND - 1
  <2>1. \A m \in Nat : m % INDEX_BOUND \in 0 .. INDEX_BOUND - 1
    BY IndexAssumption
  <2> QED
    BY <2>1, IndexAssumption DEF CountersApart
<1> QED
  BY <1>1, <1>2, <1>3 DEF LoggedNext, LogEdge, mem_counted, CountersApart

LEMMA MemLineStep ==
  ASSUME TypeOK, StoreInMem, CountersApart, LoggedNext PROVE MemLineJoined'
<1> DEFINE a == ex_mem_r.alu_result
           v == ex_mem_r.store_data
<1>1. /\ mem_wb_r'.valid = ex_mem_r.valid /\ mem_wb_r'.pc = ex_mem_r.pc
      /\ imem' = imem /\ BackEnd /\ LogEdge
  BY DEF LoggedNext, Clock, BackEnd, mem_wb_next
<1>2. wb_commit_idx' = mem_commit_idx
  BY CountersStep
<1>3. CASE ex_mem_r.valid /\ InstrAt(ex_mem_r.pc).opcode = "STORE"
  <2>1. ex_mem_r.mem_write
    BY <1>3 DEF StoreInMem
  <2>2. mem_line' = <<mem_commit_idx, a, v>> /\ ram' = data_mem_write(ram, a, v)
    BY <1>1, <1>3, <2>1 DEF LogEdge, BackEnd
  <2>3. a \div 4 < DMEM_WORDS => ram'[a \div 4] = v
    <3>1. a \in Nat /\ ram \in [0 .. DMEM_WORDS - 1 -> Word]
      BY ModulusFacts DEF TypeOK, ex_mem_t, Word, Rams
    <3> QED
      BY <2>2, <3>1, MemoryAssumption DEF data_mem_write
  <2> QED
    BY <1>1, <1>2, <1>3, <2>2, <2>3 DEF MemLineJoined, InstrAt
<1>4. CASE ~(ex_mem_r.valid /\ InstrAt(ex_mem_r.pc).opcode = "STORE")
  <2>1. mem_line' = <<>>
    BY <1>1, <1>4 DEF StoreInMem, LogEdge
  <2> QED
    BY <1>1, <1>4, <2>1 DEF MemLineJoined, InstrAt
<1> QED
  BY <1>3, <1>4

LEMMA LogStep ==
  TypeOK /\ PathInv /\ LogInv /\ [LoggedNext]_<<vars, log_vars>> => LogInv'
<1> SUFFICES ASSUME TypeOK, PathInv, LogInv, [LoggedNext]_<<vars, log_vars>>
             PROVE  LogInv'
  OBVIOUS
<1>1. CASE LoggedNext
  BY <1>1, StoreStep, CountersStep, MemLineStep DEF LogInv, LoggedNext
<1>2. CASE UNCHANGED <<vars, log_vars>>
  BY <1>2 DEF vars, pipe_vars, log_vars, LogInv, StoreInMem, CountersApart,
              MemLineJoined, InstrAt
<1> QED
  BY <1>1, <1>2

(* The testbench only watches: what it logs is a behaviour of the core.    *)
LEMMA LoggedImplements == LoggedSpec => Spec
<1>1. [LoggedNext]_<<vars, log_vars>> => [Next]_vars
  BY DEF LoggedNext, Next
<1> QED
  BY <1>1, PTL DEF LoggedSpec, LoggedNext, Spec

(* tb_commit_log.sv, on lockstep counters, as long as fetches are          *)
(* faithful: through stalls, squashes and replays the MEM line of a store  *)
(* carries the index of its PC line and what memory then holds, whichever  *)
(* instructions the program is made of.                                    *)
THEOREM LinesJoined == LoggedSpec /\ []FetchFaithful => []MemLineJoined
<1>1. LogInv => MemLineJoined
  BY DEF LogInv
<1> QED
  BY <1>1, LoggedImplements, LogInitially, LogStep, PathInit, PathStep, TypeCorrect, PTL
     DEF LoggedSpec, LoggedNext, Spec

(* The same with nothing assumed of the fetched words, for the programs    *)
(* that Fetch_proofs admits.                                               *)
THEOREM LinesJoinedInAdmittedPrograms ==
  ProgsAdmitted => (LoggedSpec /\ []JumpsForward => []MemLineJoined)
BY LinesJoined, LoggedImplements, FetchIsFaithful, PTL
=============================================================================
