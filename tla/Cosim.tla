-------------------------------- MODULE Cosim --------------------------------
(***************************************************************************)
(* One program on both simulators, the logs they leave and the comparison: *)
(* Spike's -l --log-commits trace, rtl/tb_commit_log.sv behind a pipeline  *)
(* that may retire something else than Spike, and CompareAccuracy.         *)
(*                                                                         *)
(* The program is a sequence of instruction kinds; results are chosen      *)
(* freely where Spike executes them.  The core then retires the same       *)
(* instructions at its own load address, with bubbles between them and at  *)
(* most one fault.  Addresses count words, modulo WORD.                    *)
(***************************************************************************)
EXTENDS CompareAccuracy

CONSTANTS
  Programs,       \* sequences of [kind, rd, back]: back is a loop's length
  Values,         \* results of instructions and values stored
  Faults,         \* the kinds of fault the core may show, subset of FaultKinds
  FaultDelta,     \* how far off a faulty value or address is
  SPIKE_BUDGET,   \* instructions Spike runs, its boot stub included
  MAX_RETIRE,     \* retirements after which tb_commit_log.sv stops
  MAX_TAKEN,      \* how often the backward branch may be taken
  MAX_BUBBLES     \* bubbles in the core's pipeline

FaultKinds == {"value", "rd", "lost_write", "store_value", "store_address",
               "dropped", "repeated", "unknown_pc"}

ASSUME CosimAssumption ==
  /\ Values \subseteq 0 .. WORD - 1
  /\ Faults \subseteq FaultKinds /\ FaultDelta \in 1 .. WORD - 1
  /\ SPIKE_BUDGET \in Nat /\ SPIKE_BUDGET > 1 /\ MAX_RETIRE \in Nat
  /\ MAX_TAKEN \in Nat /\ MAX_BUBBLES \in Nat

(* A generated program fits below the load address, branches back into     *)
(* itself and has one epilogue, its last word.                             *)
Kinds == {"alu", "load", "auipc", "store", "branch", "halt"}
WellFormed(p) ==
  /\ p \in Seq([kind : Kinds, rd : 0 .. 31, back : Nat])
  /\ 0 < Len(p) /\ Len(p) < BASE_OFFSET
  /\ \A k \in 1 .. Len(p) : /\ p[k].kind = "halt" <=> k = Len(p)
                            /\ p[k].kind = "branch" => 0 < p[k].back /\ p[k].back < k

ASSUME ProgramsAssumption == \A p \in Programs : WellFormed(p)

(* Both simulators run until the epilogue has repeated, whatever the       *)
(* branches do: each one taken repeats less than the whole program.        *)
ASSUME BudgetAssumption ==
  \A p \in Programs :
    LET longest == (Len(p) - 1) * (MAX_TAKEN + 1) + REPEAT_THRESHOLD
    IN longest < SPIKE_BUDGET /\ longest <= MAX_RETIRE

VARIABLES
  phase,            \* "spike", "sv", then "compare"
  program,
  pc,               \* index of Spike's next instruction, 0 in the boot stub
  taken,            \* how often the backward branch has been taken
  trace,            \* what Spike retired, in the core's addresses
  spike_log,
  fed,              \* how much of the trace has entered the core's MEM stage
  bubbles,
  fault,            \* the fault the core has shown, or "none"
  sv_trace,         \* what entered the core's MEM stage
  ex_mem, mem_wb,   \* the core's last two pipeline registers
  mem_commit_idx, wb_commit_idx,
  sv_log

spike_vars == <<pc, taken, trace, spike_log>>
tb_vars == <<ex_mem, mem_wb, mem_commit_idx, wb_commit_idx, sv_log>>
feed_vars == <<fed, bubbles, fault, sv_trace>>
vars == <<phase, program, spike_vars, feed_vars, tb_vars>>

-----------------------------------------------------------------------------
(* Instructions and what they do *)

instr == program[pc]

(* What an instruction retires with, in the core's addresses: auipc's      *)
(* result and the data addresses depend on the load address.               *)
Retires(k, reg, mem) == [pc |-> k - 1, reg |-> reg, mem |-> mem]
DataAddress == Len(program)

Results(k) ==
  LET i == program[k]
  IN CASE i.kind \in {"alu", "load"} -> {Retires(k, <<i.rd, v>>, None) : v \in Values}
       [] i.kind = "auipc" -> {Retires(k, <<i.rd, k - 1>>, None)}
       [] i.kind = "store" -> {Retires(k, None, <<DataAddress, v>>) : v \in Values}
       [] i.kind \in {"branch", "halt"} -> {Retires(k, None, None)}

(* The same at Spike's load address. *)
Rebase(a) == (a + BASE_OFFSET) % WORD
AtSpike(r, kind) ==
  [pc |-> Rebase(r.pc),
   reg |-> IF kind = "auipc" THEN <<r.reg[1], Rebase(r.reg[2])>> ELSE r.reg,
   mem |-> IF r.mem = None THEN None ELSE <<Rebase(r.mem[1]), r.mem[2]>>]

-----------------------------------------------------------------------------
(* Spike *)

Line(tag, at, word, items) == [tag |-> tag, pc |-> at, instr |-> word, items |-> items]

(* The plain line of an instruction, and its commit line: a write to x0 is *)
(* not printed, a load also prints its address.                            *)
SpikeLines(r, kind) ==
  LET reg == IF r.reg = None \/ r.reg[1] = 0 THEN <<>>
             ELSE <<<<"x", r.reg[1], r.reg[2]>>>>
      mem == CASE kind = "store" -> <<<<"mem", r.mem[1], r.mem[2]>>>>
               [] kind = "load" -> <<<<"mem", Rebase(DataAddress)>>>>
               [] OTHER -> <<>>
  IN <<Line("plain", r.pc, r.pc % BASE_OFFSET, <<>>),
       Line("commit", r.pc, r.pc % BASE_OFFSET, reg \o mem)>>

BootPc == 1
SpikeBoot ==
  /\ phase = "spike" /\ pc = 0
  /\ spike_log' = <<[tag |-> "warning"],
                    Line("plain", BootPc, 0, <<>>),
                    Line("commit", BootPc, 0, <<<<"x", 5, BASE_OFFSET>>>>)>>
  /\ pc' = 1
  /\ UNCHANGED <<phase, program, taken, trace, feed_vars, tb_vars>>

SpikeStep ==
  /\ phase = "spike" /\ pc > 0 /\ Len(trace) + 1 < SPIKE_BUDGET
  /\ \E r \in Results(pc) :
       /\ trace' = Append(trace, r)
       /\ spike_log' = spike_log \o SpikeLines(AtSpike(r, instr.kind), instr.kind)
  /\ \/ /\ instr.kind = "branch" /\ taken < MAX_TAKEN
        /\ pc' = pc - instr.back /\ taken' = taken + 1
     \/ /\ pc' = IF instr.kind = "halt" THEN pc ELSE pc + 1
        /\ UNCHANGED taken
  /\ UNCHANGED <<phase, program, feed_vars, tb_vars>>

SpikeDone ==
  /\ phase = "spike" /\ Len(trace) + 1 = SPIKE_BUDGET
  /\ phase' = "sv"
  /\ UNCHANGED <<program, spike_vars, feed_vars, tb_vars>>

-----------------------------------------------------------------------------
(* tb_commit_log.sv *)

Bubble == [valid |-> FALSE]
Valid(r) == [valid |-> TRUE, pc |-> r.pc, reg |-> r.reg, mem |-> r.mem]

mem_lines(r, idx) ==
  IF r.valid /\ r.mem # None
  THEN <<[kind |-> "MEM", idx |-> idx, addr |-> r.mem[1], val |-> r.mem[2]]>> ELSE <<>>

wb_lines(r, idx) ==
  IF ~r.valid THEN <<>>
  ELSE <<[kind |-> "PC", idx |-> idx, pc |-> r.pc]>> \o
       IF r.reg = None THEN <<>>
       ELSE <<[kind |-> "REG", idx |-> idx, rd |-> r.reg[1], val |-> r.reg[2]]>>

(* Mutant: bubbles in the MEM stage are counted too. *)
count_always(r, idx) == idx + 1

count(r, idx) == IF r.valid THEN idx + 1 ELSE idx

(* The always block at one clock edge. *)
LogEdge ==
  /\ sv_log' = sv_log \o mem_lines(ex_mem, mem_commit_idx) \o wb_lines(mem_wb, wb_commit_idx)
  /\ mem_commit_idx' = count(ex_mem, mem_commit_idx)
  /\ wb_commit_idx' = IF mem_wb.valid THEN wb_commit_idx + 1 ELSE wb_commit_idx

-----------------------------------------------------------------------------
(* The core: what enters the MEM stage at one edge *)

(* The core's own next instruction; past the trace it repeats the halt. *)
Due == IF fed < Len(trace) THEN trace[fed + 1] ELSE Retires(Len(program), None, None)
Kind(r) == IF r.pc = Unknown THEN "unknown" ELSE program[r.pc + 1].kind

Off(v) == (v + FaultDelta) % WORD

(* What is retired instead of r, by the kind of fault. *)
Faulty(r, f) ==
  CASE f = "value" -> [r EXCEPT !.reg = <<r.reg[1], Off(r.reg[2])>>]
    [] f = "rd" -> [r EXCEPT !.reg = <<r.reg[1] + 1, r.reg[2]>>]
    [] f = "lost_write" -> [r EXCEPT !.reg = None, !.mem = None]
    [] f = "store_value" -> [r EXCEPT !.mem = <<r.mem[1], Off(r.mem[2])>>]
    [] f = "store_address" -> [r EXCEPT !.mem = <<Off(r.mem[1]), r.mem[2]>>]
    [] f \in {"dropped", "repeated"} -> r
    [] f = "unknown_pc" -> [r EXCEPT !.pc = Unknown]

(* The faults that change something the program can observe. *)
Possible(r, f) ==
  CASE f = "value" -> r.reg # None /\ r.reg[1] # 0
    [] f = "rd" -> r.reg # None
    [] f = "lost_write" -> r.mem # None \/ (r.reg # None /\ r.reg[1] # 0)
    [] f \in {"store_value", "store_address"} -> r.mem # None
    [] OTHER -> TRUE

Enter(r) == ex_mem' = Valid(r) /\ sv_trace' = Append(sv_trace, r)

(* Once the pc is unknown, so is everything the core fetches. *)
FeedInstruction ==
  /\ Enter(IF fault = "unknown_pc" THEN Faulty(Due, fault) ELSE Due)
  /\ fed' = fed + 1
  /\ UNCHANGED <<bubbles, fault>>

FeedBubble ==
  /\ bubbles < MAX_BUBBLES
  /\ ex_mem' = Bubble /\ bubbles' = bubbles + 1
  /\ UNCHANGED <<fed, fault, sv_trace>>

FeedFault ==
  /\ fault = "none" /\ fed < Len(trace) /\ Kind(Due) # "halt"
  /\ \E f \in Faults :
       /\ Possible(Due, f) /\ fault' = f
       /\ IF f = "dropped"
          THEN ex_mem' = Bubble /\ UNCHANGED sv_trace
          ELSE Enter(Faulty(Due, f))
       /\ fed' = IF f = "repeated" THEN fed ELSE fed + 1
  /\ UNCHANGED bubbles

SvCycle ==
  /\ phase = "sv" /\ wb_commit_idx < MAX_RETIRE
  /\ LogEdge /\ mem_wb' = ex_mem
  /\ FeedInstruction \/ FeedBubble \/ FeedFault
  /\ UNCHANGED <<phase, program, spike_vars>>

(* At the edge after the last one the always block may still log, or find  *)
(* logging_active cleared.                                                 *)
SvDone ==
  /\ phase = "sv" /\ wb_commit_idx >= MAX_RETIRE
  /\ phase' = "compare"
  /\ LogEdge \/ UNCHANGED <<sv_log, mem_commit_idx, wb_commit_idx>>
  /\ UNCHANGED <<program, spike_vars, feed_vars, ex_mem, mem_wb>>

-----------------------------------------------------------------------------
Init ==
  /\ phase = "spike" /\ program \in Programs /\ pc = 0 /\ taken = 0
  /\ trace = <<>> /\ spike_log = <<>>
  /\ fed = 0 /\ bubbles = 0 /\ fault = "none" /\ sv_trace = <<>>
  /\ ex_mem = Bubble /\ mem_wb = Bubble
  /\ mem_commit_idx = 0 /\ wb_commit_idx = 0 /\ sv_log = <<>>

Next == SpikeBoot \/ SpikeStep \/ SpikeDone \/ SvCycle \/ SvDone

Spec == Init /\ [][Next]_vars

-----------------------------------------------------------------------------
Compared == phase = "compare"
report == compare(spike_log, sv_log)
Accurate == report.passed = report.total /\ report.total > 0

(* spike_log_parser.py, on FIFO consumption by (pc, instr): the records    *)
(* are the instructions Spike retired, each with its own register and      *)
(* memory write, however often a loop revisits them; the exported words    *)
(* are the executed ones.                                                  *)
SpikeTraceRecovered ==
  phase = "sv" /\ fed = 0 =>
    LET records == trim_boot_stub(parse_spike_log(spike_log).records, BASE_OFFSET)
        x0_omitted(reg) == IF reg # None /\ reg[1] = 0 THEN None ELSE reg
        printed(r) == AtSpike(r, Kind(r))
        words == Tail(export_for_sv(run_spike_and_parse(spike_log)))
    IN /\ Len(records) = Len(trace) /\ Len(words) = Len(trace)
       /\ \A i \in DOMAIN trace :
            /\ records[i].pc = printed(trace[i]).pc /\ words[i] = trace[i].pc
            /\ records[i].reg = x0_omitted(printed(trace[i]).reg)
            /\ records[i].mem = printed(trace[i]).mem

(* tb_commit_log.sv, on the retirement index: although MEM lines are       *)
(* logged one stage before PC and REG lines, each record joins the lines   *)
(* of one instruction, in the order in which the core retired them.        *)
CommitLogRecovered ==
  Compared =>
    LET records == parse_sv_log(sv_log).records
    IN /\ fault # "unknown_pc" => Len(records) >= MAX_RETIRE
       /\ Len(records) <= Len(sv_trace)
       /\ \A i \in 1 .. Len(records) :
            /\ records[i].pc = sv_trace[i].pc
            /\ records[i].reg = sv_trace[i].reg /\ records[i].mem = sv_trace[i].mem

(* compare_accuracy.py, on the load addresses, x0 writes and the           *)
(* epilogue: a core that does what Spike does is never reported, by a      *)
(* mismatch or by a warning.                                               *)
NoFalseAlarm == Compared /\ fault = "none" => Accurate /\ ~report.warned

(* A core that retires something else is never given a clean report: some  *)
(* record mismatches, or a warning says that records are missing.          *)
FaultReported == Compared /\ fault # "none" => ~Accurate \/ report.warned

(* README.md, "per-instruction diff": a difference shows in the accuracy.  *)
FaultLowersAccuracy == Compared /\ fault # "none" => ~Accurate

(* values_match_allowing_pc_base: the tolerance covers results derived     *)
(* from the pc, so that any other wrong result is a mismatch.              *)
OtherResultsCompared ==
  Compared /\ fault # "none" =>
    LET wrong == {i \in DOMAIN trace \cap DOMAIN sv_trace : sv_trace[i] # trace[i]}
    IN (\E i \in wrong : Kind(trace[i]) = "alu") => ~Accurate
=============================================================================
