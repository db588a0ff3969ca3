# A TLA+ verification project for the RV32I pipelined core

This directory models the five-stage RISC-V core of this repository (`rtl/`),
the C++ simulator beside it (`src/main.cpp`) and the chain that compares the
core with Spike on random programs (`shared/spike/`): the program generator, the
files it writes, the testbench's commit log, the log parsers and the comparison.
TLC checks the models on small instances; TLAPS proves, for every value of the
constants, that the core implements the ISA, that the programs the generator
writes are what the comparison needs, that its files carry them unchanged into
three memories, that the two logs are read back as they were meant, and that the
comparison's verdict is right. The reference is the source: every
definition is translated from the lines that `PROJECT.json` ("map") names.

## 1. Inventory: the parts of the system

| Part | State | Operations | Correct when |
|---|---|---|---|
| Pipeline core (`riscv_core.sv`, `riscv_pkg.sv`, `pc.sv`) | PC, IF/ID, ID/EX, EX/MEM, MEM/WB, frozen fetch address | one clock edge; asynchronous reset | it retires the instructions of the program, in order, with the effects the ISA gives them |
| Decode (`control_unit.sv`, `imm_gen.sv`) | none | opcode, funct3, funct7 to control word; immediate | as the C++ simulator decodes |
| Register file (`reg_file.sv`) | 32 registers | write port, two read ports with write bypass | a read sees every older write |
| Hazard and forwarding units | none | stall; operand selection | no instruction uses a value that is not there yet, or an old one |
| ALU (`alu.sv`) | none | ten operations, three flags | wrapping arithmetic; flags give signed order |
| Branch predictor (`branch_predictor.sv`) | counters, targets, tags | lookup (IF), training (EX), reset | a taken prediction is only made for an instruction that EX will check |
| Loop buffer (`loop_buffer.sv`) | state machine, loop bounds, write pointer, storage | record, replay, give up, clear | the word it returns for an address is the word of instruction memory |
| Memories (`instruction_mem.sv`, `data_mem.sv`) | word arrays | combinational read, clocked write | - |
| C++ simulator (`src/main.cpp`) | registers, PC, 4 KB of bytes | load program.hex, fetch, decode and execute, stop | it executes aligned words as the core does; its narrower accesses agree with each other; it stops at the exit call |
| Program generator (`gen_program.py`) | placed words, loop ranges, single slots, written offsets, estimate | two-pass placement, loop blocks, data placement, preamble and epilogue, `program.hex`, `program.elf` | programs end in the epilogue, compute the same on both simulators, keep their data behind their text |
| Commit log (`tb_commit_log.sv`) | two counters, the log | preload memories, log from MEM and from WB, stop | the lines of one instruction carry one index |
| Parsers and comparison (`spike_log_parser.py`, `sv_log_parser.py`, `compare_accuracy.py`) | record lists | parse, correlate, trim, truncate, compare | equal runs compare equal, different ones are reported |
| Runner, harness, directed tests | - | start processes, drive clock and reset | - |

How they interact. The stages are joined by the pipeline registers and by wires
that run backwards: `flush` and `flush_target` from EX to the PC, IF/ID, ID/EX
and the loop buffer; `stall` from ID to the PC, IF/ID, ID/EX and the loop
buffer; training from EX to the predictor; `wb_write_data` from WB to the
register file and the forwarding multiplexers; `gate_icache_clk` from the loop
buffer to the fetch address. Everything is clocked by one edge, so the
concurrency is that of five instructions, the predictor and the loop buffer,
each reacting in the same cycle to what the others held in the last one.

The comparison is a chain of files. The generator writes `program.hex`, read by
the testbench into instruction memory and by the C++ simulator into its byte
array, and `program.elf`, read by Spike. The testbench loads the program at
address 0, Spike at 0x80000000. The testbench writes `commit_log.txt` from two
pipeline stages, Spike writes one log with two kinds of lines; each has a parser,
both traces are cut where the epilogue repeats, and the comparison walks the
common prefix. No part checks the one before it, so an error early in the chain
can only show as a wrong verdict at its end.

What is hard. In the core: a load-use stall and a misprediction meeting; a value
needed between being computed and being written; a prediction made with another
address's entry; a recording disturbed by a stall, a flush or a jump; the frozen
fetch address in the cycle the loop is left; a reset in any of these moments. In
the generator: a branch that lands inside a loop block; a jump with no target;
the longest program; a data offset whose low part is negative; anything a
program computes from its load address. In the logs: the two counters of the
testbench, the order of its two blocks on the last edge, instructions executed
many times and joined by address, lines with unknown digits, a register result
that is an address, the place where the epilogue is cut. In the C++ simulator:
bounds computed in 32 bits, the PC bookkeeping of jumps, bytes of unaligned
accesses. `PROJECT.json` ("hazards") lists them with their lines.

## 2. The modules

| Module | Models |
|---|---|
| `RiscvPkg` | words (`0 .. 2*HALF-1`, arithmetic modulo `2*HALF`), the instruction record, the types of the pipeline registers, the two memories |
| `BranchPredictor` | `branch_predictor.sv`: state, lookup, training, reset |
| `LoopBuffer` | `loop_buffer.sv`: state, combinational outputs, one action per FSM state |
| `RiscvCore` | the composition: the signals of each stage under their RTL names, and the actions `Clock` and `Reset` |
| `ISA` | the abstract machine: one instruction per step, after `decode_and_execute` |
| `AluUnit` | `alu.sv`, given to the constant `Alu` by the TLC configurations |
| `LoopSafe` | the programs the loop buffer is right for |
| `TbCommitLog` | the two counters of `tb_commit_log.sv`, composed with `RiscvCore` |
| `Sim` | `main.cpp`: loader, byte memory, run loop, every opcode; shown to take `ISA`'s steps |
| `GenProgram` | `random_program`: length check, `x31` set-up, both placement passes, loop blocks |
| `GenRun` | the generated program, with preamble and epilogue, running on both simulators |
| `Encoding` | the generator's encoders, the core's and the simulator's decoders, bit by bit |
| `ProgramFiles` | `program.hex`, `build_elf32`, and the three loaders |
| `SpikeLogParser`, `SvLogParser`, `CompareAccuracy` | the three Python modules, as operators on logs |
| `Cosim` | Spike, the testbench behind a pipeline that may be faulty, their logs, and the comparison |
| `MCPrograms`, `MCCore`, `MCLoops`, `MCCommitLog`, `MCDefects`, `MCGen`, `MCFiles`, `MCCosim`, `MCSim` | instances for TLC |
| `RiscvCore_proofs` | types, flush against stall, forwarding against loads |
| `Refinement_proofs` | the pipeline implements `ISA` when fetches are faithful; the predictor's tags |
| `Fetch_proofs` | the loop buffer and the predictor keep fetches faithful on the programs of section 3 |
| `CommitLog_proofs` | the testbench's two counters |
| `Gen_proofs` | the generator and the runs of its programs, its retirement estimate |
| `Induction_lemmas` | induction over naturals, flattening and concatenation of sequences, for the two modules below |
| `Files_proofs` | the encoders against the decoders; the three memories; the ELF header |
| `Cosim_proofs` | the two log parsers and the comparison |
| `MCInvariants` | the hypotheses and inductive invariants of the core's proofs, for TLC |

### The core

**State.** A variable per register or array of the RTL, under its name. An
instruction word is a record of its fields; formats that have no `rs2` or `rd`
still have the field, because the core slices those bits without looking at the
format (the assembler of `MCPrograms` fills them with immediate bits, so false
dependences occur). Control signals of ID/EX are grouped in `id_ex_r.ctl`.

**Actions.** `Clock` is one rising edge. Its front end has three cases, as the
registers' if-chains have: `Flush`, `Stall`, `Advance`; on the same edge
`BackEnd` moves EX to MEM and MEM to WB, writes memory and the register file,
and the predictor and the loop buffer take their step. `Reset` is `rst_n`
falling; it clears every register except the storage of the loop buffer and
data memory, which have no reset.

**Undefined values.** Data memory is not initialised by the RTL: `InitRams` is
any set of contents. A load outside the array may return any word. The loop
buffer's storage is not initialised either, but a slot is read only below
`write_ptr_q`, hence after it has been written.

**Refinement.** An instruction takes effect on the edge that moves it from MEM
to WB: that edge writes memory, and the register write is pending in MEM/WB. So
the architectural registers are `rf` with that pending write, data memory is
`ram`, and the architectural PC is the address of the oldest instruction before
that point (`arch_x`, `arch_pc`). `RefinesISA` says that under this mapping
every step of the pipeline is one step of `ISA`, its reset, or no step.

### The simulator

`Sim` keeps the program in the byte array, as `main.cpp` does. A word in memory
is the number of an instruction in `Code`, 0 is the zero word that ends a run,
any other number an unknown opcode; the bit layout is the subject of `Encoding`.
One action per opcode stands for the branch of `decode_and_execute` and the
loop's `pc += 4` after it. An access outside an array is undefined behaviour:
the state becomes `undefined` and nothing is claimed from there on.

`SimRefinesISA` is stated step by step: whenever the word about to be executed
is still the loaded one, is no system call and accesses an aligned word, the step
is one of `ISA`. Together with `RefinesISA` this gives both machines the same
architecture on the programs both can run.

### The generator

`random.Random` is nondeterminism: every choice the code draws is an `\E`, so the
programs of the model are those of every seed. An instruction keeps what matters
to a run: its kind, its registers and, for loads, stores, branches and the words
that set up `x31` and the loop counter, its immediate. `GenRun` executes the
result once for both simulators. It keeps the values of the loop counter and of
`x31` (relative to the load address) and, for everything else, only which
registers and data words may differ between the two simulators; a random branch
goes either way. `differs` starts as every register but `x0`, since the reset of
the core and Spike's boot code leave different values, and `same`, the data words
equal in both, as empty: the testbench clears its memory, Spike's holds whatever it
held (`gen_program.py:405`). Two history variables tell what the properties are about:
`stored`, the words the run has stored to, and `early_load`, whether it has loaded
one it had not.

### Files and encodings

A 32-bit word is the set of its bits that are 1, so an encoder is a union of
shifted fields and a decoder a union of slices, as in the sources. `ProgramFiles`
writes both files, reads them back through the three loaders (Spike's ELF loader
is external: it maps the loadable segment the program header names), and compares
the memories.

### Logs and comparison

A log line is a record with the fields its regular expression captures; a line
with unknown digits is one that no expression matches. `Cosim` lets Spike run a
program whose results are chosen freely, then lets a core retire the same
instructions with bubbles between them and at most one fault: a wrong value,
register, store value or store address, a lost write, a dropped or repeated
instruction, or a PC that becomes unknown. On the last edge of the testbench its
two blocks run in either order, so that the log has one cycle more or less. The
parsers and the comparison are then applied to the two logs. A branch of a `Cosim`
program goes backwards, so that an address is executed more than once; forward
branches, which the generator emits as well, only leave entries out of both traces.

## 3. Programs the loop buffer is right for

The loop buffer stores words in the order they are fetched and reads them by
distance from the loop start. `LoopSafe!Safe` states, from the text of a
program, when the two agree:

* `WordTargets`: branches and jumps go to whole words;
* `StraightBody`: no control flow between a loop's start and its branch;
* `NoStallAtEntry`: no load-use pair right before a loop branch is fetched;
* `NoAliasAtEntry`: a branch or jump that falls through is not followed, directly
  or after one more word, by a loop branch that shares its predictor entry:
  resolving it would retrain the entry just after it started a recording;
* `LoopEndExists`: the loop branch is not the last word of the address space.

The text does not tell where a register jump goes. `Safe` takes it to go forward,
and what is claimed of these programs is claimed of executions in which it does
(`JumpsForward` in `Fetch_proofs`).

Each clause but `WordTargets`, without which instructions are not even fetched at
their addresses, is shown to be needed by a program outside it: the runs
`stall_at_entry` and `call_in_body`, and the configurations `JumpInBody.cfg`,
`AliasAtEntry.cfg` and `LoopAtTop.cfg` of section 6 (a loop branch in the last
word makes `loop_end` wrap to 0, so that the range check fails in the first
replayed cycle; the address is only reached by jumping below address 0).

The generator's loop blocks satisfy all five, which is why the random comparison
with Spike does not meet these cases: the bodies are straight-line code; the
counter register is never loaded, and its decrement, whose `rs2` bits are the 31
of the immediate -1, stands between any load and the branch; no branch or jump
lands inside a block (proved: `LoopsEnteredAtInit`), so only the words of the block
precede its branch, at distances at which predictor entries differ; and no load
has `x31` as its destination.

Nothing else is assumed: `MCCore` filters its programs by `Safe` and then checks
the whole core on them, and section 5 proves it for every size.

## 4. The runs

The runs on the core use 6-bit words (`HALF = 32`: 16 word addresses), 4
registers, 8 words of instruction memory (so fetch also wraps around), 4
predictor entries (so addresses alias) and a loop buffer of 4 slots (so bodies
fit, fill it exactly and overflow it).

* `core` (`MCCore`, eight properties on 11,240
  programs, 515,702 states): `TypeOK`; `NoFlushWithStall`; `NoLoadForwarded`; `FetchFaithful`
  (what is in ID is what memory holds there); `OnlyControlFlowPredicted`;
  `StallLastsOneCycle`; `RefinesISA`; and `Progress`. The program slots hold
  arithmetic on freshly produced registers, dependent loads, stores whose
  address and data were just computed, forward branches, calls and register jumps, backward
  branches and jumps, so that every distance between producer
  and consumer and every kind of squash occurs. Data memory has 15 words: the
  sixteenth address is outside it.
* `loops` (`MCCommitLog`): the loop blocks of `random_loop_block`, bodies of one
  to four words out of load, dependent add, store and increment, two to five
  passes, and programs with stores behind branches, jumps and loads.
  `FrozenReadUnused`, `RecordingFaithful`, `RefinesISA`, `Terminates` (the
  epilogue is reached for good) and `LoopReplayed` (the buffer is really used, so
  that the others are not vacuous). The testbench's counters run along, modulo 8:
  `MemLineJoined` says that through every stall, squash and replayed fetch a
  store's MEM line carries the index of its own PC line and tells what memory
  then holds.
* `reset` (`MCLoops` with `Reset`): a reset in any cycle, any number of times.
  `FetchFaithful` and `RefinesISA`.
* `gen_control` (`MCGen`, 593,707 states): programs of 0, 1, 2, 6, 7 and 8 words,
  bodies of one and two words, two and three passes, branches of up to three
  words, three data offsets. With 52 bytes of data memory 7 words fit exactly and 8
  are refused; 7 words leave room for one word in front of a loop block, 6 for none.
  `TypeOK` (the list is complete and of length `n`, never longer),
  `LoopEnteredAtInit`, `Settles`, and `EarlyLoadsExplained`: a run loads a word it has
  not stored to in two situations and no other, when a taken branch has passed the
  store, and in front of the loop block that stores it. Both occur in the run; the runs
  `gen_skipped_store` and `gen_loads` show each against what the code says.
* `gen_data` (`MCGen`, 1,953,134 states): a random register and three data
  offsets, programs of 2, 5 and 6 words, branches of up to three words.
  `OnlyBaseDiffers` (whatever the memories held, both simulators hold the same values
  but in `x31` until such a load happens), `AccessesInDataRegion` (no access touches the
  program or leaves data memory; immediates have 4 bits, so that the data offset
  of some lengths has a negative low part and of others not), `EstimateHolds` (with
  runs that jump and retire less).
* `files` (`MCFiles`, 93,025 states): every format with each bit of its immediate
  alone and both ends of its range, in programs of up to two words. `SameProgram`
  (the three memories hold the emitted words), `DecodedAsEmitted` (core and
  simulator recover the fields), `SectionsInsideFile` (the ELF headers agree with
  the parts that are concatenated).
* `cosim` (`MCCosim`, 146,610 states): two programs, one with a loop, one that
  writes `x0`; one taken branch, one bubble, one fault of any of the eight kinds.
  `SpikeTraceRecovered` and `CommitLogRecovered` (the parsers give back what was
  retired), `NoFalseAlarm` (a correct core gets a clean report), `FaultReported`
  (a faulty one never does). Words are 4 bits, the load addresses differ by half
  of that, and faulty values are off by one: see section 6 for other distances.
* `sim` (`MCSim`, 220,833 states): bytes of 2 bits, words of 8, 32 bytes of
  memory; about 40,000 program files of aligned words and jumps, and 1,536 with each
  size of store at each of four consecutive addresses, over it a second one or a load
  of each size at each of them, then the exit call; some more access memory through
  registers, at its ends and with sizes that do not exist.
  `SimRefinesISA`, `StoredIsLoaded`, `LoadsInside`, `Stops`.
* `stall_at_entry`, `call_in_body` (`MCDefects`), `gen_loads`, `gen_skipped_store`
  (`MCGen`): four statements of the repository that the code does not keep;
  see section 6.

`CHECK_DEADLOCK FALSE` is set only for `Cosim` and `Sim`, where the process ends;
the core has no state without a next edge, and a generated program repeats its
epilogue.

**Fairness.** `FairSpec` of the core is `Clock` under weak fairness, without
`Reset`: the clock of a powered chip, or of the testbench (`forever #10 clk =
~clk`), keeps ticking, and the liveness properties are about a core whose reset
stays released. `LoggedSpec` is the same clock with the testbench's block on it.
No fairness is assumed of anything inside the core, which is deterministic but
for undefined reads. `GenRun` and `Sim` are single processes; `FairSpec` there
says that a process that can take a step takes one, and nothing about which:
`Settles` holds whichever way random branches go.

**Bounds.** The pipeline is five deep and compares at most four instructions, a
predictor entry saturates after three trainings, a recording needs four passes:
programs of eight words with loops of up to sixteen passes go through all of it,
and the graph of `core` is 143 steps deep. Placement looks at one word or block
at a time and at the remaining length, so a set-up, one free word and one block,
with every shorter program, meet every condition of the code; two blocks in one
program are beyond the bound of the runs, not of the proofs. The parsers carry state between the
lines of one instruction and between executions of one address, hence a loop
with one taken branch; the cut needs three repetitions of the epilogue, which
both budgets leave room for.

## 5. What is proved

Every theorem holds for all values of the constants, from the assumptions named in
the modules that declare them (sizes are positive, `HALF` is a multiple of 4, `ADD`
and `SUB` wrap and the ALU returns words, programs are programs; for the generator,
that trip counts fit an immediate and addresses a word; for the encodings, that
registers, function codes and immediates fit their fields; for the files, that the
ELF file is smaller than 2^30 bytes; for the comparison, that the load
addresses are half the address space apart and the threshold of
`truncate_at_self_loop` is above 1). `Cosim` assumes two more things of what it
compares. `ProgramsAssumption`: a program fits below the load address, branches back
into itself and has one epilogue, its last word; the generator writes such programs.
`BudgetAssumption`: both budgets suffice to reach the epilogue and repeat it as often
as the threshold asks, which `tb_commit_log.sv:30` ("generous retirement budget") and
`run_spike.py:36` ("instruction cap high enough to capture your loop") ask of whoever
sets them. TLC evaluates these assumptions in every run, and each proved property is
checked by a run. The inductive invariants of the core are kept in `Inductive.cfg`
(`MCInvariants`), which checks them, and the hypotheses of the theorems, on the
programs of `core`.

**The core by itself** (`RiscvCore_proofs`).

* `TypeCorrect`: `TypeOK` is inductive. The argument types the combinational
  signals first (`OperandTypes`, `TargetTypes`, `PredictionType`), then what each
  pipeline register latches, then the two component steps (`BPTypeStep`: counters
  saturate; `LBTypeStep`: the write pointer stays within the depth).
* `FlushExcludesStall`: not inductive by itself; the strengthening is
  `LoadIsNotControlFlow`, that ID/EX never holds a load marked as branch or jump,
  which follows from the decoder and from what a bubble contains.
* `LoadNeverForwarded`, from the step that moves a load into MEM: the instruction
  that follows it into EX either was compared with it by the hazard unit or is a
  bubble. `StallIsOneCycle` is an action property.

**The pipeline implements the ISA** (`Refinement_proofs`), as long as fetches are
faithful: `PipelineImplementsISA` is `RefinesISA` for every program of the
instructions the core has (`ImplementedInstr`: word accesses, no BLTU and BGEU,
which section 6 shows to be missing, and defined shift codes), with any number of
resets. The invariant follows the instructions down the pipeline. `PathInv` is
about control: a predictor entry in use was trained by a branch or jump whose
address has its tag; a squashed IF/ID is zero; fetch has gone on from IF/ID to its
predicted successor; ID/EX is a bubble without side effects or the decoding of the
word at its address, and IF/ID holds what was fetched after it. `DataInv` is about
values: ID/EX latched what the register file still holds, so that forwarding from MEM
and WB gives the architectural registers, and EX/MEM holds the effect the ISA gives
its instruction, followed by its architectural successor. Each edge then retires
one instruction or nothing (`RefinementStep`). `PredictionsAreControlFlow` is the
part of `PathInv` that makes EX check every prediction.

**Fetches are faithful** (`Fetch_proofs`) on the programs of section 3, as long as
register jumps go forward: `FetchIsFaithful`, `FrozenWordUnused` and
`RecordingIsFaithful`. `FetchFaithful` alone is not inductive: what the buffer returns
depends on what it recorded, what it recorded on where fetch went, and that on the
predictor. `FetchInv` adds that a predictor entry and every prediction in flight
hold a target of their own instruction (`EntryTargets`, `TargetPredicted`), that an
instruction predicted taken does not lose its entry to a loop branch (`EntryKept`),
and, during a recording or a replay, that the buffer tracks a loop of the program and
fetch is in its body (`LoopTracked`), that slot k holds word k of it
(`SlotsRecorded`), that the loop branch will be predicted back to the start
(`LoopPredicted`) and that nothing else in flight can retrain its entry
(`OnlyLoopBranchTrains`). Each clause of `Safe` is used. `CoreImplementsISA` joins
both; `CoreImplementsISAWithoutRegisterJumps` has no hypothesis on executions left.

**The commit log** (`CommitLog_proofs`). `LinesJoined`: a store's MEM line carries the
index of its PC line and tells what memory then holds, for every program whose
fetches are faithful and every counter modulus above 2. The counters are apart by
one exactly when an instruction is in WB (`CountersApart`). With `Fetch_proofs`,
`LinesJoinedInAdmittedPrograms` needs only the program.

**The generator** (`Gen_proofs`), for every length, register count, window, span, loop
length, trip count and immediate width:

* `GeneratedRunsTyped`: exactly `n` words are placed and a run never leaves them;
* `LoopsEnteredAtInit`: a block is entered only through the word that sets its
  counter, the invariant that makes generated loops terminate;
* `AccessesStayInDataRegion`: with the borrow between `auipc` and `addi` at every
  width, every access lies behind the text and inside data memory;
* `TracesDifferOnlyInBase`: both simulators agree on every register but `x31`, from any
  two data memories, until the run loads a word it has not stored to;
* `EarlyLoadsHaveTwoCauses`: such a load is behind a taken branch or jump that passed
  the store, or in front of the loop block that stores the word. So a program without
  either compares equal whatever the memories held;
* `EstimateIsExact`: when a run reaches the epilogue, the instructions retired are at
  most `expected_retire` and the set-up of `x31`, and exactly that many when no random
  branch or jump was taken, for any number of blocks.

`GenInv` describes the half-finished program: which words belong to finished blocks,
that blocks are disjoint and the open slots are the rest in order, and that every word
placed is one the code may draw there. `StoreInv` adds where each loadable offset is
stored, and `StoredSoFar` that without a jump the stores passed have been executed; `RunInv` adds the run: the counter inside a block, the value of `x31` in each
part of its set-up, what the preamble has cleared so far, and `Agree`: what the run has
stored is equal in both memories. For the
estimate no sum over the blocks is computed: `EstimateInv` says that there is a
function from slots to counts that grows by one per word, by `retire_count` per block,
and ends in the estimate (`Estimate`), and compares the retired count with it at the
current slot; inside a block it adds the finished passes and the part of the current
one (`Reached`). Placing a block or a word changes the function from its slot on.

**The files** (`Files_proofs`). `FieldsSurvive`: whatever instructions that fit
their fields the generator encodes, the decoders of the core and of the simulator
recover every field from instruction memory. The proof reduces encoders and decoders
to single bits (`Holds`: where each format puts which bits), shows that the bits from
the sign bit up are copies of it (`SignBits`), and that opcodes differ in bits 2 to 6.
`OneProgram`: instruction memory, the C++ simulator's bytes and the segment Spike
maps hold the same words, for every program that fits. `SectionTable`: each offset in
the header that `build_elf32` writes is where its part starts, inside the file. The
invariants say which file or memory is which function of the program (`FilesInv`,
`ElfInv`); the work is in where the bytes of a concatenation of parts end up.

**The logs and the comparison** (`Cosim_proofs`), for every program, log length,
number of bubbles and taken branches, word width, budget and threshold:

* `CommitLogReadBack`: `sv_log_parser.py` recovers every retirement, in order, with
  its own write and store. `LogInv` says which lines the log holds for the values of
  the two counters, of which the MEM one is ahead by the instruction in WB; lines of
  instructions whose PC is unknown are dropped, and only those.
* `SpikeLogReadBack`: `spike_log_parser.py` recovers Spike's trace, and `run_spike.py`
  exports the executed words. `SpikeInv` says that the log is the boot line and, per
  instruction, its plain and its commit line; the k-th execution of an address then
  gets the k-th commit of its key from the queues, hence its own.
* `AgreeingCorePasses`: a core that retires what Spike does gets a clean report.
  `HaltInv` bounds when the epilogue is reached, so that both traces are long enough
  to be cut; `FeedInv` says that the core follows Spike's trace. Then both are cut at
  the same record, and each pair matches across the load addresses.
* `FaultyCoreReported`: a core that shows any of the eight faults never does, unless
  faulty values are off by exactly the load address. That hypothesis
  (`FaultDelta # BASE_OFFSET`) is needed: `CosimBase.cfg` (section 6) shows that the
  tolerance accepts such a value. `MoveInv` says that only the epilogue repeats
  its address from one step to the next, so that a dropped or repeated instruction
  leaves two different addresses side by side; `FaultInv` says where the fault is and
  how the core's trace runs from there. The case that takes most care is a fault
  behind the cut or one that moves it.

**Induction** (`Induction_lemmas`). The library's induction theorems take an operator,
which the provers cannot instantiate. `SetInduction` takes a set of naturals instead,
and follows from `LeastElement`; with it the recursive functions that flatten, read
and correlate lists are unfolded once per element (`FlattenPieces`, `Concat`). For
this the parsers are written as functions on prefixes of a log, one line at a time, as
the loops in the Python code run.

Only model-checked, and why:

* `Progress`, `Terminates`, `LoopReplayed`, `Settles` and `Stops`: liveness under
  fairness, which needs `ENABLED`;
* the properties of `Sim`, which like `AluUnit` computes with the bits of words
  (module `Bitwise`, which proofs cannot use). The core's proofs assume of the ALU
  only what `RiscvCore` states.

## 6. Findings

With a run of their own:

* `loop_buffer.sv:71`: a recording can start in a stalled cycle; the loop branch
  is then captured as the first word of the body (`stall_at_entry`). The stall
  check of STATE_RECORDING is not "the whole fix".
* `riscv_core.sv:76`: a predicted jump out of the recorded range reads the frozen
  address, and the word is consumed (`call_in_body`), which the comment there
  rules out.
* `gen_program.py:414`: pass 2 sees the stores of every loop block, so a word in front
  of a block may load what only the block stores (`gen_loads`); the comment says that
  the two passes do not "change what's loadable at any given slot".
* `gen_program.py:159`: a forward branch may pass the store that made an offset
  loadable (`gen_skipped_store`); the comment says that loads are "only viable once
  something's actually been stored" and that the simulators are "not comparable
  without this fix". `tb_commit_log.sv:98` expects loads before stores all the same, and
  clears the core's memory "so a load-before-store isn't a false mismatch"; that
  helps if Spike's memory is clear as well.

Met while modelling, each with a configuration that shows it (a violation is the
expected result); the passing runs state what does hold there:

| Where | What the code does | Configuration (module), property |
|---|---|---|
| `loop_buffer.sv:151` | a predicted jump inside a loop body makes the slots recorded in fetch order disagree with the slots read by address, although the header says that the predictor re-walks the body and the buffer only replaces the fetched word | `JumpInBody.cfg` (`MCDefects`), `FetchFaithful` |
| `riscv_core.sv:306` | BLTU and BGEU are never taken: the README claims the RV32I base integer ISA, while its own description of `branch_taken_ex` and `gen_program.py:17` name the four branches there are and call this a known limitation | `UnsignedBranch.cfg` (`MCDefects`), `RefinesISA` |
| `gen_program.py:376` | the estimate leaves out the two words that set up `x31`; `EstimateHolds` is the exact relation | `GenEstimate.cfg` (`MCGen`), `WithinEstimate` |
| `compare_accuracy.py:149` | the tolerance for addresses is applied to every register result: a result wrong in its top bit alone is accepted | `CosimBase.cfg` (`MCCosim`), `OtherResultsCompared` |
| `compare_accuracy.py:93` | only the common prefix is compared: a core whose PC becomes unknown still shows 100% accuracy, and only the warnings tell (`FaultReported` counts them) | `CosimTail.cfg` (`MCCosim`), `FaultLowersAccuracy` |
| `main.cpp:332` | `address + 3` wraps for the last three addresses below 2^32, and the load reads outside the array; `LoadsInside` says these are the only ones | `SimWrappedLoad.cfg` (`MCSim`), `OutsideRefused` |
| `main.cpp:332` | the check asks for four bytes whatever the size, so a byte load of the last three bytes is refused | `SimLastByte.cfg` (`MCSim`), `InsideAccepted` |
| `loop_buffer.sv:45` | a branch to itself is no backward prediction: the epilogue never starts a recording, although `gen_program.py:113` says it exercises the entry path | `EpilogueEntry.cfg` (`MCDefects`), `EpilogueRecorded` |
| `riscv_core.sv:76` | a branch that falls through retrains the entry of the loop branch fetched right behind it: the replay is left by a not-taken prediction, without a flush, and the word at the frozen address is consumed | `AliasAtEntry.cfg` (`MCDefects`), `FetchFaithful` |
| `loop_buffer.sv:74` | `loop_end` wraps to 0 for a loop branch in the last word of the address space | `LoopAtTop.cfg` (`MCDefects`), `RefinesISA` |

## 7. Not modelled, and the plan

Not modelled, and why:

* the block RAM variant of instruction memory: nothing instantiates it, and its
  read latency would need another fetch stage;
* byte and halfword accesses of the core: it has none (`Sim` has the simulator's);
* `build_binary` and the start of Spike in `run_spike.py`, the Verilator harness:
  process control and I/O around steps the models have;
* the hard timeout of the testbench: it only fires when nothing retires, which
  `Progress` excludes for a working core;
* printing, argument parsing and the layout of reports;
* the directed tests: single scenarios, where the runs quantify over programs.

Every safety invariant and action property that a passing run checks is also proved,
except those of `Sim`. What is left:

1. a model of the simulator's and the ALU's bit operations without `Bitwise` (words as
   sets of bits, as in `Encoding`), so that `SimRefinesISA` and `StoredIsLoaded` can be
   proved and the core's assumptions on the ALU become theorems;
2. forward branches in the programs of `Cosim`;
3. termination of generated programs (`Settles`) as a safety fact: `LoopsEnteredAtInit`
   and the bound of `EstimateIsExact` are its two halves.
