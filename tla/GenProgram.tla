----------------------------- MODULE GenProgram -----------------------------
(***************************************************************************)
(* shared/spike/gen_program.py: random_program and what it calls.  The     *)
(* random number generator is nondeterminism: a definition named after a   *)
(* function that draws from rng is the set of its possible results.        *)
(*                                                                         *)
(* An instruction keeps what placement and execution depend on: which      *)
(* register it writes, which it reads, and its immediate (bytes for data   *)
(* offsets, words for control flow).  Arithmetic is one operation, "ALU".  *)
(***************************************************************************)
EXTENDS Integers, Sequences

CONSTANTS
  Ns,                 \* the program lengths the generator may be asked for
  NREGS,              \* number of registers                           (32)
  WORD,               \* 2^XLEN                                      (2^32)
  IMM12,              \* 2^12, the range of an I-type immediate      (4096)
  LOAD_STORE_WINDOW,  \* largest data offset                           (32)
  DATA_MEM_BYTES,     \* size of the core's data memory              (4096)
  MAX_SPAN,           \* longest forward jump, in words                 (8)
  LOOP_BODY_WORDS,    \* <<least, most>> words of a loop body        (1, 5)
  LOOP_TRIP_COUNTS    \* <<least, most>> iterations of a loop        (2, 8)

ASSUME NsAssumption == Ns \subseteq Nat
ASSUME SizesAssumption ==
  /\ NREGS \in Nat /\ NREGS > 2
  /\ MAX_SPAN \in Nat /\ MAX_SPAN > 0
  /\ LOAD_STORE_WINDOW \in Nat /\ LOAD_STORE_WINDOW % 4 = 0
  /\ DATA_MEM_BYTES \in Nat
ASSUME LoopAssumption ==
  /\ LOOP_BODY_WORDS \in Nat \X Nat /\ LOOP_BODY_WORDS[1] > 0
  /\ LOOP_TRIP_COUNTS \in Nat \X Nat /\ LOOP_TRIP_COUNTS[1] > 0
  /\ 2 * LOOP_TRIP_COUNTS[2] < IMM12
ASSUME WidthAssumption ==
  /\ IMM12 \in Nat /\ IMM12 > 1 /\ IMM12 % 2 = 0
  /\ WORD \in Nat /\ WORD >= IMM12 /\ WORD >= DATA_MEM_BYTES

VARIABLES
  phase, n, i,
  instrs,            \* the n words, NoWord where nothing is placed yet
  loop_ranges,       \* word spans <<lo, hi>> of the loop blocks, hi excluded
  single_slots,      \* the words pass 2 still has to fill, in order
  written_offsets,   \* data offsets that have been stored to "so far"
  expected_retire

gen_vars == <<phase, n, i, instrs, loop_ranges, single_slots,
              written_offsets, expected_retire>>

-----------------------------------------------------------------------------
Regs == 0 .. NREGS - 1
base == NREGS - 1        \* x31, the load/store base
counter == NREGS - 2     \* x30, the loop counter

(* _reg: a register a random instruction may name. *)
reg == 0 .. NREGS - 3

Ops == {"ALU", "LW", "SW", "BRANCH", "JAL", "ADDI", "BNE", "AUIPC"}
Instr == [op : Ops, rd : Regs, srcs : SUBSET Regs, imm : Int]
NoWord == [op |-> "NONE"]

Word(op, rd, srcs, imm) == [op |-> op, rd |-> rd, srcs |-> srcs, imm |-> imm]
addi(rd, rs, imm) == Word("ADDI", rd, {rs}, imm)

-----------------------------------------------------------------------------
(* Where the data goes: x31 is set PC-relative by auipc and addi to an     *)
(* address behind the program, whose length includes the preamble and the  *)
(* epilogue.                                                               *)
preamble_words == NREGS - 1
program_end_bytes(len) == 4 * (preamble_words + len + 1)
AUIPC_PC == 4 * preamble_words

(* Mutant: no room for the negative offsets. *)
data_offset_no_margin(len) == program_end_bytes(len) - AUIPC_PC

data_offset(len) == program_end_bytes(len) - AUIPC_PC + LOAD_STORE_WINDOW

max_valid_end == DATA_MEM_BYTES - 4 - 2 * LOAD_STORE_WINDOW

(* The immediates of auipc and addi: a low part that reads as a negative   *)
(* number borrows from the high part.                                      *)
borrows(len) == data_offset(len) % IMM12 >= IMM12 \div 2
lo12(len) == (data_offset(len) % IMM12) - (IF borrows(len) THEN IMM12 ELSE 0)
hi20(len) == (data_offset(len) \div IMM12) + (IF borrows(len) THEN 1 ELSE 0)

(* range(-LOAD_STORE_WINDOW, LOAD_STORE_WINDOW + 1, 4) *)
Offsets == {o \in -LOAD_STORE_WINDOW .. LOAD_STORE_WINDOW : o % 4 = 0}

-----------------------------------------------------------------------------
(* _gen_one_instr, by category *)

arithmetic == {Word("ALU", rd, {a, b}, 0) : rd \in reg, a \in reg, b \in reg}
store == {Word("SW", 0, {base, r}, o) : r \in reg, o \in Offsets}

(* Mutant: any offset may be loaded. *)
load_any_offset(written) == {Word("LW", rd, {base}, o) : rd \in reg, o \in Offsets}

load(written) == {Word("LW", rd, {base}, o) : rd \in reg, o \in written}

in_any_range(idx, ranges) == \E r \in ranges : r[1] <= idx /\ idx < r[2]

(* min(8, total - 1 - pos) or 1 *)
max_span(pos, total) ==
  IF total - 1 - pos = 0 THEN 1
  ELSE IF total - 1 - pos < MAX_SPAN THEN total - 1 - pos ELSE MAX_SPAN

(* Mutants: without a safe target the exclusion is dropped, as it once     *)
(* was; the range starts at 0, the jump itself.                            *)
candidates_unsafe_fallback(pos, total, ranges) ==
  LET all == 1 .. max_span(pos, total)
      safe == {d \in all : ~in_any_range(pos + d, ranges)}
  IN IF safe = {} THEN all ELSE safe

candidates_from_zero(pos, total, ranges) ==
  {d \in 0 .. max_span(pos, total) : ~in_any_range(pos + d, ranges)}

candidates(pos, total, ranges) ==
  {d \in 1 .. max_span(pos, total) : ~in_any_range(pos + d, ranges)}

branch(targets) ==
  {Word("BRANCH", 0, {a, b}, d) : a \in reg, b \in reg, d \in targets}

(* Mutant: the jump links into a random register, as it once did. *)
jal_linking(targets) == {Word("JAL", rd, {}, d) : rd \in reg, d \in targets}

jal(targets) == {Word("JAL", 0, {}, d) : d \in targets}

(* A branch or jal without a safe target becomes an R-type instruction. *)
control_flow(pos, total, ranges) ==
  LET targets == candidates(pos, total, ranges)
  IN IF targets = {} THEN arithmetic ELSE branch(targets) \cup jal(targets)

gen_body_instr(written) == arithmetic \cup store \cup load(written)

gen_one_instr(written, pos, total, ranges) ==
  gen_body_instr(written) \cup control_flow(pos, total, ranges)

StoredOffset(w) == IF w.op = "SW" THEN {w.imm} ELSE {}
StoredOffsets(words) == UNION {StoredOffset(words[k]) : k \in DOMAIN words}

-----------------------------------------------------------------------------
(* random_loop_block *)

loop_words(trip_count, body) ==
  <<addi(counter, 0, trip_count)>> \o body \o
  <<addi(counter, counter, -1),
    Word("BNE", 0, {counter, 0}, -(Len(body) + 1))>>

(* Mutant: the branch is not counted. *)
retire_count_without_branch(trip_count, body_len) ==
  1 + trip_count * (body_len + 1)

retire_count(trip_count, body_len) == 1 + trip_count * (body_len + 2)

(* Mutant: the init word is left out of the block's length. *)
body_lengths_overrun(budget_words) ==
  LOOP_BODY_WORDS[1] ..
    (IF budget_words - 2 < LOOP_BODY_WORDS[2] THEN budget_words - 2
                                              ELSE LOOP_BODY_WORDS[2])

(* The body lengths that fit; none if no loop block fits. *)
body_lengths(budget_words) ==
  LOOP_BODY_WORDS[1] ..
    (IF budget_words - 3 < LOOP_BODY_WORDS[2] THEN budget_words - 3
                                              ELSE LOOP_BODY_WORDS[2])

(* Bodies are drawn word by word: a store makes its offset loadable by the *)
(* words behind it.                                                        *)
loop_bodies(written, len) ==
  {body \in [1 .. len -> gen_body_instr(Offsets)] :
     \A k \in 1 .. len :
       body[k] \in gen_body_instr(written \cup StoredOffsets(SubSeq(body, 1, k - 1)))}

-----------------------------------------------------------------------------
(* random_program *)

GenInit ==
  /\ phase = "start" /\ n \in Ns /\ i = 0
  /\ instrs = <<>> /\ loop_ranges = {} /\ single_slots = <<>>
  /\ written_offsets = {} /\ expected_retire = 0

(* The length check, and the words that set up x31.  An empty program has  *)
(* no word 0 to assign.                                                    *)
TooLong == program_end_bytes(n) > max_valid_end

Fail ==
  /\ phase = "start" /\ (TooLong \/ n = 0)
  /\ phase' = "error"
  /\ UNCHANGED <<n, i, instrs, loop_ranges, single_slots, written_offsets,
                 expected_retire>>

Setup ==
  /\ phase = "start" /\ ~TooLong /\ n > 0
  /\ instrs' = [k \in 0 .. n - 1 |->
                  IF k = 0 THEN Word("AUIPC", base, {}, hi20(n))
                  ELSE IF k = 1 THEN addi(base, base, lo12(n))
                  ELSE NoWord]
  /\ i' = IF n > 1 THEN 2 ELSE 1
  /\ phase' = "pass1"
  /\ UNCHANGED <<n, loop_ranges, single_slots, written_offsets, expected_retire>>

(* Pass 1: place the loop blocks, and remember the words between them. *)
PlaceLoop ==
  /\ phase = "pass1" /\ i < n
  /\ \E len \in body_lengths(n - i), trip \in LOOP_TRIP_COUNTS[1] .. LOOP_TRIP_COUNTS[2] :
       \E body \in loop_bodies(written_offsets, len) :
         LET words == loop_words(trip, body)
         IN /\ instrs' = [k \in (0 .. n - 1) \cup (i .. i + Len(words) - 1) |->
                            IF i <= k /\ k < i + Len(words) THEN words[k - i + 1]
                            ELSE instrs[k]]
            /\ loop_ranges' = loop_ranges \cup {<<i, i + Len(words)>>}
            /\ expected_retire' = expected_retire + retire_count(trip, len)
            /\ i' = i + Len(words)
            /\ written_offsets' = written_offsets \cup StoredOffsets(body)
  /\ UNCHANGED <<phase, n, single_slots>>

DeferSlot ==
  /\ phase = "pass1" /\ i < n
  /\ single_slots' = Append(single_slots, i)
  /\ expected_retire' = expected_retire + 1
  /\ i' = i + 1
  /\ UNCHANGED <<phase, n, instrs, loop_ranges, written_offsets>>

EndPass1 ==
  /\ phase = "pass1" /\ i >= n
  /\ phase' = "pass2"
  /\ UNCHANGED <<n, i, instrs, loop_ranges, single_slots, written_offsets,
                 expected_retire>>

(* Pass 2: fill the words between the loop blocks, left to right. *)
FillSlot ==
  /\ phase = "pass2" /\ single_slots # <<>>
  /\ LET slot == Head(single_slots)
     IN \E w \in gen_one_instr(written_offsets, slot, n, loop_ranges) :
          /\ instrs' = [instrs EXCEPT ![slot] = w]
          /\ written_offsets' = written_offsets \cup StoredOffset(w)
  /\ single_slots' = Tail(single_slots)
  /\ UNCHANGED <<phase, n, i, loop_ranges, expected_retire>>

EndPass2 ==
  /\ phase = "pass2" /\ single_slots = <<>>
  /\ phase' = "run"
  /\ UNCHANGED <<n, i, instrs, loop_ranges, single_slots, written_offsets,
                 expected_retire>>

GenNext ==
  Fail \/ Setup \/ PlaceLoop \/ DeferSlot \/ EndPass1 \/ FillSlot \/ EndPass2

-----------------------------------------------------------------------------
(* The list never grows or keeps a hole: when generation ends, there are   *)
(* exactly n instruction words.                                            *)
GenTypeOK ==
  /\ phase \in {"start", "error", "pass1", "pass2", "run"}
  /\ n \in Ns /\ i \in 0 .. n /\ expected_retire \in Nat
  /\ single_slots \in Seq(0 .. n - 1) /\ written_offsets \subseteq Offsets
  /\ loop_ranges \subseteq (0 .. n) \X (0 .. n)
  /\ phase \in {"pass1", "pass2"} =>
       instrs \in [0 .. n - 1 -> Instr \cup {NoWord}]
  /\ phase = "run" => instrs \in [0 .. n - 1 -> Instr]

(* gen_program.py, on pass 2: filling the single words after the loop      *)
(* blocks "doesn't change what's loadable at any given slot", that is, a   *)
(* load only names an offset that an earlier word stores to.               *)
LoadableWhenReached ==
  phase = "run" =>
    \A k \in 0 .. n - 1 : instrs[k].op = "LW" =>
      \E s \in 0 .. k - 1 : instrs[s].op = "SW" /\ instrs[s].imm = instrs[k].imm
=============================================================================
