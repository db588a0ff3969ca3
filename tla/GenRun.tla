------------------------------- MODULE GenRun -------------------------------
(***************************************************************************)
(* A generated program running on both simulators at once.  The program is *)
(* generated by GenProgram, wrapped by build_full_program, and loaded at   *)
(* address 0 by the core's testbench and at 0x80000000 by Spike.  As long  *)
(* as both take the same path, they differ only in the values they         *)
(* compute; the model keeps which registers and memory words may differ.   *)
(* The values of the loop counter and of the data base are kept (the       *)
(* latter relative to the load address), those of other registers not: a   *)
(* random branch may go either way.                                        *)
(***************************************************************************)
EXTENDS GenProgram

VARIABLES
  pc,         \* index of the next word to execute
  x,          \* values of the counter and base registers
  differs,    \* registers whose value may differ between the simulators
  same,       \* data offsets at which both memories hold the same word
  stored,     \* data offsets the run has stored to
  early_load, \* whether the run has loaded a word it had not stored to
  retired,    \* instructions retired, up to RetiredBound
  jumped      \* whether a random branch or jump has been taken

mem_vars == <<same, stored, early_load>>
run_vars == <<pc, x, differs, mem_vars, retired, jumped>>
vars == <<gen_vars, run_vars>>

-----------------------------------------------------------------------------
(* Mutant: the last register is not cleared. *)
clear_all_regs_preamble_short == [k \in 0 .. NREGS - 2 |->
                                    addi(IF k < NREGS - 3 THEN k + 1 ELSE 0, 0, 0)]

clear_all_regs_preamble == [k \in 0 .. NREGS - 2 |-> addi(k + 1, 0, 0)]

(* build_full_program: preamble, program, epilogue (beq x0, x0, 0). *)
EPILOGUE == Word("BEQ", 0, {0}, 0)
epilogue_at == preamble_words + n

build_full_program(k) ==
  IF k < preamble_words THEN clear_all_regs_preamble[k]
  ELSE IF k < epilogue_at THEN instrs[k - preamble_words]
  ELSE EPILOGUE

expected_total == preamble_words + expected_retire + 1

instruction == build_full_program(pc)

-----------------------------------------------------------------------------
(* enc_i keeps twelve bits of an immediate, and imm_gen sign-extends them. *)
sext12(imm) == ((imm + (IMM12 \div 2)) % IMM12) - (IMM12 \div 2)

Tracked == {counter, base}
value(r) == IF r \in Tracked THEN x[r] ELSE 0

write(rd, v) == [x EXCEPT ![rd] = v % WORD]

(* The tracked registers after a computation whose result is not tracked. *)
computed(rd) == IF rd \in Tracked THEN {write(rd, v) : v \in {0, 1}} ELSE {x}

(* After an instruction that writes rd, rd differs iff d. *)
differs_after(rd, d) == IF d /\ rd # 0 THEN differs \cup {rd} ELSE differs \ {rd}

(* Beyond what any property tells apart, retirements are not counted. *)
RetiredBound == expected_total + 3

Go(delta) ==
  /\ pc' = pc + delta
  /\ retired' = IF retired < RetiredBound THEN retired + 1 ELSE retired

Running == phase = "run" /\ pc < epilogue_at

(* The simulators start with the registers the core's reset and Spike's    *)
(* boot stub leave behind, and with different data memories: the testbench *)
(* clears the core's, Spike returns whatever its memory holds.             *)
RunInit ==
  /\ pc = 0 /\ x = [r \in Tracked |-> 0]
  /\ differs = Regs \ {0}
  /\ same = {} /\ stored = {} /\ early_load = FALSE
  /\ retired = 0 /\ jumped = FALSE

Addi ==
  /\ Running /\ instruction.op = "ADDI"
  /\ \E rs \in instruction.srcs :
       /\ x' = IF instruction.rd \in Tracked
               THEN write(instruction.rd, value(rs) + sext12(instruction.imm)) ELSE x
       /\ differs' = differs_after(instruction.rd, rs \in differs)
  /\ Go(1) /\ UNCHANGED <<mem_vars, jumped>>

Auipc ==
  /\ Running /\ instruction.op = "AUIPC"
  /\ x' = write(instruction.rd, 4 * pc + IMM12 * instruction.imm)
  /\ differs' = differs_after(instruction.rd, TRUE)
  /\ Go(1) /\ UNCHANGED <<mem_vars, jumped>>

Arithmetic ==
  /\ Running /\ instruction.op = "ALU"
  /\ x' \in computed(instruction.rd)
  /\ differs' = differs_after(instruction.rd, instruction.srcs \cap differs # {})
  /\ Go(1) /\ UNCHANGED <<mem_vars, jumped>>

Load ==
  /\ Running /\ instruction.op = "LW"
  /\ differs' = differs_after(instruction.rd, instruction.imm \notin same)
  /\ early_load' = (early_load \/ instruction.imm \notin stored)
  /\ x' \in computed(instruction.rd)
  /\ Go(1) /\ UNCHANGED <<same, stored, jumped>>

Store ==
  /\ Running /\ instruction.op = "SW"
  /\ same' = IF (instruction.srcs \ {base}) \cap differs = {}
             THEN same \cup {instruction.imm} ELSE same \ {instruction.imm}
  /\ stored' = stored \cup {instruction.imm}
  /\ Go(1) /\ UNCHANGED <<x, differs, early_load, jumped>>

(* A random branch, taken or not, and a jump. *)
Branch ==
  /\ Running /\ instruction.op = "BRANCH"
  /\ \/ Go(instruction.imm) /\ jumped' = TRUE
     \/ Go(1) /\ UNCHANGED jumped
  /\ UNCHANGED <<x, differs, mem_vars>>

Jump ==
  /\ Running /\ instruction.op = "JAL"
  /\ Go(instruction.imm) /\ jumped' = TRUE
  /\ differs' = differs_after(instruction.rd, TRUE)
  /\ UNCHANGED <<x, mem_vars>>

LoopBranch ==
  /\ Running /\ instruction.op = "BNE"
  /\ Go(IF x[counter] # 0 THEN instruction.imm ELSE 1)
  /\ UNCHANGED <<x, differs, mem_vars, jumped>>

(* The epilogue branches to itself for ever; it is counted once. *)
AtEpilogue == phase = "run" /\ pc = epilogue_at

SelfBranch == AtEpilogue /\ UNCHANGED run_vars

(* A failed generation leaves no program to run. *)
NoProgram == phase = "error" /\ UNCHANGED run_vars

Run ==
  /\ \/ Addi \/ Auipc \/ Arithmetic \/ Load \/ Store
     \/ Branch \/ Jump \/ LoopBranch \/ SelfBranch \/ NoProgram
  /\ UNCHANGED gen_vars

Generate == GenNext /\ UNCHANGED run_vars

Init == GenInit /\ RunInit
Next == Generate \/ Run
Spec == Init /\ [][Next]_vars

(* The generator and the simulators keep running. *)
FairSpec == Spec /\ WF_vars(Next)

-----------------------------------------------------------------------------
(* The words, the registers and the counts stay in their ranges, and the   *)
(* generated list is complete when it runs.                                *)
TypeOK ==
  /\ GenTypeOK
  /\ pc \in 0 .. epilogue_at
  /\ x \in [Tracked -> 0 .. WORD - 1]
  /\ differs \subseteq Regs \ {0} /\ same \subseteq Offsets
  /\ stored \subseteq Offsets /\ early_load \in BOOLEAN
  /\ retired \in Nat /\ jumped \in BOOLEAN

(* gen_program.py, on loop_ranges: a loop block is only entered through    *)
(* its first word.  Inside it the counter is that of the running loop: at  *)
(* least 1 in the body, and 0 only at the branch that then falls through.  *)
LoopEnteredAtInit ==
  Running => \A r \in loop_ranges :
    LET k == pc - preamble_words
    IN r[1] < k /\ k < r[2] =>
         /\ x[counter] <= instrs[r[1]].imm
         /\ x[counter] = 0 => k = r[2] - 1

(* gen_program.py, on _reg, JAL and the preamble: once the registers are   *)
(* cleared, both simulators hold the same values in all of them but x31,   *)
(* whatever their data memories held before, until a load reads a word     *)
(* that the run has not stored to.  A difference has no other source.      *)
OnlyBaseDiffers ==
  pc >= preamble_words /\ ~early_load => differs \subseteq {base}

(* gen_program.py, on written_offsets: a load of a word that the run has   *)
(* not stored to comes about in two ways only.  Either a branch or jump    *)
(* was taken and the store is one of the words passed, or the load stands  *)
(* between the loop blocks and the store in a block behind it.             *)
EarlyLoadsExplained ==
  Running /\ instruction.op = "LW" /\ instruction.imm \notin stored =>
    LET k == pc - preamble_words
        StoresIt(s) == instrs[s].op = "SW" /\ instrs[s].imm = instruction.imm
    IN \/ jumped /\ \E s \in 0 .. k - 1 : StoresIt(s)
       \/ /\ ~in_any_range(k, loop_ranges)
          /\ \E s \in k + 1 .. n - 1 : in_any_range(s, loop_ranges) /\ StoresIt(s)

(* gen_program.py, on written_offsets ("Loads are only viable once         *)
(* something's actually been stored ... not comparable without this fix"): *)
(* with it the registers but x31 are comparable throughout, although the   *)
(* memories start different.                                               *)
AlwaysComparable == pc >= preamble_words => differs \subseteq {base}

(* gen_program.py, on data_offset: every access lies behind the program,   *)
(* where Spike's stores cannot change it, and inside the core's data       *)
(* memory.                                                                 *)
AccessesInDataRegion ==
  Running /\ instruction.op \in {"LW", "SW"} =>
    LET address == x[base] + instruction.imm
    IN program_end_bytes(n) <= address /\ address + 4 <= DATA_MEM_BYTES

(* The retirement estimate, short of the words that set up x31: exact for  *)
(* a run that takes no random branch or jump, an upper bound for others.   *)
EstimateHolds ==
  AtEpilogue =>
    LET start == IF n > 1 THEN 2 ELSE 1
    IN /\ retired + 1 <= expected_total + start
       /\ ~jumped => retired + 1 = expected_total + start

(* gen_program.py, on branches and jumps: every program reaches the        *)
(* epilogue, and stays there.                                              *)
Settles == <>[](phase = "error" \/ AtEpilogue)

(* build_full_program: the estimate is the preamble, the random stream and *)
(* the first epilogue, a budget the run stays within.                      *)
WithinEstimate == AtEpilogue => retired + 1 <= expected_total
=============================================================================
