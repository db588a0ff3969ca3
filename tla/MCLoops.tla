------------------------------ MODULE MCLoops -------------------------------
(***************************************************************************)
(* RiscvCore on the loop blocks of random_loop_block in                    *)
(* shared/spike/gen_program.py: a counter, a straight-line body, the       *)
(* decrement and the branch back, followed by the epilogue.  Bodies that   *)
(* fit the buffer, fill it exactly and overflow it all occur.              *)
(***************************************************************************)
EXTENDS RiscvCore, MCPrograms, AluUnit

CONSTANTS TRIPS, MAX_BODY

counter == 3   \* x30 in the generator: no other instruction writes it

BodyWords == {lw(1, 0, 0), add(2, 1, 1), sw(2, 4, 0), addi(1, 1, 1)}

random_loop_block(trip_count, body) ==
  <<addi(counter, 0, trip_count)>> \o body
    \o <<addi(counter, counter, -1), bne(counter, 0, -4 * (Len(body) + 1))>>

Bodies == UNION {[1 .. n -> BodyWords] : n \in 1 .. MAX_BODY}

LoopBlocks == {Program(random_loop_block(t, b)) : t \in TRIPS, b \in Bodies}

NoRam == {[w \in 0 .. DMEM_WORDS - 1 |-> 0]}

(* A generated loop ends: the core reaches the epilogue behind the loop    *)
(* block and stays there.                                                  *)
Terminates ==
  <>[](arch_pc # 0 /\ instruction_mem(imem, arch_pc) = epilogue)

(* gen_program.py relies on loops being replayed: a loop with enough       *)
(* passes whose body fits the buffer is eventually served from it.         *)
BodyLength == CHOOSE n \in 1 .. MAX_BODY : imem[n + 2].opcode = "BRANCH"
ReplayExpected ==
  imem \in LoopBlocks /\ imem[0].imm >= 4 /\ BodyLength + 2 <= BUFFER_DEPTH
LoopReplayed == ReplayExpected => <>loop_active
=============================================================================
