----------------------------- MODULE MCDefects ------------------------------
(***************************************************************************)
(* RiscvCore on single programs that fall outside LoopSafe, or use an      *)
(* instruction the core does not implement, each of which refutes a        *)
(* statement the repository makes about the core.                          *)
(***************************************************************************)
EXTENDS RiscvCore, MCPrograms, AluUnit

NoRam == {[w \in 0 .. DMEM_WORDS - 1 |-> 0]}

(* A load-use pair right before the loop branch: the pipeline stalls in    *)
(* the cycle in which the branch, held in IF, starts the recording.        *)
StallAtEntry ==
  {Program(<<addi(3, 0, 5), addi(3, 3, -1), lw(1, 0, 0), add(2, 1, 1),
             bne(3, 0, -12)>>)}

(* A jump over one word inside the body of the loop. *)
JumpInBody ==
  {Program(<<addi(3, 0, 5), addi(3, 3, -1), jal(0, 8), addi(1, 0, 1),
             add(2, 2, 3), bne(3, 0, -16)>>)}

(* A call inside the body of the loop. *)
CallInBody ==
  {Program(<<addi(3, 0, 5), addi(3, 3, -1), jal(1, 12), bne(3, 0, -8),
             epilogue, jalr(0, 0, 1)>>)}

(* The loop branch is the last word of the address space. *)
LoopAtTop ==
  {[Program(<<addi(3, 0, 5), jal(0, 48)>>) EXCEPT
      ![5] = addi(1, 1, 1), ![6] = addi(3, 3, -1), ![7] = bne(3, 0, -8)]}

(* A branch that falls through, a jump, and the loop branch in the entry   *)
(* of that branch: the prediction that starts the recording is withdrawn   *)
(* one cycle later, when the branch resolves.  The program starts over     *)
(* behind the last word of the address space.                              *)
AliasAtEntry ==
  {[w \in 0 .. IMEM_WORDS - 1 |->
      CASE w = 0 -> bne(0, 0, 8) [] w = 1 -> jal(0, 12) [] w = 3 -> addi(3, 3, -1)
        [] w = 4 -> bne(3, 0, -4) [] w = 5 -> addi(3, 2, 3) [] w = 6 -> addi(2, 2, -2)
        [] OTHER -> addi(0, 0, 0)]}

(* An unsigned comparison whose answer is yes. *)
UnsignedBranch ==
  {Program(<<addi(1, 0, 1), bltu(0, 1, 8), addi(2, 0, 1)>>)}

(* Nothing but the epilogue. *)
EpilogueOnly == {Program(<<>>)}

(* gen_program.py, on the programs before loop blocks: the epilogue is     *)
(* "enough to exercise the loop buffer's *entry* path".                    *)
EpilogueRecorded == <>(state_q # "IDLE")
=============================================================================
