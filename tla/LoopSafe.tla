------------------------------ MODULE LoopSafe ------------------------------
(***************************************************************************)
(* The programs on which the loop buffer of rtl/loop_buffer.sv replays     *)
(* what instruction memory holds.  The buffer stores words in the order    *)
(* they are fetched and finds them again by their distance from the start  *)
(* of the loop, which agree only when                                      *)
(*   - the body of a loop is straight-line code (StraightBody);            *)
(*   - the pipeline does not stall in the cycle that starts a recording    *)
(*     (NoStallAtEntry);                                                   *)
(*   - no branch that falls through just before the loop branch is fetched *)
(*     shares its predictor entry (NoAliasAtEntry);                        *)
(*   - the loop branch is not the last word of the address space, whose    *)
(*     successor is address 0 (LoopEndExists);                             *)
(*   - branches and jumps go to whole words (WordTargets).                 *)
(* A program is judged from its text: an address can follow another if     *)
(* some execution, or some misprediction, fetches them in that order.  Of  *)
(* a register jump the text does not tell the target: it is taken to go    *)
(* forward, and what is said about these programs is said of executions in *)
(* which it does (JumpsForward in the modules that use this one).          *)
(***************************************************************************)
EXTENDS BranchPredictor

Addresses == {4 * w : w \in 0 .. (Modulus \div 4) - 1}

At(p, a) == instruction_mem(p, a)

IsControlFlow(p, a) == At(p, a).opcode \in {"BRANCH", "JAL", "JALR"}

(* Where control flow may go. *)
Targets(p, a) ==
  CASE At(p, a).opcode \in {"BRANCH", "JAL"} -> {Wrap(a + At(p, a).imm)}
    [] At(p, a).opcode = "JALR" -> {t \in Addresses : t > a}
    [] OTHER -> {}

Followers(p, a) == Targets(p, a) \cup {Plus4(a)}

LoopStarts(p, e) == {s \in Targets(p, e) : s < e}
LoopBranches(p) == {e \in Addresses : LoopStarts(p, e) # {}}

LoadUse(p, u, w) ==
  /\ At(p, u).opcode = "LOAD" /\ At(p, u).rd # 0
  /\ At(p, u).rd \in {At(p, w).rs1, At(p, w).rs2}

-----------------------------------------------------------------------------
WordTargets(p) == \A a \in Addresses : Targets(p, a) \subseteq Addresses

StraightBody(p) ==
  \A e \in LoopBranches(p) : \A s \in LoopStarts(p, e) :
    \A b \in Addresses : s <= b /\ b < e => ~IsControlFlow(p, b)

NoStallAtEntry(p) ==
  LET branches == LoopBranches(p)
  IN \A u \in {a \in Addresses : At(p, a).opcode = "LOAD"} :
       \A w \in Followers(p, u) :
         LoadUse(p, u, w) => Followers(p, w) \cap branches = {}

NoAliasAtEntry(p) ==
  LET branches == LoopBranches(p)
  IN \A z \in {a \in Addresses : IsControlFlow(p, a)} :
       \A e \in {Plus4(z)} \cup Followers(p, Plus4(z)) :
         e \in branches => idx(z) # idx(e)

LoopEndExists(p) == Modulus - 4 \notin LoopBranches(p)

Safe(p) ==
  /\ WordTargets(p) /\ StraightBody(p) /\ NoStallAtEntry(p)
  /\ NoAliasAtEntry(p) /\ LoopEndExists(p)
=============================================================================
